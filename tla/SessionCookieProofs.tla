--------------------------- MODULE SessionCookieProofs --------------------------
(*****************************************************************************)
(* The session cookie between a server and a browser, for any identifiers,   *)
(* lifetimes and fractions of a second, and any number of responses that are *)
(* lost or late.  A response has one of four shapes, whatever its handler    *)
(* wrote: nothing, the session, the application's cookie, or both.  A cookie *)
(* in the jar has one of three, and a request at most one of each; what is   *)
(* read of them is followed token by token, whatever Base and Width are.     *)
(*****************************************************************************)
EXTENDS SessionCookie, FiniteSetTheorems, SequenceTheorems, WellFoundedInduction, TLAPS

-------------------------------------------------------------------------------
(* What the browser does with one header, and with two.                      *)

LEMMA StoredOnce ==
    ASSUME NEW cookies, NEW a
    PROVE  FoldLeft(Stored, cookies, <<a>>) = Stored(cookies, a)
<1> DEFINE Step(f) == [s \in SUBSET {1} |->
                          IF s = {} THEN cookies ELSE Stored(f[s \ {Max(s)}], <<a>>[Max(s)])]
           g == [s \in SUBSET {1} |-> IF s = {} THEN cookies ELSE Stored(cookies, a)]
<1>1. FoldLeft(Stored, cookies, <<a>>) = (CHOOSE f : f = Step(f))[{1}]
  <2>1. DOMAIN <<a>> = {1}
    OBVIOUS
  <2> QED
    BY <2>1 DEF FoldLeft, MapThenFoldSet
<1>2. Max({1}) = 1
  BY DEF Max
<1>3. {1} \ {1} = {} /\ {1} # {} /\ <<a>>[1] = a
  OBVIOUS
<1>4. g = Step(g)
  <2> SUFFICES ASSUME NEW s \in SUBSET {1} PROVE g[s] = Step(g)[s]
    OBVIOUS
  <2>1. s = {} \/ s = {1}
    OBVIOUS
  <2>2. g[{}] = cookies /\ g[{1}] = Stored(cookies, a)
    BY <1>3
  <2> HIDE DEF g
  <2> QED
    BY <1>2, <1>3, <2>1, <2>2
<1> DEFINE h == CHOOSE f : f = Step(f)
<1>5. h = Step(h)
  <2> HIDE DEF g
  <2> QED
    BY <1>4
<1> HIDE DEF h
<1>6. /\ h[{}] = cookies
      /\ \A s \in SUBSET {1} : s # {} => h[s] = Stored(h[s \ {Max(s)}], <<a>>[Max(s)])
  BY <1>5
<1>7. h[{1}] = Stored(h[{}], a)
  BY <1>2, <1>3, <1>6
<1> QED
  BY <1>1, <1>6, <1>7 DEF h

LEMMA StoredTwice ==
    ASSUME NEW cookies, NEW a, NEW b
    PROVE  FoldLeft(Stored, cookies, <<a, b>>) = Stored(Stored(cookies, a), b)
<1> DEFINE Step(f) == [s \in SUBSET {1, 2} |->
                          IF s = {} THEN cookies ELSE Stored(f[s \ {Max(s)}], <<a, b>>[Max(s)])]
           g == [s \in SUBSET {1, 2} |->
                    IF s = {} THEN cookies
                    ELSE IF s = {1} THEN Stored(cookies, a)
                    ELSE IF s = {2} THEN Stored(cookies, b)
                    ELSE Stored(Stored(cookies, a), b)]
<1>1. FoldLeft(Stored, cookies, <<a, b>>) = (CHOOSE f : f = Step(f))[{1, 2}]
  <2>1. DOMAIN <<a, b>> = {1, 2}
    OBVIOUS
  <2> QED
    BY <2>1 DEF FoldLeft, MapThenFoldSet
<1>2. Max({1}) = 1 /\ Max({2}) = 2 /\ Max({1, 2}) = 2
  BY DEF Max
<1>3. /\ {1} \ {1} = {} /\ {2} \ {2} = {} /\ {1, 2} \ {2} = {1}
      /\ {1} # {} /\ {2} # {} /\ {1, 2} # {}
      /\ {2} # {1} /\ {1, 2} # {1} /\ {1, 2} # {2}
      /\ <<a, b>>[1] = a /\ <<a, b>>[2] = b
  OBVIOUS
<1>4. g = Step(g)
  <2> SUFFICES ASSUME NEW s \in SUBSET {1, 2} PROVE g[s] = Step(g)[s]
    OBVIOUS
  <2>1. s = {} \/ s = {1} \/ s = {2} \/ s = {1, 2}
    OBVIOUS
  <2>2. g[{}] = cookies /\ g[{1}] = Stored(cookies, a) /\ g[{2}] = Stored(cookies, b)
        /\ g[{1, 2}] = Stored(Stored(cookies, a), b)
    BY <1>3
  <2> HIDE DEF g
  <2> QED
    BY <1>2, <1>3, <2>1, <2>2
<1> DEFINE h == CHOOSE f : f = Step(f)
<1>5. h = Step(h)
  <2> HIDE DEF g
  <2> QED
    BY <1>4
<1> HIDE DEF h
<1>6. /\ h[{}] = cookies
      /\ \A s \in SUBSET {1, 2} :
           s # {} => h[s] = Stored(h[s \ {Max(s)}], <<a, b>>[Max(s)])
  BY <1>5
<1>7. h[{1}] = Stored(h[{}], a)
  BY <1>2, <1>3, <1>6
<1>8. h[{1, 2}] = Stored(h[{1}], b)
  BY <1>2, <1>3, <1>6
<1> QED
  BY <1>1, <1>6, <1>7, <1>8 DEF h

LEMMA GivenOnce ==
    ASSUME NEW before, NEW a
    PROVE  FoldLeft(Given, before, <<a>>) = Given(before, a)
<1> DEFINE Step(f) == [s \in SUBSET {1} |->
                          IF s = {} THEN before ELSE Given(f[s \ {Max(s)}], <<a>>[Max(s)])]
           g == [s \in SUBSET {1} |-> IF s = {} THEN before ELSE Given(before, a)]
<1>1. FoldLeft(Given, before, <<a>>) = (CHOOSE f : f = Step(f))[{1}]
  <2>1. DOMAIN <<a>> = {1}
    OBVIOUS
  <2> QED
    BY <2>1 DEF FoldLeft, MapThenFoldSet
<1>2. Max({1}) = 1
  BY DEF Max
<1>3. {1} \ {1} = {} /\ {1} # {} /\ <<a>>[1] = a
  OBVIOUS
<1>4. g = Step(g)
  <2> SUFFICES ASSUME NEW s \in SUBSET {1} PROVE g[s] = Step(g)[s]
    OBVIOUS
  <2>1. s = {} \/ s = {1}
    OBVIOUS
  <2>2. g[{}] = before /\ g[{1}] = Given(before, a)
    BY <1>3
  <2> HIDE DEF g
  <2> QED
    BY <1>2, <1>3, <2>1, <2>2
<1> DEFINE h == CHOOSE f : f = Step(f)
<1>5. h = Step(h)
  <2> HIDE DEF g
  <2> QED
    BY <1>4
<1> HIDE DEF h
<1>6. /\ h[{}] = before
      /\ \A s \in SUBSET {1} : s # {} => h[s] = Given(h[s \ {Max(s)}], <<a>>[Max(s)])
  BY <1>5
<1>7. h[{1}] = Given(h[{}], a)
  BY <1>2, <1>3, <1>6
<1> QED
  BY <1>1, <1>6, <1>7 DEF h

LEMMA GivenTwice ==
    ASSUME NEW before, NEW a, NEW b
    PROVE  FoldLeft(Given, before, <<a, b>>) = Given(Given(before, a), b)
<1> DEFINE Step(f) == [s \in SUBSET {1, 2} |->
                          IF s = {} THEN before ELSE Given(f[s \ {Max(s)}], <<a, b>>[Max(s)])]
           g == [s \in SUBSET {1, 2} |->
                    IF s = {} THEN before
                    ELSE IF s = {1} THEN Given(before, a)
                    ELSE IF s = {2} THEN Given(before, b)
                    ELSE Given(Given(before, a), b)]
<1>1. FoldLeft(Given, before, <<a, b>>) = (CHOOSE f : f = Step(f))[{1, 2}]
  <2>1. DOMAIN <<a, b>> = {1, 2}
    OBVIOUS
  <2> QED
    BY <2>1 DEF FoldLeft, MapThenFoldSet
<1>2. Max({1}) = 1 /\ Max({2}) = 2 /\ Max({1, 2}) = 2
  BY DEF Max
<1>3. /\ {1} \ {1} = {} /\ {2} \ {2} = {} /\ {1, 2} \ {2} = {1}
      /\ {1} # {} /\ {2} # {} /\ {1, 2} # {}
      /\ {2} # {1} /\ {1, 2} # {1} /\ {1, 2} # {2}
      /\ <<a, b>>[1] = a /\ <<a, b>>[2] = b
  OBVIOUS
<1>4. g = Step(g)
  <2> SUFFICES ASSUME NEW s \in SUBSET {1, 2} PROVE g[s] = Step(g)[s]
    OBVIOUS
  <2>1. s = {} \/ s = {1} \/ s = {2} \/ s = {1, 2}
    OBVIOUS
  <2>2. g[{}] = before /\ g[{1}] = Given(before, a) /\ g[{2}] = Given(before, b)
        /\ g[{1, 2}] = Given(Given(before, a), b)
    BY <1>3
  <2> HIDE DEF g
  <2> QED
    BY <1>2, <1>3, <2>1, <2>2
<1> DEFINE h == CHOOSE f : f = Step(f)
<1>5. h = Step(h)
  <2> HIDE DEF g
  <2> QED
    BY <1>4
<1> HIDE DEF h
<1>6. /\ h[{}] = before
      /\ \A s \in SUBSET {1, 2} :
           s # {} => h[s] = Given(h[s \ {Max(s)}], <<a, b>>[Max(s)])
  BY <1>5
<1>7. h[{1}] = Given(h[{}], a)
  BY <1>2, <1>3, <1>6
<1>8. h[{1, 2}] = Given(h[{1}], b)
  BY <1>2, <1>3, <1>6
<1> QED
  BY <1>1, <1>6, <1>7, <1>8 DEF h

-------------------------------------------------------------------------------
(* Responses.                                                                *)

\* The headers that a response can have, in their order.
Drafts ==
    {<<>>, <<SetOther>>} \cup {<<SetSession(s)>> : s \in sessions}
        \cup {<<SetSession(s), SetOther>> : s \in sessions}

FewHeaders ==
    /\ draft \in Drafts
    /\ wire \subseteq Drafts \ {<<>>}

LEMMA HeadersApart ==
    /\ SetOther.name = "other=" /\ SetOther.of = {}
    /\ \A s : /\ SetSession(s).name = "session="
              /\ SetSession(s).of = {s}
              /\ SetSession(s).text = Text(s.id)
              /\ SetSession(s).expires = DateOf(s.expires)
BY DEF SetOther, SetSession

LEMMA SecondAppended ==
    ASSUME NEW a, NEW b
    PROVE  Append(<<a>>, b) = <<a, b>>
<1> DEFINE p == Append(<<a>>, b)
<1>1. <<a>> \in Seq({a, b}) /\ Len(<<a>>) = 1 /\ <<a>>[1] = a
  OBVIOUS
<1>2. p \in Seq({a, b}) /\ Len(p) = 2 /\ p[1] = a /\ p[2] = b
  BY <1>1, AppendProperties
<1> HIDE DEF p
<1>3. p = [k \in 1 .. 2 |-> p[k]]
  BY <1>2
<1>4. <<a, b>> = [k \in 1 .. 2 |-> <<a, b>>[k]]
  OBVIOUS
<1>5. \A k \in 1 .. 2 : p[k] = <<a, b>>[k]
  BY <1>2
<1> QED
  BY <1>3, <1>4, <1>5 DEF p

LEMMA FewHeadersInit == Init => FewHeaders
BY DEF Init, FewHeaders, Drafts

LEMMA FewHeadersStep == FewHeaders /\ [Next]_vars => FewHeaders'
<1> SUFFICES ASSUME FewHeaders, [Next]_vars PROVE FewHeaders'
  OBVIOUS
<1>1. ASSUME UNCHANGED <<draft, wire>>, sessions \subseteq sessions' PROVE FewHeaders'
  BY <1>1 DEF FewHeaders, Drafts
<1>2. ASSUME NEW id \in Ids, Login(id) PROVE FewHeaders'
  BY <1>1, <1>2 DEF Login
<1>3. ASSUME NEW s \in sessions, WriteSession(s) PROVE FewHeaders'
  BY <1>3 DEF WriteSession, FewHeaders, Drafts
<1>4. CASE WriteOther
  <2>1. SetOther \notin ToSet(draft) /\ draft' = Append(draft, SetOther)
        /\ UNCHANGED <<sessions, wire>>
    BY <1>4 DEF WriteOther
  <2>2. draft # <<SetOther>> /\ \A s \in sessions : draft # <<SetSession(s), SetOther>>
    <3>1. SetOther \in ToSet(<<SetOther>>)
      BY DEF ToSet
    <3>2. ASSUME NEW s \in sessions PROVE SetOther \in ToSet(<<SetSession(s), SetOther>>)
      <4>1. 2 \in DOMAIN <<SetSession(s), SetOther>> /\ <<SetSession(s), SetOther>>[2] = SetOther
        OBVIOUS
      <4> QED
        BY <4>1 DEF ToSet
    <3> QED
      BY <2>1, <3>1, <3>2
  <2>3. CASE draft = <<>>
    BY <2>1, <2>3 DEF FewHeaders, Drafts
  <2>4. ASSUME NEW s \in sessions, draft = <<SetSession(s)>> PROVE FewHeaders'
    <3>1. Append(<<SetSession(s)>>, SetOther) = <<SetSession(s), SetOther>>
      BY SecondAppended
    <3>2. draft' = <<SetSession(s), SetOther>>
      BY <2>1, <2>4, <3>1
    <3> QED
      BY <2>1, <3>2 DEF FewHeaders, Drafts
  <2> QED
    BY <2>2, <2>3, <2>4 DEF FewHeaders, Drafts
<1>5. CASE Respond
  BY <1>5 DEF Respond, FewHeaders, Drafts
<1>6. ASSUME NEW response \in wire, Lose(response) \/ Deliver(response) PROVE FewHeaders'
  BY <1>6 DEF Lose, Deliver, FewHeaders, Drafts
<1>7. CASE Tick \/ Foreign \/ UNCHANGED vars
  BY <1>1, <1>7 DEF Tick, Foreign, vars
<1> QED
  BY <1>2, <1>3, <1>4, <1>5, <1>6, <1>7 DEF Next

\* No response sets the session twice, whatever sessions its handler wrote.
THEOREM OneCookie == Spec => []OneSessionCookie
<1>1. FewHeaders => OneSessionCookie
  <2> SUFFICES ASSUME FewHeaders, NEW response \in wire \cup {draft}
               PROVE  Cardinality({k \in DOMAIN response : response[k].name = "session="}) <= 1
    BY DEF OneSessionCookie
  <2> DEFINE set == {k \in DOMAIN response : response[k].name = "session="}
  <2>1. response \in Drafts
    BY DEF FewHeaders
  <2>2. set = {} \/ set = {1}
    <3>1. CASE response = <<>>
      BY <3>1
    <3>2. CASE response = <<SetOther>>
      BY <3>2, HeadersApart
    <3>3. ASSUME NEW s \in sessions, response = <<SetSession(s)>> PROVE set = {1}
      <4>1. DOMAIN response = {1} /\ response[1] = SetSession(s)
        BY <3>3
      <4> QED
        BY <4>1, HeadersApart
    <3>4. ASSUME NEW s \in sessions, response = <<SetSession(s), SetOther>> PROVE set = {1}
      <4>1. DOMAIN response = {1, 2} /\ response[1] = SetSession(s) /\ response[2] = SetOther
        BY <3>4
      <4> QED
        BY <4>1, HeadersApart
    <3> QED
      BY <2>1, <3>1, <3>2, <3>3, <3>4 DEF Drafts
  <2> HIDE DEF set
  <2>3. Cardinality({}) = 0 /\ Cardinality({1}) = 1
    BY FS_EmptySet, FS_Singleton
  <2>4. Cardinality(set) <= 1
    BY <2>2, <2>3
  <2> QED
    BY <2>4 DEF set
<1> QED
  BY <1>1, FewHeadersInit, FewHeadersStep, PTL DEF Spec

-------------------------------------------------------------------------------
(* The browser's jar.                                                        *)

Root(cookies) == {c \in cookies : c.name = "session=" /\ c.path = "/"}

LEMMA DateBefore ==
    ASSUME NEW e \in Nat
    PROVE  DateOf(e) \in Nat /\ DateOf(e) <= e /\ e < DateOf(e) + Second
<1> DEFINE q == e \div Second
           r == e % Second
<1>1. q \in Nat /\ r \in 0 .. Second - 1 /\ e = Second * q + r
  BY InstantsInSecond, SMTT(30)
<1>2. DateOf(e) = q * Second
  BY DEF DateOf
<1> HIDE DEF q, r
<1>3. q * Second = Second * q /\ Second * q \in Nat
  BY <1>1, InstantsInSecond
<1> QED
  BY <1>1, <1>2, <1>3, InstantsInSecond

\* The header of a session takes the place of the cookie that was there.
LEMMA SessionStored ==
    ASSUME NEW cookies, NEW s
    PROVE  /\ Root(Stored(cookies, SetSession(s)))
                = {k \in {AtRoot(SetSession(s))} : k.expires > now}
           /\ AtRoot(SetSession(s)).text = Text(s.id)
           /\ AtRoot(SetSession(s)).expires = DateOf(s.expires)
<1> DEFINE c == AtRoot(SetSession(s))
<1>1. /\ c.name = "session=" /\ c.path = "/" /\ c.text = Text(s.id)
      /\ c.expires = DateOf(s.expires)
      /\ c = [name |-> c.name, path |-> c.path, text |-> c.text, expires |-> c.expires]
  BY HeadersApart DEF AtRoot
<1>2. Stored(cookies, SetSession(s))
        = {k \in cookies : k.name # c.name \/ k.path # c.path}
              \cup {k \in {[name |-> c.name, path |-> c.path, text |-> c.text,
                            expires |-> c.expires]} : k.expires > now}
  BY DEF Stored, Kept
<1> HIDE DEF c
<1> QED
  BY <1>1, <1>2 DEF Root, c

LEMMA OtherStored ==
    ASSUME NEW cookies
    PROVE  Root(Stored(cookies, SetOther)) = Root(cookies)
<1> DEFINE c == AtRoot(SetOther)
<1>1. c.name = "other=" /\ c.path = "/"
  BY HeadersApart DEF AtRoot
<1>2. Stored(cookies, SetOther)
        = {k \in cookies : k.name # c.name \/ k.path # c.path}
              \cup {k \in {[name |-> c.name, path |-> c.path, text |-> c.text,
                            expires |-> c.expires]} : k.expires > now}
  BY DEF Stored, Kept
<1> HIDE DEF c
<1> QED
  BY <1>1, <1>2 DEF Root

\* JarHoldsGiven is not inductive: the clock moves on, so that what is left
\* of a cookie's time has to be known.  The cookie is just that of the
\* session, with its date.
JarIsGiven ==
    /\ \A c \in Root(jar) :
         \E s \in held : c.text = Text(s.id) /\ c.expires = DateOf(s.expires)
    /\ \A s \in held : now < DateOf(s.expires) =>
         \E c \in Root(jar) : c.text = Text(s.id) /\ c.expires = DateOf(s.expires)

Instants ==
    /\ now \in Nat
    /\ \A s \in sessions : s.expires \in Nat
    /\ held \subseteq sessions

\* What the delivery of a response does to the jar and to what was given.
LEMMA Delivered ==
    ASSUME FewHeaders, NEW response \in wire, Deliver(response)
    PROVE  \/ Root(jar)' = Root(jar) /\ held' = held
           \/ \E s \in sessions :
                /\ held' = {s}
                /\ Root(jar)' = {k \in {AtRoot(SetSession(s))} : k.expires > now}
<1>1. jar' = FoldLeft(Stored, jar, response) /\ held' = FoldLeft(Given, held, response)
  BY DEF Deliver
<1>2. \A before, s : Given(before, SetOther) = before /\ Given(before, SetSession(s)) = {s}
  BY HeadersApart DEF Given
<1>3. Root(jar)' = Root(jar')
  BY DEF Root
<1>4. CASE response = <<SetOther>>
  <2>1. jar' = Stored(jar, SetOther)
    BY <1>1, <1>4, StoredOnce
  <2>2. held' = Given(held, SetOther)
    BY <1>1, <1>4, GivenOnce
  <2> QED
    BY <1>2, <1>3, <2>1, <2>2, OtherStored
<1>5. ASSUME NEW s \in sessions, response = <<SetSession(s)>>
      PROVE  /\ held' = {s}
             /\ Root(jar)' = {k \in {AtRoot(SetSession(s))} : k.expires > now}
  <2>1. jar' = Stored(jar, SetSession(s))
    BY <1>1, <1>5, StoredOnce
  <2>2. held' = Given(held, SetSession(s))
    BY <1>1, <1>5, GivenOnce
  <2> QED
    BY <1>2, <1>3, <2>1, <2>2, SessionStored
<1>6. ASSUME NEW s \in sessions, response = <<SetSession(s), SetOther>>
      PROVE  /\ held' = {s}
             /\ Root(jar)' = {k \in {AtRoot(SetSession(s))} : k.expires > now}
  <2>1. jar' = Stored(Stored(jar, SetSession(s)), SetOther)
    <3>1. \A a, b : FoldLeft(Stored, jar, <<a, b>>) = Stored(Stored(jar, a), b)
      BY StoredTwice
    <3>2. FoldLeft(Stored, jar, <<SetSession(s), SetOther>>)
            = Stored(Stored(jar, SetSession(s)), SetOther)
      BY <3>1, Zenon
    <3> QED
      BY <1>1, <1>6, <3>2
  <2>2. held' = Given(Given(held, SetSession(s)), SetOther)
    <3>1. \A a, b : FoldLeft(Given, held, <<a, b>>) = Given(Given(held, a), b)
      BY GivenTwice
    <3>2. FoldLeft(Given, held, <<SetSession(s), SetOther>>)
            = Given(Given(held, SetSession(s)), SetOther)
      BY <3>1, Zenon
    <3> QED
      BY <1>1, <1>6, <3>2
  <2> QED
    BY <1>2, <1>3, <2>1, <2>2, SessionStored, OtherStored
<1> QED
  BY <1>4, <1>5, <1>6 DEF FewHeaders, Drafts

LEMMA InstantsStep == Instants /\ FewHeaders /\ [Next]_vars => Instants'
<1> SUFFICES ASSUME Instants, FewHeaders, [Next]_vars PROVE Instants'
  OBVIOUS
<1>1. CASE Tick
  BY <1>1 DEF Tick, Instants
<1>2. ASSUME NEW id \in Ids, Login(id) PROVE Instants'
  <2>1. now + Lifetime \in Nat
    BY LifetimeIsTime DEF Instants
  <2> QED
    BY <1>2, <2>1 DEF Login, Instants
<1>3. ASSUME NEW response \in wire, Deliver(response) PROVE Instants'
  <2>1. held' \subseteq sessions
    BY <1>3, Delivered DEF Instants
  <2> QED
    BY <1>3, <2>1 DEF Deliver, Instants
<1>4. CASE UNCHANGED <<now, sessions, held>>
  BY <1>4 DEF Instants
<1> QED
  BY <1>1, <1>2, <1>3, <1>4 DEF Next, WriteSession, WriteOther, Respond, Lose, Foreign, vars

LEMMA JarStep == Instants /\ FewHeaders /\ JarIsGiven /\ [Next]_vars => JarIsGiven'
<1> SUFFICES ASSUME Instants, FewHeaders, JarIsGiven, [Next]_vars PROVE JarIsGiven'
  OBVIOUS
<1>1. CASE Tick
  <2>1. now' = now + 1 /\ UNCHANGED <<jar, held>>
    BY <1>1 DEF Tick
  <2>2. \A s \in held : DateOf(s.expires) \in Nat
    BY DateBefore DEF Instants
  <2>3. \A s \in held : now' < DateOf(s.expires) => now < DateOf(s.expires)
    BY <2>1, <2>2 DEF Instants
  <2> QED
    BY <2>1, <2>3 DEF JarIsGiven, Root
<1>2. ASSUME NEW response \in wire, Deliver(response) PROVE JarIsGiven'
  <2>1. now' = now
    BY <1>2 DEF Deliver
  <2>2. CASE Root(jar)' = Root(jar) /\ held' = held
    BY <2>1, <2>2 DEF JarIsGiven
  <2>3. ASSUME NEW s \in sessions, held' = {s},
               Root(jar)' = {k \in {AtRoot(SetSession(s))} : k.expires > now}
        PROVE  JarIsGiven'
    <3>1. /\ AtRoot(SetSession(s)).text = Text(s.id)
          /\ AtRoot(SetSession(s)).expires = DateOf(s.expires)
      BY SessionStored
    <3>2. DateOf(s.expires) \in Nat /\ now \in Nat
      BY DateBefore DEF Instants
    <3>3. now < DateOf(s.expires) => AtRoot(SetSession(s)) \in Root(jar)'
      BY <2>3, <3>1, <3>2
    <3> QED
      BY <2>1, <2>3, <3>1, <3>3 DEF JarIsGiven
  <2> QED
    BY <1>2, <2>2, <2>3, Delivered
<1>3. CASE Foreign
  <2>1. UNCHANGED <<now, held>>
    BY <1>3 DEF Foreign
  <2>2. Root(jar)' = Root(jar)
    <3>1. PICK ids \in PageIds :
            jar' = Kept(jar, [name |-> "session=", path |-> "/page", text |-> PageText(ids),
                              expires |-> MaxNow + 1])
      BY <1>3 DEF Foreign
    <3> QED
      BY <3>1 DEF Kept, Root
  <2> QED
    BY <2>1, <2>2 DEF JarIsGiven
<1>4. CASE UNCHANGED <<now, jar, held>>
  BY <1>4 DEF JarIsGiven, Root
<1> QED
  BY <1>1, <1>2, <1>3, <1>4 DEF Next, Login, WriteSession, WriteOther, Respond, Lose, vars

\* Whichever responses were lost or late, the jar holds a cookie of the session
\* last given and of no other: dropped less than a second early, never late.
THEOREM JarHolds == Spec => []JarHoldsGiven
<1>1. Init => Instants /\ JarIsGiven
  BY DEF Init, Instants, JarIsGiven, Root
<1>2. Instants /\ JarIsGiven => JarHoldsGiven
  <2> SUFFICES ASSUME Instants, JarIsGiven
               PROVE  /\ \A c \in Root(jar) :
                           \E s \in held : c.text = Text(s.id) /\ c.expires <= s.expires
                      /\ \A s \in held : now + Second <= s.expires =>
                           \E c \in Root(jar) : c.text = Text(s.id) /\ now < c.expires
    BY DEF JarHoldsGiven, Root
  <2>1. \A s \in held : /\ s.expires \in Nat /\ DateOf(s.expires) \in Nat
                        /\ DateOf(s.expires) <= s.expires
                        /\ s.expires < DateOf(s.expires) + Second
    BY DateBefore DEF Instants
  <2>2. \A s \in held : now + Second <= s.expires => now < DateOf(s.expires)
    BY <2>1, InstantsInSecond DEF Instants
  <2> QED
    BY <2>1, <2>2 DEF JarIsGiven
<1> QED
  BY <1>1, <1>2, FewHeadersInit, FewHeadersStep, InstantsStep, JarStep, PTL DEF Spec

-------------------------------------------------------------------------------
(* Identifiers and their digits.                                             *)

\* Induction up to a bound.
LEMMA CountUp ==
    ASSUME NEW N \in Nat, NEW T, 0 \in T, \A n \in 0 .. N - 1 : n \in T => n + 1 \in T
    PROVE  0 .. N \subseteq T
<1> DEFINE R == OpToRel(<, Nat)
           M == {n \in Nat : n <= N /\ n \notin T}
<1>1. \A i, j \in Nat : <<i, j>> \in R <=> i < j
  BY DEF OpToRel
<1>2. IsWellFoundedOn(R, Nat)
  BY NatLessThanWellFounded
<1> HIDE DEF R
<1>3. CASE M # {}
  <2>1. M \subseteq Nat
    OBVIOUS
  <2>2. PICK m \in M : \A k \in M : <<k, m>> \notin R
    BY <1>2, <1>3, <2>1, WFMin
  <2>3. m \in Nat /\ m <= N /\ m # 0 /\ m \notin T
    OBVIOUS
  <2>4. m - 1 \in 0 .. N - 1 /\ m - 1 \in Nat /\ m - 1 < m /\ m - 1 <= N
    BY <2>3
  <2>5. m - 1 \notin M
    BY <1>1, <2>2, <2>3, <2>4
  <2>6. m - 1 \in T /\ (m - 1) + 1 = m
    BY <2>4, <2>5
  <2> QED
    BY <2>3, <2>4, <2>6
<1> QED
  BY <1>3

\* A function on 0 .. N is given by its first value and its steps.
Steps(f, N, b, g) == f[0] = b /\ \A n \in 0 .. N - 1 : f[n + 1] = g[n][f[n]]

\* Such a function exists.
LEMMA StepsGive ==
    ASSUME NEW N \in Nat, NEW S, NEW b \in S, NEW g \in [0 .. N - 1 -> [S -> S]]
    PROVE  \E f \in [0 .. N -> S] : Steps(f, N, b, g)
<1> DEFINE Good(m) == \E f \in [0 .. m -> S] :
                         f[0] = b /\ \A n \in 0 .. m - 1 : f[n + 1] = g[n][f[n]]
           T == {m \in Nat : Good(m)}
<1>1. 0 \in T
  <2> DEFINE f == [n \in 0 .. 0 |-> b]
  <2>1. f \in [0 .. 0 -> S] /\ f[0] = b /\ \A n \in 0 .. 0 - 1 : FALSE
    OBVIOUS
  <2> QED
    BY <2>1
<1>2. ASSUME NEW m \in 0 .. N - 1, m \in T PROVE m + 1 \in T
  <2>1. m \in Nat /\ m + 1 \in Nat /\ (m + 1) - 1 = m
    OBVIOUS
  <2>2. PICK f \in [0 .. m -> S] :
          f[0] = b /\ \A n \in 0 .. m - 1 : f[n + 1] = g[n][f[n]]
    BY <1>2
  <2> DEFINE h == [n \in 0 .. m + 1 |-> IF n = m + 1 THEN g[m][f[m]] ELSE f[n]]
  <2>3. f[m] \in S /\ g[m][f[m]] \in S
    BY <2>1
  <2>4. h \in [0 .. m + 1 -> S]
    BY <2>1, <2>3
  <2>5. h[0] = b
    BY <2>1, <2>2
  <2>6. ASSUME NEW n \in 0 .. (m + 1) - 1 PROVE h[n + 1] = g[n][h[n]]
    <3>1. n \in 0 .. m /\ n # m + 1 /\ h[n] = f[n]
      BY <2>1
    <3>2. CASE n = m
      BY <2>1, <3>1, <3>2
    <3>3. CASE n # m
      <4>1. n \in 0 .. m - 1 /\ n + 1 \in 0 .. m + 1 /\ n + 1 # m + 1
        BY <2>1, <3>1, <3>3
      <4>2. h[n + 1] = f[n + 1]
        BY <4>1
      <4> QED
        BY <2>2, <3>1, <4>1, <4>2
    <3> QED
      BY <3>2, <3>3
  <2> HIDE DEF h
  <2>7. Good(m + 1)
    BY <2>4, <2>5, <2>6
  <2> QED
    BY <2>1, <2>7
<1> HIDE DEF T
<1>3. N \in T
  <2>1. 0 .. N \subseteq T
    BY <1>1, <1>2, CountUp
  <2> QED
    BY <2>1
<1> QED
  BY <1>3 DEF T, Steps

\* Quotient and remainder, and that they are the only ones.
LEMMA DivMod ==
    ASSUME NEW n \in Nat, NEW b \in Nat \ {0}
    PROVE  /\ n \div b \in Nat
           /\ n % b \in 0 .. b - 1
           /\ n = b * (n \div b) + (n % b)
BY SMTT(30)

LEMMA DivUnique ==
    ASSUME NEW d \in Nat \ {0}, NEW q \in Int, NEW r \in 0 .. d - 1, NEW n \in Int, n = d * q + r
    PROVE  n \div d = q /\ n % d = r
<1> DEFINE m == n \div d
           s == n % d
<1>1. m \in Int /\ s \in 0 .. d - 1 /\ n = d * m + s
  BY SMTT(30)
<1> HIDE DEF m, s
<1>2. d * (q - m) = s - r
  BY <1>1
<1>3. q - m <= 0
  <2> SUFFICES ASSUME q - m >= 1 PROVE FALSE
    BY <1>1
  <2>1. q - m - 1 \in Nat /\ q - m = (q - m - 1) + 1
    BY <1>1
  <2>2. d * (q - m) = d * (q - m - 1) + d /\ d * (q - m - 1) >= 0
    BY <1>1, <2>1
  <2> QED
    BY <1>1, <1>2, <2>2
<1>4. m - q <= 0
  <2> SUFFICES ASSUME m - q >= 1 PROVE FALSE
    BY <1>1
  <2>1. m - q - 1 \in Nat /\ m - q = (m - q - 1) + 1
    BY <1>1
  <2>2. d * (m - q) = d * (m - q - 1) + d /\ d * (m - q - 1) >= 0
    BY <1>1, <2>1
  <2>3. d * (m - q) = r - s
    BY <1>1
  <2> QED
    BY <1>1, <2>2, <2>3
<1>5. m = q
  BY <1>1, <1>3, <1>4
<1>6. s = r
  BY <1>1, <1>5
<1> QED
  BY <1>5, <1>6 DEF m, s

LEMMA BaseTimes ==
    /\ \A n \in Nat : Base * n \in Nat /\ n * Base \in Nat
    /\ \A n \in Nat \ {0} : Base * n \in Nat \ {0}
BY BaseIsPositive, SMTT(30)

\* What the recursive Weight computes: the powers of Base.
LEMMA WeightSteps ==
    /\ Weight \in [0 .. Width -> Nat \ {0}]
    /\ Weight[0] = 1
    /\ \A p \in 0 .. Width - 1 : Weight[p + 1] = Base * Weight[p]
<1> DEFINE S == Nat \ {0}
           g == [p \in 0 .. Width - 1 |-> [v \in S |-> Base * v]]
           Body(f) == [p \in 0 .. Width |-> IF p = 0 THEN 1 ELSE Base * f[p - 1]]
<1>0. Width \in Nat
  BY WidthIsPositive
<1>1. PICK f \in [0 .. Width -> S] :
        f[0] = 1 /\ \A p \in 0 .. Width - 1 : f[p + 1] = g[p][f[p]]
  <2>1. g \in [0 .. Width - 1 -> [S -> S]] /\ 1 \in S
    BY BaseTimes
  <2> HIDE DEF g, S
  <2>2. \E f \in [0 .. Width -> S] : Steps(f, Width, 1, g)
    BY <1>0, <2>1, StepsGive
  <2> QED
    BY <2>2 DEF Steps
<1>2. f = Body(f)
  <2>1. ASSUME NEW p \in 0 .. Width, p # 0 PROVE f[p] = Base * f[p - 1]
    <3>1. p - 1 \in 0 .. Width - 1 /\ (p - 1) + 1 = p /\ p - 1 \in 0 .. Width
      BY <1>0, <2>1
    <3>2. f[(p - 1) + 1] = g[p - 1][f[p - 1]]
      BY <1>1, <3>1
    <3>3. f[p - 1] \in S
      BY <3>1
    <3> QED
      BY <3>1, <3>2, <3>3
  <2> QED
    BY <1>1, <2>1
<1>3. Weight = CHOOSE h : h = Body(h)
  BY DEF Weight
<1>4. Weight = Body(Weight)
  BY <1>2, <1>3
<1>5. Weight[0] = 1
  BY <1>0, <1>4
<1>6. \A p \in 0 .. Width - 1 : Weight[p + 1] = Base * Weight[p]
  <2> SUFFICES ASSUME NEW p \in 0 .. Width - 1 PROVE Weight[p + 1] = Base * Weight[p]
    OBVIOUS
  <2>1. p + 1 \in 0 .. Width /\ p + 1 # 0 /\ (p + 1) - 1 = p
    BY <1>0
  <2> QED
    BY <1>4, <2>1
<1>7. \A p \in 0 .. Width : Weight[p] \in Nat \ {0}
  <2> DEFINE T == {p \in 0 .. Width : Weight[p] \in Nat \ {0}}
  <2>1. 0 \in T
    BY <1>0, <1>5
  <2>2. ASSUME NEW p \in 0 .. Width - 1, p \in T PROVE p + 1 \in T
    <3>1. p + 1 \in 0 .. Width /\ Weight[p + 1] = Base * Weight[p]
      BY <1>0, <1>6
    <3> QED
      BY <2>2, <3>1, BaseTimes
  <2> HIDE DEF T
  <2>3. 0 .. Width \subseteq T
    BY <1>0, <2>1, <2>2, CountUp
  <2> QED
    BY <2>3 DEF T
<1> QED
  BY <1>4, <1>5, <1>6, <1>7


\* Dividing by one weight more is dividing once more.
LEMMA DivStep ==
    ASSUME NEW n \in Nat, NEW w \in Nat \ {0}
    PROVE  n \div w = (n \div (Base * w)) * Base + ((n \div w) % Base)
<1> DEFINE q == n \div w
           r == n % w
           s == q \div Base
           t == q % Base
<1>0. Base \in Nat \ {0}
  BY BaseIsPositive
<1>1. q \in Nat /\ r \in 0 .. w - 1 /\ n = w * q + r
  BY DivMod
<1>2. s \in Nat /\ t \in 0 .. Base - 1 /\ q = Base * s + t
  BY <1>0, <1>1, DivMod
<1> HIDE DEF q, r, s, t
<1>3. Base * w \in Nat \ {0}
  BY <1>0
<1>4. w * t <= w * (Base - 1) /\ w * t \in Nat
  BY <1>0, <1>2, SMTT(30)
<1>5. w * (Base - 1) = Base * w - w
  BY <1>0, SMTT(30)
<1>6. w * t + r \in 0 .. (Base * w) - 1
  BY <1>1, <1>3, <1>4, <1>5
<1>7. n = (Base * w) * s + (w * t + r)
  <2>1. w * q = w * (Base * s) + w * t
    BY <1>0, <1>1, <1>2
  <2>2. w * (Base * s) = (Base * w) * s
    BY <1>0, <1>2
  <2> QED
    BY <1>0, <1>1, <1>2, <2>1, <2>2, <1>3, <1>4
<1>8. n \div (Base * w) = s
  <2> DEFINE d == Base * w
             u == w * t + r
  <2>1. d \in Nat \ {0} /\ u \in 0 .. d - 1 /\ n = d * s + u
    BY <1>3, <1>6, <1>7
  <2>2. n \in Int /\ s \in Int
    BY <1>2
  <2> HIDE DEF d, u
  <2>3. n \div d = s
    BY <2>1, <2>2, DivUnique
  <2> QED
    BY <2>3 DEF d
<1>9. q = s * Base + t
  BY <1>0, <1>2
<1> QED
  BY <1>8, <1>9 DEF q, s, t

\* What the recursive Number computes, digit by digit.
LEMMA NumberSteps ==
    ASSUME NEW digits, \A k \in 1 .. Width : ValueOf(digits[k]) \in Nat
    PROVE  \E a \in [0 .. Width -> Nat] :
             /\ a[0] = 0
             /\ \A k \in 0 .. Width - 1 : a[k + 1] = a[k] * Base + ValueOf(digits[k + 1])
             /\ Number(digits) = a[Width]
<1> DEFINE v(k) == ValueOf(digits[k])
           g == [k \in 0 .. Width - 1 |-> [n \in Nat |-> n * Base + v(k + 1)]]
           Body(f) == [k \in 0 .. Width |-> IF k = 0 THEN 0 ELSE f[k - 1] * Base + v(k)]
           h == CHOOSE f : f = Body(f)
<1>0. Width \in Nat /\ Base \in Nat
  BY WidthIsPositive, BaseIsPositive
<1>1. Number(digits) = h[Width]
  BY DEF Number
<1>2. \A k \in 1 .. Width : v(k) \in Nat
  OBVIOUS
<1> HIDE DEF v
<1>3. PICK f \in [0 .. Width -> Nat] : Steps(f, Width, 0, g)
  <2>1. g \in [0 .. Width - 1 -> [Nat -> Nat]]
    <3> SUFFICES ASSUME NEW k \in 0 .. Width - 1, NEW n \in Nat PROVE n * Base + v(k + 1) \in Nat
      OBVIOUS
    <3>1. k + 1 \in 1 .. Width
      BY <1>0
    <3> QED
      BY <1>0, <1>2, <3>1
  <2> HIDE DEF g
  <2> QED
    BY <1>0, <2>1, StepsGive
<1>4. \A k \in 0 .. Width - 1 : f[k + 1] = f[k] * Base + v(k + 1)
  <2> SUFFICES ASSUME NEW k \in 0 .. Width - 1 PROVE f[k + 1] = f[k] * Base + v(k + 1)
    OBVIOUS
  <2>1. f[k] \in Nat
    BY <1>0
  <2>2. f[k + 1] = g[k][f[k]]
    <3> HIDE DEF g
    <3> QED
      BY <1>3 DEF Steps
  <2> QED
    BY <2>1, <2>2
<1>5. f = Body(f)
  <2>1. ASSUME NEW k \in 0 .. Width, k # 0 PROVE f[k] = f[k - 1] * Base + v(k)
    <3>1. k - 1 \in 0 .. Width - 1 /\ (k - 1) + 1 = k
      BY <1>0, <2>1
    <3>2. f[(k - 1) + 1] = f[k - 1] * Base + v((k - 1) + 1)
      BY <1>4, <3>1
    <3> QED
      BY <3>1, <3>2
  <2> QED
    BY <1>3, <2>1 DEF Steps
<1>6. h = Body(h)
  BY <1>5
<1> HIDE DEF h
<1>7. h[0] = 0
  BY <1>0, <1>6
<1>8. ASSUME NEW k \in 0 .. Width - 1 PROVE h[k + 1] = h[k] * Base + v(k + 1)
  <2>1. k + 1 \in 0 .. Width /\ k + 1 # 0 /\ (k + 1) - 1 = k
    BY <1>0
  <2> QED
    BY <1>6, <2>1
<1>9. \A k \in 0 .. Width : h[k] \in Nat
  <2> DEFINE T == {k \in 0 .. Width : h[k] \in Nat}
  <2>1. 0 \in T
    BY <1>0, <1>7
  <2>2. ASSUME NEW k \in 0 .. Width - 1, k \in T PROVE k + 1 \in T
    <3>1. k + 1 \in 1 .. Width /\ h[k] \in Nat /\ v(k + 1) \in Nat
      BY <1>0, <1>2, <2>2
    <3>2. h[k] * Base + v(k + 1) \in Nat
      <4>1. h[k] * Base \in Nat
        BY <3>1, BaseTimes
      <4> QED
        BY <3>1, <4>1
    <3> QED
      BY <1>8, <3>1, <3>2
  <2> HIDE DEF T
  <2>3. 0 .. Width \subseteq T
    BY <1>0, <2>1, <2>2, CountUp
  <2> QED
    BY <2>3 DEF T
<1>10. h \in [0 .. Width -> Nat]
  BY <1>6, <1>9
<1> QED
  BY <1>1, <1>7, <1>8, <1>10 DEF v


\* A digit is read as the value that it was written for.
LEMMA DigitValue ==
    ASSUME NEW n \in 0 .. Base - 1
    PROVE  ValueOf(Digits[n + 1]) = n
<1>0. Base \in Nat \ {0}
  BY BaseIsPositive
<1>1. \A m \in 0 .. Base - 1 : Digits[m + 1] = Digits[n + 1] => m = n
  <2> SUFFICES ASSUME NEW m \in 0 .. Base - 1, Digits[m + 1] = Digits[n + 1] PROVE m = n
    OBVIOUS
  <2>1. m + 1 \in 1 .. Base /\ n + 1 \in 1 .. Base
    BY <1>0
  <2>2. m + 1 = n + 1
    BY <2>1, DigitsApart
  <2> QED
    BY <2>2
<1> QED
  BY <1>1 DEF ValueOf

\* The digit that stands at a place of an identifier's text.
DigitAt(id, k) == (id \div Weight[Width - k]) % Base

LEMMA TextDigits ==
    ASSUME NEW id \in Nat, NEW k \in 1 .. Width
    PROVE  DigitAt(id, k) \in 0 .. Base - 1 /\ Text(id)[k] = Digits[DigitAt(id, k) + 1]
<1>0. Base \in Nat \ {0} /\ Width \in Nat
  BY BaseIsPositive, WidthIsPositive
<1>1. Weight[Width - k] \in Nat \ {0}
  BY <1>0, WeightSteps
<1>2. id \div Weight[Width - k] \in Nat
  BY <1>1, DivMod
<1>3. DigitAt(id, k) \in 0 .. Base - 1
  BY <1>0, <1>2, DivMod DEF DigitAt
<1> QED
  BY <1>3 DEF Text, DigitAt

\* Reading an identifier's text gives the identifier, after any number of
\* digits what they make of it.
LEMMA NumberOfText ==
    ASSUME NEW id \in 0 .. Weight[Width] - 1
    PROVE  Number(Text(id)) = id
<1>0. Base \in Nat \ {0} /\ Width \in Nat
  BY BaseIsPositive, WidthIsPositive
<1>1. id \in Nat
  OBVIOUS
<1>2. ASSUME NEW k \in 1 .. Width
      PROVE  ValueOf(Text(id)[k]) = DigitAt(id, k) /\ DigitAt(id, k) \in Nat
  <2>1. DigitAt(id, k) \in 0 .. Base - 1 /\ Text(id)[k] = Digits[DigitAt(id, k) + 1]
    BY <1>1, TextDigits
  <2> QED
    BY <1>0, <2>1, DigitValue
<1>3. PICK a \in [0 .. Width -> Nat] :
        /\ a[0] = 0
        /\ \A k \in 0 .. Width - 1 : a[k + 1] = a[k] * Base + ValueOf(Text(id)[k + 1])
        /\ Number(Text(id)) = a[Width]
  BY <1>2, NumberSteps
<1> DEFINE T == {k \in 0 .. Width : a[k] = id \div Weight[Width - k]}
<1>4. 0 \in T
  <2>1. Weight[Width] \in Nat \ {0} /\ Width - 0 = Width
    BY <1>0, WeightSteps
  <2>2. id = Weight[Width] * 0 + id
    BY <1>1, <2>1
  <2>3. id \div Weight[Width] = 0
    BY <1>1, <2>1, <2>2, DivUnique
  <2> QED
    BY <1>0, <1>3, <2>1, <2>3
<1>5. ASSUME NEW k \in 0 .. Width - 1, k \in T PROVE k + 1 \in T
  <2> DEFINE w == Weight[Width - (k + 1)]
  <2>1. k + 1 \in 1 .. Width /\ k + 1 \in 0 .. Width /\ Width - (k + 1) \in 0 .. Width - 1
        /\ (Width - (k + 1)) + 1 = Width - k
    BY <1>0
  <2>2. w \in Nat \ {0} /\ Weight[Width - k] = Base * w
    BY <1>0, <2>1, WeightSteps
  <2>3. a[k + 1] = (id \div (Base * w)) * Base + ((id \div w) % Base)
    BY <1>2, <1>3, <1>5, <2>1, <2>2 DEF DigitAt
  <2>4. a[k + 1] = id \div w
    BY <1>1, <2>2, <2>3, DivStep
  <2> QED
    BY <2>1, <2>4
<1> HIDE DEF T
<1>6. Width \in T
  <2>1. 0 .. Width \subseteq T
    BY <1>0, <1>4, <1>5, CountUp
  <2> QED
    BY <1>0, <2>1
<1>7. id \div Weight[0] = id
  <2>1. id = 1 * id + 0
    BY <1>1
  <2>2. id \div 1 = id
    BY <1>1, <2>1, DivUnique
  <2> QED
    BY <2>2, WeightSteps
<1>8. Width - Width = 0
  BY <1>0
<1> QED
  BY <1>3, <1>6, <1>7, <1>8 DEF T

-------------------------------------------------------------------------------
(* Reading what a text spells.                                               *)

\* All that a header is made of.
Tokens == {"session=", "other=", "0x", "semicolon", "blank"} \cup {Digits[n] : n \in 1 .. Base}

\* What neither ends nor pads a cookie.
Ink == Tokens \ {"semicolon", "blank"}

\* A prefix of one token is the first token.
LEMMA PrefixOne ==
    ASSUME NEW S, NEW x, NEW t \in Seq(S)
    PROVE  IsPrefix(<<x>>, t) <=> t # <<>> /\ t[1] = x
<1>1. Len(<<x>>) = 1 /\ SubSeq(<<x>>, 1, 1) = <<x>>
  <2>1. <<x>> \in Seq({x}) /\ Len(<<x>>) = 1
    OBVIOUS
  <2> QED
    BY <2>1, SubSeqFull
<1>2. Len(t) \in Nat /\ (Len(t) >= 1 <=> t # <<>>)
  BY EmptySeq, LenProperties
<1>3. CASE t = <<>>
  BY <1>1, <1>2, <1>3 DEF IsPrefix
<1>4. CASE t # <<>>
  <2>1. \A i \in 1 .. 1 : t[i] \in S
    BY <1>2, <1>4, ElementOfSeq
  <2> DEFINE u == SubSeq(t, 1, 1)
  <2>2. u \in Seq(S) /\ Len(u) = 1 /\ u[1] = t[1]
    <3>1. u \in Seq(S) /\ Len(u) = (IF 1 <= 1 THEN 1 - 1 + 1 ELSE 0)
          /\ \A i \in 1 .. 1 - 1 + 1 : u[i] = t[1 + i - 1]
      BY <2>1, SubSeqProperties
    <3> QED
      BY <3>1
  <2>3. t[1] \in S
    BY <2>1
  <2> HIDE DEF u
  <2>4. u = <<x>> <=> t[1] = x
    <3>1. CASE t[1] = x
      <4>1. <<x>> \in Seq(S) /\ Len(<<x>>) = 1 /\ <<x>>[1] = x
        BY <2>3, <3>1
      <4> QED
        BY <2>2, <3>1, <4>1, SeqEqual
    <3>2. CASE t[1] # x
      BY <2>2, <3>2
    <3> QED
      BY <3>1, <3>2
  <2> QED
    BY <1>1, <1>2, <1>4, <2>4 DEF IsPrefix, u
<1> QED
  BY <1>3, <1>4

\* The text of an identifier has Width digits and nothing else.
LEMMA TextInk ==
    ASSUME NEW id \in Nat
    PROVE  /\ Text(id) \in Seq(Ink)
           /\ Len(Text(id)) = Width
           /\ \A k \in 1 .. Width : Text(id)[k] \in ToSet(Digits) /\ Text(id)[k] # "0x"
<1>0. Base \in Nat \ {0} /\ Width \in Nat \ {0}
  BY BaseIsPositive, WidthIsPositive
<1>1. ASSUME NEW k \in 1 .. Width
      PROVE  Text(id)[k] \in Ink /\ Text(id)[k] # "0x" /\ Text(id)[k] \in ToSet(Digits)
  <2>1. PICK n \in 1 .. Base : Text(id)[k] = Digits[n]
    <3>1. DigitAt(id, k) \in 0 .. Base - 1 /\ Text(id)[k] = Digits[DigitAt(id, k) + 1]
      BY TextDigits
    <3>2. DigitAt(id, k) + 1 \in 1 .. Base
      BY <1>0, <3>1
    <3> QED
      BY <3>1, <3>2
  <2>2. Digits[n] \notin {"semicolon", "blank", "0x"}
    BY DigitsApart
  <2>3. n \in DOMAIN Digits
    BY DEF Digits
  <2> QED
    BY <2>1, <2>2, <2>3 DEF Ink, Tokens, ToSet
<1>2. DOMAIN Text(id) = 1 .. Width /\ Text(id) = [k \in 1 .. Width |-> Text(id)[k]]
  BY DEF Text
<1>3. Text(id) \in [1 .. Width -> Ink]
  BY <1>1, <1>2
<1>4. Text(id) \in Seq(Ink)
  BY <1>0, <1>3, SeqDef
<1>5. Len(Text(id)) = Width
  BY <1>0, <1>2, <1>4, LenProperties
<1> QED
  BY <1>1, <1>4, <1>5

\* An identifier is read from its text as it was written, with or without 0x.
LEMMA TextRead ==
    ASSUME NEW id \in 0 .. Weight[Width] - 1
    PROVE  Decode(Text(id)) = {id} /\ Decode(<<"0x">> \o Text(id)) = {id}
<1> DEFINE t == Text(id)
           u == <<"0x">> \o t
<1>0. Width \in Nat \ {0}
  BY WidthIsPositive
<1>1. /\ t \in Seq(Ink) /\ Len(t) = Width
      /\ \A k \in 1 .. Width : t[k] \in ToSet(Digits) /\ t[k] # "0x"
  <2>1. id \in Nat
    OBVIOUS
  <2> QED
    BY <2>1, TextInk
<1>2. Number(t) = id
  BY NumberOfText
<1> HIDE DEF t
<1>3. AllDigits(t)
  <2>1. DOMAIN t = 1 .. Width
    BY <1>1, LenProperties
  <2>2. ToSet(t) \subseteq ToSet(Digits)
    <3>1. ToSet(t) = {t[i] : i \in 1 .. Width}
      BY <2>1 DEF ToSet
    <3> QED
      BY <1>1, <3>1
  <2> QED
    BY <1>1, <2>2 DEF AllDigits
<1>4. t[1] # "0x"
  BY <1>0, <1>1
<1>5. Spelt(t) = t
  <2>1. ~ IsPrefix(<<"0x">>, t)
    BY <1>1, <1>4, PrefixOne
  <2> QED
    BY <2>1 DEF Spelt
<1>6. u \in Seq(Ink) /\ Len(u) = Width + 1 /\ u[1] = "0x"
      /\ \A k \in 1 .. Width : u[k + 1] = t[k]
  <2>1. <<"0x">> \in Seq(Ink) /\ Len(<<"0x">>) = 1 /\ <<"0x">>[1] = "0x"
    BY DEF Ink, Tokens
  <2>2. u \in Seq(Ink) /\ Len(u) = 1 + Len(t)
        /\ \A i \in 1 .. 1 + Len(t) : u[i] = IF i <= 1 THEN <<"0x">>[i] ELSE t[i - 1]
    <3> DEFINE o == <<"0x">>
    <3>1. o \in Seq(Ink) /\ Len(o) = 1
      BY <2>1
    <3> HIDE DEF o
    <3>2. o \o t \in Seq(Ink) /\ Len(o \o t) = Len(o) + Len(t)
          /\ \A i \in 1 .. Len(o) + Len(t) :
               (o \o t)[i] = IF i <= Len(o) THEN o[i] ELSE t[i - Len(o)]
      BY <1>1, <3>1, ConcatProperties
    <3>3. u = o \o t
      BY DEF o
    <3>4. /\ u \in Seq(Ink) /\ Len(u) = 1 + Len(t)
          /\ \A i \in 1 .. 1 + Len(t) : u[i] = IF i <= 1 THEN o[i] ELSE t[i - 1]
      BY <3>1, <3>2, <3>3
    <3> QED
      BY <3>4 DEF o
  <2> HIDE DEF u
  <2>3. u[1] = "0x"
    BY <1>0, <1>1, <2>1, <2>2
  <2>4. ASSUME NEW k \in 1 .. Width PROVE u[k + 1] = t[k]
    <3>1. k + 1 \in 1 .. 1 + Len(t) /\ ~(k + 1 <= 1) /\ (k + 1) - 1 = k
      BY <1>0, <1>1
    <3> QED
      BY <2>2, <3>1
  <2> QED
    BY <1>0, <1>1, <2>2, <2>3, <2>4
<1> HIDE DEF u
<1>7. Spelt(u) = t
  <2>1. u # <<>>
    BY <1>0, <1>6, EmptySeq
  <2>2. IsPrefix(<<"0x">>, u)
    BY <1>6, <2>1, PrefixOne
  <2>3. Tail(u) \in Seq(Ink) /\ Len(Tail(u)) = Width
        /\ \A i \in 1 .. Len(Tail(u)) : Tail(u)[i] = u[i + 1]
    BY <1>0, <1>6, <2>1, HeadTailProperties
  <2>4. Tail(u) = t
    BY <1>1, <1>6, <2>3, SeqEqual
  <2> QED
    BY <2>2, <2>4 DEF Spelt
<1> QED
  BY <1>2, <1>3, <1>5, <1>7 DEF Decode, t, u

\* An empty value is no identifier.
LEMMA NothingRead == Decode(<<>>) = {}
<1>1. <<>> \in Seq(Ink) /\ Len(<<>>) = 0
  BY EmptySeq
<1>2. Spelt(<<>>) = <<>>
  BY <1>1, PrefixOne DEF Spelt
<1> QED
  BY <1>1, <1>2, WidthIsPositive DEF Decode, AllDigits

-------------------------------------------------------------------------------
(* One cookie of a header.                                                   *)

LEMMA LeastOf ==
    ASSUME NEW S \in SUBSET Nat, NEW m \in S, \A n \in S : m <= n
    PROVE  Min(S) = m
<1>1. m \in Nat /\ \A x \in S : x \in Nat /\ m <= x
  OBVIOUS
<1>2. \A x \in S : (\A y \in S : x <= y) => x = m
  BY <1>1
<1>3. \E x \in S : \A y \in S : x <= y
  BY <1>1
<1> QED
  BY <1>2, <1>3 DEF Min

LEMMA GreatestOf ==
    ASSUME NEW S \in SUBSET Nat, NEW m \in S, \A n \in S : n <= m
    PROVE  Max(S) = m
<1>1. m \in Nat /\ \A x \in S : x \in Nat /\ x <= m
  OBVIOUS
<1>2. \A x \in S : (\A y \in S : x >= y) => x = m
  BY <1>1
<1>3. \E x \in S : \A y \in S : x >= y
  BY <1>1
<1> QED
  BY <1>2, <1>3 DEF Max

\* A piece is all that stands before the next semicolon.
LEMMA PieceEnds ==
    ASSUME NEW h \in Seq(Tokens), NEW a \in 1 .. Len(h), NEW e \in a .. Len(h),
           \A k \in a .. e : h[k] # "semicolon", e = Len(h) \/ h[e + 1] = "semicolon"
    PROVE  Piece(h, a) = SubSeq(h, a, e)
<1> DEFINE ends == {k \in a .. Len(h) : h[k] = "semicolon"}
<1>01. Len(h) \in Nat
  BY LenProperties
<1>02. a \in Nat /\ a >= 1
  BY <1>01
<1>0. Len(h) \in Nat /\ a \in Nat /\ a >= 1 /\ e \in Nat /\ a <= e /\ e <= Len(h)
  BY <1>01, <1>02
<1>1. CASE ends = {}
  <2>1. e = Len(h)
    <3> SUFFICES ASSUME e # Len(h) PROVE FALSE
      OBVIOUS
    <3>1. e + 1 \in a .. Len(h)
      BY <1>0
    <3> QED
      BY <1>1, <3>1
  <2> QED
    BY <1>1, <2>1 DEF Piece
<1>2. CASE ends # {}
  <2>1. \A k \in ends : e + 1 <= k /\ k <= Len(h)
    BY <1>0
  <2>2. e + 1 \in ends
    BY <1>0, <1>2, <2>1
  <2>3. ends \in SUBSET Nat
    BY <1>0
  <2> HIDE DEF ends
  <2>4. Min(ends) = e + 1
    BY <2>1, <2>2, <2>3, LeastOf
  <2>5. Min(ends) - 1 = e
    BY <1>0, <2>4
  <2> QED
    BY <1>2, <2>5 DEF Piece, ends
<1> QED
  BY <1>1, <1>2

\* Spaces are taken off both ends.
LEMMA TrimmedTo ==
    ASSUME NEW p \in Seq(Tokens), NEW b \in 1 .. Len(p), NEW c \in b .. Len(p),
           p[b] # "blank", p[c] # "blank",
           \A k \in 1 .. b - 1 : p[k] = "blank", \A k \in c + 1 .. Len(p) : p[k] = "blank"
    PROVE  Trimmed(p) = SubSeq(p, b, c)
<1> DEFINE inked == {k \in DOMAIN p : p[k] # "blank"}
<1>01. Len(p) \in Nat /\ DOMAIN p = 1 .. Len(p)
  BY LenProperties
<1>02. b \in Nat /\ b >= 1 /\ b <= Len(p)
  BY <1>01
<1>0. /\ Len(p) \in Nat /\ DOMAIN p = 1 .. Len(p)
      /\ b \in Nat /\ b >= 1 /\ c \in Nat /\ b <= c /\ c <= Len(p)
  BY <1>01, <1>02
<1>1. inked \in SUBSET Nat /\ b \in inked /\ c \in inked
  BY <1>0
<1>2. \A k \in inked : b <= k /\ k <= c
  BY <1>0
<1> HIDE DEF inked
<1>3. Min(inked) = b /\ Max(inked) = c /\ inked # {}
  BY <1>1, <1>2, LeastOf, GreatestOf
<1> QED
  BY <1>3 DEF Trimmed, inked

\* The piece that begins at a, with the name at b, the value after it and
\* nothing but spaces around them up to e.
Names(h, a, b, v, e) ==
    /\ h[b] = "session="
    /\ \A k \in a .. b - 1 : h[k] = "blank"
    /\ \A k \in 1 .. Len(v) : h[b + k] = v[k]
    /\ \A k \in b + Len(v) + 1 .. e : h[k] = "blank"
    /\ e = Len(h) \/ h[e + 1] = "semicolon"

\* Such a piece names a session, and v is the value that is decoded.
LEMMA PieceValue ==
    ASSUME NEW h \in Seq(Tokens), NEW v \in Seq(Ink), NEW a \in Starts(h),
           NEW b \in a .. Len(h), NEW e \in b + Len(v) .. Len(h), Names(h, a, b, v, e)
    PROVE  a \in Named(h) /\ ValueAt(h, a) = v
<1> DEFINE p == Piece(h, a)
           x == Trimmed(p)
           m == Len(v)
           d == (b - a) + 1
<1>0. Len(h) \in Nat /\ DOMAIN h = 1 .. Len(h) /\ m \in Nat
  BY LenProperties
<1>1. a \in Nat /\ a >= 1 /\ b \in Nat /\ a <= b /\ e \in Nat /\ b + m <= e /\ e <= Len(h)
  <2>1. a \in Nat /\ a >= 1
    BY <1>0 DEF Starts
  <2>2. b \in Nat /\ a <= b
    BY <1>0, <2>1
  <2>3. b + m \in Nat
    BY <1>0, <2>2
  <2> HIDE DEF m
  <2>4. e \in Nat /\ b + m <= e /\ e <= Len(h)
    BY <1>0, <2>3 DEF m
  <2> QED
    BY <2>1, <2>2, <2>4
<1>2. ASSUME NEW k \in a .. e PROVE h[k] # "semicolon"
  <2>0. k \in Nat /\ a <= k /\ k <= e
    BY <1>1
  <2>1. CASE k < b
    <3>1. k \in a .. b - 1
      BY <1>1, <2>0, <2>1
    <3> QED
      BY <3>1 DEF Names
  <2>2. CASE k = b
    BY <2>2 DEF Names
  <2>3. CASE k > b /\ k <= b + m
    <3>1. k - b \in 1 .. m /\ b + (k - b) = k
      BY <1>0, <1>1, <2>0, <2>3
    <3>2. h[k] = v[k - b] /\ v[k - b] \in Ink
      BY <3>1, ElementOfSeq DEF Names
    <3> QED
      BY <3>2 DEF Ink
  <2>4. CASE k > b + m
    <3>1. k \in b + m + 1 .. e
      BY <1>0, <1>1, <2>0, <2>4
    <3> QED
      BY <3>1 DEF Names
  <2> QED
    BY <1>0, <1>1, <2>0, <2>1, <2>2, <2>3, <2>4
<1>3. p = SubSeq(h, a, e)
  <2>1. a \in 1 .. Len(h) /\ e \in a .. Len(h)
    BY <1>0, <1>1
  <2> QED
    BY <1>2, <2>1, PieceEnds DEF Names
<1>4. /\ p \in Seq(Tokens) /\ Len(p) = (e - a) + 1
      /\ \A i \in 1 .. (e - a) + 1 : p[i] = h[(a + i) - 1]
  <2>1. \A i \in a .. e : h[i] \in Tokens
    BY <1>0, <1>1, ElementOfSeq
  <2>2. /\ SubSeq(h, a, e) \in Seq(Tokens)
        /\ Len(SubSeq(h, a, e)) = IF a <= e THEN e - a + 1 ELSE 0
        /\ \A i \in 1 .. e - a + 1 : SubSeq(h, a, e)[i] = h[a + i - 1]
    BY <1>1, <2>1, SubSeqProperties
  <2> QED
    BY <1>0, <1>1, <1>3, <2>2
<1> HIDE DEF p
<1>5. d \in 1 .. Len(p) /\ d + m \in d .. Len(p)
  BY <1>0, <1>1, <1>4
<1>6. p[d] = "session=" /\ \A k \in 1 .. m : p[d + k] = v[k]
  <2>1. d \in 1 .. (e - a) + 1 /\ (a + d) - 1 = b
    BY <1>0, <1>1
  <2>2. ASSUME NEW k \in 1 .. m PROVE p[d + k] = v[k]
    <3>1. d + k \in 1 .. (e - a) + 1 /\ (a + (d + k)) - 1 = b + k
      BY <1>0, <1>1
    <3>2. p[d + k] = h[b + k]
      BY <1>4, <3>1
    <3> QED
      BY <3>2 DEF Names
  <2> QED
    BY <1>4, <2>1, <2>2 DEF Names
<1>7. x = SubSeq(p, d, d + m)
  <2>1. p[d] # "blank"
    BY <1>6
  <2>2. p[d + m] # "blank"
    <3>1. CASE m = 0
      <4>1. d + m = d
        BY <1>1, <3>1
      <4> QED
        BY <2>1, <4>1
    <3>2. CASE m # 0
      <4>1. m \in 1 .. m
        BY <1>0, <3>2
      <4>2. p[d + m] = v[m] /\ v[m] \in Ink
        BY <1>6, <4>1, ElementOfSeq
      <4> QED
        BY <4>2 DEF Ink
    <3> QED
      BY <3>1, <3>2
  <2>3. ASSUME NEW k \in 1 .. d - 1 PROVE p[k] = "blank"
    <3>1. k \in 1 .. (e - a) + 1 /\ (a + k) - 1 \in a .. b - 1
      BY <1>0, <1>1
    <3>2. p[k] = h[(a + k) - 1]
      BY <1>4, <3>1
    <3> QED
      BY <3>1, <3>2 DEF Names
  <2>4. ASSUME NEW k \in (d + m) + 1 .. Len(p) PROVE p[k] = "blank"
    <3>1. k \in 1 .. (e - a) + 1 /\ (a + k) - 1 \in b + m + 1 .. e
      BY <1>0, <1>1, <1>4
    <3>2. p[k] = h[(a + k) - 1]
      BY <1>4, <3>1
    <3> QED
      BY <3>1, <3>2 DEF Names
  <2> HIDE DEF d
  <2> QED
    BY <1>4, <1>5, <2>1, <2>2, <2>3, <2>4, TrimmedTo
<1>8. /\ x \in Seq(Tokens) /\ Len(x) = m + 1
      /\ x[1] = "session=" /\ \A k \in 1 .. m : x[k + 1] = v[k]
  <2> HIDE DEF d
  <2>0. d \in Nat /\ d + m \in Nat /\ d <= d + m /\ (d + m) - d + 1 = m + 1
    BY <1>0, <1>5
  <2>1. \A i \in d .. d + m : p[i] \in Tokens
    <3>1. \A i \in d .. d + m : i \in 1 .. Len(p)
      BY <1>5
    <3> QED
      BY <1>4, <3>1, ElementOfSeq
  <2>2. /\ SubSeq(p, d, d + m) \in Seq(Tokens)
        /\ Len(SubSeq(p, d, d + m)) = IF d <= d + m THEN (d + m) - d + 1 ELSE 0
        /\ \A i \in 1 .. (d + m) - d + 1 : SubSeq(p, d, d + m)[i] = p[d + i - 1]
    <3> DEFINE n == d + m
    <3>1. d \in Int /\ n \in Int /\ \A i \in d .. n : p[i] \in Tokens
      BY <2>0, <2>1
    <3> HIDE DEF n
    <3>2. /\ SubSeq(p, d, n) \in Seq(Tokens)
          /\ Len(SubSeq(p, d, n)) = IF d <= n THEN n - d + 1 ELSE 0
          /\ \A i \in 1 .. n - d + 1 : SubSeq(p, d, n)[i] = p[d + i - 1]
      BY <3>1, SubSeqProperties
    <3> QED
      BY <3>2 DEF n
  <2>3. /\ x \in Seq(Tokens) /\ Len(x) = m + 1
        /\ \A i \in 1 .. m + 1 : x[i] = p[d + i - 1]
    BY <1>7, <2>0, <2>2
  <2> HIDE DEF x
  <2>4. x[1] = "session="
    <3>1. 1 \in 1 .. m + 1 /\ d + 1 - 1 = d
      BY <1>0, <2>0
    <3> QED
      BY <1>6, <2>3, <3>1
  <2>5. ASSUME NEW k \in 1 .. m PROVE x[k + 1] = v[k]
    <3>1. k + 1 \in 1 .. m + 1 /\ d + (k + 1) - 1 = d + k
      BY <1>0, <2>0
    <3> QED
      BY <1>6, <2>3, <3>1
  <2> QED
    BY <2>3, <2>4, <2>5
<1> HIDE DEF x
<1>9. x # <<>> /\ IsPrefix(<<"session=">>, x)
  <2>1. x # <<>>
    BY <1>0, <1>8, EmptySeq
  <2> QED
    BY <1>8, <2>1, PrefixOne
<1>10. Tail(x) = v
  <2>1. Tail(x) \in Seq(Tokens) /\ Len(Tail(x)) = m
        /\ \A i \in 1 .. Len(Tail(x)) : Tail(x)[i] = x[i + 1]
    BY <1>0, <1>8, <1>9, HeadTailProperties
  <2>2. v \in Seq(Tokens)
    BY SeqMonotonic DEF Ink
  <2> QED
    BY <1>8, <2>1, <2>2, SeqEqual
<1> QED
  BY <1>9, <1>10 DEF Named, ValueAt, p, x

-------------------------------------------------------------------------------
(* Headers.                                                                  *)

\* A header that a session cookie leads, with v for its value.
Leads(h, v) == \E e \in 1 + Len(v) .. Len(h) : Names(h, 1, 1, v, e)

\* What leads a header is what is read of it.
LEMMA LeadingRead ==
    ASSUME NEW h \in Seq(Tokens), NEW v \in Seq(Ink), Leads(h, v)
    PROVE  Named(h) # {} /\ Decode(ValueAt(h, Min(Named(h)))) = Decode(v)
<1>0. Len(h) \in Nat /\ DOMAIN h = 1 .. Len(h) /\ Len(v) \in Nat
  BY LenProperties
<1>1. PICK e \in 1 + Len(v) .. Len(h) : Names(h, 1, 1, v, e)
  BY DEF Leads
<1>2. 1 \in Starts(h) /\ 1 \in 1 .. Len(h)
  BY <1>0 DEF Starts
<1>3. 1 \in Named(h) /\ ValueAt(h, 1) = v
  BY <1>1, <1>2, PieceValue
<1>4. Named(h) \in SUBSET Nat /\ \A n \in Named(h) : 1 <= n
  <2>1. Starts(h) \in SUBSET (Nat \ {0})
    BY <1>0 DEF Starts
  <2> QED
    BY <2>1 DEF Named
<1>5. Min(Named(h)) = 1
  BY <1>3, <1>4, LeastOf
<1> QED
  BY <1>3, <1>5

\* Reading one header.
LEMMA JoinedRead ==
    ASSUME NEW h
    PROVE  SessionId(<<h>>) = IF Named(h) = {} THEN {} ELSE Decode(ValueAt(h, Min(Named(h))))
<1> DEFINE hs == <<h>>
           naming == {k \in DOMAIN hs : Named(hs[k]) # {}}
<1>1. DOMAIN hs = {1} /\ hs[1] = h
  OBVIOUS
<1> HIDE DEF hs
<1>2. CASE Named(h) = {}
  <2>1. naming = {}
    BY <1>1, <1>2
  <2> QED
    BY <1>2, <2>1 DEF SessionId, hs
<1>3. CASE Named(h) # {}
  <2>1. naming = {1}
    BY <1>1, <1>3
  <2>2. Min({1}) = 1
    BY LeastOf
  <2> HIDE DEF naming
  <2>3. hs[Min(naming)] = h /\ naming # {}
    BY <1>1, <2>1, <2>2
  <2>4. SessionId(hs) = Decode(ValueAt(h, Min(Named(h))))
    BY <2>3 DEF SessionId, naming
  <2> QED
    BY <1>3, <2>4 DEF hs
<1> QED
  BY <1>2, <1>3

\* The headers before the one that names a session do not matter.
LEMMA SeparateRead ==
    ASSUME NEW n \in Nat, NEW hs, DOMAIN hs = 1 .. n, NEW j \in 1 .. n,
           \A k \in 1 .. j - 1 : Named(hs[k]) = {}, Named(hs[j]) # {}
    PROVE  SessionId(hs) = Decode(ValueAt(hs[j], Min(Named(hs[j]))))
<1> DEFINE naming == {k \in DOMAIN hs : Named(hs[k]) # {}}
<1>1. naming \in SUBSET Nat /\ j \in naming
  OBVIOUS
<1>2. \A k \in naming : j <= k
  <2> SUFFICES ASSUME NEW k \in naming, k < j PROVE FALSE
    BY <1>1
  <2>1. k \in 1 .. j - 1
    OBVIOUS
  <2> QED
    BY <2>1
<1> HIDE DEF naming
<1>3. Min(naming) = j /\ naming # {}
  BY <1>1, <1>2, LeastOf
<1> QED
  BY <1>3 DEF SessionId, naming

LEMMA NoneRead ==
    ASSUME NEW hs, \A k \in DOMAIN hs : Named(hs[k]) = {}
    PROVE  SessionId(hs) = {}
BY DEF SessionId

\* A cookie of another name.
Bare == <<"other=">>

LEMMA BareNamesNone ==
    Bare \in Seq(Tokens) /\ Len(Bare) = 1 /\ Bare[1] = "other=" /\ Named(Bare) = {}
<1>1. Bare \in Seq(Tokens) /\ Len(Bare) = 1 /\ Bare[1] = "other=" /\ DOMAIN Bare = {1}
  BY DEF Bare, Tokens
<1> HIDE DEF Bare
<1>2. Starts(Bare) = {1}
  BY <1>1 DEF Starts
<1>3. Piece(Bare, 1) = Bare
  <2>1. 1 \in 1 .. Len(Bare) /\ 1 \in 1 .. Len(Bare) /\ Len(Bare) = 1
        /\ \A k \in 1 .. 1 : Bare[k] # "semicolon"
    BY <1>1
  <2>2. Piece(Bare, 1) = SubSeq(Bare, 1, 1)
    BY <1>1, <2>1, PieceEnds
  <2>3. SubSeq(Bare, 1, 1) = Bare
    BY <1>1, SubSeqFull
  <2> QED
    BY <2>2, <2>3
<1>4. Trimmed(Bare) = Bare
  <2>1. Trimmed(Bare) = SubSeq(Bare, 1, 1)
    <3>1. 1 \in 1 .. Len(Bare) /\ Bare[1] # "blank"
          /\ (\A k \in 1 .. 1 - 1 : Bare[k] = "blank")
          /\ (\A k \in 1 + 1 .. Len(Bare) : Bare[k] = "blank")
      BY <1>1
    <3> QED
      BY <1>1, <3>1, TrimmedTo
  <2>2. SubSeq(Bare, 1, 1) = Bare
    BY <1>1, SubSeqFull
  <2> QED
    BY <2>1, <2>2
<1>5. ~ IsPrefix(<<"session=">>, Bare)
  BY <1>1, PrefixOne
<1> QED
  BY <1>1, <1>2, <1>3, <1>4, <1>5 DEF Named

\* A session cookie as it is sent: its value, and perhaps a blank.
Cookie(v, pad) == <<"session=">> \o (v \o pad)

LEMMA CookieTokens ==
    ASSUME NEW v \in Seq(Ink), NEW pad \in {<<>>, <<"blank">>}
    PROVE  /\ Cookie(v, pad) \in Seq(Tokens)
           /\ Len(Cookie(v, pad)) = 1 + Len(v) + Len(pad)
           /\ Cookie(v, pad)[1] = "session="
           /\ \A k \in 1 .. Len(v) : Cookie(v, pad)[1 + k] = v[k]
           /\ \A k \in 2 + Len(v) .. 1 + Len(v) + Len(pad) : Cookie(v, pad)[k] = "blank"
<1> DEFINE u == v \o pad
           o == <<"session=">>
           c == Cookie(v, pad)
<1>1. v \in Seq(Tokens) /\ pad \in Seq(Tokens) /\ o \in Seq(Tokens) /\ Len(o) = 1
      /\ o[1] = "session="
  <2>1. v \in Seq(Tokens)
    BY SeqMonotonic DEF Ink
  <2>2. pad \in Seq(Tokens)
    <3>1. "blank" \in Tokens
      BY DEF Tokens
    <3>2. <<>> \in Seq(Tokens) /\ <<"blank">> \in Seq(Tokens)
      BY <3>1
    <3> QED
      BY <3>2
  <2>3. o \in Seq(Tokens)
    BY DEF Tokens
  <2> QED
    BY <2>1, <2>2, <2>3
<1>2. Len(v) \in Nat /\ Len(pad) \in 0 .. 1 /\ \A k \in 1 .. Len(pad) : pad[k] = "blank"
  BY LenProperties
<1> HIDE DEF o
<1>3. u \in Seq(Tokens) /\ Len(u) = Len(v) + Len(pad)
      /\ \A i \in 1 .. Len(v) + Len(pad) : u[i] = IF i <= Len(v) THEN v[i] ELSE pad[i - Len(v)]
  BY <1>1, ConcatProperties
<1>4. c = o \o u
  BY DEF Cookie, o
<1> HIDE DEF u, c
<1>5. c \in Seq(Tokens) /\ Len(c) = 1 + Len(u)
      /\ \A i \in 1 .. 1 + Len(u) : c[i] = IF i <= 1 THEN o[i] ELSE u[i - 1]
  <2>1. o \o u \in Seq(Tokens) /\ Len(o \o u) = Len(o) + Len(u)
        /\ \A i \in 1 .. Len(o) + Len(u) :
             (o \o u)[i] = IF i <= Len(o) THEN o[i] ELSE u[i - Len(o)]
    <3>1. o \in Seq(Tokens) /\ u \in Seq(Tokens)
      BY <1>1, <1>3
    <3> QED
      BY <3>1, ConcatProperties
  <2> QED
    BY <1>1, <1>4, <2>1
<1>6. Len(c) = 1 + Len(v) + Len(pad)
  BY <1>2, <1>3, <1>5
<1>7. c[1] = "session="
  BY <1>1, <1>2, <1>3, <1>5
<1>8. ASSUME NEW k \in 1 .. Len(v) PROVE c[1 + k] = v[k]
  <2>1. 1 + k \in 1 .. 1 + Len(u) /\ ~(1 + k <= 1) /\ (1 + k) - 1 = k
        /\ k \in 1 .. Len(v) + Len(pad) /\ k <= Len(v)
    BY <1>2, <1>3
  <2> QED
    BY <1>3, <1>5, <2>1
<1>9. ASSUME NEW k \in 2 + Len(v) .. 1 + Len(v) + Len(pad) PROVE c[k] = "blank"
  <2>1. k \in 1 .. 1 + Len(u) /\ ~(k <= 1) /\ k - 1 \in 1 .. Len(v) + Len(pad)
        /\ ~(k - 1 <= Len(v)) /\ (k - 1) - Len(v) \in 1 .. Len(pad)
    BY <1>2, <1>3
  <2>2. c[k] = u[k - 1] /\ u[k - 1] = pad[(k - 1) - Len(v)]
    BY <1>3, <1>5, <2>1
  <2> QED
    BY <1>2, <2>1, <2>2
<1> QED
  BY <1>5, <1>6, <1>7, <1>8, <1>9 DEF c

\* What may follow a cookie in a header: nothing, or a separator first.
Follows(rest) == rest \in Seq(Tokens) /\ (rest = <<>> \/ rest[1] = "semicolon")

\* A session cookie at the front of a header leads it.
LEMMA CookieLeads ==
    ASSUME NEW v \in Seq(Ink), NEW pad \in {<<>>, <<"blank">>}, NEW rest, Follows(rest)
    PROVE  Cookie(v, pad) \o rest \in Seq(Tokens) /\ Leads(Cookie(v, pad) \o rest, v)
<1> DEFINE c == Cookie(v, pad)
           h == c \o rest
           e == Len(c)
<1>1. /\ c \in Seq(Tokens) /\ e = 1 + Len(v) + Len(pad)
      /\ c[1] = "session=" /\ \A k \in 1 .. Len(v) : c[1 + k] = v[k]
      /\ \A k \in 2 + Len(v) .. 1 + Len(v) + Len(pad) : c[k] = "blank"
  <2>1. /\ Cookie(v, pad) \in Seq(Tokens)
        /\ Len(Cookie(v, pad)) = 1 + Len(v) + Len(pad)
        /\ Cookie(v, pad)[1] = "session="
        /\ \A k \in 1 .. Len(v) : Cookie(v, pad)[1 + k] = v[k]
        /\ \A k \in 2 + Len(v) .. 1 + Len(v) + Len(pad) : Cookie(v, pad)[k] = "blank"
    BY CookieTokens, Zenon
  <2> HIDE DEF h
  <2> QED
    BY <2>1
<1>2. Len(v) \in Nat /\ Len(pad) \in 0 .. 1 /\ rest \in Seq(Tokens) /\ Len(rest) \in Nat
      /\ (rest # <<>> => Len(rest) >= 1) /\ (rest = <<>> => Len(rest) = 0)
  <2>1. rest \in Seq(Tokens)
    BY DEF Follows
  <2> QED
    BY <2>1, LenProperties, EmptySeq
<1> HIDE DEF c
<1>3. h \in Seq(Tokens) /\ Len(h) = e + Len(rest)
      /\ \A i \in 1 .. e + Len(rest) : h[i] = IF i <= e THEN c[i] ELSE rest[i - e]
  <2>1. c \in Seq(Tokens) /\ rest \in Seq(Tokens)
    BY <1>1, <1>2
  <2> QED
    BY <2>1, ConcatProperties
<1> HIDE DEF e, h
<1>4. \A i \in 1 .. e : h[i] = c[i]
  BY <1>1, <1>2, <1>3
<1>5. e \in 1 + Len(v) .. Len(h)
  BY <1>1, <1>2, <1>3
<1>6. h[1] = "session="
  BY <1>1, <1>2, <1>4
<1>7. ASSUME NEW k \in 1 .. Len(v) PROVE h[1 + k] = v[k]
  <2>1. 1 + k \in 1 .. e
    BY <1>1, <1>2
  <2> QED
    BY <1>1, <1>4, <2>1
<1>8. ASSUME NEW k \in 1 + Len(v) + 1 .. e PROVE h[k] = "blank"
  <2>1. k \in 2 + Len(v) .. 1 + Len(v) + Len(pad) /\ k \in 1 .. e
    BY <1>1, <1>2
  <2> QED
    BY <1>1, <1>4, <2>1
<1>9. e = Len(h) \/ h[e + 1] = "semicolon"
  <2>1. CASE rest = <<>>
    BY <1>1, <1>2, <1>3, <2>1
  <2>2. CASE rest # <<>>
    <3>1. e + 1 \in 1 .. e + Len(rest) /\ ~(e + 1 <= e) /\ (e + 1) - e = 1
      BY <1>1, <1>2, <2>2
    <3> QED
      BY <1>3, <2>2, <3>1 DEF Follows
  <2> QED
    BY <2>1, <2>2
<1>10. Names(h, 1, 1, v, e)
  BY <1>6, <1>7, <1>8, <1>9 DEF Names
<1> QED
  BY <1>3, <1>5, <1>10 DEF Leads, h, c

\* What the recursive FlattenSeq computes: joining one part after another.
LEMMA FlattenSteps ==
    ASSUME NEW n \in Nat \ {0}, NEW s \in [1 .. n -> Seq(Tokens)]
    PROVE  \E f \in [1 .. n -> Seq(Tokens)] :
             /\ f[1] = s[1]
             /\ \A k \in 2 .. n : f[k] = f[k - 1] \o s[k]
             /\ FlattenSeq(s) = f[n]
<1> DEFINE T == Seq(Tokens)
           g == [k \in 0 .. (n - 1) - 1 |-> [t \in T |-> t \o s[k + 2]]]
           Body(f) == [i \in 1 .. Len(s) |-> IF i = 1 THEN s[i] ELSE f[i - 1] \o s[i]]
           h == CHOOSE f : f = Body(f)
<1>0. Len(s) = n /\ n - 1 \in Nat
  OBVIOUS
<1>1. FlattenSeq(s) = h[n]
  BY <1>0 DEF FlattenSeq
<1>2. PICK a \in [0 .. n - 1 -> T] : Steps(a, n - 1, s[1], g)
  <2>1. g \in [0 .. (n - 1) - 1 -> [T -> T]]
    <3> SUFFICES ASSUME NEW k \in 0 .. (n - 1) - 1, NEW t \in T PROVE t \o s[k + 2] \in T
      OBVIOUS
    <3>1. k + 2 \in 1 .. n
      OBVIOUS
    <3> QED
      BY <3>1, ConcatProperties
  <2>2. s[1] \in T
    OBVIOUS
  <2> HIDE DEF g, T
  <2> QED
    BY <1>0, <2>1, <2>2, StepsGive
<1> DEFINE f == [i \in 1 .. n |-> a[i - 1]]
<1>3. ASSUME NEW k \in 2 .. n PROVE f[k] = f[k - 1] \o s[k]
  <2>1. k - 2 \in 0 .. (n - 1) - 1 /\ (k - 2) + 1 = k - 1 /\ (k - 2) + 2 = k
        /\ k - 1 \in 1 .. n /\ (k - 1) - 1 = k - 2 /\ k \in 1 .. n
    OBVIOUS
  <2>2. a[(k - 2) + 1] = g[k - 2][a[k - 2]]
    <3> HIDE DEF g
    <3> QED
      BY <1>2, <2>1 DEF Steps
  <2>3. a[k - 2] \in T
    BY <2>1
  <2>4. a[k - 1] = a[k - 2] \o s[k]
    BY <2>1, <2>2, <2>3
  <2> QED
    BY <2>1, <2>4
<1>4. f[1] = s[1] /\ f \in [1 .. n -> T]
  <2>1. \A i \in 1 .. n : i - 1 \in 0 .. n - 1
    OBVIOUS
  <2>2. a[0] = s[1]
    BY <1>2 DEF Steps
  <2> QED
    BY <2>1, <2>2
<1> HIDE DEF f
<1>5. f = Body(f)
  <2>1. \A i \in 1 .. n : i # 1 => i \in 2 .. n
    OBVIOUS
  <2> QED
    BY <1>0, <1>3, <1>4, <2>1
<1>6. h = Body(h)
  BY <1>5
<1> HIDE DEF h
<1>7. h[1] = s[1] /\ \A k \in 2 .. n : h[k] = h[k - 1] \o s[k]
  <2>1. h = [i \in 1 .. n |-> IF i = 1 THEN s[i] ELSE h[i - 1] \o s[i]]
    BY <1>0, <1>6
  <2>2. 1 \in 1 .. n /\ \A k \in 2 .. n : k \in 1 .. n /\ k # 1
    OBVIOUS
  <2> QED
    BY <2>1, <2>2
<1>8. \A k \in 1 .. n : h[k] \in T
  <2> DEFINE U == {k \in 0 .. n - 1 : h[k + 1] \in T}
  <2>1. 0 \in U
    BY <1>0, <1>7
  <2>2. ASSUME NEW k \in 0 .. (n - 1) - 1, k \in U PROVE k + 1 \in U
    <3>1. k + 2 \in 2 .. n /\ (k + 2) - 1 = k + 1 /\ (k + 1) + 1 = k + 2 /\ k + 1 \in 0 .. n - 1
          /\ k + 2 \in 1 .. n
      BY <1>0
    <3>2. h[k + 2] = h[k + 1] \o s[k + 2]
      BY <1>7, <3>1
    <3>3. h[k + 1] \in T /\ s[k + 2] \in T
      BY <2>2, <3>1
    <3>4. h[k + 2] \in T
      BY <3>2, <3>3, ConcatProperties
    <3> QED
      BY <3>1, <3>4
  <2> HIDE DEF U
  <2>3. 0 .. n - 1 \subseteq U
    BY <1>0, <2>1, <2>2, CountUp
  <2>4. ASSUME NEW k \in 1 .. n PROVE h[k] \in T
    <3>1. k - 1 \in 0 .. n - 1 /\ (k - 1) + 1 = k
      OBVIOUS
    <3> QED
      BY <2>3, <3>1 DEF U
  <2> QED
    BY <2>4
<1>9. h \in [1 .. n -> T]
  BY <1>0, <1>6, <1>8
<1> QED
  BY <1>1, <1>7, <1>9

\* Concatenation, for the provers to leave alone.
Joined(x, y) == x \o y

LEMMA FollowsMore ==
    ASSUME NEW x \in Seq(Tokens), NEW y, NEW z \in Seq(Tokens),
           Follows(y), z # <<>>, z[1] = "semicolon"
    PROVE  \E more : Follows(more) /\ Joined(Joined(x, y), z) = Joined(x, more)
<1>1. y \in Seq(Tokens)
  BY DEF Follows
<1>2. (x \o y) \o z = x \o (y \o z)
  BY <1>1, ConcatAssociative
<1>3. Follows(y \o z)
  <2>1. CASE y = <<>>
    BY <2>1, ConcatEmptySeq DEF Follows
  <2>2. CASE y # <<>>
    <3>1. Len(y) \in Nat \ {0} /\ Len(z) \in Nat
      BY <1>1, <2>2, EmptySeq, LenProperties
    <3>2. /\ y \o z \in Seq(Tokens)
          /\ \A i \in 1 .. Len(y) + Len(z) :
               (y \o z)[i] = IF i <= Len(y) THEN y[i] ELSE z[i - Len(y)]
      BY <1>1, ConcatProperties
    <3>3. 1 \in 1 .. Len(y) + Len(z) /\ 1 <= Len(y)
      BY <3>1
    <3>4. (y \o z)[1] = y[1]
      BY <3>2, <3>3
    <3> QED
      BY <2>2, <3>2, <3>4 DEF Follows
  <2> QED
    BY <2>1, <2>2
<1> QED
  BY <1>2, <1>3 DEF Joined

\* The first part of a header that is joined from parts stands at its front.
LEMMA FlattenLeads ==
    ASSUME NEW n \in Nat \ {0}, NEW s \in [1 .. n -> Seq(Tokens)],
           \A k \in 2 .. n : s[k] # <<>> /\ s[k][1] = "semicolon"
    PROVE  \E rest : Follows(rest) /\ FlattenSeq(s) = s[1] \o rest
<1>1. PICK f \in [1 .. n -> Seq(Tokens)] :
        /\ f[1] = s[1]
        /\ \A k \in 2 .. n : f[k] = f[k - 1] \o s[k]
        /\ FlattenSeq(s) = f[n]
  BY FlattenSteps
<1>2. s[1] \in Seq(Tokens) /\ n - 1 \in Nat
  OBVIOUS
<1> DEFINE U == {k \in 0 .. n - 1 : \E rest : Follows(rest) /\ f[k + 1] = s[1] \o rest}
<1>3. 0 \in U
  <2>1. Follows(<<>>) /\ f[0 + 1] = s[1] \o <<>>
    BY <1>1, <1>2, EmptySeq, ConcatEmptySeq DEF Follows
  <2> QED
    BY <1>2, <2>1
<1>4. ASSUME NEW k \in 0 .. (n - 1) - 1, k \in U PROVE k + 1 \in U
  <2>1. k + 2 \in 2 .. n /\ (k + 2) - 1 = k + 1 /\ (k + 1) + 1 = k + 2 /\ k + 1 \in 0 .. n - 1
        /\ k + 2 \in 1 .. n
    BY <1>2
  <2>2. PICK rest : Follows(rest) /\ f[k + 1] = s[1] \o rest
    BY <1>4
  <2>3. s[k + 2] \in Seq(Tokens) /\ s[k + 2] # <<>> /\ s[k + 2][1] = "semicolon"
    BY <2>1
  <2>4. f[k + 2] = Joined(Joined(s[1], rest), s[k + 2])
    BY <1>1, <2>1, <2>2 DEF Joined
  <2>5. PICK more :
          Follows(more) /\ Joined(Joined(s[1], rest), s[k + 2]) = Joined(s[1], more)
    BY <1>2, <2>2, <2>3, FollowsMore
  <2>6. f[(k + 1) + 1] = s[1] \o more
    BY <2>1, <2>4, <2>5 DEF Joined
  <2> QED
    BY <2>1, <2>5, <2>6
<1> HIDE DEF U
<1>5. n - 1 \in U
  <2>1. 0 .. n - 1 \subseteq U
    BY <1>2, <1>3, <1>4, CountUp
  <2> QED
    BY <1>2, <2>1
<1>6. (n - 1) + 1 = n
  OBVIOUS
<1> QED
  BY <1>1, <1>5, <1>6 DEF U

-------------------------------------------------------------------------------
(* The cookies of a jar.                                                     *)

\* A cookie of the application, of one of its sessions, or of a page.
Shape(c) ==
    \/ c.name = "session=" /\ c.path = "/"
    \/ c.name = "other=" /\ c.path = "/" /\ c.text = <<>>
    \/ /\ c.name = "session=" /\ c.path = "/page" /\ c.expires = MaxNow + 1
       /\ \E ids \in PageIds : c.text = PageText(ids)

\* A jar has at most one cookie of a name for a path, and only cookies of the
\* application, of its sessions, and of the pages.
Shapely(cookies) ==
    /\ \A c \in cookies : Shape(c)
    /\ \A c, d \in cookies : c.name = d.name /\ c.path = d.path => c = d

\* Storing a cookie keeps the jar so.
LEMMA KeptShapely ==
    ASSUME NEW cookies, Shapely(cookies), NEW c,
           Shape([name |-> c.name, path |-> c.path, text |-> c.text, expires |-> c.expires])
    PROVE  Shapely(Kept(cookies, c))
<1> DEFINE k == [name |-> c.name, path |-> c.path, text |-> c.text, expires |-> c.expires]
<1>1. Shape(k) /\ k.name = c.name /\ k.path = c.path
  OBVIOUS
<1>2. \A d \in Kept(cookies, c) :
        d = k \/ (d \in cookies /\ (d.name # c.name \/ d.path # c.path))
  BY DEF Kept
<1> HIDE DEF k
<1>3. ASSUME NEW d \in Kept(cookies, c) PROVE Shape(d)
  BY <1>1, <1>2 DEF Shapely
<1>4. ASSUME NEW d \in Kept(cookies, c), NEW e \in Kept(cookies, c),
             d.name = e.name, d.path = e.path
      PROVE  d = e
  BY <1>1, <1>2, <1>4 DEF Shapely
<1> QED
  BY <1>3, <1>4 DEF Shapely

LEMMA StoredShapely ==
    ASSUME NEW cookies, Shapely(cookies)
    PROVE  /\ Shapely(Stored(cookies, SetOther))
           /\ \A s : Shapely(Stored(cookies, SetSession(s)))
<1>1. Shapely(Stored(cookies, SetOther))
  <2> DEFINE c == AtRoot(SetOther)
  <2>1. c.name = "other=" /\ c.path = "/" /\ c.text = <<>>
    BY DEF AtRoot, SetOther
  <2> HIDE DEF c
  <2>2. Shape([name |-> c.name, path |-> c.path, text |-> c.text, expires |-> c.expires])
    BY <2>1 DEF Shape
  <2>3. Shapely(Kept(cookies, c))
    BY <2>2, KeptShapely
  <2> QED
    BY <2>3 DEF Stored, c
<1>2. ASSUME NEW s PROVE Shapely(Stored(cookies, SetSession(s)))
  <2> DEFINE c == AtRoot(SetSession(s))
  <2>1. c.name = "session=" /\ c.path = "/"
    BY HeadersApart DEF AtRoot
  <2> HIDE DEF c
  <2>2. Shape([name |-> c.name, path |-> c.path, text |-> c.text, expires |-> c.expires])
    BY <2>1 DEF Shape
  <2>3. Shapely(Kept(cookies, c))
    BY <2>2, KeptShapely
  <2> QED
    BY <2>3 DEF Stored, c
<1> QED
  BY <1>1, <1>2

\* The inductive invariant that adds the shapes of the cookies.
JarShapes ==
    /\ now <= MaxNow
    /\ \A s \in sessions : s.id \in Ids
    /\ Shapely(jar)

LEMMA ShapesStep == Instants /\ FewHeaders /\ JarShapes /\ [Next]_vars => JarShapes'
<1> SUFFICES ASSUME Instants, FewHeaders, JarShapes, [Next]_vars PROVE JarShapes'
  OBVIOUS
<1>0. Shapely(jar)' = Shapely(jar')
  BY DEF Shapely, Shape, PageIds, PageText
<1>1. CASE Tick
  BY <1>0, <1>1, Bounds DEF Tick, JarShapes, Instants
<1>2. ASSUME NEW id \in Ids, Login(id) PROVE JarShapes'
  BY <1>0, <1>2 DEF Login, JarShapes
<1>3. ASSUME NEW response \in wire, Deliver(response) PROVE JarShapes'
  <2>1. jar' = FoldLeft(Stored, jar, response) /\ UNCHANGED <<now, sessions>>
    BY <1>3 DEF Deliver
  <2>2. Shapely(jar')
    <3>1. CASE response = <<SetOther>>
      <4>1. jar' = Stored(jar, SetOther)
        BY <2>1, <3>1, StoredOnce
      <4> QED
        BY <4>1, StoredShapely DEF JarShapes
    <3>2. ASSUME NEW s \in sessions, response = <<SetSession(s)>> PROVE Shapely(jar')
      <4>1. jar' = Stored(jar, SetSession(s))
        BY <2>1, <3>2, StoredOnce
      <4> QED
        BY <4>1, StoredShapely DEF JarShapes
    <3>3. ASSUME NEW s \in sessions, response = <<SetSession(s), SetOther>>
          PROVE  Shapely(jar')
      <4>1. jar' = Stored(Stored(jar, SetSession(s)), SetOther)
        <5>1. \A a, b : FoldLeft(Stored, jar, <<a, b>>) = Stored(Stored(jar, a), b)
          BY StoredTwice
        <5>2. FoldLeft(Stored, jar, <<SetSession(s), SetOther>>)
                = Stored(Stored(jar, SetSession(s)), SetOther)
          BY <5>1, Zenon
        <5> QED
          BY <2>1, <3>3, <5>2
      <4>2. Shapely(Stored(jar, SetSession(s)))
        BY StoredShapely DEF JarShapes
      <4> QED
        BY <4>1, <4>2, StoredShapely
    <3> QED
      BY <3>1, <3>2, <3>3 DEF FewHeaders, Drafts
  <2> QED
    BY <1>0, <2>1, <2>2 DEF JarShapes
<1>4. CASE Foreign
  <2>1. PICK ids \in PageIds :
          jar' = Kept(jar, [name |-> "session=", path |-> "/page", text |-> PageText(ids),
                            expires |-> MaxNow + 1])
    BY <1>4 DEF Foreign
  <2> DEFINE c == [name |-> "session=", path |-> "/page", text |-> PageText(ids),
                   expires |-> MaxNow + 1]
  <2>2. Shape([name |-> c.name, path |-> c.path, text |-> c.text, expires |-> c.expires])
    BY DEF Shape
  <2>3. jar' = Kept(jar, c)
    BY <2>1
  <2> HIDE DEF c
  <2>4. Shapely(jar')
    BY <2>2, <2>3, KeptShapely DEF JarShapes
  <2> QED
    BY <1>0, <1>4, <2>4 DEF Foreign, JarShapes
<1>5. CASE UNCHANGED <<now, sessions, jar>>
  BY <1>0, <1>5 DEF JarShapes
<1> QED
  BY <1>1, <1>2, <1>3, <1>4, <1>5 DEF Next, WriteSession, WriteOther, Respond, Lose, vars

-------------------------------------------------------------------------------
(* What is sent of a cookie.                                                 *)

\* A cookie of the application's session is sent as Set-Cookie spelt it.
LEMMA RootSent ==
    ASSUME NEW c, NEW id \in Ids, c.name = "session=", c.text = Text(id)
    PROVE  /\ Text(id) \in Seq(Ink) /\ Sent(c) = Cookie(Text(id), <<>>)
           /\ Decode(Text(id)) = {id}
<1>1. id \in 0 .. Weight[Width] - 1
  BY IdsFit
<1>2. id \in Nat
  BY <1>1
<1>3. Text(id) \in Seq(Ink)
  BY <1>2, TextInk
<1>4. Text(id) \o <<>> = Text(id)
  BY <1>3, ConcatEmptySeq
<1>5. Sent(c) = Cookie(Text(id), <<>>)
  BY <1>4 DEF Sent, Cookie
<1> QED
  BY <1>1, <1>3, <1>5, TextRead

\* A page's cookie is sent with the identifier that the page wrote, or with none.
LEMMA PageSent ==
    ASSUME NEW c, NEW ids \in PageIds, c.name = "session=", c.text = PageText(ids)
    PROVE  \E v \in Seq(Ink), pad \in {<<>>, <<"blank">>} :
             Sent(c) = Cookie(v, pad) /\ Decode(v) = ids
<1>1. CASE ids = {}
  <2>1. <<>> \in Seq(Ink) /\ <<>> \o <<>> = <<>>
    BY EmptySeq, ConcatEmptySeq
  <2>2. c.text = <<>>
    BY <1>1 DEF PageText
  <2>3. Sent(c) = Cookie(<<>>, <<>>)
    BY <2>1, <2>2 DEF Sent, Cookie
  <2> QED
    BY <1>1, <2>1, <2>3, NothingRead
<1>2. ASSUME NEW id \in Ids, ids = {id}
      PROVE  \E v \in Seq(Ink), pad \in {<<>>, <<"blank">>} :
               Sent(c) = Cookie(v, pad) /\ Decode(v) = ids
  <2> DEFINE v == <<"0x">> \o Text(id)
  <2>1. id \in 0 .. Weight[Width] - 1
    BY IdsFit
  <2>2. id \in Nat
    BY <2>1
  <2>3. Max(ids) = id
    BY <1>2, <2>2, GreatestOf
  <2>4. v \in Seq(Ink)
    <3>1. Text(id) \in Seq(Ink)
      BY <2>2, TextInk
    <3>2. "0x" \in Ink
      BY DEF Ink, Tokens
    <3>3. <<"0x">> \in Seq(Ink)
      BY <3>2
    <3> QED
      BY <3>1, <3>3, ConcatProperties
  <2>5. c.text = v \o <<"blank">>
    BY <1>2, <2>3 DEF PageText
  <2>6. Decode(v) = ids
    BY <1>2, <2>1, TextRead
  <2> HIDE DEF v
  <2>7. Sent(c) = Cookie(v, <<"blank">>)
    BY <2>5 DEF Sent, Cookie
  <2> QED
    BY <2>4, <2>6, <2>7
<1> QED
  BY <1>1, <1>2 DEF PageIds

LEMMA OtherSent ==
    ASSUME NEW c, c.name = "other=", c.text = <<>>
    PROVE  Sent(c) = Bare
<1>1. Bare \in Seq(Tokens)
  BY BareNamesNone
<1>2. Bare \o <<>> = Bare
  BY <1>1, ConcatEmptySeq
<1> QED
  BY <1>2 DEF Sent, Bare

LEMMA SentTokens ==
    ASSUME Instants, JarIsGiven, JarShapes, NEW c \in jar
    PROVE  Sent(c) \in Seq(Tokens)
<1>1. CASE c.name = "session=" /\ c.path = "/"
  <2>1. PICK s \in held : c.text = Text(s.id)
    BY <1>1 DEF JarIsGiven, Root
  <2>2. s.id \in Ids
    BY DEF Instants, JarShapes
  <2>3. Text(s.id) \in Seq(Ink) /\ Sent(c) = Cookie(Text(s.id), <<>>)
    BY <1>1, <2>1, <2>2, RootSent
  <2>4. Cookie(Text(s.id), <<>>) \in Seq(Tokens)
    BY <2>3, CookieTokens
  <2> QED
    BY <2>3, <2>4
<1>2. CASE c.name = "other=" /\ c.text = <<>>
  BY <1>2, OtherSent, BareNamesNone
<1>3. CASE c.name = "session=" /\ \E ids \in PageIds : c.text = PageText(ids)
  <2>1. PICK ids \in PageIds : c.text = PageText(ids)
    BY <1>3
  <2>2. PICK v \in Seq(Ink), pad \in {<<>>, <<"blank">>} : Sent(c) = Cookie(v, pad)
    BY <1>3, <2>1, PageSent
  <2>3. Cookie(v, pad) \in Seq(Tokens)
    BY CookieTokens
  <2> QED
    BY <2>2, <2>3
<1> QED
  BY <1>1, <1>2, <1>3 DEF JarShapes, Shapely, Shape

-------------------------------------------------------------------------------
(* The cookies of a request.                                                 *)

\* A jar has at most three cookies.
LEMMA FreshIsFinite ==
    ASSUME Shapely(jar)
    PROVE  IsFiniteSet(Fresh)
<1> DEFINE rank == [c \in Fresh |-> IF c.name = "other=" THEN 1 ELSE IF c.path = "/" THEN 2 ELSE 3]
<1>1. rank \in [Fresh -> 1 .. 3]
  OBVIOUS
<1>2. ASSUME NEW c \in Fresh, NEW d \in Fresh, rank[c] = rank[d] PROVE c = d
  <2>1. c \in jar /\ d \in jar
    BY DEF Fresh
  <2>2. (c.name = "other=") = (d.name = "other=") /\ (c.name # "other=" => (c.path = "/") = (d.path = "/"))
    BY <1>2
  <2>3. Shape(c) /\ Shape(d)
    BY <2>1 DEF Shapely
  <2>4. c.name = d.name /\ c.path = d.path
    BY <2>2, <2>3 DEF Shape
  <2> QED
    BY <2>1, <2>4 DEF Shapely
<1>3. rank \in Injection(Fresh, 1 .. 3)
  BY <1>1, <1>2 DEF Injection, IsInjective
<1>4. IsFiniteSet(1 .. 3)
  <2>1. 1 \in Int /\ 3 \in Int
    OBVIOUS
  <2> QED
    BY <2>1, FS_Interval, Zenon
<1> QED
  BY <1>3, <1>4, FS_Injection

\* A request has every fresh cookie once.
LEMMA CookiesAreFresh ==
    ASSUME Shapely(jar), NEW cookies \in Cookies
    PROVE  \E n \in Nat :
             /\ cookies \in [1 .. n -> Fresh]
             /\ \A i, j \in 1 .. n : cookies[i] = cookies[j] => i = j
             /\ \A c \in Fresh : \E k \in 1 .. n : cookies[k] = c
             /\ \A j, k \in 1 .. n : j < k => ~(cookies[j].path = "/" /\ cookies[k].path = "/page")
<1> DEFINE n == Cardinality(Fresh)
<1>1. IsFiniteSet(Fresh) /\ n \in Nat
  BY FreshIsFinite, FS_CardinalityType
<1>2. cookies \in [1 .. n -> Fresh] /\ \A i, j \in 1 .. n : cookies[i] = cookies[j] => i = j
  BY DEF Cookies, SetToSeqs
<1>3. \A j, k \in 1 .. n : j < k => ~(cookies[j].path = "/" /\ cookies[k].path = "/page")
  BY <1>2 DEF Cookies
<1>4. Cardinality(1 .. n) = n
  BY <1>1, FS_Interval
<1>5. cookies \in Injection(1 .. n, Fresh)
  BY <1>2 DEF Injection, IsInjective
<1>6. cookies \in Surjection(1 .. n, Fresh)
  BY <1>1, <1>4, <1>5, FS_Injection
<1> QED
  BY <1>1, <1>2, <1>3, <1>6 DEF Surjection

\* A cookie, and what joins it to the one before it.
Separator == <<"semicolon", "blank">>

SentOf(cookies) == [k \in DOMAIN cookies |-> Sent(cookies[k])]
PartsOf(cookies) ==
    [k \in DOMAIN cookies |-> (IF k = 1 THEN <<>> ELSE Separator) \o Sent(cookies[k])]

LEMMA HeadersOf ==
    ASSUME NEW cookies
    PROVE  Headers(cookies) = {<<FlattenSeq(PartsOf(cookies))>>, SentOf(cookies)}
<1> DEFINE sent == SentOf(cookies)
<1>1. DOMAIN sent = DOMAIN cookies /\ \A k \in DOMAIN cookies : sent[k] = Sent(cookies[k])
  BY DEF SentOf
<1>2. PartsOf(cookies)
        = [k \in DOMAIN sent |-> (IF k = 1 THEN <<>> ELSE <<"semicolon", "blank">>) \o sent[k]]
  BY <1>1, Zenon DEF PartsOf, Separator
<1> QED
  BY <1>2, Zenon DEF Headers, SentOf

LEMMA Separated ==
    ASSUME NEW x \in Seq(Tokens)
    PROVE  /\ Separator \o x \in Seq(Tokens)
           /\ Len(Separator \o x) = 2 + Len(x)
           /\ (Separator \o x)[1] = "semicolon" /\ (Separator \o x)[2] = "blank"
           /\ \A k \in 1 .. Len(x) : (Separator \o x)[2 + k] = x[k]
<1>1. Separator \in Seq(Tokens) /\ Len(Separator) = 2
      /\ Separator[1] = "semicolon" /\ Separator[2] = "blank"
  BY DEF Separator, Tokens
<1>2. Len(x) \in Nat
  BY LenProperties
<1> DEFINE y == Separator \o x
<1>3. /\ y \in Seq(Tokens) /\ Len(y) = 2 + Len(x)
      /\ \A i \in 1 .. 2 + Len(x) : y[i] = IF i <= 2 THEN Separator[i] ELSE x[i - 2]
  <2>1. /\ y \in Seq(Tokens) /\ Len(y) = Len(Separator) + Len(x)
        /\ \A i \in 1 .. Len(Separator) + Len(x) :
             y[i] = IF i <= Len(Separator) THEN Separator[i] ELSE x[i - Len(Separator)]
    BY <1>1, ConcatProperties
  <2> HIDE DEF y
  <2> QED
    BY <1>1, <2>1
<1> HIDE DEF y
<1>4. 1 \in 1 .. 2 + Len(x) /\ 2 \in 1 .. 2 + Len(x)
  BY <1>2
<1>5. ASSUME NEW k \in 1 .. Len(x) PROVE y[2 + k] = x[k]
  <2>1. 2 + k \in 1 .. 2 + Len(x) /\ ~(2 + k <= 2) /\ (2 + k) - 2 = k
    BY <1>2
  <2> QED
    BY <1>3, <2>1
<1> QED
  BY <1>1, <1>3, <1>4, <1>5 DEF y

\* The parts that one header joins: every cookie but the first after a semicolon.
LEMMA Parts ==
    ASSUME Instants, JarIsGiven, JarShapes,
           NEW n \in Nat \ {0}, NEW cookies \in [1 .. n -> jar]
    PROVE  /\ PartsOf(cookies) \in [1 .. n -> Seq(Tokens)]
           /\ PartsOf(cookies)[1] = Sent(cookies[1])
           /\ \A k \in 2 .. n : /\ PartsOf(cookies)[k] = Separator \o Sent(cookies[k])
                                /\ PartsOf(cookies)[k] # <<>>
                                /\ PartsOf(cookies)[k][1] = "semicolon"
<1>1. \A k \in 1 .. n : Sent(cookies[k]) \in Seq(Tokens)
  BY SentTokens
<1>2. 1 \in 1 .. n /\ DOMAIN cookies = 1 .. n /\ \A k \in 2 .. n : k \in 1 .. n /\ k # 1
  OBVIOUS
<1>3. PartsOf(cookies)[1] = Sent(cookies[1])
  <2>1. PartsOf(cookies)[1] = <<>> \o Sent(cookies[1])
    BY <1>2 DEF PartsOf
  <2> QED
    BY <1>1, <1>2, <2>1, ConcatEmptySeq
<1>4. \A k \in 2 .. n : PartsOf(cookies)[k] = Separator \o Sent(cookies[k])
  BY <1>2 DEF PartsOf
<1>5. ASSUME NEW k \in 2 .. n
      PROVE  /\ PartsOf(cookies)[k] \in Seq(Tokens) /\ PartsOf(cookies)[k] # <<>>
             /\ PartsOf(cookies)[k][1] = "semicolon"
  <2>1. Sent(cookies[k]) \in Seq(Tokens)
    BY <1>1, <1>2
  <2>2. \A x \in Seq(Tokens) : /\ Separator \o x \in Seq(Tokens)
                               /\ Len(Separator \o x) = 2 + Len(x)
                               /\ (Separator \o x)[1] = "semicolon"
    BY Separated
  <2> DEFINE y == Separator \o Sent(cookies[k])
  <2>3. y \in Seq(Tokens) /\ Len(y) = 2 + Len(Sent(cookies[k])) /\ y[1] = "semicolon"
    BY <2>1, <2>2
  <2>4. Len(Sent(cookies[k])) \in Nat
    BY <2>1, LenProperties
  <2>5. PartsOf(cookies)[k] = y
    BY <1>4
  <2> HIDE DEF y
  <2>6. y # <<>>
    BY <2>3, <2>4, EmptySeq
  <2> QED
    BY <2>3, <2>5, <2>6
<1>6. \A k \in 1 .. n : PartsOf(cookies)[k] \in Seq(Tokens)
  <2>1. \A k \in 1 .. n : k # 1 => k \in 2 .. n
    OBVIOUS
  <2> QED
    BY <1>1, <1>2, <1>3, <1>5, <2>1
<1>7. PartsOf(cookies) \in [1 .. n -> Seq(Tokens)]
  BY <1>2, <1>6 DEF PartsOf
<1> QED
  BY <1>3, <1>4, <1>5, <1>7

\* If a request leads with a session cookie, that one is read.
LEMMA LeadAnswer ==
    ASSUME Instants, JarIsGiven, JarShapes,
           NEW n \in Nat \ {0}, NEW cookies \in [1 .. n -> jar],
           NEW v \in Seq(Ink), NEW pad \in {<<>>, <<"blank">>},
           Sent(cookies[1]) = Cookie(v, pad), NEW headers \in Headers(cookies)
    PROVE  SessionId(headers) = Decode(v)
<1> DEFINE parts == PartsOf(cookies)
           c == Cookie(v, pad)
<1>1. /\ parts \in [1 .. n -> Seq(Tokens)] /\ parts[1] = c
      /\ \A k \in 2 .. n : parts[k] # <<>> /\ parts[k][1] = "semicolon"
  BY Parts
<1> HIDE DEF parts, c
<1>2. CASE headers = <<FlattenSeq(parts)>>
  <2>1. PICK rest : Follows(rest) /\ FlattenSeq(parts) = c \o rest
    BY <1>1, FlattenLeads
  <2>2. c \o rest \in Seq(Tokens) /\ Leads(c \o rest, v)
    BY <2>1, CookieLeads DEF c
  <2> DEFINE h == c \o rest
  <2>3. h \in Seq(Tokens) /\ Leads(h, v) /\ headers = <<h>>
    BY <1>2, <2>1, <2>2
  <2> HIDE DEF h
  <2>4. Named(h) # {} /\ Decode(ValueAt(h, Min(Named(h)))) = Decode(v)
    BY <2>3, LeadingRead
  <2> QED
    BY <2>3, <2>4, JoinedRead
<1>3. CASE headers = SentOf(cookies)
  <2>1. c \in Seq(Tokens) /\ Follows(<<>>)
    BY CookieTokens, EmptySeq DEF c, Follows
  <2>2. c \o <<>> = c /\ Leads(c \o <<>>, v)
    BY <2>1, CookieLeads, ConcatEmptySeq DEF c
  <2>3. Named(c) # {} /\ Decode(ValueAt(c, Min(Named(c)))) = Decode(v)
    BY <2>1, <2>2, LeadingRead
  <2>4. DOMAIN headers = 1 .. n /\ headers[1] = c /\ 1 \in 1 .. n /\ \A k \in 1 .. 1 - 1 : FALSE
    BY <1>3 DEF SentOf, c
  <2>5. SessionId(headers) = Decode(ValueAt(headers[1], Min(Named(headers[1]))))
    BY <2>3, <2>4, SeparateRead
  <2> QED
    BY <2>3, <2>4, <2>5
<1> QED
  BY <1>2, <1>3, HeadersOf DEF parts

\* A cookie of another name before it makes no difference.
LEMMA SecondRead ==
    ASSUME NEW x \in Seq(Tokens), NEW v \in Seq(Ink), x = Cookie(v, <<>>)
    PROVE  /\ Bare \o (Separator \o x) \in Seq(Tokens)
           /\ Named(Bare \o (Separator \o x)) # {}
           /\ Decode(ValueAt(Bare \o (Separator \o x), Min(Named(Bare \o (Separator \o x)))))
                = Decode(v)
<1> DEFINE y == Separator \o x
           h == Bare \o y
           m == Len(v)
<1>1. /\ y \in Seq(Tokens) /\ Len(y) = 2 + Len(x)
      /\ y[1] = "semicolon" /\ y[2] = "blank" /\ \A k \in 1 .. Len(x) : y[2 + k] = x[k]
  BY Separated
<1>2. /\ m \in Nat /\ Len(x) = 1 + m /\ x[1] = "session="
      /\ \A k \in 1 .. m : x[1 + k] = v[k]
  <2>1. Len(<<>>) = 0
    BY EmptySeq
  <2> QED
    BY <2>1, CookieTokens, LenProperties
<1> HIDE DEF y, m
<1>3. /\ h \in Seq(Tokens) /\ Len(h) = 1 + Len(y)
      /\ \A i \in 1 .. 1 + Len(y) : h[i] = IF i <= 1 THEN Bare[i] ELSE y[i - 1]
  <2>1. /\ h \in Seq(Tokens) /\ Len(h) = Len(Bare) + Len(y)
        /\ \A i \in 1 .. Len(Bare) + Len(y) :
             h[i] = IF i <= Len(Bare) THEN Bare[i] ELSE y[i - Len(Bare)]
    <3>1. Bare \in Seq(Tokens) /\ y \in Seq(Tokens)
      BY <1>1, BareNamesNone
    <3> QED
      BY <3>1, ConcatProperties
  <2> HIDE DEF h
  <2> QED
    BY <2>1, BareNamesNone
<1> HIDE DEF h
<1>4. Len(h) = 4 + m /\ DOMAIN h = 1 .. 4 + m
  BY <1>1, <1>2, <1>3, LenProperties
<1>5. h[1] = "other="
  BY <1>1, <1>2, <1>3, BareNamesNone
<1>6. h[2] = "semicolon" /\ h[3] = "blank"
  <2>1. 2 \in 1 .. 1 + Len(y) /\ 3 \in 1 .. 1 + Len(y) /\ 2 - 1 = 1 /\ 3 - 1 = 2
        /\ ~(2 <= 1) /\ ~(3 <= 1)
    BY <1>1, <1>2
  <2> QED
    BY <1>1, <1>3, <2>1
<1>7. ASSUME NEW k \in 1 .. 1 + m PROVE h[3 + k] = x[k]
  <2>1. 3 + k \in 1 .. 1 + Len(y) /\ ~(3 + k <= 1) /\ (3 + k) - 1 = 2 + k /\ k \in 1 .. Len(x)
    BY <1>1, <1>2
  <2> QED
    BY <1>1, <1>3, <2>1
<1>8. h[4] = "session="
  <2>1. 1 \in 1 .. 1 + m /\ 3 + 1 = 4
    BY <1>2
  <2> QED
    BY <1>2, <1>7, <2>1
<1>9. ASSUME NEW k \in 1 .. m PROVE h[4 + k] = v[k]
  <2>1. 1 + k \in 1 .. 1 + m /\ 3 + (1 + k) = 4 + k
    BY <1>2
  <2> QED
    BY <1>2, <1>7, <2>1
<1>10. Starts(h) = {1, 3}
  <2>1. \A k \in DOMAIN h : h[k] = "semicolon" => k = 2
    <3> SUFFICES ASSUME NEW k \in DOMAIN h, h[k] = "semicolon", k # 2 PROVE FALSE
      OBVIOUS
    <3>1. k \in Nat /\ (k = 1 \/ k = 3 \/ k = 4 \/ k > 4) /\ k <= 4 + m
      BY <1>2, <1>4
    <3>2. k > 4
      BY <1>5, <1>6, <1>8, <3>1
    <3>3. k - 4 \in 1 .. m /\ 4 + (k - 4) = k
      BY <1>2, <3>1, <3>2
    <3>4. h[k] = v[k - 4] /\ v[k - 4] \in Ink
      <4>1. h[4 + (k - 4)] = v[k - 4]
        BY <1>9, <3>3
      <4>2. v[k - 4] \in Ink
        BY <3>3, ElementOfSeq DEF m
      <4> QED
        BY <3>3, <4>1, <4>2
    <3> QED
      BY <3>4 DEF Ink
  <2>2. {k \in DOMAIN h : h[k] = "semicolon"} = {2}
    BY <1>2, <1>4, <1>6, <2>1
  <2> QED
    BY <2>2 DEF Starts
<1>11. 1 \notin Named(h)
  <2>1. 1 \in 1 .. Len(h) /\ 1 \in 1 .. Len(h) /\ h[1 + 1] = "semicolon"
        /\ \A k \in 1 .. 1 : h[k] # "semicolon"
    BY <1>2, <1>4, <1>5, <1>6
  <2>2. Piece(h, 1) = SubSeq(h, 1, 1)
    BY <1>3, <2>1, PieceEnds
  <2> DEFINE p == SubSeq(h, 1, 1)
  <2>3. p \in Seq(Tokens) /\ Len(p) = 1 /\ p[1] = "other="
    <3>1. \A i \in 1 .. 1 : h[i] \in Tokens
      BY <1>3, <2>1, ElementOfSeq
    <3>2. p \in Seq(Tokens) /\ Len(p) = (IF 1 <= 1 THEN 1 - 1 + 1 ELSE 0)
          /\ \A i \in 1 .. 1 - 1 + 1 : p[i] = h[1 + i - 1]
      BY <3>1, SubSeqProperties
    <3> QED
      BY <1>5, <3>2
  <2> HIDE DEF p
  <2>4. p = Bare
    BY <2>3, BareNamesNone, SeqEqual
  <2>5. Named(Bare) = {} /\ Starts(Bare) = {1} /\ Piece(Bare, 1) = Bare
    <3>1. Named(Bare) = {} /\ Bare \in Seq(Tokens) /\ Len(Bare) = 1 /\ Bare[1] = "other="
      BY BareNamesNone
    <3>2. DOMAIN Bare = {1}
      BY DEF Bare
    <3>3. Starts(Bare) = {1}
      BY <3>1, <3>2 DEF Starts
    <3>4. 1 \in 1 .. Len(Bare) /\ Len(Bare) = 1 /\ \A k \in 1 .. 1 : Bare[k] # "semicolon"
      BY <3>1
    <3>5. Piece(Bare, 1) = SubSeq(Bare, 1, 1)
      BY <3>1, <3>4, PieceEnds
    <3>6. SubSeq(Bare, 1, Len(Bare)) = Bare
      BY <3>1, SubSeqFull
    <3> QED
      BY <3>1, <3>3, <3>5, <3>6
  <2>6. ~ IsPrefix(<<"session=">>, Trimmed(Bare))
    BY <2>5 DEF Named
  <2> QED
    BY <2>2, <2>4, <2>6 DEF Named, p
<1>12. 3 \in Named(h) /\ ValueAt(h, 3) = v
  <2>1. 3 \in Starts(h) /\ 4 \in 3 .. Len(h) /\ Len(h) \in 4 + Len(v) .. Len(h)
    BY <1>2, <1>4, <1>10 DEF m
  <2>2. Names(h, 3, 4, v, Len(h))
    <3>1. \A k \in 3 .. 4 - 1 : h[k] = "blank"
      BY <1>6
    <3>2. \A k \in 4 + Len(v) + 1 .. Len(h) : FALSE
      BY <1>2, <1>4 DEF m
    <3>3. \A k \in 1 .. Len(v) : h[4 + k] = v[k]
      BY <1>9 DEF m
    <3> QED
      BY <1>8, <3>1, <3>2, <3>3 DEF Names
  <2> QED
    BY <1>3, <2>1, <2>2, PieceValue
<1>13. Named(h) = {3}
  BY <1>10, <1>11, <1>12 DEF Named
<1>14. Min({3}) = 3
  BY LeastOf
<1> QED
  BY <1>3, <1>12, <1>13, <1>14 DEF h, y

LEMMA SecondAnswer ==
    ASSUME Instants, JarIsGiven, JarShapes, NEW cookies \in [1 .. 2 -> jar],
           NEW v \in Seq(Ink), Sent(cookies[1]) = Bare, Sent(cookies[2]) = Cookie(v, <<>>),
           NEW headers \in Headers(cookies)
    PROVE  SessionId(headers) = Decode(v)
<1> DEFINE parts == PartsOf(cookies)
           x == Cookie(v, <<>>)
           h == Bare \o (Separator \o x)
<1>1. /\ parts \in [1 .. 2 -> Seq(Tokens)] /\ parts[1] = Bare /\ parts[2] = Separator \o x
  <2>1. 2 \in Nat \ {0} /\ 2 \in 2 .. 2
    OBVIOUS
  <2> HIDE DEF parts, x
  <2>2. /\ PartsOf(cookies) \in [1 .. 2 -> Seq(Tokens)]
        /\ PartsOf(cookies)[1] = Sent(cookies[1])
        /\ PartsOf(cookies)[2] = Separator \o Sent(cookies[2])
    BY <2>1, Parts, Zenon
  <2> QED
    BY <2>2 DEF parts, x
<1>2. x \in Seq(Tokens)
  BY CookieTokens
<1> HIDE DEF parts
<1>3. CASE headers = <<FlattenSeq(parts)>>
  <2>1. PICK f \in [1 .. 2 -> Seq(Tokens)] :
          /\ f[1] = parts[1]
          /\ \A k \in 2 .. 2 : f[k] = f[k - 1] \o parts[k]
          /\ FlattenSeq(parts) = f[2]
    <3>1. 2 \in Nat \ {0}
      OBVIOUS
    <3> QED
      BY <1>1, <3>1, FlattenSteps
  <2>2. FlattenSeq(parts) = h
    <3>1. 2 \in 2 .. 2 /\ 2 - 1 = 1
      OBVIOUS
    <3>2. f[2] = f[1] \o parts[2]
      BY <2>1, <3>1
    <3> QED
      BY <1>1, <2>1, <3>2
  <2>3. Named(h) # {} /\ Decode(ValueAt(h, Min(Named(h)))) = Decode(v)
    <3> HIDE DEF x
    <3>1. x = Cookie(v, <<>>)
      BY DEF x
    <3> QED
      BY <1>2, <3>1, SecondRead
  <2> HIDE DEF h
  <2> QED
    BY <1>3, <2>2, <2>3, JoinedRead
<1>4. CASE headers = SentOf(cookies)
  <2>1. Named(x) # {} /\ Decode(ValueAt(x, Min(Named(x)))) = Decode(v)
    <3>1. Follows(<<>>)
      BY EmptySeq DEF Follows
    <3>2. x \o <<>> = x /\ Leads(x \o <<>>, v)
      BY <1>2, <3>1, CookieLeads, ConcatEmptySeq
    <3> HIDE DEF x
    <3> QED
      BY <1>2, <3>2, LeadingRead
  <2>2. DOMAIN headers = 1 .. 2 /\ headers[1] = Bare /\ headers[2] = x
    BY <1>4 DEF SentOf
  <2> HIDE DEF x
  <2>3. 2 \in Nat /\ 2 \in 1 .. 2 /\ \A k \in 1 .. 2 - 1 : Named(headers[k]) = {}
    <3>1. \A k \in 1 .. 2 - 1 : k = 1
      OBVIOUS
    <3> QED
      BY <2>2, <3>1, BareNamesNone
  <2>4. SessionId(headers) = Decode(ValueAt(headers[2], Min(Named(headers[2]))))
    BY <2>1, <2>2, <2>3, SeparateRead
  <2> QED
    BY <2>1, <2>2, <2>4
<1> QED
  BY <1>3, <1>4, HeadersOf DEF parts

LEMMA NothingNamed == Named(<<>>) = {}
<1>1. <<>> \in Seq(Tokens) /\ Len(<<>>) = 0 /\ DOMAIN <<>> = {}
  BY EmptySeq
<1>2. Starts(<<>>) = {1}
  BY <1>1 DEF Starts
<1>3. Trimmed(Piece(<<>>, 1)) = <<>>
  <2>1. Piece(<<>>, 1) = SubSeq(<<>>, 1, 0)
    <3>1. {k \in 1 .. Len(<<>>) : <<>>[k] = "semicolon"} = {}
      BY <1>1
    <3> QED
      BY <1>1, <3>1, Zenon DEF Piece
  <2>2. SubSeq(<<>>, 1, 0) = <<>>
    BY <1>1, SubSeqFull
  <2> QED
    BY <1>1, <2>1, <2>2 DEF Trimmed
<1>4. ~ IsPrefix(<<"session=">>, <<>>)
  BY <1>1, PrefixOne
<1> QED
  BY <1>2, <1>3, <1>4 DEF Named

\* Without a session cookie nothing is read.
LEMMA NoAnswer ==
    ASSUME Instants, JarIsGiven, JarShapes, NEW n \in 0 .. 1, NEW cookies \in [1 .. n -> jar],
           n = 1 => Sent(cookies[1]) = Bare, NEW headers \in Headers(cookies)
    PROVE  SessionId(headers) = {}
<1>1. CASE n = 0
  <2>1. DOMAIN cookies = {}
    BY <1>1
  <2>2. PartsOf(cookies) = <<>> /\ SentOf(cookies) = <<>>
    BY <2>1 DEF PartsOf, SentOf
  <2>3. FlattenSeq(<<>>) = <<>>
    BY DEF FlattenSeq
  <2>4. headers = <<<<>>>> \/ headers = <<>>
    BY <2>2, <2>3, HeadersOf
  <2>5. SessionId(<<<<>>>>) = {}
    BY NothingNamed, JoinedRead
  <2>6. SessionId(<<>>) = {}
    <3>1. DOMAIN <<>> = {}
      OBVIOUS
    <3> QED
      BY <3>1, NoneRead
  <2> QED
    BY <2>4, <2>5, <2>6
<1>2. CASE n = 1
  <2>1. 1 \in Nat \ {0} /\ cookies \in [1 .. 1 -> jar]
    BY <1>2
  <2>2. PartsOf(cookies) \in [1 .. 1 -> Seq(Tokens)] /\ PartsOf(cookies)[1] = Bare
    <3>1. /\ PartsOf(cookies) \in [1 .. 1 -> Seq(Tokens)]
          /\ PartsOf(cookies)[1] = Sent(cookies[1])
      BY <2>1, Parts, Zenon
    <3> QED
      BY <1>2, <3>1
  <2>3. FlattenSeq(PartsOf(cookies)) = Bare
    <3>1. PartsOf(cookies) \in [1 .. 1 -> Seq(Tokens)]
      BY <2>2
    <3>2. \E f \in [1 .. 1 -> Seq(Tokens)] :
            /\ f[1] = PartsOf(cookies)[1]
            /\ \A k \in 2 .. 1 : f[k] = f[k - 1] \o PartsOf(cookies)[k]
            /\ FlattenSeq(PartsOf(cookies)) = f[1]
      BY <2>1, <3>1, FlattenSteps, Zenon
    <3> QED
      BY <2>2, <3>2, Zenon
  <2>4. SentOf(cookies) = <<Bare>>
    <3>1. DOMAIN cookies = 1 .. 1
      BY <2>1
    <3> QED
      BY <1>2, <3>1 DEF SentOf
  <2>5. headers = <<Bare>>
    BY <2>3, <2>4, HeadersOf
  <2> QED
    BY <2>5, BareNamesNone, JoinedRead
<1> QED
  BY <1>1, <1>2

-------------------------------------------------------------------------------
(* The session that a browser presents.                                      *)

\* A page's cookie comes first and decides alone.
LEMMA PageFirst ==
    ASSUME Instants, JarIsGiven, JarShapes, NEW answer \in Answers, NEW c \in jar,
           c.path = "/page", NEW ids \in PageIds, c.text = PageText(ids)
    PROVE  answer = ids
<1>1. PICK cookies \in Cookies : \E headers \in Headers(cookies) : answer = SessionId(headers)
  BY DEF Answers
<1>01. PICK headers \in Headers(cookies) : answer = SessionId(headers)
  BY <1>1
<1>2. PICK n \in Nat :
        /\ cookies \in [1 .. n -> Fresh]
        /\ \A d \in Fresh : \E k \in 1 .. n : cookies[k] = d
        /\ \A j, k \in 1 .. n : j < k => ~(cookies[j].path = "/" /\ cookies[k].path = "/page")
  BY CookiesAreFresh DEF JarShapes
<1>3. c.name = "session=" /\ c.expires = MaxNow + 1
  BY DEF JarShapes, Shapely, Shape
<1>4. c \in Fresh
  <2>1. MaxNow + 1 > now
    BY Bounds DEF Instants, JarShapes
  <2> QED
    BY <1>3, <2>1 DEF Fresh
<1>5. PICK k \in 1 .. n : cookies[k] = c
  BY <1>2, <1>4
<1>6. n \in Nat \ {0} /\ 1 \in 1 .. n
  OBVIOUS
<1>7. cookies \in [1 .. n -> jar] /\ cookies[1] \in jar
  BY <1>2, <1>6 DEF Fresh
<1>8. cookies[1].path # "/"
  <2> SUFFICES ASSUME cookies[1].path = "/" PROVE FALSE
    OBVIOUS
  <2>1. 1 < k
    BY <1>5
  <2> QED
    BY <1>2, <1>5, <1>6, <2>1
<1>9. cookies[1] = c
  <2>1. Shape(cookies[1])
    BY <1>7 DEF JarShapes, Shapely
  <2>2. cookies[1].name = "session=" /\ cookies[1].path = "/page"
    BY <1>8, <2>1 DEF Shape
  <2> QED
    BY <1>3, <1>7, <2>2 DEF JarShapes, Shapely
<1>10. PICK v \in Seq(Ink), pad \in {<<>>, <<"blank">>} : Sent(c) = Cookie(v, pad) /\ Decode(v) = ids
  BY <1>3, PageSent
<1>11. SessionId(headers) = Decode(v)
  <2>1. Sent(cookies[1]) = Cookie(v, pad)
    BY <1>9, <1>10
  <2> QED
    BY <1>6, <1>7, <2>1, LeadAnswer
<1> QED
  BY <1>01, <1>10, <1>11

\* Without a page's cookie, the two kinds of cookie that a request may have.
LEMMA RootKinds ==
    ASSUME JarShapes, \A c \in jar : c.path # "/page"
    PROVE  /\ \A c \in Fresh : \/ c \in Root(jar)
                               \/ c.name = "other=" /\ c.path = "/" /\ c.text = <<>>
           /\ \A c, d \in Fresh : c.name = d.name => c = d
<1>1. \A c \in Fresh : c \in jar /\ Shape(c) /\ c.path = "/"
  BY DEF Fresh, JarShapes, Shapely, Shape
<1> QED
  BY <1>1 DEF JarShapes, Shapely, Shape, Root

\* Otherwise the cookie at the root is read, wherever it stands.
LEMMA RootAnswer ==
    ASSUME Instants, JarIsGiven, JarShapes, NEW answer \in Answers,
           \A c \in jar : c.path # "/page",
           NEW c \in Fresh, c \in Root(jar), NEW id \in Ids, c.text = Text(id)
    PROVE  answer = {id}
<1>1. PICK cookies \in Cookies : \E headers \in Headers(cookies) : answer = SessionId(headers)
  BY DEF Answers
<1>01. PICK headers \in Headers(cookies) : answer = SessionId(headers)
  BY <1>1
<1>2. PICK n \in Nat :
        /\ cookies \in [1 .. n -> Fresh]
        /\ \A i, j \in 1 .. n : cookies[i] = cookies[j] => i = j
        /\ \A d \in Fresh : \E k \in 1 .. n : cookies[k] = d
  BY CookiesAreFresh DEF JarShapes
<1>3. Text(id) \in Seq(Ink) /\ Sent(c) = Cookie(Text(id), <<>>) /\ Decode(Text(id)) = {id}
  BY RootSent DEF Root
<1>4. PICK k \in 1 .. n : cookies[k] = c
  BY <1>2
<1>5. n \in Nat \ {0} /\ 1 \in 1 .. n /\ cookies \in [1 .. n -> jar]
  BY <1>2 DEF Fresh
<1>6. CASE k = 1
  <2>1. SessionId(headers) = Decode(Text(id))
    <3>1. Sent(cookies[1]) = Cookie(Text(id), <<>>)
      BY <1>3, <1>4, <1>6
    <3> QED
      BY <1>3, <1>5, <3>1, LeadAnswer
  <2> QED
    BY <1>01, <1>3, <2>1
<1>7. CASE k # 1
  <2>1. \A j \in 1 .. n : j # k => cookies[j].name = "other=" /\ cookies[j].text = <<>>
    <3> SUFFICES ASSUME NEW j \in 1 .. n, j # k
                 PROVE  cookies[j].name = "other=" /\ cookies[j].text = <<>>
      OBVIOUS
    <3>1. cookies[j] \in Fresh /\ cookies[j] # c
      BY <1>2, <1>4
    <3>2. cookies[j] \notin Root(jar)
      BY <3>1, RootKinds DEF Root
    <3> QED
      BY <3>1, <3>2, RootKinds
  <2>2. \A j \in 1 .. n : j = 1 \/ j = k
    <3> SUFFICES ASSUME NEW j \in 1 .. n, j # 1, j # k PROVE FALSE
      OBVIOUS
    <3>1. cookies[j].name = cookies[1].name /\ cookies[j] \in Fresh /\ cookies[1] \in Fresh
      BY <1>2, <1>5, <1>7, <2>1
    <3>2. cookies[j] = cookies[1]
      BY <3>1, RootKinds
    <3> QED
      BY <1>2, <1>5, <3>2
  <2>3. n = 2 /\ k = 2
    <3>1. k \in Nat /\ k >= 2 /\ k <= n
      BY <1>7
    <3>2. 2 \in 1 .. n
      BY <3>1
    <3>3. k = 2
      BY <2>2, <3>2
    <3>4. n \in 1 .. n
      BY <1>5
    <3>5. n = 2
      BY <2>2, <3>1, <3>3, <3>4
    <3> QED
      BY <3>3, <3>5
  <2>4. Sent(cookies[1]) = Bare
    BY <1>5, <1>7, <2>1, OtherSent
  <2>5. cookies \in [1 .. 2 -> jar] /\ Sent(cookies[2]) = Cookie(Text(id), <<>>)
    BY <1>3, <1>4, <1>5, <2>3
  <2>6. SessionId(headers) = Decode(Text(id))
    BY <1>3, <2>4, <2>5, SecondAnswer
  <2> QED
    BY <1>01, <1>3, <2>6
<1> QED
  BY <1>6, <1>7

LEMMA EmptyAnswer ==
    ASSUME Instants, JarIsGiven, JarShapes, NEW answer \in Answers,
           \A c \in jar : c.path # "/page", \A c \in Fresh : c \notin Root(jar)
    PROVE  answer = {}
<1>1. PICK cookies \in Cookies : \E headers \in Headers(cookies) : answer = SessionId(headers)
  BY DEF Answers
<1>01. PICK headers \in Headers(cookies) : answer = SessionId(headers)
  BY <1>1
<1>2. PICK n \in Nat :
        /\ cookies \in [1 .. n -> Fresh]
        /\ \A i, j \in 1 .. n : cookies[i] = cookies[j] => i = j
  BY CookiesAreFresh DEF JarShapes
<1>3. \A k \in 1 .. n : cookies[k].name = "other=" /\ cookies[k].text = <<>>
  BY <1>2, RootKinds
<1>4. n \in 0 .. 1
  <2> SUFFICES ASSUME n >= 2 PROVE FALSE
    OBVIOUS
  <2>1. 1 \in 1 .. n /\ 2 \in 1 .. n
    OBVIOUS
  <2>2. cookies[1].name = cookies[2].name
    BY <1>3, <2>1
  <2>3. cookies[1] = cookies[2]
    BY <1>2, <2>1, <2>2, RootKinds
  <2> QED
    BY <1>2, <2>1, <2>3
<1>5. n = 1 => Sent(cookies[1]) = Bare
  BY <1>3, OtherSent
<1>6. cookies \in [1 .. n -> jar]
  BY <1>2 DEF Fresh
<1>7. SessionId(headers) = {}
  BY <1>4, <1>5, <1>6, NoAnswer
<1> QED
  BY <1>01, <1>7

LEMMA JarShapesInit == Init => JarShapes
BY Bounds DEF Init, JarShapes, Shapely

\* A browser presents the session it was last given and no other, from when it
\* is given until at most a second before it expires, or what a page of the
\* host put in its place; for every way of sending the cookies, and for every
\* size and base of identifiers.
THEOREM BrowserPresents == Spec => []BrowserPresentsSession
<1>1. Init => Instants /\ JarIsGiven /\ JarShapes
  BY JarShapesInit DEF Init, Instants, JarIsGiven, Root
<1>2. Instants /\ JarIsGiven /\ JarShapes => BrowserPresentsSession
  <2> SUFFICES ASSUME Instants, JarIsGiven, JarShapes, NEW answer \in Answers
               PROVE  IF \E c \in jar : c.path = "/page"
                      THEN \A c \in jar, ids \in PageIds :
                               c.path = "/page" /\ c.text = PageText(ids) => answer = ids
                      ELSE /\ answer \subseteq {s.id : s \in {t \in held : now < t.expires}}
                           /\ \A s \in held : now + Second <= s.expires => answer = {s.id}
    BY DEF BrowserPresentsSession
  <2>1. CASE \E c \in jar : c.path = "/page"
    BY <2>1, PageFirst
  <2>2. CASE \A c \in jar : c.path # "/page"
    <3>1. \A s \in held : /\ s.id \in Ids /\ s.expires \in Nat /\ DateOf(s.expires) \in Nat
                          /\ DateOf(s.expires) <= s.expires
                          /\ s.expires < DateOf(s.expires) + Second
      BY DateBefore DEF Instants, JarShapes
    <3>2. answer \subseteq {s.id : s \in {t \in held : now < t.expires}}
      <4>1. CASE \A c \in Fresh : c \notin Root(jar)
        BY <2>2, <4>1, EmptyAnswer
      <4>2. ASSUME NEW c \in Fresh, c \in Root(jar)
            PROVE  answer \subseteq {s.id : s \in {t \in held : now < t.expires}}
        <5>1. PICK s \in held : c.text = Text(s.id) /\ c.expires = DateOf(s.expires)
          BY <4>2 DEF JarIsGiven
        <5>2. answer = {s.id}
          BY <2>2, <3>1, <4>2, <5>1, RootAnswer
        <5>3. now < s.expires
          BY <3>1, <5>1 DEF Fresh, Instants
        <5> QED
          BY <5>2, <5>3
      <4> QED
        BY <4>1, <4>2
    <3>3. ASSUME NEW s \in held, now + Second <= s.expires PROVE answer = {s.id}
      <4>1. now < DateOf(s.expires)
        BY <3>1, <3>3, InstantsInSecond DEF Instants
      <4>2. PICK c \in Root(jar) : c.text = Text(s.id) /\ c.expires = DateOf(s.expires)
        BY <4>1 DEF JarIsGiven
      <4>3. c \in Fresh
        BY <3>1, <4>1, <4>2 DEF Fresh, Root, Instants
      <4> QED
        BY <2>2, <3>1, <4>2, <4>3, RootAnswer
    <3> QED
      BY <2>2, <3>2, <3>3
  <2> QED
    BY <2>1, <2>2
<1> QED
  BY <1>1, <1>2, FewHeadersInit, FewHeadersStep, InstantsStep, JarStep, ShapesStep, PTL DEF Spec

===============================================================================
