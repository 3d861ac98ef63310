-------------------------- MODULE SessionLocalProofs --------------------------
(*****************************************************************************)
(* For any number of futures and workers and any nesting of polls and        *)
(* wrappers: an idle worker holds no session, and the cells and slots        *)
(* implement a private map in every wrapper.  A worker's cell is restored by *)
(* the outermost wrapper that it is polling, so that what matters for the    *)
(* first is what this one has saved; and as no future is polled twice at     *)
(* once, nobody else writes to that slot meanwhile.  For the second, the     *)
(* slots that belong to a future (OwnSlots) are followed through each step:  *)
(* what a future left in the cell is found in the next wrapper further in,   *)
(* and no step changes it but the future's own.                              *)
(*****************************************************************************)
EXTENDS SessionLocal, SequenceTheorems, WellFoundedInduction, TLAPS

-------------------------------------------------------------------------------
(* Sequences, whose last element is the innermost.                           *)

LEMMA FrontShape ==
    ASSUME NEW S, NEW s \in Seq(S), s # <<>>
    PROVE  /\ Len(s) \in Nat \ {0}
           /\ Last(s) = s[Len(s)]
           /\ Last(s) \in S
           /\ Front(s) \in Seq(S)
           /\ Len(Front(s)) = Len(s) - 1
           /\ \A i \in 1 .. Len(s) - 1 : Front(s)[i] = s[i]
           /\ Front(s) = <<>> => Len(s) = 1
<1>1. Len(s) \in Nat \ {0}
  BY EmptySeq
<1>2. \A i \in 1 .. Len(s) : s[i] \in S
  BY ElementOfSeq
<1>3. /\ Front(s) \in Seq(S)
      /\ Len(Front(s)) = Len(s) - 1
      /\ \A i \in 1 .. Len(s) - 1 : Front(s)[i] = s[i]
  <2> DEFINE n == Len(s) - 1
  <2>1. n \in Int /\ 1 \in Int /\ n >= 0
    BY <1>1
  <2>2. /\ SubSeq(s, 1, n) \in Seq(S)
        /\ Len(SubSeq(s, 1, n)) = IF 1 <= n THEN n - 1 + 1 ELSE 0
        /\ \A i \in 1 .. n - 1 + 1 : SubSeq(s, 1, n)[i] = s[1 + i - 1]
    <3>1. \A i \in 1 .. n : s[i] \in S
      BY <1>1, <1>2
    <3> HIDE DEF n
    <3> QED
      BY <2>1, <3>1, SubSeqProperties
  <2>3. Front(s) = SubSeq(s, 1, n)
    BY DEF Front
  <2>4. n - 1 + 1 = n /\ \A i \in 1 .. n : 1 + i - 1 = i
    BY <2>1
  <2>5. Len(Front(s)) = n
    <3> HIDE DEF n
    <3>1. (IF 1 <= n THEN n - 1 + 1 ELSE 0) = n
      BY <2>1
    <3> QED
      BY <2>2, <2>3, <3>1
  <2>6. \A i \in 1 .. n : Front(s)[i] = s[i]
    <3> HIDE DEF n
    <3> QED
      BY <2>2, <2>3, <2>4
  <2>7. Front(s) \in Seq(S)
    BY <2>2, <2>3
  <2> QED
    BY <2>5, <2>6, <2>7
<1>4. Front(s) = <<>> => Len(s) = 1
  BY <1>1, <1>3, EmptySeq
<1> QED
  BY <1>1, <1>2, <1>3, <1>4 DEF Last

LEMMA AppendShape ==
    ASSUME NEW S, NEW s \in Seq(S), NEW e \in S
    PROVE  /\ Append(s, e) \in Seq(S)
           /\ Len(s) \in Nat
           /\ Len(Append(s, e)) = Len(s) + 1
           /\ \A i \in 1 .. Len(s) : Append(s, e)[i] = s[i]
           /\ Append(s, e)[Len(s) + 1] = e
           /\ Append(s, e) # <<>>
BY AppendProperties, LenProperties

\* A slot at the front takes the cell's content, one at the end gives it back.
LEMMA SwappedIn ==
    ASSUME NEW S, NEW s \in Seq(S), s # <<>>, NEW e \in S
    PROVE  /\ <<e>> \o Front(s) \in Seq(S)
           /\ <<e>> \o Front(s) # <<>>
           /\ (<<e>> \o Front(s))[1] = e
<1>1. Front(s) \in Seq(S) /\ Len(Front(s)) \in Nat
  BY FrontShape, LenProperties
<1>2. <<e>> \in Seq(S) /\ Len(<<e>>) = 1 /\ <<e>>[1] = e
  OBVIOUS
<1>3. /\ <<e>> \o Front(s) \in Seq(S)
      /\ Len(<<e>> \o Front(s)) = 1 + Len(Front(s))
      /\ (<<e>> \o Front(s))[1] = e
  BY <1>1, <1>2, ConcatProperties
<1> QED
  BY <1>1, <1>3, EmptySeq

LEMMA SwappedOut ==
    ASSUME NEW S, NEW s \in Seq(S), s # <<>>, NEW e \in S
    PROVE  Append(Tail(s), e) \in Seq(S) /\ Head(s) \in S /\ Head(s) = s[1]
<1>1. Tail(s) \in Seq(S) /\ Head(s) \in S /\ Head(s) = s[1]
  BY HeadTailProperties
<1> QED
  BY <1>1, AppendProperties

-------------------------------------------------------------------------------
(* Types.                                                                    *)

LEMMA MapsReplaced ==
    ASSUME NEW m \in OptionalMaps, NEW u \in UserTypes, NEW x \in {{}} \cup {{s} : s \in Sessions}
    PROVE  {[n EXCEPT ![u] = x] : n \in m} \in OptionalMaps
<1>1. CASE m = {}
  BY <1>1 DEF OptionalMaps
<1>2. ASSUME NEW n \in Context!Maps, m = {n} PROVE {[k EXCEPT ![u] = x] : k \in m} \in OptionalMaps
  <2>1. [n EXCEPT ![u] = x] \in Context!Maps
    BY DEF Context!Maps
  <2>2. {[k EXCEPT ![u] = x] : k \in m} = {[n EXCEPT ![u] = x]}
    BY <1>2
  <2> QED
    BY <2>1, <2>2 DEF OptionalMaps
<1> QED
  BY <1>1, <1>2 DEF OptionalMaps

\* The cells, the slots and the stacks of polls stay well-typed.
THEOREM TypeCorrect == Spec => []TypeOK
<1>1. Init => TypeOK
  BY DEF Init, TypeOK, OptionalMaps
<1>2. TypeOK /\ [Next]_vars => TypeOK'
  <2> SUFFICES ASSUME TypeOK, [Next]_vars PROVE TypeOK'
    OBVIOUS
  <2>0. {Context!EmptyMap} \in OptionalMaps
    BY DEF OptionalMaps, Context!EmptyMap, Context!Maps
  <2>1. ASSUME NEW w \in Workers, NEW f \in Futures, BeginPoll(w, f) PROVE TypeOK'
    <3>1. stack' \in [Workers -> Seq(Futures)]
      BY <2>1, AppendProperties DEF BeginPoll, TypeOK
    <3>2. CASE slots[f] # <<>>
      <4>1. <<cell[w]>> \o Front(slots[f]) \in Seq(OptionalMaps) /\ Last(slots[f]) \in OptionalMaps
        BY <3>2, SwappedIn, FrontShape DEF TypeOK
      <4> QED
        BY <2>1, <3>1, <3>2, <4>1 DEF BeginPoll, TypeOK
    <3> QED
      BY <2>1, <3>1, <3>2 DEF BeginPoll, TypeOK
  <2>2. ASSUME NEW w \in Workers, EndPoll(w) PROVE TypeOK'
    <3>1. stack' \in [Workers -> Seq(Futures)] /\ Last(stack[w]) \in Futures
      BY <2>2, FrontShape DEF EndPoll, TypeOK
    <3> DEFINE f == Last(stack[w])
    <3>2. CASE slots[f] # <<>>
      <4>1. Append(Tail(slots[f]), cell[w]) \in Seq(OptionalMaps) /\ Head(slots[f]) \in OptionalMaps
        BY <3>1, <3>2, SwappedOut DEF TypeOK
      <4> QED
        BY <2>2, <3>1, <3>2, <4>1 DEF EndPoll, TypeOK
    <3> QED
      BY <2>2, <3>1, <3>2 DEF EndPoll, TypeOK
  <2>3. ASSUME NEW w \in Workers, Enter(w) PROVE TypeOK'
    <3>1. Last(stack[w]) \in Futures
      BY <2>3, FrontShape DEF Enter, TypeOK
    <3>2. Append(slots[Last(stack[w])], cell[w]) \in Seq(OptionalMaps)
      BY <3>1, AppendProperties DEF TypeOK
    <3> QED
      BY <2>0, <2>3, <3>1, <3>2 DEF Enter, TypeOK
  <2>4. ASSUME NEW w \in Workers, Leave(w) PROVE TypeOK'
    <3>1. Last(stack[w]) \in Futures
      BY <2>4, FrontShape DEF Leave, TypeOK
    <3>2. /\ Front(slots[Last(stack[w])]) \in Seq(OptionalMaps)
          /\ Last(slots[Last(stack[w])]) \in OptionalMaps
      BY <2>4, <3>1, FrontShape DEF Leave, TypeOK
    <3> QED
      BY <2>4, <3>1, <3>2 DEF Leave, TypeOK
  <2>5. ASSUME NEW w \in Workers, NEW u \in UserTypes, NEW s \in Sessions, InsertCurrent(w, u, s)
        PROVE  TypeOK'
    <3>1. cell[w] \in OptionalMaps /\ {s} \in {{}} \cup {{k} : k \in Sessions}
      BY DEF TypeOK
    <3>2. {[m EXCEPT ![u] = {s}] : m \in cell[w]} \in OptionalMaps
      BY <3>1, MapsReplaced, Zenon
    <3> QED
      BY <2>5, <3>2 DEF InsertCurrent, TypeOK
  <2>6. ASSUME NEW w \in Workers, NEW u \in UserTypes, RemoveCurrent(w, u) PROVE TypeOK'
    <3>1. cell[w] \in OptionalMaps /\ {} \in {{}} \cup {{k} : k \in Sessions}
      BY DEF TypeOK
    <3>2. {[m EXCEPT ![u] = {}] : m \in cell[w]} \in OptionalMaps
      BY <3>1, MapsReplaced, Zenon
    <3> QED
      BY <2>6, <3>2 DEF RemoveCurrent, TypeOK
  <2>7. ASSUME NEW w \in Workers, NEW u \in UserTypes, TryCurrent(w, u) PROVE TypeOK'
    <3>1. cell[w] = {} \/ \E m \in Context!Maps : cell[w] = {m}
      BY DEF TypeOK, OptionalMaps
    <3>2. UNION {m[u] : m \in cell[w]} \in {{}} \cup {{s} : s \in Sessions}
      <4>1. CASE cell[w] = {}
        BY <4>1
      <4>2. ASSUME NEW m \in Context!Maps, cell[w] = {m}
            PROVE  UNION {n[u] : n \in cell[w]} = m[u] /\ m[u] \in {{}} \cup {{s} : s \in Sessions}
        BY <4>2 DEF Context!Maps
      <4> QED
        BY <3>1, <4>1, <4>2
    <3> QED
      BY <2>7, <3>2 DEF TryCurrent, TypeOK
  <2>8. ASSUME NEW f \in Futures, Abandon(f) PROVE TypeOK'
    BY <2>8 DEF Abandon, TypeOK
  <2>9. CASE UNCHANGED vars
    BY <2>9 DEF vars, TypeOK
  <2> QED
    BY <2>1, <2>2, <2>3, <2>4, <2>5, <2>6, <2>7, <2>8, <2>9 DEF Next
<1> QED
  BY <1>1, <1>2, PTL DEF Spec

-------------------------------------------------------------------------------
(* No future is polled twice at once.                                        *)

PolledOnce ==
    \A w, v \in Workers : \A i \in 1 .. Len(stack[w]), j \in 1 .. Len(stack[v]) :
        stack[w][i] = stack[v][j] => w = v /\ i = j

LEMMA NotPolled ==
    ASSUME TypeOK, NEW f \in Futures, f \notin Polled
    PROVE  \A w \in Workers : \A i \in 1 .. Len(stack[w]) : stack[w][i] # f
<1> SUFFICES ASSUME NEW w \in Workers, NEW i \in 1 .. Len(stack[w]), stack[w][i] = f
             PROVE  f \in Polled
  OBVIOUS
<1>1. i \in DOMAIN stack[w]
  BY LenProperties DEF TypeOK
<1> QED
  BY <1>1 DEF Polled, ToSet

\* What the start and the end of a poll do to the stack of their worker.
LEMMA Pushed ==
    ASSUME TypeOK, NEW w \in Workers, NEW f \in Futures, BeginPoll(w, f)
    PROVE  /\ Len(stack[w]) \in Nat
           /\ Len(stack'[w]) = Len(stack[w]) + 1
           /\ \A i \in 1 .. Len(stack[w]) : stack'[w][i] = stack[w][i]
           /\ stack'[w][Len(stack[w]) + 1] = f
           /\ \A v \in Workers \ {w} : stack'[v] = stack[v]
<1>1. stack[w] \in Seq(Futures)
  BY DEF TypeOK
<1>2. stack'[w] = Append(stack[w], f) /\ \A v \in Workers \ {w} : stack'[v] = stack[v]
  BY DEF BeginPoll, TypeOK
<1> QED
  BY <1>1, <1>2, AppendShape

LEMMA Popped ==
    ASSUME TypeOK, NEW w \in Workers, EndPoll(w)
    PROVE  /\ Len(stack[w]) \in Nat \ {0}
           /\ Last(stack[w]) = stack[w][Len(stack[w])]
           /\ Last(stack[w]) \in Futures
           /\ Len(stack'[w]) = Len(stack[w]) - 1
           /\ \A i \in 1 .. Len(stack[w]) - 1 : stack'[w][i] = stack[w][i]
           /\ \A v \in Workers \ {w} : stack'[v] = stack[v]
<1>1. stack[w] \in Seq(Futures) /\ stack[w] # <<>>
  BY DEF TypeOK, EndPoll
<1>2. stack'[w] = Front(stack[w]) /\ \A v \in Workers \ {w} : stack'[v] = stack[v]
  BY DEF EndPoll, TypeOK
<1>3. /\ Len(stack[w]) \in Nat \ {0}
      /\ Last(stack[w]) = stack[w][Len(stack[w])]
      /\ Last(stack[w]) \in Futures
      /\ Len(Front(stack[w])) = Len(stack[w]) - 1
      /\ \A i \in 1 .. Len(stack[w]) - 1 : Front(stack[w])[i] = stack[w][i]
  BY <1>1, FrontShape
<1> QED
  BY <1>2, <1>3

LEMMA StaysPolledOnce ==
    ASSUME TypeOK, PolledOnce, [Next]_vars
    PROVE  PolledOnce'
<1>1. ASSUME NEW w \in Workers, NEW f \in Futures, BeginPoll(w, f) PROVE PolledOnce'
  <2> SUFFICES ASSUME NEW u \in Workers, NEW v \in Workers,
                      NEW i \in 1 .. Len(stack'[u]), NEW j \in 1 .. Len(stack'[v]),
                      stack'[u][i] = stack'[v][j]
               PROVE  u = v /\ i = j
    BY DEF PolledOnce
  <2>1. \A x \in Workers : \A k \in 1 .. Len(stack[x]) : stack[x][k] # f
    BY <1>1, NotPolled DEF BeginPoll
  <2>2. \A x \in Workers : \A k \in 1 .. Len(stack'[x]) :
          \/ k \in 1 .. Len(stack[x]) /\ stack'[x][k] = stack[x][k]
          \/ x = w /\ k = Len(stack[w]) + 1 /\ stack'[x][k] = f
    BY <1>1, Pushed
  <2>3. CASE i \in 1 .. Len(stack[u]) /\ j \in 1 .. Len(stack[v])
    <3>1. stack'[u][i] = stack[u][i] /\ stack'[v][j] = stack[v][j]
      BY <1>1, <2>3, Pushed
    <3>2. stack[u][i] = stack[v][j]
      BY <3>1
    <3> QED
      BY <2>3, <3>2 DEF PolledOnce
  <2>4. CASE i \notin 1 .. Len(stack[u])
    <3>1. u = w /\ i = Len(stack[w]) + 1 /\ stack'[v][j] = f
      BY <2>2, <2>4
    <3>2. j \notin 1 .. Len(stack[v])
      BY <2>1, <2>2, <3>1
    <3> QED
      BY <2>2, <3>1, <3>2
  <2>5. CASE j \notin 1 .. Len(stack[v])
    <3>1. v = w /\ j = Len(stack[w]) + 1 /\ stack'[u][i] = f
      BY <2>2, <2>5
    <3>2. i \notin 1 .. Len(stack[u])
      BY <2>1, <2>2, <3>1
    <3> QED
      BY <2>2, <3>1, <3>2
  <2> QED
    BY <2>3, <2>4, <2>5
<1>2. ASSUME NEW w \in Workers, EndPoll(w) PROVE PolledOnce'
  <2> SUFFICES ASSUME NEW u \in Workers, NEW v \in Workers,
                      NEW i \in 1 .. Len(stack'[u]), NEW j \in 1 .. Len(stack'[v]),
                      stack'[u][i] = stack'[v][j]
               PROVE  u = v /\ i = j
    BY DEF PolledOnce
  <2>1. \A x \in Workers : \A k \in 1 .. Len(stack'[x]) :
          k \in 1 .. Len(stack[x]) /\ stack'[x][k] = stack[x][k]
    BY <1>2, Popped
  <2>2. /\ i \in 1 .. Len(stack[u]) /\ stack'[u][i] = stack[u][i]
        /\ j \in 1 .. Len(stack[v]) /\ stack'[v][j] = stack[v][j]
    BY <2>1
  <2>3. stack[u][i] = stack[v][j]
    BY <2>2
  <2> QED
    BY <2>2, <2>3 DEF PolledOnce
<1>3. CASE UNCHANGED stack
  BY <1>3 DEF PolledOnce
<1> QED
  BY <1>1, <1>2, <1>3
  DEF Next, Enter, Leave, InsertCurrent, RemoveCurrent, TryCurrent, Abandon, vars

-------------------------------------------------------------------------------
(* What the outermost wrapper has saved.                                     *)

\* Nothing that worker w polls down to level k has a wrapper.
Unwrapped(w, k) == \A j \in 1 .. k : slots[stack[w][j]] = <<>>

SavedNothing(w) ==
    /\ Unwrapped(w, Len(stack[w])) => cell[w] = {}
    /\ \A k \in 1 .. Len(stack[w]) :
         Unwrapped(w, k - 1) /\ slots[stack[w][k]] # <<>> => slots[stack[w][k]][1] = {}

OutermostSavedNothing == \A w \in Workers : SavedNothing(w)

\* Levels whose futures and slots stay as they are keep what they saved.
LEMMA LevelsKeep ==
    ASSUME NEW w \in Workers, SavedNothing(w), Len(stack[w]) \in Nat,
           NEW m \in 0 .. Len(stack[w]),
           \A k \in 1 .. m : /\ stack'[w][k] = stack[w][k]
                             /\ slots'[stack[w][k]] = slots[stack[w][k]]
    PROVE  /\ \A k \in 0 .. m : Unwrapped(w, k)' <=> Unwrapped(w, k)
           /\ \A k \in 1 .. m :
                (Unwrapped(w, k - 1) /\ slots[stack[w][k]] # <<>>)' =>
                    slots'[stack'[w][k]][1] = {}
<1>1. \A k \in 0 .. m : Unwrapped(w, k)' <=> Unwrapped(w, k)
  BY DEF Unwrapped
<1>2. ASSUME NEW k \in 1 .. m, (Unwrapped(w, k - 1) /\ slots[stack[w][k]] # <<>>)'
      PROVE  slots'[stack'[w][k]][1] = {}
  <2>1. k - 1 \in 0 .. m /\ k \in 1 .. Len(stack[w])
    OBVIOUS
  <2>2. Unwrapped(w, k - 1) /\ slots[stack[w][k]] # <<>>
    BY <1>1, <1>2, <2>1
  <2>3. slots[stack[w][k]][1] = {}
    BY <2>1, <2>2 DEF SavedNothing
  <2> QED
    BY <2>3
<1> QED
  BY <1>1, <1>2

\* A worker is not concerned with what happens to futures that it is not
\* polling.
LEMMA Unconcerned ==
    ASSUME NEW v \in Workers, SavedNothing(v), Len(stack[v]) \in Nat,
           stack'[v] = stack[v], cell'[v] = cell[v],
           \A k \in 1 .. Len(stack[v]) : slots'[stack[v][k]] = slots[stack[v][k]]
    PROVE  SavedNothing(v)'
<1>1. /\ \A k \in 0 .. Len(stack[v]) : Unwrapped(v, k)' <=> Unwrapped(v, k)
      /\ \A k \in 1 .. Len(stack[v]) :
           (Unwrapped(v, k - 1) /\ slots[stack[v][k]] # <<>>)' => slots'[stack'[v][k]][1] = {}
  <2>1. Len(stack[v]) \in 0 .. Len(stack[v])
    OBVIOUS
  <2> QED
    BY <2>1, LevelsKeep
<1>2. Unwrapped(v, Len(stack[v]))' => cell'[v] = {}
  <2>1. Len(stack[v]) \in 0 .. Len(stack[v])
    OBVIOUS
  <2>2. Len(stack'[v]) = Len(stack[v])
    OBVIOUS
  <2>3. Unwrapped(v, Len(stack[v]))' => Unwrapped(v, Len(stack[v]))
    BY <1>1, <2>1, <2>2 DEF Unwrapped
  <2> QED
    BY <2>3 DEF SavedNothing
<1> QED
  BY <1>1, <1>2 DEF SavedNothing

\* The innermost future of a worker is at no other level, of any worker.
LEMMA InnermostAlone ==
    ASSUME TypeOK, PolledOnce, NEW w \in Workers, stack[w] # <<>>
    PROVE  /\ Len(stack[w]) \in Nat \ {0}
           /\ Last(stack[w]) = stack[w][Len(stack[w])]
           /\ Last(stack[w]) \in Futures
           /\ \A k \in 1 .. Len(stack[w]) - 1 : stack[w][k] # Last(stack[w])
           /\ \A v \in Workers \ {w} : \A k \in 1 .. Len(stack[v]) :
                stack[v][k] # Last(stack[w])
<1>1. /\ Len(stack[w]) \in Nat \ {0}
      /\ Last(stack[w]) = stack[w][Len(stack[w])]
      /\ Last(stack[w]) \in Futures
  BY FrontShape DEF TypeOK
<1>2. \A v \in Workers : \A k \in 1 .. Len(stack[v]) :
        stack[v][k] = Last(stack[w]) => v = w /\ k = Len(stack[w])
  BY <1>1 DEF PolledOnce
<1> QED
  BY <1>1, <1>2

LEMMA BeginPollSaves ==
    ASSUME TypeOK, PolledOnce, OutermostSavedNothing,
           NEW w \in Workers, NEW f \in Futures, BeginPoll(w, f)
    PROVE  OutermostSavedNothing'
<1>0. PICK n \in Nat : n = Len(stack[w])
  BY LenProperties DEF TypeOK
<1>1. \A v \in Workers : \A k \in 1 .. Len(stack[v]) : stack[v][k] # f
  BY NotPolled DEF BeginPoll
<1>2. \A g \in Futures \ {f} : slots'[g] = slots[g]
  BY DEF BeginPoll, TypeOK
<1>3. \A v \in Workers : Len(stack[v]) \in Nat /\ \A k \in 1 .. Len(stack[v]) : stack[v][k] \in Futures
  BY LenProperties, ElementOfSeq DEF TypeOK
<1>4. /\ Len(stack'[w]) = n + 1
      /\ \A k \in 1 .. n : stack'[w][k] = stack[w][k]
      /\ stack'[w][n + 1] = f
      /\ \A v \in Workers \ {w} : stack'[v] = stack[v]
  BY <1>0, Pushed
<1>5. ASSUME NEW v \in Workers \ {w} PROVE SavedNothing(v)'
  <2>1. cell'[v] = cell[v]
    BY DEF BeginPoll, TypeOK
  <2>2. \A k \in 1 .. Len(stack[v]) : slots'[stack[v][k]] = slots[stack[v][k]]
    BY <1>1, <1>2, <1>3
  <2> QED
    BY <1>3, <1>4, <2>1, <2>2, Unconcerned DEF OutermostSavedNothing
<1>6. /\ \A k \in 0 .. n : Unwrapped(w, k)' <=> Unwrapped(w, k)
      /\ \A k \in 1 .. n :
           (Unwrapped(w, k - 1) /\ slots[stack[w][k]] # <<>>)' => slots'[stack'[w][k]][1] = {}
  <2>1. n \in 0 .. n
    OBVIOUS
  <2>2. \A k \in 1 .. n : stack'[w][k] = stack[w][k] /\ slots'[stack[w][k]] = slots[stack[w][k]]
    BY <1>0, <1>1, <1>2, <1>3, <1>4
  <2> QED
    BY <1>4, <2>1, <2>2, <1>0, LevelsKeep DEF OutermostSavedNothing
<1>7. Unwrapped(w, n) => cell[w] = {}
  BY <1>0 DEF OutermostSavedNothing, SavedNothing
<1>8. slots'[f] # <<>> => slots'[f][1] = cell[w]
  <2>1. CASE slots[f] = <<>>
    BY <2>1 DEF BeginPoll
  <2>2. CASE slots[f] # <<>>
    BY <2>2, SwappedIn DEF BeginPoll, TypeOK
  <2> QED
    BY <2>1, <2>2
<1>9. slots'[f] = <<>> => cell' = cell
  <2>1. CASE slots[f] = <<>>
    BY <2>1 DEF BeginPoll
  <2>2. CASE slots[f] # <<>>
    <3>1. slots'[f] = <<cell[w]>> \o Front(slots[f])
      BY <2>2 DEF BeginPoll, TypeOK
    <3>2. <<cell[w]>> \o Front(slots[f]) # <<>>
      BY <2>2, SwappedIn DEF TypeOK
    <3> QED
      BY <3>1, <3>2
  <2> QED
    BY <2>1, <2>2
<1>10. SavedNothing(w)'
  <2>1. Unwrapped(w, Len(stack[w]))' => cell'[w] = {}
    <3> SUFFICES ASSUME Unwrapped(w, Len(stack[w]))' PROVE cell'[w] = {}
      OBVIOUS
    <3>1. \A k \in 1 .. n + 1 : slots'[stack'[w][k]] = <<>>
      BY <1>4 DEF Unwrapped
    <3>2. slots'[f] = <<>> /\ Unwrapped(w, n)'
      BY <1>4, <3>1 DEF Unwrapped
    <3>3. n \in 0 .. n
      OBVIOUS
    <3> QED
      BY <1>6, <1>7, <1>9, <3>2, <3>3
  <2>2. ASSUME NEW k \in 1 .. Len(stack'[w]), (Unwrapped(w, k - 1) /\ slots[stack[w][k]] # <<>>)'
        PROVE  slots'[stack'[w][k]][1] = {}
    <3>1. CASE k \in 1 .. n
      BY <1>6, <2>2, <3>1
    <3>2. CASE k = n + 1
      <4>1. n \in 0 .. n /\ k - 1 = n
        BY <3>2
      <4> QED
        BY <1>4, <1>6, <1>7, <1>8, <2>2, <3>2, <4>1
    <3> QED
      BY <1>4, <3>1, <3>2
  <2> QED
    BY <2>1, <2>2 DEF SavedNothing
<1> QED
  BY <1>5, <1>10 DEF OutermostSavedNothing

\* A step that leaves the stacks alone, and of the slots and the cells changes
\* those of a worker w and its innermost future only.
LEMMA OthersKeep ==
    ASSUME TypeOK, PolledOnce, OutermostSavedNothing,
           NEW w \in Workers, stack[w] # <<>>,
           \A v \in Workers \ {w} : stack'[v] = stack[v] /\ cell'[v] = cell[v],
           \A g \in Futures \ {Last(stack[w])} : slots'[g] = slots[g],
           \A k \in 1 .. Len(stack[w]) - 1 : stack'[w][k] = stack[w][k]
    PROVE  /\ \A v \in Workers \ {w} : SavedNothing(v)'
           /\ \A k \in 0 .. Len(stack[w]) - 1 : Unwrapped(w, k)' <=> Unwrapped(w, k)
           /\ \A k \in 1 .. Len(stack[w]) - 1 :
                (Unwrapped(w, k - 1) /\ slots[stack[w][k]] # <<>>)' =>
                    slots'[stack'[w][k]][1] = {}
<1>1. \A v \in Workers : Len(stack[v]) \in Nat /\ \A k \in 1 .. Len(stack[v]) : stack[v][k] \in Futures
  BY LenProperties, ElementOfSeq DEF TypeOK
<1>2. ASSUME NEW v \in Workers \ {w} PROVE SavedNothing(v)'
  <2>1. \A k \in 1 .. Len(stack[v]) : slots'[stack[v][k]] = slots[stack[v][k]]
    BY <1>1, InnermostAlone
  <2> QED
    BY <1>1, <2>1, Unconcerned DEF OutermostSavedNothing
<1>3. PICK m \in 0 .. Len(stack[w]) : m = Len(stack[w]) - 1
  <2>1. Len(stack[w]) \in Nat \ {0}
    BY InnermostAlone
  <2>2. Len(stack[w]) - 1 \in 0 .. Len(stack[w])
    BY <2>1
  <2> QED
    BY <2>2
<1>4. \A k \in 1 .. m : stack'[w][k] = stack[w][k] /\ slots'[stack[w][k]] = slots[stack[w][k]]
  BY <1>1, <1>3, InnermostAlone
<1>5. /\ \A k \in 0 .. m : Unwrapped(w, k)' <=> Unwrapped(w, k)
      /\ \A k \in 1 .. m :
           (Unwrapped(w, k - 1) /\ slots[stack[w][k]] # <<>>)' => slots'[stack'[w][k]][1] = {}
  BY <1>1, <1>4, LevelsKeep DEF OutermostSavedNothing
<1> QED
  BY <1>2, <1>3, <1>5

LEMMA EndPollSaves ==
    ASSUME TypeOK, PolledOnce, OutermostSavedNothing, NEW w \in Workers, EndPoll(w)
    PROVE  OutermostSavedNothing'
<1>1. PICK m \in Nat : m = Len(stack[w]) - 1 /\ Len(stack[w]) \in Nat
  BY Popped
<1>2. PICK f \in Futures : f = Last(stack[w]) /\ f = stack[w][m + 1]
  BY <1>1, Popped
<1>3. /\ Len(stack'[w]) = m
      /\ \A k \in 1 .. m : stack'[w][k] = stack[w][k]
      /\ \A v \in Workers \ {w} : stack'[v] = stack[v] /\ cell'[v] = cell[v]
  BY <1>1, Popped DEF EndPoll, TypeOK
<1>4. \A g \in Futures \ {Last(stack[w])} : slots'[g] = slots[g]
  BY DEF EndPoll, TypeOK
<1>5. /\ \A v \in Workers \ {w} : SavedNothing(v)'
      /\ \A k \in 0 .. m : Unwrapped(w, k)' <=> Unwrapped(w, k)
      /\ \A k \in 1 .. m :
           (Unwrapped(w, k - 1) /\ slots[stack[w][k]] # <<>>)' => slots'[stack'[w][k]][1] = {}
  <2>1. stack[w] # <<>> /\ \A k \in 1 .. Len(stack[w]) - 1 : stack'[w][k] = stack[w][k]
    BY <1>1, <1>3 DEF EndPoll
  <2>2. /\ \A v \in Workers \ {w} : SavedNothing(v)'
        /\ \A k \in 0 .. Len(stack[w]) - 1 : Unwrapped(w, k)' <=> Unwrapped(w, k)
        /\ \A k \in 1 .. Len(stack[w]) - 1 :
             (Unwrapped(w, k - 1) /\ slots[stack[w][k]] # <<>>)' =>
                 slots'[stack'[w][k]][1] = {}
    BY <1>3, <1>4, <2>1, OthersKeep
  <2> QED
    BY <1>1, <2>2
<1>6. Unwrapped(w, Len(stack[w]))' => cell'[w] = {}
  <2> SUFFICES ASSUME Unwrapped(w, Len(stack[w]))' PROVE cell'[w] = {}
    OBVIOUS
  <2>1. Unwrapped(w, m)
    <3>1. Unwrapped(w, m)'
      BY <1>3 DEF Unwrapped
    <3>2. m \in 0 .. m
      OBVIOUS
    <3> QED
      BY <1>5, <3>1, <3>2
  <2>2. CASE slots[f] = <<>>
    <3>1. Unwrapped(w, Len(stack[w]))
      BY <1>1, <1>2, <2>1, <2>2 DEF Unwrapped
    <3>2. cell'[w] = cell[w]
      BY <1>2, <2>2 DEF EndPoll
    <3> QED
      BY <3>1, <3>2 DEF OutermostSavedNothing, SavedNothing
  <2>3. CASE slots[f] # <<>>
    <3>1. slots[f][1] = {}
      <4>1. m + 1 \in 1 .. Len(stack[w]) /\ (m + 1) - 1 = m
        BY <1>1
      <4>2. Unwrapped(w, (m + 1) - 1) /\ slots[stack[w][m + 1]] # <<>>
        BY <1>2, <2>1, <2>3, <4>1
      <4>3. slots[stack[w][m + 1]][1] = {}
        BY <4>1, <4>2 DEF OutermostSavedNothing, SavedNothing
      <4> QED
        BY <1>2, <4>3
    <3>2. cell'[w] = Head(slots[f])
      BY <1>2, <2>3 DEF EndPoll, TypeOK
    <3>3. Head(slots[f]) = slots[f][1]
      BY <2>3, HeadTailProperties DEF TypeOK
    <3> QED
      BY <3>1, <3>2, <3>3
  <2> QED
    BY <2>2, <2>3
<1> QED
  BY <1>3, <1>5, <1>6 DEF OutermostSavedNothing, SavedNothing

\* If nothing further out has a wrapper, then the cell, or the outermost slot
\* of the innermost future, is known to be empty.
Restores(w) ==
    LET f == Last(stack[w])
    IN  Unwrapped(w, Len(stack[w]) - 1) =>
            IF slots[f] = <<>> THEN cell[w] = {} ELSE slots[f][1] = {}

LEMMA InnermostRestores ==
    ASSUME TypeOK, PolledOnce, NEW w \in Workers, stack[w] # <<>>, SavedNothing(w)
    PROVE  Restores(w)
<1>1. /\ Len(stack[w]) \in Nat \ {0}
      /\ Last(stack[w]) = stack[w][Len(stack[w])]
  BY InnermostAlone
<1>2. ASSUME Unwrapped(w, Len(stack[w]) - 1), slots[Last(stack[w])] = <<>> PROVE cell[w] = {}
  <2>1. Unwrapped(w, Len(stack[w]))
    BY <1>1, <1>2 DEF Unwrapped
  <2> QED
    BY <2>1 DEF SavedNothing
<1>3. ASSUME Unwrapped(w, Len(stack[w]) - 1), slots[Last(stack[w])] # <<>>
      PROVE  slots[Last(stack[w])][1] = {}
  <2>1. Len(stack[w]) \in 1 .. Len(stack[w])
    BY <1>1
  <2> QED
    BY <1>1, <1>3, <2>1 DEF SavedNothing
<1> QED
  BY <1>2, <1>3 DEF Restores

\* The wrappers of the innermost future change, and those further out do not.
LEMMA InnermostChanges ==
    ASSUME TypeOK, PolledOnce, OutermostSavedNothing,
           NEW w \in Workers, stack[w] # <<>>, UNCHANGED stack,
           \A v \in Workers \ {w} : cell'[v] = cell[v],
           \A g \in Futures \ {Last(stack[w])} : slots'[g] = slots[g],
           Unwrapped(w, Len(stack[w]) - 1) =>
               IF slots'[Last(stack[w])] = <<>> THEN cell'[w] = {}
               ELSE slots'[Last(stack[w])][1] = {}
    PROVE  OutermostSavedNothing'
<1>1. PICK m \in Nat : m = Len(stack[w]) - 1 /\ Len(stack[w]) = m + 1
  <2>1. Len(stack[w]) \in Nat \ {0}
    BY InnermostAlone
  <2>2. Len(stack[w]) - 1 \in Nat /\ Len(stack[w]) = (Len(stack[w]) - 1) + 1
    BY <2>1
  <2> QED
    BY <2>2
<1>2. Last(stack[w]) = stack[w][m + 1]
  BY <1>1, InnermostAlone
<1>3. /\ \A v \in Workers \ {w} : SavedNothing(v)'
      /\ \A k \in 0 .. Len(stack[w]) - 1 : Unwrapped(w, k)' <=> Unwrapped(w, k)
      /\ \A k \in 1 .. Len(stack[w]) - 1 :
           (Unwrapped(w, k - 1) /\ slots[stack[w][k]] # <<>>)' => slots'[stack'[w][k]][1] = {}
  BY OthersKeep
<1>4. Unwrapped(w, m)' <=> Unwrapped(w, m)
  BY <1>1, <1>3
<1>5. ASSUME Unwrapped(w, Len(stack[w]))' PROVE cell'[w] = {}
  <2>1. \A k \in 1 .. m + 1 : slots'[stack[w][k]] = <<>>
    BY <1>1, <1>5 DEF Unwrapped
  <2>2. Unwrapped(w, m)' /\ slots'[Last(stack[w])] = <<>>
    BY <1>2, <2>1 DEF Unwrapped
  <2> QED
    BY <1>1, <1>4, <2>2
<1>6. ASSUME NEW k \in 1 .. Len(stack'[w]), (Unwrapped(w, k - 1) /\ slots[stack[w][k]] # <<>>)'
      PROVE  slots'[stack'[w][k]][1] = {}
  <2>1. CASE k \in 1 .. m
    BY <1>1, <1>3, <1>6, <2>1
  <2>2. CASE k = m + 1
    <3>1. k - 1 = m
      BY <2>2
    <3>2. Unwrapped(w, m) /\ slots'[Last(stack[w])] # <<>>
      BY <1>2, <1>4, <1>6, <2>2, <3>1
    <3> QED
      BY <1>1, <1>2, <2>2, <3>2
  <2> QED
    BY <1>1, <2>1, <2>2
<1> QED
  BY <1>3, <1>5, <1>6 DEF OutermostSavedNothing, SavedNothing

LEMMA EnterSaves ==
    ASSUME TypeOK, PolledOnce, OutermostSavedNothing, NEW w \in Workers, Enter(w)
    PROVE  OutermostSavedNothing'
<1>1. PICK f \in Futures : f = Last(stack[w])
  BY InnermostAlone DEF Enter
<1>2. /\ stack[w] # <<>>
      /\ UNCHANGED stack
      /\ \A v \in Workers \ {w} : cell'[v] = cell[v]
      /\ \A g \in Futures \ {f} : slots'[g] = slots[g]
      /\ slots'[f] = Append(slots[f], cell[w])
  BY <1>1 DEF Enter, TypeOK
<1>3. Restores(w)
  BY <1>2, InnermostRestores DEF OutermostSavedNothing
<1>4. /\ Len(slots[f]) \in Nat
      /\ slots'[f] # <<>>
      /\ \A i \in 1 .. Len(slots[f]) : slots'[f][i] = slots[f][i]
      /\ slots'[f][Len(slots[f]) + 1] = cell[w]
  <2>1. slots[f] \in Seq(OptionalMaps) /\ cell[w] \in OptionalMaps
    BY DEF TypeOK
  <2> QED
    BY <1>2, <2>1, AppendShape
<1>5. slots'[f][1] = IF slots[f] = <<>> THEN cell[w] ELSE slots[f][1]
  <2>1. CASE slots[f] = <<>>
    BY <1>4, <2>1
  <2>2. CASE slots[f] # <<>>
    <3>1. 1 \in 1 .. Len(slots[f])
      BY <1>4, <2>2, EmptySeq DEF TypeOK
    <3> QED
      BY <1>4, <2>2, <3>1
  <2> QED
    BY <2>1, <2>2
<1> QED
  BY <1>1, <1>2, <1>3, <1>4, <1>5, InnermostChanges DEF Restores

LEMMA LeaveSaves ==
    ASSUME TypeOK, PolledOnce, OutermostSavedNothing, NEW w \in Workers, Leave(w)
    PROVE  OutermostSavedNothing'
<1>1. PICK f \in Futures : f = Last(stack[w])
  BY InnermostAlone DEF Leave
<1>2. /\ stack[w] # <<>>
      /\ slots[f] # <<>>
      /\ UNCHANGED stack
      /\ \A v \in Workers \ {w} : cell'[v] = cell[v]
      /\ \A g \in Futures \ {f} : slots'[g] = slots[g]
      /\ slots'[f] = Front(slots[f])
      /\ cell'[w] = Last(slots[f])
  BY <1>1 DEF Leave, TypeOK
<1>3. Restores(w)
  BY <1>2, InnermostRestores DEF OutermostSavedNothing
<1>4. /\ Len(slots[f]) \in Nat \ {0}
      /\ cell'[w] = slots[f][Len(slots[f])]
      /\ \A i \in 1 .. Len(slots[f]) - 1 : slots'[f][i] = slots[f][i]
      /\ slots'[f] = <<>> => Len(slots[f]) = 1
      /\ slots'[f] # <<>> => Len(slots'[f]) \in Nat \ {0}
      /\ Len(slots'[f]) = Len(slots[f]) - 1
  <2>1. slots[f] \in Seq(OptionalMaps)
    BY DEF TypeOK
  <2>2. /\ Len(slots[f]) \in Nat \ {0}
        /\ Last(slots[f]) = slots[f][Len(slots[f])]
        /\ Front(slots[f]) \in Seq(OptionalMaps)
        /\ Len(Front(slots[f])) = Len(slots[f]) - 1
        /\ \A i \in 1 .. Len(slots[f]) - 1 : Front(slots[f])[i] = slots[f][i]
        /\ Front(slots[f]) = <<>> => Len(slots[f]) = 1
    BY <1>2, <2>1, FrontShape
  <2>3. Front(slots[f]) # <<>> => Len(Front(slots[f])) \in Nat \ {0}
    BY <2>2, EmptySeq
  <2> QED
    BY <1>2, <2>2, <2>3
<1>5. slots'[f] # <<>> => slots'[f][1] = slots[f][1]
  <2> SUFFICES ASSUME slots'[f] # <<>> PROVE slots'[f][1] = slots[f][1]
    OBVIOUS
  <2>1. Len(slots'[f]) \in Nat \ {0}
    BY <1>4
  <2>2. 1 \in 1 .. Len(slots[f]) - 1
    BY <1>4, <2>1
  <2> QED
    BY <1>4, <2>2
<1> QED
  BY <1>1, <1>2, <1>3, <1>4, <1>5, InnermostChanges DEF Restores

\* Code only changes the map that is in the cell, and an empty cell stays so.
LEMMA ChangesSave ==
    ASSUME TypeOK, PolledOnce, OutermostSavedNothing, NEW w \in Workers, stack[w] # <<>>,
           UNCHANGED <<slots, stack>>,
           \A v \in Workers \ {w} : cell'[v] = cell[v],
           cell[w] = {} => cell'[w] = {}
    PROVE  OutermostSavedNothing'
<1>1. Restores(w)
  BY InnermostRestores DEF OutermostSavedNothing
<1> QED
  BY <1>1, InnermostChanges DEF Restores

LEMMA StepSaves ==
    ASSUME TypeOK, PolledOnce, OutermostSavedNothing, [Next]_vars
    PROVE  OutermostSavedNothing'
<1>1. ASSUME NEW w \in Workers, NEW u \in UserTypes, NEW s \in Sessions, InsertCurrent(w, u, s)
      PROVE  OutermostSavedNothing'
  BY <1>1, ChangesSave DEF InsertCurrent, TypeOK
<1>2. ASSUME NEW w \in Workers, NEW u \in UserTypes, RemoveCurrent(w, u)
      PROVE  OutermostSavedNothing'
  BY <1>2, ChangesSave DEF RemoveCurrent, TypeOK
<1>3. ASSUME NEW f \in Futures, Abandon(f) PROVE OutermostSavedNothing'
  <2>1. \A v \in Workers : \A k \in 1 .. Len(stack[v]) : stack[v][k] # f
    BY <1>3, NotPolled DEF Abandon
  <2>2. \A v \in Workers : Len(stack[v]) \in Nat /\ \A k \in 1 .. Len(stack[v]) : stack[v][k] \in Futures
    BY LenProperties, ElementOfSeq DEF TypeOK
  <2>3. \A v \in Workers : \A k \in 1 .. Len(stack[v]) : slots'[stack[v][k]] = slots[stack[v][k]]
    BY <1>3, <2>1, <2>2 DEF Abandon, TypeOK
  <2>4. UNCHANGED <<cell, stack>>
    BY <1>3 DEF Abandon
  <2> QED
    BY <2>2, <2>3, <2>4, Unconcerned DEF OutermostSavedNothing
<1>4. CASE UNCHANGED <<cell, slots, stack>>
  BY <1>4 DEF OutermostSavedNothing, SavedNothing, Unwrapped
<1> QED
  BY <1>1, <1>2, <1>3, <1>4, BeginPollSaves, EndPollSaves, EnterSaves, LeaveSaves
  DEF Next, TryCurrent, vars

\* The invariants that the rest relies on.
LEMMA AlwaysClean == Spec => [](TypeOK /\ PolledOnce /\ OutermostSavedNothing)
<1> DEFINE Clean == TypeOK /\ PolledOnce /\ OutermostSavedNothing
<1>1. Init => Clean
  <2> SUFFICES ASSUME Init PROVE Clean
    OBVIOUS
  <2>1. TypeOK
    BY DEF Init, TypeOK, OptionalMaps
  <2>2. \A w \in Workers : Len(stack[w]) = 0 /\ cell[w] = {}
    BY DEF Init
  <2> QED
    BY <2>1, <2>2 DEF PolledOnce, OutermostSavedNothing, SavedNothing
<1>2. TypeOK /\ TypeOK' /\ Clean /\ [Next]_vars => Clean'
  BY StaysPolledOnce, StepSaves
<1> QED
  BY <1>1, <1>2, TypeCorrect, PTL DEF Spec

\* A worker that polls nothing holds no session, however polls were nested,
\* futures moved between workers, and wrappers entered, left and dropped.
THEOREM IdleWorkersAreClean == Spec => []IdleWorkersClean
<1>1. TypeOK /\ PolledOnce /\ OutermostSavedNothing => IdleWorkersClean
  <2> SUFFICES ASSUME OutermostSavedNothing, NEW w \in Workers, stack[w] = <<>>
               PROVE  cell[w] = {}
    BY DEF IdleWorkersClean
  <2>1. Unwrapped(w, Len(stack[w]))
    BY DEF Unwrapped
  <2> QED
    BY <2>1 DEF OutermostSavedNothing, SavedNothing
<1> QED
  BY <1>1, AlwaysClean, PTL

-------------------------------------------------------------------------------
(* The refinement.  First, the numbers and sequences it is about.            *)

LEMMA LeastExists ==
    ASSUME NEW T, T \subseteq Nat, T # {}
    PROVE  \E m \in T : \A k \in T : m <= k
<1> DEFINE R == OpToRel(<, Nat)
<1>1. \A i, j \in Nat : <<i, j>> \in R <=> i < j
  BY DEF OpToRel
<1>2. IsWellFoundedOn(R, Nat)
  BY NatLessThanWellFounded
<1> HIDE DEF R
<1>3. PICK m \in T : \A k \in T : <<k, m>> \notin R
  BY <1>2, WFMin
<1>4. ASSUME NEW k \in T PROVE m <= k
  <2>1. m \in Nat /\ k \in Nat
    OBVIOUS
  <2>2. ~(k < m)
    BY <1>1, <1>3, <2>1, Zenon
  <2> QED
    BY <2>1, <2>2
<1> QED
  BY <1>4

LEMMA GreatestExists ==
    ASSUME NEW n \in Nat, NEW T, T \subseteq 1 .. n, T # {}
    PROVE  \E m \in T : \A k \in T : k <= m
<1> DEFINE U == {n - k : k \in T}
<1>1. \A k \in T : n - k \in Nat
  OBVIOUS
<1>2. U \subseteq Nat /\ U # {}
  BY <1>1
<1>3. PICK d \in U : \A k \in U : d <= k
  BY <1>2, LeastExists
<1>4. PICK m \in T : d = n - m
  OBVIOUS
<1>5. ASSUME NEW k \in T PROVE k <= m
  BY <1>3, <1>4, n - k \in U
<1> QED
  BY <1>5

LEMMA EndsOfAppend ==
    ASSUME NEW S, NEW s \in Seq(S), NEW e \in S
    PROVE  Front(Append(s, e)) = s /\ Last(Append(s, e)) = e
<1>1. /\ Append(s, e) \in Seq(S)
      /\ Len(s) \in Nat
      /\ Len(Append(s, e)) = Len(s) + 1
      /\ \A i \in 1 .. Len(s) : Append(s, e)[i] = s[i]
      /\ Append(s, e)[Len(s) + 1] = e
      /\ Append(s, e) # <<>>
  BY AppendShape
<1>2. /\ Last(Append(s, e)) = Append(s, e)[Len(Append(s, e))]
      /\ Front(Append(s, e)) \in Seq(S)
      /\ Len(Front(Append(s, e))) = Len(Append(s, e)) - 1
      /\ \A i \in 1 .. Len(Append(s, e)) - 1 : Front(Append(s, e))[i] = Append(s, e)[i]
  BY <1>1, FrontShape
<1>3. Len(Front(Append(s, e))) = Len(s)
  BY <1>1, <1>2
<1>4. \A i \in 1 .. Len(s) : Front(Append(s, e))[i] = s[i]
  BY <1>1, <1>2
<1> QED
  BY <1>1, <1>2, <1>3, <1>4, SeqEqual

\* What Values makes of a sequence of options, none of which is empty.
Chosen(o) == CHOOSE m \in o : TRUE

LEMMA ValuesShape ==
    ASSUME NEW S, NEW s \in Seq(S)
    PROVE  /\ Values(s) \in Seq({Chosen(o) : o \in S})
           /\ Len(Values(s)) = Len(s)
           /\ \A i \in 1 .. Len(s) : Values(s)[i] = Chosen(s[i])
           /\ Values(s) = <<>> <=> s = <<>>
<1> DEFINE T == {Chosen(o) : o \in S}
<1>1. Len(s) \in Nat /\ DOMAIN s = 1 .. Len(s) /\ \A i \in 1 .. Len(s) : s[i] \in S
  BY LenProperties, ElementOfSeq
<1>2. Values(s) = [i \in 1 .. Len(s) |-> Chosen(s[i])]
  BY <1>1 DEF Values, Chosen
<1>3. \A i \in 1 .. Len(s) : Chosen(s[i]) \in T
  BY <1>1
<1> HIDE DEF T
<1>4. Values(s) \in Seq(T) /\ Len(Values(s)) = Len(s)
  BY <1>1, <1>2, <1>3
<1>5. Values(s) = <<>> <=> s = <<>>
  BY <1>4, EmptySeq
<1> QED
  BY <1>1, <1>2, <1>4, <1>5 DEF T

LEMMA ValuesAppended ==
    ASSUME NEW S, NEW s \in Seq(S), NEW e \in S
    PROVE  Values(Append(s, e)) = Append(Values(s), Chosen(e))
<1> DEFINE T == {Chosen(o) : o \in S}
<1>1. /\ Append(s, e) \in Seq(S) /\ Len(s) \in Nat /\ Len(Append(s, e)) = Len(s) + 1
      /\ \A i \in 1 .. Len(s) : Append(s, e)[i] = s[i]
      /\ Append(s, e)[Len(s) + 1] = e
  BY AppendShape
<1>2. /\ Values(Append(s, e)) \in Seq(T) /\ Len(Values(Append(s, e))) = Len(s) + 1
      /\ \A i \in 1 .. Len(s) + 1 : Values(Append(s, e))[i] = Chosen(Append(s, e)[i])
  BY <1>1, ValuesShape
<1>3. /\ Values(s) \in Seq(T) /\ Len(Values(s)) = Len(s)
      /\ \A i \in 1 .. Len(s) : Values(s)[i] = Chosen(s[i])
  BY ValuesShape
<1>4. Chosen(e) \in T
  OBVIOUS
<1> HIDE DEF T
<1>5. /\ Append(Values(s), Chosen(e)) \in Seq(T)
      /\ Len(Append(Values(s), Chosen(e))) = Len(s) + 1
      /\ \A i \in 1 .. Len(s) : Append(Values(s), Chosen(e))[i] = Values(s)[i]
      /\ Append(Values(s), Chosen(e))[Len(s) + 1] = Chosen(e)
  BY <1>3, <1>4, AppendShape
<1>6. ASSUME NEW i \in 1 .. Len(s) + 1
      PROVE  Values(Append(s, e))[i] = Append(Values(s), Chosen(e))[i]
  <2>0. i \in 1 .. Len(s) \/ i = Len(s) + 1
    BY Len(s) \in Nat
  <2>1. CASE i \in 1 .. Len(s)
    <3>1. Values(Append(s, e))[i] = Chosen(Append(s, e)[i]) /\ Append(s, e)[i] = s[i]
      BY <1>1, <1>2, <2>1
    <3>2. Append(Values(s), Chosen(e))[i] = Values(s)[i] /\ Values(s)[i] = Chosen(s[i])
      BY <1>3, <1>5, <2>1
    <3> QED
      BY <3>1, <3>2
  <2>2. CASE i = Len(s) + 1
    BY <1>1, <1>2, <1>5, <2>2
  <2> QED
    BY <2>0, <2>1, <2>2
<1> QED
  BY <1>2, <1>5, <1>6, SeqEqual

LEMMA ValuesEnds ==
    ASSUME NEW S, NEW s \in Seq(S), s # <<>>
    PROVE  Values(Front(s)) = Front(Values(s)) /\ Last(Values(s)) = Chosen(Last(s))
<1>1. PICK t \in Seq(S), e \in S : s = Append(t, e)
  BY SequenceEmptyOrAppend
<1>2. Front(s) = t /\ Last(s) = e
  BY <1>1, EndsOfAppend
<1>3. Values(s) = Append(Values(t), Chosen(e))
  BY <1>1, ValuesAppended
<1>4. Values(t) \in Seq({Chosen(o) : o \in S}) /\ Chosen(e) \in {Chosen(o) : o \in S}
  BY ValuesShape
<1>5. Front(Values(s)) = Values(t) /\ Last(Values(s)) = Chosen(e)
  BY <1>3, <1>4, EndsOfAppend
<1> QED
  BY <1>2, <1>5

-------------------------------------------------------------------------------
(* What a level of a stack has left in the cell: in the cell if no level     *)
(* further in has a wrapper, and otherwise in the first slot of the next one *)
(* that has.                                                                 *)

\* The wrapped levels of the stack st further in than k.
Inner(st, sl, k) == {j \in DOMAIN st : j > k /\ sl[st[j]] # <<>>}

\* CellAt, for a stack st, slots sl and a content c of the cell.
SavedAt(st, sl, c, k) ==
    IF Inner(st, sl, k) = {} THEN c
    ELSE sl[st[CHOOSE j \in Inner(st, sl, k) : \A i \in Inner(st, sl, k) : j <= i]][1]

LEMMA CellAtIsSaved ==
    ASSUME NEW w \in Workers, NEW k
    PROVE  /\ CellAt(w, k) = SavedAt(stack[w], slots, cell[w], k)
           /\ CellAt(w, k)' = SavedAt(stack'[w], slots', cell'[w], k)
BY DEF CellAt, SavedAt, Inner

\* The next wrapped level is the only one that counts.
LEMMA SavedInNext ==
    ASSUME NEW st, NEW sl, NEW c, NEW k, NEW j \in Inner(st, sl, k),
           Inner(st, sl, k) \subseteq Nat, \A i \in Inner(st, sl, k) : j <= i
    PROVE  SavedAt(st, sl, c, k) = sl[st[j]][1]
<1> DEFINE I == Inner(st, sl, k)
           n == CHOOSE m \in I : \A i \in I : m <= i
<1>1. n \in I /\ \A i \in I : n <= i
  OBVIOUS
<1>2. n = j
  BY <1>1
<1> QED
  BY <1>2 DEF SavedAt

\* Levels without wrappers change nothing.
LEMMA SavedSkips ==
    ASSUME NEW st, NEW sl, NEW c, NEW k \in Nat, NEW m \in Nat, k <= m,
           DOMAIN st \subseteq Nat,
           \A j \in DOMAIN st : k < j /\ j <= m => sl[st[j]] = <<>>
    PROVE  SavedAt(st, sl, c, k) = SavedAt(st, sl, c, m)
<1>1. Inner(st, sl, k) = Inner(st, sl, m)
  BY DEF Inner
<1> QED
  BY <1>1 DEF SavedAt

LEMMA SavedInCell ==
    ASSUME NEW st, NEW sl, NEW c, NEW k \in Nat, DOMAIN st \subseteq Nat,
           \A j \in DOMAIN st : k < j => sl[st[j]] = <<>>
    PROVE  SavedAt(st, sl, c, k) = c
<1>1. Inner(st, sl, k) = {}
  BY DEF Inner
<1> QED
  BY <1>1 DEF SavedAt

\* Down to level m, two stacks and their slots are the same.
SameLevels(st, su, sl, sm, m) ==
    /\ m <= Len(st) /\ m <= Len(su)
    /\ \A k \in 1 .. m : su[k] = st[k] /\ sm[st[k]] = sl[st[k]]

\* If the levels of a stack down to m stay as they are, and level m leaves the
\* same in the cell as before, then so do the levels further out.
LEMMA SavedKept ==
    ASSUME NEW st \in Seq(Futures), NEW su \in Seq(Futures), NEW sl, NEW sm, NEW c, NEW d,
           NEW m \in Nat, SameLevels(st, su, sl, sm, m),
           SavedAt(su, sm, d, m) = SavedAt(st, sl, c, m),
           NEW k \in 0 .. m
    PROVE  SavedAt(su, sm, d, k) = SavedAt(st, sl, c, k)
<1>0. /\ m <= Len(st) /\ m <= Len(su)
      /\ \A i \in 1 .. m : su[i] = st[i] /\ sm[st[i]] = sl[st[i]]
  BY DEF SameLevels
<1>1. /\ Len(st) \in Nat /\ DOMAIN st = 1 .. Len(st)
      /\ Len(su) \in Nat /\ DOMAIN su = 1 .. Len(su)
  BY LenProperties
<1>2. DOMAIN st \subseteq Nat /\ DOMAIN su \subseteq Nat /\ k \in Nat /\ k <= m
  BY <1>1
<1> DEFINE T == {j \in k + 1 .. m : sl[st[j]] # <<>>}
<1>3. CASE T = {}
  <2>1. \A j \in k + 1 .. m : sl[st[j]] = <<>> /\ sm[su[j]] = <<>>
    BY <1>0, <1>3
  <2>2. \A j \in DOMAIN st : k < j /\ j <= m => sl[st[j]] = <<>>
    BY <1>1, <2>1
  <2>3. \A j \in DOMAIN su : k < j /\ j <= m => sm[su[j]] = <<>>
    BY <1>1, <2>1
  <2>4. SavedAt(st, sl, c, k) = SavedAt(st, sl, c, m)
    BY <1>2, <2>2, SavedSkips
  <2>5. SavedAt(su, sm, d, k) = SavedAt(su, sm, d, m)
    BY <1>2, <2>3, SavedSkips
  <2> QED
    BY <2>4, <2>5
<1>4. CASE T # {}
  <2>1. T \subseteq Nat
    OBVIOUS
  <2>2. PICK j \in T : \A i \in T : j <= i
    BY <1>4, <2>1, LeastExists
  <2>3. /\ j \in 1 .. m /\ k < j /\ su[j] = st[j] /\ sm[su[j]] = sl[st[j]]
        /\ sl[st[j]] # <<>>
    BY <1>0
  <2>4. j \in Inner(st, sl, k) /\ j \in Inner(su, sm, k)
    BY <1>0, <1>1, <2>3 DEF Inner
  <2>5. ASSUME NEW i \in Inner(st, sl, k) PROVE j <= i
    <3>1. i \in 1 .. Len(st) /\ i > k /\ sl[st[i]] # <<>>
      BY <1>1 DEF Inner
    <3>2. i \in Nat /\ j \in Nat /\ m \in Nat /\ (i <= m => i \in T)
      BY <1>0, <3>1
    <3> QED
      BY <2>2, <2>3, <3>2
  <2>6. ASSUME NEW i \in Inner(su, sm, k) PROVE j <= i
    <3>1. i \in 1 .. Len(su) /\ i > k /\ sm[su[i]] # <<>>
      BY <1>1 DEF Inner
    <3>2. i \in Nat /\ j \in Nat /\ m \in Nat /\ (i <= m => i \in T)
      BY <1>0, <3>1
    <3> QED
      BY <2>2, <2>3, <3>2
  <2>7. Inner(st, sl, k) \subseteq Nat /\ Inner(su, sm, k) \subseteq Nat
    BY <1>1 DEF Inner
  <2>8. SavedAt(st, sl, c, k) = sl[st[j]][1]
    BY <2>4, <2>5, <2>7, SavedInNext
  <2>9. SavedAt(su, sm, d, k) = sm[su[j]][1]
    BY <2>4, <2>6, <2>7, SavedInNext
  <2> QED
    BY <2>3, <2>8, <2>9
<1> QED
  BY <1>3, <1>4

-------------------------------------------------------------------------------
(* The slots that belong to a future.                                        *)

\* Where a future is polled.
LEMMA PositionsOf ==
    ASSUME TypeOK, NEW f
    PROVE  \A p : p \in Positions(f) <=>
                    \E w \in Workers : \E k \in 1 .. Len(stack[w]) :
                        stack[w][k] = f /\ p = <<w, k>>
<1>1. \A w \in Workers : DOMAIN stack[w] = 1 .. Len(stack[w])
  BY LenProperties DEF TypeOK
<1> QED
  BY <1>1 DEF Positions

\* What OwnSlots is, for a future that is being polled and for one at rest.
OwnDefined ==
    \A f \in Futures :
        /\ \A w \in Workers : \A k \in 1 .. Len(stack[w]) :
             stack[w][k] = f /\ slots[f] # <<>> =>
                 OwnSlots(f) = Append(Tail(slots[f]), CellAt(w, k))
        /\ \/ slots[f] = <<>>
           \/ \A w \in Workers : \A k \in 1 .. Len(stack[w]) : stack[w][k] # f
           => OwnSlots(f) = slots[f]

LEMMA OwnIsDefined == TypeOK /\ PolledOnce => OwnDefined
<1> SUFFICES ASSUME TypeOK, PolledOnce, NEW f \in Futures
             PROVE  /\ \A w \in Workers : \A k \in 1 .. Len(stack[w]) :
                         stack[w][k] = f /\ slots[f] # <<>> =>
                             OwnSlots(f) = Append(Tail(slots[f]), CellAt(w, k))
                    /\ \/ slots[f] = <<>>
                       \/ \A w \in Workers : \A k \in 1 .. Len(stack[w]) : stack[w][k] # f
                       => OwnSlots(f) = slots[f]
  BY DEF OwnDefined
<1>1. ASSUME \/ slots[f] = <<>>
             \/ \A w \in Workers : \A k \in 1 .. Len(stack[w]) : stack[w][k] # f
      PROVE  OwnSlots(f) = slots[f]
  <2>1. slots[f] = <<>> \/ Positions(f) = {}
    BY <1>1, PositionsOf
  <2> QED
    BY <2>1 DEF OwnSlots
<1>2. ASSUME NEW w \in Workers, NEW k \in 1 .. Len(stack[w]),
             stack[w][k] = f, slots[f] # <<>>
      PROVE  OwnSlots(f) = Append(Tail(slots[f]), CellAt(w, k))
  <2> DEFINE p == CHOOSE q \in Positions(f) : TRUE
  <2>1. <<w, k>> \in Positions(f)
    BY <1>2, PositionsOf
  <2>2. p \in Positions(f)
    BY <2>1
  <2>3. OwnSlots(f) = Append(Tail(slots[f]), CellAt(p[1], p[2]))
    BY <1>2, <2>1 DEF OwnSlots
  <2> HIDE DEF p
  <2>4. PICK v \in Workers : \E j \in 1 .. Len(stack[v]) : stack[v][j] = f /\ p = <<v, j>>
    BY <2>2, PositionsOf
  <2>5. PICK j \in 1 .. Len(stack[v]) : stack[v][j] = f /\ p = <<v, j>>
    BY <2>4
  <2>6. v = w /\ j = k
    BY <1>2, <2>5 DEF PolledOnce
  <2>7. p[1] = w /\ p[2] = k
    BY <2>5, <2>6
  <2> QED
    BY <2>3, <2>7
<1> QED
  BY <1>1, <1>2

LEMMA OwnIsDefinedNext == (TypeOK /\ PolledOnce => OwnDefined)'
BY OwnIsDefined, PTL

-------------------------------------------------------------------------------
(* Who is not concerned by a step.                                           *)

\* The levels of worker v down to m stay as they are, and leave the same in
\* the cell; further in there is nobody with a wrapper but f.
Keeps(v, m, f) ==
    /\ m <= Len(stack[v]) /\ m <= Len(stack'[v])
    /\ \A k \in 1 .. m : /\ stack'[v][k] = stack[v][k]
                         /\ slots'[stack[v][k]] = slots[stack[v][k]]
    /\ CellAt(v, m)' = CellAt(v, m)
    /\ \A k \in 1 .. Len(stack[v]) :
         k <= m \/ stack[v][k] = f \/ slots[stack[v][k]] = <<>>
    /\ \A k \in 1 .. Len(stack'[v]) :
         k <= m \/ stack'[v][k] = f \/ slots'[stack'[v][k]] = <<>>

LEMMA OthersOwn ==
    ASSUME TypeOK, TypeOK', OwnDefined, OwnDefined', NEW f,
           NEW g \in Futures, g # f, slots'[g] = slots[g],
           \A v \in Workers : \E m \in Nat : Keeps(v, m, f)
    PROVE  OwnSlots(g)' = OwnSlots(g)
<1>1. CASE slots[g] = <<>>
  BY <1>1 DEF OwnDefined
<1>2. ASSUME slots[g] # <<>>,
             NEW v \in Workers, NEW k \in 1 .. Len(stack[v]), stack[v][k] = g
      PROVE  OwnSlots(g)' = OwnSlots(g)
  <2>1. PICK m \in Nat : Keeps(v, m, f)
    OBVIOUS
  <2>2. k <= m
    BY <1>2, <2>1 DEF Keeps
  <2>3. /\ stack[v] \in Seq(Futures) /\ stack'[v] \in Seq(Futures)
        /\ Len(stack[v]) \in Nat /\ Len(stack'[v]) \in Nat
    BY LenProperties DEF TypeOK
  <2>4. k \in 0 .. m /\ k \in 1 .. m /\ k \in 1 .. Len(stack'[v]) /\ stack'[v][k] = g
    BY <1>2, <2>1, <2>2, <2>3 DEF Keeps
  <2>5. CellAt(v, k)' = CellAt(v, k)
    <3>1. SavedAt(stack'[v], slots', cell'[v], m) = SavedAt(stack[v], slots, cell[v], m)
      BY <2>1, CellAtIsSaved DEF Keeps
    <3>2. SameLevels(stack[v], stack'[v], slots, slots', m)
      BY <2>1 DEF Keeps, SameLevels
    <3>3. SavedAt(stack'[v], slots', cell'[v], k) = SavedAt(stack[v], slots, cell[v], k)
      BY <2>3, <2>4, <3>1, <3>2, SavedKept
    <3> QED
      BY <3>3, CellAtIsSaved
  <2>6. OwnSlots(g) = Append(Tail(slots[g]), CellAt(v, k))
    BY <1>2 DEF OwnDefined
  <2>7. OwnSlots(g)' = Append(Tail(slots'[g]), CellAt(v, k)')
    BY <1>2, <2>4 DEF OwnDefined
  <2> QED
    BY <2>5, <2>6, <2>7
<1>3. ASSUME slots[g] # <<>>,
             \A v \in Workers : \A k \in 1 .. Len(stack[v]) : stack[v][k] # g
      PROVE  OwnSlots(g)' = OwnSlots(g)
  <2>1. ASSUME NEW v \in Workers, NEW k \in 1 .. Len(stack'[v]) PROVE stack'[v][k] # g
    <3>1. PICK m \in Nat : Keeps(v, m, f)
      OBVIOUS
    <3>2. Len(stack[v]) \in Nat /\ Len(stack'[v]) \in Nat
      BY LenProperties DEF TypeOK
    <3>3. CASE k <= m
      <4>1. k \in 1 .. m /\ k \in 1 .. Len(stack[v])
        BY <3>1, <3>2, <3>3 DEF Keeps
      <4>2. stack'[v][k] = stack[v][k]
        BY <3>1, <4>1 DEF Keeps
      <4> QED
        BY <1>3, <4>1, <4>2
    <3>4. CASE ~(k <= m)
      BY <1>3, <3>1, <3>4 DEF Keeps
    <3> QED
      BY <3>3, <3>4
  <2>2. OwnSlots(g)' = slots'[g]
    BY <2>1 DEF OwnDefined
  <2>3. OwnSlots(g) = slots[g]
    BY <1>3 DEF OwnDefined
  <2> QED
    BY <2>2, <2>3
<1> QED
  BY <1>1, <1>2, <1>3

LEMMA SavedAtTop ==
    ASSUME NEW st \in Seq(Futures), NEW sl, NEW c, NEW n \in Nat, Len(st) = n
    PROVE  SavedAt(st, sl, c, n) = c
<1>1. DOMAIN st = 1 .. n
  BY LenProperties
<1>2. DOMAIN st \subseteq Nat /\ \A j \in DOMAIN st : n < j => sl[st[j]] = <<>>
  BY <1>1
<1> QED
  BY <1>2, SavedInCell

LEMMA SavedBelowTop ==
    ASSUME NEW st \in Seq(Futures), NEW sl, NEW c, NEW n \in Nat, Len(st) = n + 1
    PROVE  SavedAt(st, sl, c, n) = IF sl[st[n + 1]] = <<>> THEN c ELSE sl[st[n + 1]][1]
<1>1. DOMAIN st = 1 .. n + 1 /\ DOMAIN st \subseteq Nat
  BY LenProperties
<1>2. CASE sl[st[n + 1]] = <<>>
  <2>1. \A j \in DOMAIN st : n < j => sl[st[j]] = <<>>
    BY <1>1, <1>2
  <2> QED
    BY <1>1, <1>2, <2>1, SavedInCell
<1>3. CASE sl[st[n + 1]] # <<>>
  <2>1. Inner(st, sl, n) = {n + 1}
    BY <1>1, <1>3 DEF Inner
  <2>2. n + 1 \in Inner(st, sl, n) /\ Inner(st, sl, n) \subseteq Nat
        /\ \A i \in Inner(st, sl, n) : n + 1 <= i
    BY <2>1
  <2> QED
    BY <1>3, <2>2, SavedInNext
<1> QED
  BY <1>2, <1>3

\* A worker whose futures are left alone.
LEMMA IdleKeeps ==
    ASSUME TypeOK, NEW v \in Workers, NEW f,
           stack'[v] = stack[v], cell'[v] = cell[v],
           \A k \in 1 .. Len(stack[v]) : slots'[stack[v][k]] = slots[stack[v][k]]
    PROVE  \E m \in Nat : Keeps(v, m, f)
<1>1. PICK m \in Nat : m = Len(stack[v])
  BY LenProperties DEF TypeOK
<1>2. stack[v] \in Seq(Futures)
  BY DEF TypeOK
<1>3. SavedAt(stack[v], slots, cell[v], m) = cell[v]
  BY <1>1, <1>2, SavedAtTop
<1>4. SavedAt(stack'[v], slots', cell'[v], m) = cell[v]
  BY <1>1, <1>2, SavedAtTop
<1>5. CellAt(v, m)' = CellAt(v, m)
  BY <1>3, <1>4, CellAtIsSaved
<1>6. Keeps(v, m, f)
  BY <1>1, <1>5 DEF Keeps
<1> QED
  BY <1>6

\* What all steps of this section assume.
Sane == TypeOK /\ PolledOnce /\ OutermostSavedNothing /\ OwnDefined

-------------------------------------------------------------------------------
(* A poll starts and ends without any slot changing its owner.               *)

LEMMA SwapIn ==
    ASSUME NEW S, NEW s \in Seq(S), s # <<>>, NEW e \in S
    PROVE  Append(Tail(<<e>> \o Front(s)), Last(s)) = s
<1>1. PICK t \in Seq(S), x \in S : s = Append(t, x)
  BY SequenceEmptyOrAppend
<1>2. Front(s) = t /\ Last(s) = x
  BY <1>1, EndsOfAppend
<1>3. Tail(<<e>> \o t) = t
  <2>1. Len(t) \in Nat /\ <<e>> \in Seq(S) /\ Len(<<e>>) = 1
    BY LenProperties
  <2>2. /\ <<e>> \o t \in Seq(S) /\ Len(<<e>> \o t) = 1 + Len(t)
        /\ \A i \in 1 .. Len(t) : (<<e>> \o t)[i + 1] = t[i]
    BY <2>1, ConcatProperties
  <2>3. <<e>> \o t # <<>>
    BY <2>1, <2>2, EmptySeq
  <2>4. /\ Tail(<<e>> \o t) \in Seq(S) /\ Len(Tail(<<e>> \o t)) = Len(t)
        /\ \A i \in 1 .. Len(t) : Tail(<<e>> \o t)[i] = (<<e>> \o t)[i + 1]
    BY <2>1, <2>2, <2>3, HeadTailProperties
  <2>5. \A i \in 1 .. Len(t) : Tail(<<e>> \o t)[i] = t[i]
    BY <2>2, <2>4
  <2> QED
    BY <2>4, <2>5, SeqEqual
<1> QED
  BY <1>1, <1>2, <1>3

LEMMA BeginPollOwn ==
    ASSUME Sane, Sane', NEW w \in Workers, NEW f \in Futures, BeginPoll(w, f)
    PROVE  \A g \in Futures : OwnSlots(g)' = OwnSlots(g)
<1>0. PICK n \in Nat : n = Len(stack[w])
  BY LenProperties DEF Sane, TypeOK
<1>1. \A v \in Workers : \A k \in 1 .. Len(stack[v]) : stack[v][k] # f /\ stack[v][k] \in Futures
  BY NotPolled, ElementOfSeq DEF BeginPoll, Sane, TypeOK
<1>2. \A g \in Futures \ {f} : slots'[g] = slots[g]
  BY DEF BeginPoll, Sane, TypeOK
<1>3. /\ Len(stack'[w]) = n + 1
      /\ \A k \in 1 .. n : stack'[w][k] = stack[w][k]
      /\ stack'[w][n + 1] = f
      /\ \A v \in Workers \ {w} : stack'[v] = stack[v] /\ cell'[v] = cell[v]
  BY <1>0, Pushed DEF BeginPoll, Sane, TypeOK
<1>4. stack[w] \in Seq(Futures) /\ stack'[w] \in Seq(Futures) /\ slots[f] \in Seq(OptionalMaps)
      /\ cell[w] \in OptionalMaps
  BY DEF Sane, TypeOK
<1>5. CellAt(w, n)' = cell[w]
  <2>1. CASE slots[f] = <<>>
    <3>1. slots' = slots /\ cell' = cell
      BY <2>1 DEF BeginPoll
    <3> QED
      BY <1>3, <1>4, <2>1, <3>1, SavedBelowTop, CellAtIsSaved
  <2>2. CASE slots[f] # <<>>
    <3>1. slots'[f] # <<>> /\ slots'[f][1] = cell[w]
      BY <1>4, <2>2, SwappedIn DEF BeginPoll, Sane, TypeOK
    <3> QED
      BY <1>3, <1>4, <3>1, SavedBelowTop, CellAtIsSaved
  <2> QED
    BY <2>1, <2>2
<1>6. CellAt(w, n) = cell[w]
  BY <1>0, <1>4, SavedAtTop, CellAtIsSaved
<1>7. Keeps(w, n, f)
  <2>1. \A k \in 1 .. n : slots'[stack[w][k]] = slots[stack[w][k]]
    BY <1>0, <1>1, <1>2
  <2>2. \A k \in 1 .. n + 1 : k <= n \/ k = n + 1
    OBVIOUS
  <2> QED
    BY <1>0, <1>3, <1>5, <1>6, <2>1, <2>2 DEF Keeps
<1>8. ASSUME NEW v \in Workers \ {w} PROVE \E m \in Nat : Keeps(v, m, f)
  <2>1. \A k \in 1 .. Len(stack[v]) : slots'[stack[v][k]] = slots[stack[v][k]]
    BY <1>1, <1>2
  <2> QED
    BY <1>3, <2>1, IdleKeeps DEF Sane
<1>9. ASSUME NEW g \in Futures \ {f} PROVE OwnSlots(g)' = OwnSlots(g)
  BY <1>2, <1>7, <1>8, OthersOwn DEF Sane
<1>10. OwnSlots(f)' = OwnSlots(f)
  <2>1. OwnSlots(f) = slots[f]
    BY <1>1 DEF Sane, OwnDefined
  <2>2. CASE slots[f] = <<>>
    <3>1. slots' = slots
      BY <2>2 DEF BeginPoll
    <3> QED
      BY <2>1, <2>2, <3>1 DEF Sane, OwnDefined
  <2>3. CASE slots[f] # <<>>
    <3>1. slots'[f] = <<cell[w]>> \o Front(slots[f]) /\ cell'[w] = Last(slots[f])
      BY <2>3 DEF BeginPoll, Sane, TypeOK
    <3>2. slots'[f] # <<>>
      BY <1>4, <2>3, <3>1, SwappedIn
    <3>3. CellAt(w, n + 1)' = cell'[w]
      <4>1. n + 1 \in Nat
        OBVIOUS
      <4>2. SavedAt(stack'[w], slots', cell'[w], n + 1) = cell'[w]
        BY <1>3, <1>4, <4>1, SavedAtTop
      <4> QED
        BY <4>2, CellAtIsSaved
    <3>4. n + 1 \in 1 .. Len(stack'[w])
      BY <1>3
    <3>5. OwnSlots(f)' = Append(Tail(slots'[f]), CellAt(w, n + 1)')
      BY <1>3, <3>2, <3>4 DEF Sane, OwnDefined
    <3>6. Append(Tail(<<cell[w]>> \o Front(slots[f])), Last(slots[f])) = slots[f]
      BY <1>4, <2>3, SwapIn
    <3> QED
      BY <2>1, <3>1, <3>3, <3>5, <3>6
  <2> QED
    BY <2>2, <2>3
<1> QED
  BY <1>9, <1>10

\* The innermost future of a worker goes on, or returns from its poll: if what
\* it leaves to those further out is the same, nobody else is concerned.
LEMMA InnermostOwn ==
    ASSUME Sane, Sane', NEW w \in Workers, NEW n \in Nat, Len(stack[w]) = n + 1,
           NEW f \in Futures, stack[w][n + 1] = f,
           \A v \in Workers \ {w} : stack'[v] = stack[v] /\ cell'[v] = cell[v],
           \A g \in Futures \ {f} : slots'[g] = slots[g],
           \A k \in 1 .. n : stack'[w][k] = stack[w][k],
           \/ Len(stack'[w]) = n
           \/ Len(stack'[w]) = n + 1 /\ stack'[w][n + 1] = f,
           CellAt(w, n)' = CellAt(w, n)
    PROVE  \A g \in Futures \ {f} : OwnSlots(g)' = OwnSlots(g)
<1>1. \A v \in Workers : \A k \in 1 .. Len(stack[v]) : stack[v][k] \in Futures
  BY ElementOfSeq DEF Sane, TypeOK
<1>2. \A v \in Workers : \A k \in 1 .. Len(stack[v]) :
        stack[v][k] = f => v = w /\ k = n + 1
  BY DEF Sane, PolledOnce
<1>3. Keeps(w, n, f)
  <2>1. ASSUME NEW k \in 1 .. n PROVE slots'[stack[w][k]] = slots[stack[w][k]]
    <3>1. k \in 1 .. Len(stack[w]) /\ k # n + 1
      OBVIOUS
    <3>2. stack[w][k] \in Futures \ {f}
      BY <1>1, <1>2, <3>1
    <3> QED
      BY <3>2
  <2>2. \A k \in 1 .. n + 1 : k <= n \/ k = n + 1
    OBVIOUS
  <2> QED
    BY <2>1, <2>2 DEF Keeps
<1>4. ASSUME NEW v \in Workers \ {w} PROVE \E m \in Nat : Keeps(v, m, f)
  <2>1. \A k \in 1 .. Len(stack[v]) : slots'[stack[v][k]] = slots[stack[v][k]]
    BY <1>1, <1>2
  <2> QED
    BY <2>1, IdleKeeps DEF Sane
<1> QED
  BY <1>3, <1>4, OthersOwn DEF Sane

LEMMA EndPollOwn ==
    ASSUME Sane, Sane', NEW w \in Workers, EndPoll(w)
    PROVE  \A g \in Futures : OwnSlots(g)' = OwnSlots(g)
<1>1. PICK n \in Nat : Len(stack[w]) = n + 1 /\ Len(stack'[w]) = n
  <2>1. Len(stack[w]) \in Nat \ {0} /\ Len(stack'[w]) = Len(stack[w]) - 1
    BY Popped DEF Sane
  <2>2. Len(stack[w]) - 1 \in Nat /\ Len(stack[w]) = (Len(stack[w]) - 1) + 1
    BY <2>1
  <2> QED
    BY <2>1, <2>2
<1>2. PICK f \in Futures : f = Last(stack[w]) /\ stack[w][n + 1] = f
  BY <1>1, Popped DEF Sane
<1>3. /\ \A v \in Workers \ {w} : stack'[v] = stack[v] /\ cell'[v] = cell[v]
      /\ \A g \in Futures \ {f} : slots'[g] = slots[g]
  BY <1>2 DEF EndPoll, Sane, TypeOK
<1>4. \A k \in 1 .. n : stack'[w][k] = stack[w][k]
  BY <1>1, Popped DEF Sane
<1>5. stack[w] \in Seq(Futures) /\ stack'[w] \in Seq(Futures) /\ slots[f] \in Seq(OptionalMaps)
      /\ cell[w] \in OptionalMaps
  BY DEF Sane, TypeOK
<1>6. CellAt(w, n)' = cell'[w]
  BY <1>1, <1>5, SavedAtTop, CellAtIsSaved
<1>7. CellAt(w, n) = IF slots[f] = <<>> THEN cell[w] ELSE slots[f][1]
  <2>1. SavedAt(stack[w], slots, cell[w], n)
          = IF slots[stack[w][n + 1]] = <<>> THEN cell[w] ELSE slots[stack[w][n + 1]][1]
    BY <1>1, <1>5, SavedBelowTop
  <2> QED
    BY <1>2, <2>1, CellAtIsSaved
<1>8. cell'[w] = IF slots[f] = <<>> THEN cell[w] ELSE slots[f][1]
  <2>1. CASE slots[f] = <<>>
    BY <1>2, <2>1 DEF EndPoll
  <2>2. CASE slots[f] # <<>>
    <3>1. cell'[w] = Head(slots[f])
      BY <1>2, <2>2 DEF EndPoll, Sane, TypeOK
    <3>2. Head(slots[f]) = slots[f][1]
      BY <1>5, <2>2, SwappedOut
    <3> QED
      BY <2>2, <3>1, <3>2
  <2> QED
    BY <2>1, <2>2
<1>9. \A g \in Futures \ {f} : OwnSlots(g)' = OwnSlots(g)
  BY <1>1, <1>2, <1>3, <1>4, <1>6, <1>7, <1>8, InnermostOwn
<1>10. OwnSlots(f)' = OwnSlots(f)
  <2>1. OwnSlots(f)' = slots'[f]
    <3>1. ASSUME NEW v \in Workers, NEW k \in 1 .. Len(stack'[v]) PROVE stack'[v][k] # f
      <4>1. k \in 1 .. Len(stack[v]) /\ stack'[v][k] = stack[v][k] /\ ~(v = w /\ k = n + 1)
        BY <1>1, <1>3, <1>4
      <4>2. n + 1 \in 1 .. Len(stack[w])
        BY <1>1
      <4> QED
        BY <1>2, <4>1, <4>2 DEF Sane, PolledOnce
    <3> QED
      BY <3>1 DEF Sane, OwnDefined
  <2>2. CASE slots[f] = <<>>
    <3>1. slots' = slots
      BY <1>2, <2>2 DEF EndPoll
    <3> QED
      BY <2>1, <2>2, <3>1 DEF Sane, OwnDefined
  <2>3. CASE slots[f] # <<>>
    <3>1. n + 1 \in 1 .. Len(stack[w])
      BY <1>1
    <3>2. OwnSlots(f) = Append(Tail(slots[f]), CellAt(w, n + 1))
      BY <1>2, <2>3, <3>1 DEF Sane, OwnDefined
    <3>3. CellAt(w, n + 1) = cell[w]
      BY <1>1, <1>5, SavedAtTop, CellAtIsSaved
    <3>4. slots'[f] = Append(Tail(slots[f]), cell[w])
      BY <1>2, <2>3 DEF EndPoll, Sane, TypeOK
    <3> QED
      BY <2>1, <3>2, <3>3, <3>4
  <2> QED
    BY <2>2, <2>3
<1> QED
  BY <1>9, <1>10

-------------------------------------------------------------------------------
(* Entering and leaving a wrapper.                                           *)

\* Where the innermost future is, and what it has left in the cell.
LEMMA InnermostAt ==
    ASSUME Sane, NEW w \in Workers, stack[w] # <<>>, NEW f \in Futures, f = Last(stack[w])
    PROVE  \E n \in Nat :
             /\ Len(stack[w]) = n + 1
             /\ stack[w][n + 1] = f
             /\ CellAt(w, n) = IF slots[f] = <<>> THEN cell[w] ELSE slots[f][1]
             /\ OwnSlots(f) = IF slots[f] = <<>> THEN <<>> ELSE Append(Tail(slots[f]), cell[w])
<1>1. PICK n \in Nat : Len(stack[w]) = n + 1
  <2>1. Len(stack[w]) \in Nat \ {0}
    BY InnermostAlone DEF Sane
  <2>2. Len(stack[w]) - 1 \in Nat /\ Len(stack[w]) = (Len(stack[w]) - 1) + 1
    BY <2>1
  <2> QED
    BY <2>2
<1>2. stack[w][n + 1] = f
  BY <1>1, InnermostAlone DEF Sane
<1>3. stack[w] \in Seq(Futures)
  BY DEF Sane, TypeOK
<1>4. CellAt(w, n) = IF slots[f] = <<>> THEN cell[w] ELSE slots[f][1]
  <2>1. SavedAt(stack[w], slots, cell[w], n)
          = IF slots[stack[w][n + 1]] = <<>> THEN cell[w] ELSE slots[stack[w][n + 1]][1]
    BY <1>1, <1>3, SavedBelowTop
  <2> QED
    BY <1>2, <2>1, CellAtIsSaved
<1>5. OwnSlots(f) = IF slots[f] = <<>> THEN <<>> ELSE Append(Tail(slots[f]), cell[w])
  <2>1. CASE slots[f] = <<>>
    BY <2>1 DEF Sane, OwnDefined
  <2>2. CASE slots[f] # <<>>
    <3>1. n + 1 \in 1 .. Len(stack[w]) /\ n + 1 \in Nat
      BY <1>1
    <3>2. OwnSlots(f) = Append(Tail(slots[f]), CellAt(w, n + 1))
      BY <1>2, <2>2, <3>1 DEF Sane, OwnDefined
    <3>3. SavedAt(stack[w], slots, cell[w], n + 1) = cell[w]
      BY <1>1, <1>3, <3>1, SavedAtTop
    <3>4. CellAt(w, n + 1) = cell[w]
      BY <3>3, CellAtIsSaved
    <3> QED
      BY <2>2, <3>2, <3>4
  <2> QED
    BY <2>1, <2>2
<1> QED
  BY <1>1, <1>2, <1>4, <1>5

\* The same in the next state, for a step that leaves the stacks alone.
LEMMA InnermostNext ==
    ASSUME Sane', NEW w \in Workers, UNCHANGED stack, NEW n \in Nat, NEW f \in Futures,
           Len(stack[w]) = n + 1, stack[w][n + 1] = f
    PROVE  /\ CellAt(w, n)' = IF slots'[f] = <<>> THEN cell'[w] ELSE slots'[f][1]
           /\ OwnSlots(f)' = IF slots'[f] = <<>> THEN <<>>
                             ELSE Append(Tail(slots'[f]), cell'[w])
<1>1. stack'[w] \in Seq(Futures) /\ Len(stack'[w]) = n + 1 /\ stack'[w][n + 1] = f
  BY DEF Sane, TypeOK
<1>2. CellAt(w, n)' = IF slots'[f] = <<>> THEN cell'[w] ELSE slots'[f][1]
  <2>1. SavedAt(stack'[w], slots', cell'[w], n)
          = IF slots'[stack'[w][n + 1]] = <<>> THEN cell'[w] ELSE slots'[stack'[w][n + 1]][1]
    BY <1>1, SavedBelowTop
  <2> QED
    BY <1>1, <2>1, CellAtIsSaved
<1>3. CASE slots'[f] = <<>>
  BY <1>2, <1>3 DEF Sane, OwnDefined
<1>4. CASE slots'[f] # <<>>
  <2>1. n + 1 \in 1 .. Len(stack'[w]) /\ n + 1 \in Nat
    BY <1>1
  <2>2. OwnSlots(f)' = Append(Tail(slots'[f]), CellAt(w, n + 1)')
    BY <1>1, <1>4, <2>1 DEF Sane, OwnDefined
  <2>3. SavedAt(stack'[w], slots', cell'[w], n + 1) = cell'[w]
    BY <1>1, <2>1, SavedAtTop
  <2>4. CellAt(w, n + 1)' = cell'[w]
    BY <2>3, CellAtIsSaved
  <2> QED
    BY <1>2, <1>4, <2>2, <2>4
<1> QED
  BY <1>3, <1>4

\* Entering adds an empty map to those of the innermost future.
LEMMA EnterOwn ==
    ASSUME Sane, Sane', NEW w \in Workers, Enter(w), NEW f \in Futures, f = Last(stack[w])
    PROVE  /\ OwnSlots(f)' = Append(OwnSlots(f), {Context!EmptyMap})
           /\ \A g \in Futures \ {f} : OwnSlots(g)' = OwnSlots(g)
<1>1. PICK n \in Nat :
        /\ Len(stack[w]) = n + 1
        /\ stack[w][n + 1] = f
        /\ CellAt(w, n) = IF slots[f] = <<>> THEN cell[w] ELSE slots[f][1]
        /\ OwnSlots(f) = IF slots[f] = <<>> THEN <<>> ELSE Append(Tail(slots[f]), cell[w])
  BY InnermostAt DEF Enter
<1>2. /\ UNCHANGED stack
      /\ \A v \in Workers \ {w} : cell'[v] = cell[v]
      /\ \A g \in Futures \ {f} : slots'[g] = slots[g]
      /\ slots'[f] = Append(slots[f], cell[w])
      /\ cell'[w] = {Context!EmptyMap}
  BY DEF Enter, Sane, TypeOK
<1>3. slots[f] \in Seq(OptionalMaps) /\ cell[w] \in OptionalMaps
  BY DEF Sane, TypeOK
<1>4. /\ slots'[f] # <<>>
      /\ slots'[f][1] = IF slots[f] = <<>> THEN cell[w] ELSE slots[f][1]
      /\ Tail(slots'[f]) = IF slots[f] = <<>> THEN <<>> ELSE Append(Tail(slots[f]), cell[w])
  <2>1. slots'[f] # <<>> /\ slots'[f] \in Seq(OptionalMaps)
    BY <1>2, <1>3, AppendShape
  <2>2. Head(slots'[f]) = IF slots[f] = <<>> THEN cell[w] ELSE Head(slots[f])
    BY <1>2, <1>3, HeadTailAppend
  <2>3. Tail(slots'[f]) = IF slots[f] = <<>> THEN <<>> ELSE Append(Tail(slots[f]), cell[w])
    BY <1>2, <1>3, HeadTailAppend
  <2>4. Head(slots'[f]) = slots'[f][1]
    BY <2>1, <1>3, SwappedOut
  <2>5. slots[f] # <<>> => Head(slots[f]) = slots[f][1]
    BY <1>3, SwappedOut
  <2> QED
    BY <2>1, <2>2, <2>3, <2>4, <2>5
<1>5. /\ CellAt(w, n)' = slots'[f][1]
      /\ OwnSlots(f)' = Append(Tail(slots'[f]), cell'[w])
  BY <1>1, <1>2, <1>4, InnermostNext
<1>6. \A g \in Futures \ {f} : OwnSlots(g)' = OwnSlots(g)
  <2>1. \A k \in 1 .. n : stack'[w][k] = stack[w][k]
    BY <1>2
  <2>2. CellAt(w, n)' = CellAt(w, n)
    BY <1>1, <1>4, <1>5
  <2> QED
    BY <1>1, <1>2, <2>1, <2>2, InnermostOwn
<1>7. OwnSlots(f)' = Append(OwnSlots(f), {Context!EmptyMap})
  BY <1>1, <1>2, <1>4, <1>5
<1> QED
  BY <1>6, <1>7

\* Leaving takes the last map away.
LEMMA LeaveOwn ==
    ASSUME Sane, Sane', NEW w \in Workers, Leave(w), NEW f \in Futures, f = Last(stack[w])
    PROVE  /\ OwnSlots(f) # <<>>
           /\ OwnSlots(f)' = Front(OwnSlots(f))
           /\ \A g \in Futures \ {f} : OwnSlots(g)' = OwnSlots(g)
<1>1. PICK n \in Nat :
        /\ Len(stack[w]) = n + 1
        /\ stack[w][n + 1] = f
        /\ CellAt(w, n) = IF slots[f] = <<>> THEN cell[w] ELSE slots[f][1]
        /\ OwnSlots(f) = IF slots[f] = <<>> THEN <<>> ELSE Append(Tail(slots[f]), cell[w])
  BY InnermostAt DEF Leave
<1>2. /\ UNCHANGED stack
      /\ slots[f] # <<>>
      /\ \A v \in Workers \ {w} : cell'[v] = cell[v]
      /\ \A g \in Futures \ {f} : slots'[g] = slots[g]
      /\ slots'[f] = Front(slots[f])
      /\ cell'[w] = Last(slots[f])
  BY DEF Leave, Sane, TypeOK
<1>3. slots[f] \in Seq(OptionalMaps) /\ cell[w] \in OptionalMaps
  BY DEF Sane, TypeOK
<1>4. PICK t \in Seq(OptionalMaps), x \in OptionalMaps : slots[f] = Append(t, x)
  BY <1>2, <1>3, SequenceEmptyOrAppend
<1>5. slots'[f] = t /\ cell'[w] = x
  BY <1>2, <1>4, EndsOfAppend
<1>6. /\ Head(slots[f]) = IF t = <<>> THEN x ELSE Head(t)
      /\ Tail(slots[f]) = IF t = <<>> THEN <<>> ELSE Append(Tail(t), x)
  BY <1>4, HeadTailAppend
<1>7. slots[f][1] = IF t = <<>> THEN x ELSE t[1]
  <2>1. Head(slots[f]) = slots[f][1]
    BY <1>2, <1>3, SwappedOut
  <2>2. t # <<>> => Head(t) = t[1]
    BY <1>3, SwappedOut
  <2> QED
    BY <1>6, <2>1, <2>2
<1>8. /\ CellAt(w, n)' = IF t = <<>> THEN x ELSE t[1]
      /\ OwnSlots(f)' = IF t = <<>> THEN <<>> ELSE Append(Tail(t), x)
  <2>1. /\ CellAt(w, n)' = IF slots'[f] = <<>> THEN cell'[w] ELSE slots'[f][1]
        /\ OwnSlots(f)' = IF slots'[f] = <<>> THEN <<>> ELSE Append(Tail(slots'[f]), cell'[w])
    BY <1>1, <1>2, InnermostNext
  <2> QED
    BY <1>5, <2>1
<1>9. OwnSlots(f)' = Tail(slots[f])
  BY <1>6, <1>8
<1>10. OwnSlots(f) # <<>> /\ Front(OwnSlots(f)) = Tail(slots[f])
  <2>1. Tail(slots[f]) \in Seq(OptionalMaps)
    BY <1>2, <1>3, HeadTailProperties
  <2>2. OwnSlots(f) = Append(Tail(slots[f]), cell[w])
    BY <1>1, <1>2
  <2>3. Append(Tail(slots[f]), cell[w]) # <<>>
    BY <1>3, <2>1, AppendShape
  <2>4. Front(Append(Tail(slots[f]), cell[w])) = Tail(slots[f])
    BY <1>3, <2>1, EndsOfAppend
  <2> QED
    BY <2>2, <2>3, <2>4
<1>11. \A g \in Futures \ {f} : OwnSlots(g)' = OwnSlots(g)
  <2>1. \A k \in 1 .. n : stack'[w][k] = stack[w][k]
    BY <1>2
  <2>2. CellAt(w, n)' = CellAt(w, n)
    BY <1>1, <1>2, <1>7, <1>8
  <2> QED
    BY <1>1, <1>2, <2>1, <2>2, InnermostOwn
<1> QED
  BY <1>9, <1>10, <1>11

LEMMA AbandonOwn ==
    ASSUME Sane, Sane', NEW f \in Futures, Abandon(f)
    PROVE  /\ OwnSlots(f)' = <<>>
           /\ \A g \in Futures \ {f} : OwnSlots(g)' = OwnSlots(g)
<1>1. \A v \in Workers : \A k \in 1 .. Len(stack[v]) : stack[v][k] # f /\ stack[v][k] \in Futures
  BY NotPolled, ElementOfSeq DEF Abandon, Sane, TypeOK
<1>2. /\ UNCHANGED <<cell, stack>>
      /\ slots'[f] = <<>>
      /\ \A g \in Futures \ {f} : slots'[g] = slots[g]
  BY DEF Abandon, Sane, TypeOK
<1>3. ASSUME NEW v \in Workers PROVE \E m \in Nat : Keeps(v, m, f)
  BY <1>1, <1>2, IdleKeeps DEF Sane
<1>4. \A g \in Futures \ {f} : OwnSlots(g)' = OwnSlots(g)
  BY <1>2, <1>3, OthersOwn DEF Sane
<1>5. OwnSlots(f)' = <<>>
  BY <1>2 DEF Sane, OwnDefined
<1> QED
  BY <1>4, <1>5

-------------------------------------------------------------------------------
(* Code changes the map of the innermost wrapper, and only that.             *)

\* Level k of worker w has a wrapper, and none further in has.
InnermostWrapped(w, k) ==
    /\ k \in 1 .. Len(stack[w])
    /\ slots[stack[w][k]] # <<>>
    /\ \A j \in 1 .. Len(stack[w]) : slots[stack[w][j]] # <<>> => j <= k

LEMMA WrappedOrEmpty ==
    ASSUME Sane, NEW w \in Workers
    PROVE  \/ \E k \in 1 .. Len(stack[w]) : InnermostWrapped(w, k)
           \/ /\ \A k \in 1 .. Len(stack[w]) : slots[stack[w][k]] = <<>>
              /\ cell[w] = {}
<1>1. PICK n \in Nat : n = Len(stack[w])
  BY LenProperties DEF Sane, TypeOK
<1> DEFINE T == {k \in 1 .. n : slots[stack[w][k]] # <<>>}
<1>2. CASE T = {}
  <2>1. \A k \in 1 .. Len(stack[w]) : slots[stack[w][k]] = <<>>
    BY <1>1, <1>2
  <2>2. Unwrapped(w, Len(stack[w]))
    BY <2>1 DEF Unwrapped
  <2> QED
    BY <2>1, <2>2 DEF Sane, OutermostSavedNothing, SavedNothing
<1>3. CASE T # {}
  <2>1. T \subseteq 1 .. n
    OBVIOUS
  <2>2. PICK k \in T : \A j \in T : j <= k
    BY <1>3, <2>1, GreatestExists
  <2> QED
    BY <1>1, <2>2 DEF InnermostWrapped
<1> QED
  BY <1>2, <1>3

\* A wrapped future whose map is in the cell.
LEMMA InCell ==
    ASSUME Sane, NEW w \in Workers, NEW k, InnermostWrapped(w, k),
           NEW f \in Futures, f = stack[w][k]
    PROVE  OwnSlots(f) = Append(Tail(slots[f]), cell[w])
<1>1. DOMAIN stack[w] = 1 .. Len(stack[w]) /\ Len(stack[w]) \in Nat
  BY LenProperties DEF Sane, TypeOK
<1>2. k \in 1 .. Len(stack[w]) /\ k \in Nat
  BY <1>1 DEF InnermostWrapped
<1>3. \A j \in DOMAIN stack[w] : k < j => slots[stack[w][j]] = <<>>
  <2>1. ASSUME NEW j \in 1 .. Len(stack[w]), k < j PROVE slots[stack[w][j]] = <<>>
    BY <1>2, <2>1 DEF InnermostWrapped
  <2> QED
    BY <1>1, <2>1
<1>4. DOMAIN stack[w] \subseteq Nat
  BY <1>1
<1>5. SavedAt(stack[w], slots, cell[w], k) = cell[w]
  BY <1>2, <1>3, <1>4, SavedInCell
<1>6. CellAt(w, k) = cell[w]
  BY <1>5, CellAtIsSaved
<1>7. OwnSlots(f) = Append(Tail(slots[f]), CellAt(w, k))
  BY <1>2 DEF Sane, OwnDefined, InnermostWrapped
<1> QED
  BY <1>6, <1>7

LEMMA InCellNext ==
    (Sane => \A w \in Workers, k \in Nat, f \in Futures :
                InnermostWrapped(w, k) /\ f = stack[w][k] =>
                    OwnSlots(f) = Append(Tail(slots[f]), cell[w]))'
<1>1. Sane => \A w \in Workers, k \in Nat, f \in Futures :
                InnermostWrapped(w, k) /\ f = stack[w][k] =>
                    OwnSlots(f) = Append(Tail(slots[f]), cell[w])
  BY InCell
<1> QED
  BY <1>1, PTL

\* What the level just outside has left is in that future's first slot.
LEMMA OutsideKept ==
    ASSUME Sane, NEW w \in Workers, NEW k \in Nat, InnermostWrapped(w, k + 1),
           UNCHANGED <<slots, stack>>
    PROVE  CellAt(w, k)' = CellAt(w, k)
<1>1. DOMAIN stack[w] = 1 .. Len(stack[w]) /\ Len(stack[w]) \in Nat
  BY LenProperties DEF Sane, TypeOK
<1>2. Inner(stack[w], slots, k) = {k + 1}
  <2>1. k + 1 \in Inner(stack[w], slots, k)
    BY <1>1 DEF Inner, InnermostWrapped
  <2>2. ASSUME NEW j \in Inner(stack[w], slots, k) PROVE j = k + 1
    <3>1. j \in 1 .. Len(stack[w]) /\ j > k /\ slots[stack[w][j]] # <<>>
      BY <1>1 DEF Inner
    <3>2. j <= k + 1
      BY <3>1 DEF InnermostWrapped
    <3> QED
      BY <3>1, <3>2
  <2> QED
    BY <2>1, <2>2
<1>3. /\ k + 1 \in Inner(stack[w], slots, k)
      /\ Inner(stack[w], slots, k) \subseteq Nat
      /\ \A i \in Inner(stack[w], slots, k) : k + 1 <= i
  BY <1>2
<1>4. \A c : SavedAt(stack[w], slots, c, k) = slots[stack[w][k + 1]][1]
  BY <1>3, SavedInNext
<1>5. SavedAt(stack'[w], slots', cell'[w], k) = SavedAt(stack[w], slots, cell[w], k)
  BY <1>4
<1> QED
  BY <1>5, CellAtIsSaved

LEMMA ChangeOwn ==
    ASSUME Sane, Sane', NEW w \in Workers, NEW k, InnermostWrapped(w, k),
           NEW f \in Futures, f = stack[w][k],
           UNCHANGED <<slots, stack>>, \A v \in Workers \ {w} : cell'[v] = cell[v]
    PROVE  /\ OwnSlots(f)' = Append(Tail(slots[f]), cell'[w])
           /\ \A g \in Futures \ {f} : OwnSlots(g)' = OwnSlots(g)
<1>1. Len(stack[w]) \in Nat /\ k \in 1 .. Len(stack[w]) /\ k \in Nat
  BY LenProperties DEF Sane, TypeOK, InnermostWrapped
<1>2. InnermostWrapped(w, k)'
  BY DEF InnermostWrapped
<1>3. OwnSlots(f)' = Append(Tail(slots[f]), cell'[w])
  BY <1>1, <1>2, InCellNext
<1>4. PICK m \in Nat : k = m + 1
  <2>1. k - 1 \in Nat /\ k = (k - 1) + 1
    BY <1>1
  <2> QED
    BY <2>1
<1>5. CellAt(w, m)' = CellAt(w, m)
  BY <1>4, OutsideKept
<1>6. Keeps(w, m, f)
  <2>1. \A j \in 1 .. Len(stack[w]) : j <= m \/ stack[w][j] = f \/ slots[stack[w][j]] = <<>>
    <3> SUFFICES ASSUME NEW j \in 1 .. Len(stack[w]), ~(j <= m), slots[stack[w][j]] # <<>>
                 PROVE  stack[w][j] = f
      OBVIOUS
    <3>1. j <= k
      BY DEF InnermostWrapped
    <3>2. j = k
      BY <1>1, <1>4, <3>1
    <3> QED
      BY <3>2
  <2>2. m <= Len(stack[w])
    BY <1>1, <1>4
  <2> QED
    BY <1>5, <2>1, <2>2 DEF Keeps
<1>7. ASSUME NEW v \in Workers \ {w} PROVE \E j \in Nat : Keeps(v, j, f)
  BY IdleKeeps DEF Sane
<1>8. \A g \in Futures \ {f} : OwnSlots(g)' = OwnSlots(g)
  BY <1>6, <1>7, OthersOwn DEF Sane
<1> QED
  BY <1>3, <1>8

LEMMA NothingOwn ==
    ASSUME UNCHANGED <<cell, slots, stack>>
    PROVE  \A g \in Futures : OwnSlots(g)' = OwnSlots(g)
BY DEF OwnSlots, Positions, CellAt

-------------------------------------------------------------------------------
(* The maps of a future, and the context that they make.                     *)

\* An optional map that is there.
Full == {{m} : m \in Context!Maps}

OwnTyped == \A f \in Futures : OwnSlots(f) \in Seq(Full)

Nest == [f \in Futures |-> OwnMaps(f)]

LEMMA ChosenOfFull ==
    /\ \A m : Chosen({m}) = m
    /\ Full \subseteq OptionalMaps
    /\ {Chosen(o) : o \in Full} = Context!Maps
<1>1. \A m : Chosen({m}) = m
  BY DEF Chosen
<1>2. Full \subseteq OptionalMaps
  BY DEF Full, OptionalMaps
<1>3. {Chosen(o) : o \in Full} = Context!Maps
  BY <1>1 DEF Full
<1> QED
  BY <1>1, <1>2, <1>3

\* The levels that have a map are those that have a slot.
LEMMA NestOf ==
    ASSUME Sane, OwnTyped, NEW f \in Futures
    PROVE  /\ Nest[f] = Values(OwnSlots(f))
           /\ Nest[f] \in Seq(Context!Maps)
           /\ Len(Nest[f]) = Len(slots[f])
           /\ Nest[f] = <<>> <=> slots[f] = <<>>
<1>1. Nest[f] = Values(OwnSlots(f))
  BY DEF Nest, OwnMaps
<1>2. OwnSlots(f) \in Seq(Full) /\ slots[f] \in Seq(OptionalMaps)
  BY DEF OwnTyped, Sane, TypeOK
<1>3. Nest[f] \in Seq(Context!Maps) /\ Len(Nest[f]) = Len(OwnSlots(f))
  BY <1>1, <1>2, ValuesShape, ChosenOfFull
<1>4. Len(OwnSlots(f)) = Len(slots[f])
  <2>1. CASE OwnSlots(f) = slots[f]
    BY <2>1
  <2>2. ASSUME NEW w \in Workers, NEW k \in 1 .. Len(stack[w]), stack[w][k] = f, slots[f] # <<>>
        PROVE  Len(OwnSlots(f)) = Len(slots[f])
    <3> DEFINE c == CellAt(w, k)
               S == OptionalMaps \cup {c}
    <3>1. OwnSlots(f) = Append(Tail(slots[f]), c)
      BY <2>2 DEF Sane, OwnDefined
    <3> HIDE DEF c
    <3>2. /\ Tail(slots[f]) \in Seq(OptionalMaps)
          /\ Len(Tail(slots[f])) = Len(slots[f]) - 1
          /\ Len(slots[f]) \in Nat \ {0}
      BY <1>2, <2>2, HeadTailProperties, EmptySeq
    <3>3. Tail(slots[f]) \in Seq(S) /\ c \in S
      BY <3>2
    <3> HIDE DEF S
    <3>4. Len(Append(Tail(slots[f]), c)) = Len(Tail(slots[f])) + 1
      BY <3>3, AppendShape
    <3> QED
      BY <3>1, <3>2, <3>4
  <2> QED
    BY <2>1, <2>2 DEF Sane, OwnDefined
<1>5. Nest[f] = <<>> <=> slots[f] = <<>>
  BY <1>2, <1>3, <1>4, EmptySeq
<1> QED
  BY <1>1, <1>3, <1>4, <1>5

LEMMA NestKept ==
    ASSUME \A g \in Futures : OwnSlots(g)' = OwnSlots(g)
    PROVE  Nest' = Nest
BY DEF Nest, OwnMaps

LEMMA NestChanged ==
    ASSUME NEW f \in Futures, NEW x, OwnSlots(f)' = x,
           \A g \in Futures \ {f} : OwnSlots(g)' = OwnSlots(g)
    PROVE  Nest' = [Nest EXCEPT ![f] = Values(x)]
BY DEF Nest, OwnMaps

LEMMA WrappedLevels ==
    ASSUME Sane, OwnTyped, NEW w \in Workers
    PROVE  Context!Wrapped(w) = {k \in 1 .. Len(stack[w]) : slots[stack[w][k]] # <<>>}
<1>1. DOMAIN stack[w] = 1 .. Len(stack[w])
  BY LenProperties DEF Sane, TypeOK
<1>2. \A k \in 1 .. Len(stack[w]) : stack[w][k] \in Futures
  BY ElementOfSeq DEF Sane, TypeOK
<1>3. \A k \in 1 .. Len(stack[w]) : Nest[stack[w][k]] = <<>> <=> slots[stack[w][k]] = <<>>
  BY <1>2, NestOf
<1> QED
  BY <1>1, <1>3 DEF Context!Wrapped, Nest

LEMMA InnermostOfContext ==
    ASSUME Sane, OwnTyped, NEW w \in Workers, NEW k, InnermostWrapped(w, k)
    PROVE  Context!Wrapped(w) # {} /\ Context!Innermost(w) = stack[w][k]
<1> DEFINE T == Context!Wrapped(w)
           n == CHOOSE i \in T : \A j \in T : j <= i
<1>1. T = {j \in 1 .. Len(stack[w]) : slots[stack[w][j]] # <<>>} /\ Len(stack[w]) \in Nat
  BY WrappedLevels, LenProperties DEF Sane, TypeOK
<1>2. Context!Innermost(w) = stack[w][n]
  BY DEF Context!Innermost
<1> HIDE DEF T
<1>3. k \in T /\ \A j \in T : j <= k
  BY <1>1 DEF InnermostWrapped
<1>4. n \in T /\ \A j \in T : j <= n
  BY <1>3
<1> HIDE DEF n
<1>5. n = k
  BY <1>1, <1>3, <1>4
<1> QED
  BY <1>2, <1>3, <1>5 DEF T

-------------------------------------------------------------------------------
(* Every step is a step of the context, or none.                             *)

\* The operators that both modules take from the library are the same.
LEMMA SameEnds ==
    /\ \A s : Context!Last(s) = Last(s) /\ Context!Front(s) = Front(s)
    /\ Context!Polled = Polled
BY DEF Context!Last, Last, Context!Front, Front, Context!Polled, Polled, Context!ToSet, ToSet

\* What the context sees of a change to the map in the cell.
LEMMA ChangeStep ==
    ASSUME Sane, Sane', OwnTyped, NEW w \in Workers, stack[w] # <<>>,
           NEW u \in UserTypes, NEW value \in {{}} \cup {{s} : s \in Sessions},
           cell' = [cell EXCEPT ![w] = {[m EXCEPT ![u] = value] : m \in @}],
           UNCHANGED <<slots, stack, answer>>
    PROVE  OwnTyped' /\ Context!Assign(w, u, value)
<1>1. \A v \in Workers \ {w} : cell'[v] = cell[v]
  BY DEF Sane, TypeOK
<1>2. cell'[w] = {[m EXCEPT ![u] = value] : m \in cell[w]}
  BY DEF Sane, TypeOK
<1>3. ASSUME NEW k \in 1 .. Len(stack[w]), InnermostWrapped(w, k)
      PROVE  OwnTyped' /\ Context!Assign(w, u, value)
  <2>1. PICK f \in Futures : f = stack[w][k]
    BY ElementOfSeq DEF Sane, TypeOK
  <2>2. OwnSlots(f) = Append(Tail(slots[f]), cell[w])
    BY <1>3, <2>1, InCell
  <2>3. /\ OwnSlots(f)' = Append(Tail(slots[f]), cell'[w])
        /\ \A g \in Futures \ {f} : OwnSlots(g)' = OwnSlots(g)
    BY <1>1, <1>3, <2>1, ChangeOwn
  <2> DEFINE t == Tail(slots[f])
  <2>4. /\ t \in Seq(Full) /\ cell[w] \in Full
        /\ Front(OwnSlots(f)) = t /\ Last(OwnSlots(f)) = cell[w]
    <3>1. t \in Seq(OptionalMaps) /\ cell[w] \in OptionalMaps
      BY <1>3, <2>1, HeadTailProperties DEF Sane, TypeOK, InnermostWrapped
    <3>2. OwnSlots(f) \in Seq(Full)
      BY DEF OwnTyped
    <3> HIDE DEF t
    <3>3. Front(OwnSlots(f)) = t /\ Last(OwnSlots(f)) = cell[w] /\ OwnSlots(f) # <<>>
      <4>1. Front(Append(t, cell[w])) = t /\ Last(Append(t, cell[w])) = cell[w]
        BY <3>1, EndsOfAppend
      <4>2. Append(t, cell[w]) # <<>>
        BY <3>1, AppendShape
      <4> QED
        BY <2>2, <4>1, <4>2 DEF t
    <3>4. Front(OwnSlots(f)) \in Seq(Full) /\ Last(OwnSlots(f)) \in Full
      BY <3>2, <3>3, FrontShape
    <3> QED
      BY <3>3, <3>4
  <2> HIDE DEF t
  <2>5. PICK m \in Context!Maps : cell[w] = {m}
    BY <2>4 DEF Full
  <2>6. /\ [m EXCEPT ![u] = value] \in Context!Maps
        /\ cell'[w] = {[m EXCEPT ![u] = value]}
    BY <1>2, <2>5 DEF Context!Maps
  <2> DEFINE n == [m EXCEPT ![u] = value]
  <2>7. n \in Context!Maps /\ {n} \in Full /\ cell'[w] = {n}
    BY <2>6 DEF Full
  <2> HIDE DEF n
  <2>8. OwnTyped'
    <3>1. OwnSlots(f)' \in Seq(Full)
      <4>1. Append(t, {n}) \in Seq(Full)
        BY <2>4, <2>7, AppendShape
      <4> QED
        BY <2>3, <2>7, <4>1 DEF t
    <3> QED
      BY <2>3, <3>1 DEF OwnTyped
  <2>9. Values(Append(t, {n}))
          = Append(Front(Values(OwnSlots(f))), [Last(Values(OwnSlots(f))) EXCEPT ![u] = value])
    <3>1. Values(Append(t, {n})) = Append(Values(t), n)
      <4>1. Values(Append(t, {n})) = Append(Values(t), Chosen({n}))
        <5> DEFINE e == {n}
        <5>1. t \in Seq(Full) /\ e \in Full
          BY <2>4, <2>7
        <5> HIDE DEF e
        <5>2. Values(Append(t, e)) = Append(Values(t), Chosen(e))
          BY <5>1, ValuesAppended
        <5> QED
          BY <5>2 DEF e
      <4> QED
        BY <4>1, ChosenOfFull
    <3>2. OwnSlots(f) \in Seq(Full) /\ OwnSlots(f) # <<>>
      BY <2>2, <2>4, AppendShape DEF OwnTyped, t
    <3>3. Front(Values(OwnSlots(f))) = Values(t) /\ Last(Values(OwnSlots(f))) = m
      BY <2>4, <2>5, <3>2, ValuesEnds, ChosenOfFull
    <3> QED
      BY <3>1, <3>3 DEF n
  <2>10. Nest' = [Nest EXCEPT ![f] = Append(Front(@), [Last(@) EXCEPT ![u] = value])]
    <3>1. OwnSlots(f)' = Append(t, {n})
      BY <2>3, <2>7 DEF t
    <3>2. Nest' = [Nest EXCEPT ![f] = Values(Append(t, {n}))]
      BY <2>3, <3>1, NestChanged
    <3>3. Nest[f] = Values(OwnSlots(f))
      BY NestOf
    <3> QED
      BY <2>9, <3>2, <3>3
  <2>11. Context!Wrapped(w) # {} /\ Context!Innermost(w) = f
    BY <1>3, <2>1, InnermostOfContext
  <2>12. Context!Assign(w, u, value)
    BY <2>10, <2>11, SameEnds DEF Context!Assign, Nest
  <2> QED
    BY <2>8, <2>12
<1>4. ASSUME \A k \in 1 .. Len(stack[w]) : slots[stack[w][k]] = <<>>, cell[w] = {}
      PROVE  OwnTyped' /\ Context!Assign(w, u, value)
  <2>1. cell' = cell
    BY <1>1, <1>2, <1>4 DEF Sane, TypeOK
  <2>2. \A g \in Futures : OwnSlots(g)' = OwnSlots(g)
    BY <2>1, NothingOwn
  <2>3. OwnTyped' /\ Nest' = Nest
    BY <2>2, NestKept DEF OwnTyped
  <2>4. Context!Wrapped(w) = {}
    BY <1>4, WrappedLevels
  <2> QED
    BY <2>3, <2>4 DEF Context!Assign, Nest
<1> QED
  BY <1>3, <1>4, WrappedOrEmpty

LEMMA ReadStep ==
    ASSUME Sane, OwnTyped, NEW w \in Workers, NEW u \in UserTypes, TryCurrent(w, u)
    PROVE  OwnTyped' /\ Context!Read(w, u)
<1>1. \A g \in Futures : OwnSlots(g)' = OwnSlots(g)
  BY NothingOwn DEF TryCurrent
<1>2. OwnTyped' /\ Nest' = Nest
  BY <1>1, NestKept DEF OwnTyped
<1>3. stack[w] # <<>> /\ answer' = UNION {m[u] : m \in cell[w]} /\ UNCHANGED stack
  BY DEF TryCurrent
<1>4. ASSUME NEW k \in 1 .. Len(stack[w]), InnermostWrapped(w, k)
      PROVE  Context!Read(w, u)
  <2>1. PICK f \in Futures : f = stack[w][k]
    BY ElementOfSeq DEF Sane, TypeOK
  <2>2. OwnSlots(f) = Append(Tail(slots[f]), cell[w])
    BY <1>4, <2>1, InCell
  <2>3. Last(OwnSlots(f)) = cell[w] /\ OwnSlots(f) # <<>>
    <3>1. Tail(slots[f]) \in Seq(OptionalMaps) /\ cell[w] \in OptionalMaps
      BY <1>4, <2>1, HeadTailProperties DEF Sane, TypeOK, InnermostWrapped
    <3>2. Last(Append(Tail(slots[f]), cell[w])) = cell[w]
      BY <3>1, EndsOfAppend
    <3>3. Append(Tail(slots[f]), cell[w]) # <<>>
      BY <3>1, AppendShape
    <3> QED
      BY <2>2, <3>2, <3>3
  <2>4. OwnSlots(f) \in Seq(Full)
    BY DEF OwnTyped
  <2>5. Last(Values(OwnSlots(f))) = Chosen(cell[w]) /\ cell[w] \in Full
    BY <2>3, <2>4, ValuesEnds, FrontShape
  <2>6. PICK m \in Context!Maps : cell[w] = {m}
    BY <2>5 DEF Full
  <2>7. answer' = m[u] /\ Last(Nest[f]) = m
    BY <1>3, <2>5, <2>6, NestOf, ChosenOfFull
  <2>8. Context!Wrapped(w) # {} /\ Context!Innermost(w) = f
    BY <1>4, <2>1, InnermostOfContext
  <2> QED
    BY <1>2, <1>3, <2>7, <2>8, SameEnds DEF Context!Read, Nest
<1>5. ASSUME \A k \in 1 .. Len(stack[w]) : slots[stack[w][k]] = <<>>, cell[w] = {}
      PROVE  Context!Read(w, u)
  <2>1. Context!Wrapped(w) = {}
    BY <1>5, WrappedLevels
  <2>2. answer' = {}
    BY <1>3, <1>5
  <2> QED
    BY <1>2, <1>3, <2>1, <2>2 DEF Context!Read, Nest
<1> QED
  BY <1>2, <1>4, <1>5, WrappedOrEmpty

LEMMA InitStep == Init => Context!ContextInit /\ OwnTyped
<1> SUFFICES ASSUME Init PROVE Context!ContextInit /\ OwnTyped
  OBVIOUS
<1>1. \A f \in Futures : OwnSlots(f) = <<>>
  BY DEF Init, OwnSlots
<1>2. Values(<<>>) = <<>>
  BY ValuesShape, <<>> \in Seq({})
<1>3. Nest = [f \in Futures |-> <<>>]
  BY <1>1, <1>2 DEF Nest, OwnMaps
<1>4. OwnTyped
  BY <1>1, EmptySeq DEF OwnTyped
<1> QED
  BY <1>3, <1>4 DEF Context!ContextInit, Nest, Init

LEMMA ContextStep ==
    ASSUME Sane, Sane', OwnTyped, [Next]_vars
    PROVE  OwnTyped' /\ [Context!ContextNext]_(Context!contextVars)
<1>1. ASSUME NEW w \in Workers, NEW f \in Futures, BeginPoll(w, f)
      PROVE  OwnTyped' /\ Context!BeginPoll(w, f)
  <2>1. OwnTyped' /\ Nest' = Nest
    BY <1>1, BeginPollOwn, NestKept DEF OwnTyped
  <2> QED
    BY <1>1, <2>1, SameEnds DEF BeginPoll, Context!BeginPoll, Nest
<1>2. ASSUME NEW w \in Workers, EndPoll(w)
      PROVE  OwnTyped' /\ Context!EndPoll(w)
  <2>1. OwnTyped' /\ Nest' = Nest
    BY <1>2, EndPollOwn, NestKept DEF OwnTyped
  <2> QED
    BY <1>2, <2>1, SameEnds DEF EndPoll, Context!EndPoll, Nest
<1>3. ASSUME NEW w \in Workers, Enter(w)
      PROVE  OwnTyped' /\ Context!Enter(w)
  <2>1. PICK f \in Futures : f = Last(stack[w])
    BY <1>3, InnermostAlone DEF Enter, Sane
  <2>2. /\ OwnSlots(f)' = Append(OwnSlots(f), {Context!EmptyMap})
        /\ \A g \in Futures \ {f} : OwnSlots(g)' = OwnSlots(g)
    BY <1>3, <2>1, EnterOwn
  <2>3. OwnSlots(f) \in Seq(Full) /\ {Context!EmptyMap} \in Full
    BY DEF OwnTyped, Full, Context!EmptyMap, Context!Maps
  <2>4. OwnTyped'
    <3>1. OwnSlots(f)' \in Seq(Full)
      BY <2>2, <2>3, AppendShape
    <3> QED
      BY <2>2, <3>1 DEF OwnTyped
  <2>5. Nest' = [Nest EXCEPT ![f] = Append(@, Context!EmptyMap)]
    <3>1. Nest' = [Nest EXCEPT ![f] = Values(Append(OwnSlots(f), {Context!EmptyMap}))]
      BY <2>2, NestChanged
    <3>2. Values(Append(OwnSlots(f), {Context!EmptyMap}))
            = Append(Values(OwnSlots(f)), Chosen({Context!EmptyMap}))
      BY <2>3, ValuesAppended
    <3> QED
      BY <3>1, <3>2, NestOf, ChosenOfFull
  <2>6. Len(Nest[f]) < MaxDepth
    BY <1>3, <2>1, NestOf DEF Enter
  <2> QED
    BY <1>3, <2>1, <2>4, <2>5, <2>6, SameEnds DEF Enter, Context!Enter, Nest
<1>4. ASSUME NEW w \in Workers, Leave(w)
      PROVE  OwnTyped' /\ Context!Leave(w)
  <2>1. PICK f \in Futures : f = Last(stack[w])
    BY <1>4, InnermostAlone DEF Leave, Sane
  <2>2. /\ OwnSlots(f) # <<>>
        /\ OwnSlots(f)' = Front(OwnSlots(f))
        /\ \A g \in Futures \ {f} : OwnSlots(g)' = OwnSlots(g)
    BY <1>4, <2>1, LeaveOwn
  <2>3. OwnSlots(f) \in Seq(Full)
    BY DEF OwnTyped
  <2>4. OwnTyped'
    <3>1. OwnSlots(f)' \in Seq(Full)
      BY <2>2, <2>3, FrontShape
    <3> QED
      BY <2>2, <3>1 DEF OwnTyped
  <2>5. Nest' = [Nest EXCEPT ![f] = Front(@)]
    <3>1. Nest' = [Nest EXCEPT ![f] = Values(Front(OwnSlots(f)))]
      BY <2>2, NestChanged
    <3>2. Values(Front(OwnSlots(f))) = Front(Values(OwnSlots(f)))
      BY <2>2, <2>3, ValuesEnds
    <3> QED
      BY <3>1, <3>2, NestOf
  <2>6. Nest[f] # <<>>
    BY <1>4, <2>1, NestOf DEF Leave
  <2> QED
    BY <1>4, <2>1, <2>4, <2>5, <2>6, SameEnds DEF Leave, Context!Leave, Nest
<1>5. ASSUME NEW w \in Workers, NEW u \in UserTypes, NEW s \in Sessions, InsertCurrent(w, u, s)
      PROVE  OwnTyped' /\ Context!Assign(w, u, {s})
  BY <1>5, ChangeStep DEF InsertCurrent
<1>6. ASSUME NEW w \in Workers, NEW u \in UserTypes, RemoveCurrent(w, u)
      PROVE  OwnTyped' /\ Context!Assign(w, u, {})
  BY <1>6, ChangeStep DEF RemoveCurrent
<1>7. ASSUME NEW w \in Workers, NEW u \in UserTypes, TryCurrent(w, u)
      PROVE  OwnTyped' /\ Context!Read(w, u)
  BY <1>7, ReadStep
<1>8. ASSUME NEW f \in Futures, Abandon(f)
      PROVE  OwnTyped' /\ Context!Abandon(f)
  <2>1. /\ OwnSlots(f)' = <<>>
        /\ \A g \in Futures \ {f} : OwnSlots(g)' = OwnSlots(g)
    BY <1>8, AbandonOwn
  <2>2. OwnTyped'
    BY <2>1, EmptySeq DEF OwnTyped
  <2>3. Nest' = [Nest EXCEPT ![f] = <<>>]
    <3>1. Values(<<>>) = <<>>
      BY ValuesShape, <<>> \in Seq({})
    <3> QED
      BY <2>1, <3>1, NestChanged
  <2> QED
    BY <1>8, <2>2, <2>3, SameEnds DEF Abandon, Context!Abandon, Nest
<1>9. CASE UNCHANGED vars
  <2>1. OwnTyped' /\ Nest' = Nest
    BY <1>9, NothingOwn, NestKept DEF OwnTyped, vars
  <2> QED
    BY <1>9, <2>1 DEF Context!contextVars, Nest, vars
<1>10. OwnTyped'
  BY <1>1, <1>2, <1>3, <1>4, <1>5, <1>6, <1>7, <1>8, <1>9 DEF Next
<1>11. ASSUME Next PROVE Context!ContextNext
  <2>1. \A s \in Sessions : {s} \in {{}} \cup {{k} : k \in Sessions}
    OBVIOUS
  <2> QED
    BY <1>1, <1>2, <1>3, <1>4, <1>5, <1>6, <1>7, <1>8, <1>11, <2>1 DEF Next, Context!ContextNext
<1> QED
  BY <1>9, <1>10, <1>11

\* Whatever the interleaving of polls, nested polls, moves between workers and
\* cancellations, the swapped cells and slots show to code what a private map
\* in every wrapper would show.
THEOREM Implements == Spec => ImplementsContext
<1>1. Init => Context!ContextInit /\ OwnTyped
  BY InitStep
<1>2. TypeOK /\ PolledOnce /\ OutermostSavedNothing => Sane
  BY OwnIsDefined DEF Sane
<1>3. Sane /\ Sane' /\ OwnTyped /\ [Next]_vars =>
          OwnTyped' /\ [Context!ContextNext]_(Context!contextVars)
  BY ContextStep
<1>4. Spec => [](TypeOK /\ PolledOnce /\ OutermostSavedNothing)
  BY AlwaysClean
<1> QED
  BY <1>1, <1>2, <1>3, <1>4, PTL DEF Spec, ImplementsContext, Context!ContextSpec

===============================================================================
