--------------------------- MODULE ScopeAlgebraProofs ---------------------------
(*****************************************************************************)
(* Scopes of any width, with any bytes and any declaration: which bits a     *)
(* value can hold, which flags an iterator returns, and that the text and    *)
(* the database column of a value keep every bit in its place.               *)
(*****************************************************************************)
EXTENDS ScopeAlgebra, SequenceTheorems, WellFoundedInduction, TLAPS

LEMMA FlagDeclared ==
    ASSUME NEW i \in DOMAIN flags
    PROVE  flags[i] \subseteq All
BY DEF All, ToSet

\* However it was computed, a value holds declared bits only.
THEOREM OnlyDeclaredBits == Spec => []DeclaredBitsOnly
<1>1. Init => DeclaredBitsOnly
  BY DEF Init, DeclaredBitsOnly
<1>2. DeclaredBitsOnly /\ [Next]_vars => DeclaredBitsOnly'
  <2> SUFFICES ASSUME DeclaredBitsOnly, [Next]_vars PROVE DeclaredBitsOnly'
    OBVIOUS
  <2>1. flags' = flags /\ All' = All
    BY DEF Next, Read, Parse, Named, Union, Intersection, Difference,
           SymmetricDifference, Not, Becomes, Values, NextValue, NextNone, vars, All
  <2>2. ASSUME NEW raw PROVE FromRaw(raw) \subseteq All
    BY DEF FromRaw
  <2>3. ASSUME NEW text \in Texts, Read(text) PROVE DeclaredBitsOnly'
    BY <2>1, <2>2, <2>3 DEF Read, FromText, Becomes, DeclaredBitsOnly
  <2>4. ASSUME NEW raw \in Bitmaps, Parse(raw) PROVE DeclaredBitsOnly'
    BY <2>1, <2>2, <2>4 DEF Parse, Becomes, DeclaredBitsOnly
  <2>5. ASSUME NEW i \in DOMAIN flags,
               \/ Named(i) \/ Union(i) \/ Intersection(i)
               \/ Difference(i) \/ SymmetricDifference(i)
        PROVE  DeclaredBitsOnly'
    BY <2>1, <2>5, FlagDeclared
    DEF Named, Union, Intersection, Difference, SymmetricDifference, Becomes,
        DeclaredBitsOnly
  <2>6. CASE Not
    BY <2>1, <2>6 DEF Not, Complement, Becomes, DeclaredBitsOnly
  <2>7. CASE Values \/ NextValue \/ NextNone \/ UNCHANGED vars
    BY <2>1, <2>7 DEF Values, NextValue, NextNone, vars, DeclaredBitsOnly
  <2> QED
    BY <2>3, <2>4, <2>5, <2>6, <2>7 DEF Next
<1> QED
  BY <1>1, <1>2, PTL DEF Spec

\* is_all says that all primitive flags are set, and the positions that only
\* compound scopes use.
THEOREM AllMeansPrimitivesAndBare == Spec => []IsAllMeansPrimitivesAndBare
<1>1. DeclaredBitsOnly => IsAllMeansPrimitivesAndBare
  <2> DEFINE primitives == {f \in ToSet(flags) : \E p \in Positions : f = {p}}
             bare == All \ UNION primitives
  <2> SUFFICES ASSUME DeclaredBitsOnly
               PROVE  IsAll(value) <=>
                        (\A f \in primitives : Includes(value, f)) /\ bare \subseteq value
    BY DEF IsAllMeansPrimitivesAndBare
  <2>1. ASSUME IsAll(value)
        PROVE  (\A f \in primitives : Includes(value, f)) /\ bare \subseteq value
    <3>1. \A f \in primitives : f \subseteq All
      BY DEF All
    <3> QED
      BY <2>1, <3>1 DEF IsAll, Includes
  <2>2. ASSUME \A f \in primitives : Includes(value, f), bare \subseteq value
        PROVE  IsAll(value)
    <3>1. UNION primitives \subseteq value
      BY <2>2 DEF Includes
    <3>2. All \subseteq value
      BY <2>2, <3>1
    <3> QED
      BY <3>2 DEF IsAll, DeclaredBitsOnly
  <2> QED
    BY <2>1, <2>2
<1> QED
  BY <1>1, OnlyDeclaredBits, PTL

-------------------------------------------------------------------------------
(* Text.                                                                     *)

LEMMA DivMod ==
    ASSUME NEW n \in Nat, NEW b \in Nat \ {0}
    PROVE  /\ n \div b \in Nat
           /\ n % b \in 0 .. b - 1
           /\ n = b * (n \div b) + (n % b)
BY SMTT(30)

LEMMA ProductMonotone ==
    ASSUME NEW b \in Nat, NEW m \in Nat, NEW n \in Nat, m <= n
    PROVE  b * m <= b * n
BY SMTT(30)

\* Every position lies in some byte of the text.
LEMMA PositionInByte ==
    ASSUME NEW p \in Positions
    PROVE  /\ p \div ByteWidth + 1 \in 1 .. Bytes
           /\ p % ByteWidth \in 0 .. ByteWidth - 1
           /\ p = (p \div ByteWidth) * ByteWidth + (p % ByteWidth)
<1> DEFINE q == p \div ByteWidth
<1>1. p \in Nat /\ p < Width
  BY WidthIsPositive DEF Positions
<1>2. q \in Nat /\ p % ByteWidth \in 0 .. ByteWidth - 1 /\ p = ByteWidth * q + (p % ByteWidth)
  BY <1>1, WholeBytes, DivMod
<1>3. Bytes \in Nat /\ Width = ByteWidth * Bytes
  BY WidthIsPositive, WholeBytes, DivMod DEF Bytes
<1>4. q < Bytes
  <2> SUFFICES ASSUME Bytes <= q PROVE FALSE
    BY <1>2, <1>3
  <2>1. ByteWidth * Bytes <= ByteWidth * q
    BY <1>2, <1>3, WholeBytes, ProductMonotone
  <2> QED
    BY <1>1, <1>2, <1>3, <2>1, WholeBytes
<1> QED
  BY <1>2, <1>3, <1>4, WholeBytes

LEMMA TextLength == ASSUME NEW a PROVE Len(ToText(a)) = Bytes
<1>1. Bytes \in Nat
  BY WidthIsPositive, WholeBytes, DivMod DEF Bytes
<1> QED
  BY <1>1 DEF ToText

LEMMA TextSpells ==
    ASSUME NEW a \in Bitmaps
    PROVE  {p \in Positions : p % ByteWidth \in ToText(a)[p \div ByteWidth + 1]} = a
<1> SUFFICES ASSUME NEW p \in Positions
             PROVE  p % ByteWidth \in ToText(a)[p \div ByteWidth + 1] <=> p \in a
  BY DEF Bitmaps
<1> DEFINE q == p \div ByteWidth
<1>1. /\ q + 1 \in 1 .. Bytes /\ q \in Nat
      /\ p % ByteWidth \in 0 .. ByteWidth - 1
      /\ p = q * ByteWidth + (p % ByteWidth)
  <2>1. p \in Nat
    BY DEF Positions
  <2>2. q \in Nat
    BY <2>1, WholeBytes, DivMod
  <2> QED
    BY <2>2, PositionInByte
<1> HIDE DEF q
<1>2. ToText(a)[q + 1] = {j \in 0 .. ByteWidth - 1 : (q + 1 - 1) * ByteWidth + j \in a}
  BY <1>1 DEF ToText
<1>3. q + 1 - 1 = q
  BY <1>1
<1>4. p % ByteWidth \in ToText(a)[q + 1] <=> p \in a
  BY <1>1, <1>2, <1>3
<1> QED
  BY <1>4 DEF q

\* A value is read back from its text, whatever the width of its bytes.
THEOREM TextKeeps == Spec => []TextRoundTrip
<1> DEFINE FlagsInPlace == \A i \in DOMAIN flags : flags[i] \in Bitmaps
<1>1. Init => FlagsInPlace
  BY DEF Init, Declarations
<1>2. FlagsInPlace /\ [Next]_vars => FlagsInPlace'
  BY DEF Next, Read, Parse, Named, Union, Intersection, Difference,
         SymmetricDifference, Not, Becomes, Values, NextValue, NextNone, vars
<1>3. FlagsInPlace /\ DeclaredBitsOnly => TextRoundTrip
  <2> SUFFICES ASSUME FlagsInPlace, DeclaredBitsOnly
               PROVE  FromText(ToText(value)) = {value}
    BY DEF TextRoundTrip
  <2>1. value \in Bitmaps
    BY DEF DeclaredBitsOnly, All, ToSet, Bitmaps
  <2>2. FromText(ToText(value)) = {FromRaw(value)}
    BY <2>1, TextLength, TextSpells DEF FromText
  <2> QED
    BY <2>2 DEF FromRaw, DeclaredBitsOnly
<1> QED
  BY <1>1, <1>2, <1>3, OnlyDeclaredBits, PTL DEF Spec

-------------------------------------------------------------------------------
(* Iteration.                                                                *)

LEMMA TypesKept == Spec => []TypeOK
<1>1. Init => TypeOK
  <2> SUFFICES ASSUME Init PROVE TypeOK
    OBVIOUS
  <2>1. PICK n \in 0 .. MaxFlags : flags \in [1 .. n -> Bitmaps \ {{}}]
    BY DEF Init, Declarations
  <2>2. n \in Nat
    BY FlagsBound
  <2>3. flags \in Seq(Bitmaps)
    BY <2>1, <2>2, SeqDef
  <2>4. {} \in Bitmaps /\ <<>> \in Seq(Nat)
    BY DEF Bitmaps
  <2> QED
    BY <2>3, <2>4 DEF Init, New, TypeOK
<1>2. TypeOK /\ [Next]_vars => TypeOK'
  <2> SUFFICES ASSUME TypeOK, [Next]_vars PROVE TypeOK'
    OBVIOUS
  <2>1. \A i \in DOMAIN flags : flags[i] \in Bitmaps
    BY ElementOfSeq, LenProperties DEF TypeOK
  <2>2. All \in Bitmaps
    BY <2>1 DEF All, ToSet, Bitmaps
  <2>3. ASSUME NEW v, Becomes(v), v \in Bitmaps PROVE TypeOK'
    BY <2>3 DEF Becomes, TypeOK
  <2>4. ASSUME NEW text \in Texts, Read(text) PROVE TypeOK'
    BY <2>2, <2>3, <2>4 DEF Read, FromText, FromRaw, Bitmaps
  <2>5. ASSUME NEW raw \in Bitmaps, Parse(raw) PROVE TypeOK'
    BY <2>2, <2>3, <2>5 DEF Parse, FromRaw, Bitmaps
  <2>6. ASSUME NEW i \in DOMAIN flags,
               \/ Named(i) \/ Union(i) \/ Intersection(i)
               \/ Difference(i) \/ SymmetricDifference(i)
        PROVE  TypeOK'
    <3>1. flags[i] \in Bitmaps /\ value \in Bitmaps
      BY <2>1 DEF TypeOK
    <3> QED
      BY <2>3, <2>6, <3>1
      DEF Named, Union, Intersection, Difference, SymmetricDifference, Bitmaps
  <2>7. CASE Not
    BY <2>2, <2>3, <2>7 DEF Not, Complement, Bitmaps
  <2>8. CASE Values
    BY <2>8 DEF Values, New, TypeOK
  <2>9. CASE NextValue
    <3>1. PICK i \in (iterator.index + 1) .. Len(flags) :
            /\ iterator' = [iterator EXCEPT !.index = i]
            /\ yielded' = Append(yielded, i)
            /\ UNCHANGED <<flags, value>>
      BY <2>9 DEF NextValue
    <3>2. i \in Nat
      BY DEF TypeOK
    <3> QED
      BY <3>1, <3>2, AppendProperties DEF TypeOK
  <2>10. CASE NextNone
    <3>1. Len(flags) \in Nat
      BY LenProperties DEF TypeOK
    <3> QED
      BY <2>10, <3>1 DEF NextNone, TypeOK
  <2>11. CASE UNCHANGED vars
    BY <2>11 DEF vars, TypeOK
  <2> QED
    BY <2>4, <2>5, <2>6, <2>7, <2>8, <2>9, <2>10, <2>11 DEF Next
<1> QED
  BY <1>1, <1>2, PTL DEF Spec

\* The flags among the first n that the iterator's value contains.
Contained(n) == {i \in 1 .. n : Includes(iterator.value, flags[i])}

LEMMA AppendedLast ==
    ASSUME NEW s \in Seq(Nat), NEW m \in Nat, NEW i \in Nat, m < i,
           ToSet(s) \subseteq 1 .. m,
           \A j, k \in DOMAIN s : j < k => s[j] < s[k]
    PROVE  /\ ToSet(Append(s, i)) = ToSet(s) \cup {i}
           /\ \A j, k \in DOMAIN Append(s, i) :
                j < k => Append(s, i)[j] < Append(s, i)[k]
<1> DEFINE t == Append(s, i)
<1>1. /\ Len(s) \in Nat /\ DOMAIN s = 1 .. Len(s) /\ DOMAIN t = 1 .. Len(s) + 1
      /\ \A k \in 1 .. Len(s) : t[k] = s[k]
      /\ t[Len(s) + 1] = i
  BY AppendProperties, LenProperties
<1> HIDE DEF t
<1>2. \A k \in DOMAIN t : k \in DOMAIN s \/ k = Len(s) + 1
  BY <1>1
<1>3. ToSet(t) = ToSet(s) \cup {i}
  <2>1. \A k \in DOMAIN s : k \in DOMAIN t /\ t[k] = s[k]
    BY <1>1
  <2>2. Len(s) + 1 \in DOMAIN t
    BY <1>1
  <2> QED
    BY <1>1, <1>2, <2>1, <2>2 DEF ToSet
<1>4. ASSUME NEW j \in DOMAIN t, NEW k \in DOMAIN t, j < k PROVE t[j] < t[k]
  <2>1. j \in DOMAIN s /\ t[j] = s[j]
    BY <1>1, <1>4
  <2>2. CASE k \in DOMAIN s
    BY <1>1, <1>4, <2>1, <2>2
  <2>3. CASE k = Len(s) + 1
    <3>1. s[j] \in 1 .. m
      BY <2>1 DEF ToSet
    <3> QED
      BY <1>1, <2>1, <2>3, <3>1
  <2> QED
    BY <1>2, <2>2, <2>3
<1> QED
  BY <1>3, <1>4 DEF t

\* The walk ends with the declaration.
IndexInside == iterator.index <= Len(flags)

LEMMA StaysInside == TypeOK /\ IndexInside /\ [Next]_vars => IndexInside'
<1> SUFFICES ASSUME TypeOK, IndexInside, [Next]_vars PROVE IndexInside'
  OBVIOUS
<1>1. CASE UNCHANGED <<flags, iterator>>
  BY <1>1 DEF IndexInside
<1>2. Len(flags) \in Nat
  BY LenProperties DEF TypeOK
<1>3. CASE Values
  BY <1>2, <1>3 DEF Values, New, IndexInside
<1>4. CASE NextValue
  BY <1>2, <1>4 DEF NextValue, TypeOK, IndexInside
<1>5. CASE NextNone
  BY <1>2, <1>5 DEF NextNone, TypeOK, IndexInside
<1> QED
  BY <1>1, <1>3, <1>4, <1>5
  DEF Next, Read, Parse, Named, Union, Intersection, Difference, SymmetricDifference,
      Not, Becomes, vars

\* An iterator returns each flag contained in its value once and in order, for
\* any number of flags, whatever else is computed meanwhile.
THEOREM YieldsContained == Spec => []YieldsContainedFlags
<1>1. Init => YieldsContainedFlags
  BY DEF Init, New, YieldsContainedFlags, ToSet
<1>2. Init /\ TypeOK => IndexInside
  BY LenProperties DEF Init, New, TypeOK, IndexInside
<1>3. TypeOK /\ IndexInside /\ YieldsContainedFlags /\ [Next]_vars => YieldsContainedFlags'
  <2> SUFFICES ASSUME TypeOK, IndexInside, YieldsContainedFlags, [Next]_vars
               PROVE  YieldsContainedFlags'
    OBVIOUS
  <2>1. CASE UNCHANGED <<flags, iterator, yielded>>
    BY <2>1 DEF YieldsContainedFlags, Includes
  <2>2. CASE Values
    BY <2>2 DEF Values, New, YieldsContainedFlags, ToSet
  <2>3. CASE NextValue
    <3> DEFINE m == iterator.index
    <3>0. m \in Nat /\ yielded \in Seq(Nat)
      BY DEF TypeOK
    <3>1. PICK i \in (m + 1) .. Len(flags) :
            /\ Includes(iterator.value, flags[i])
            /\ \A j \in (m + 1) .. (i - 1) : ~Includes(iterator.value, flags[j])
            /\ iterator' = [iterator EXCEPT !.index = i]
            /\ yielded' = Append(yielded, i)
            /\ UNCHANGED <<flags, value>>
      BY <2>3 DEF NextValue
    <3>2. iterator'.value = iterator.value /\ iterator'.index = i
      BY <3>1 DEF TypeOK
    <3> HIDE DEF m
    <3>3. i \in Nat /\ m < i
      BY <3>0
    <3>4. ToSet(yielded) = Contained(m)
      BY DEF YieldsContainedFlags, Contained, m
    <3>5. /\ ToSet(yielded') = ToSet(yielded) \cup {i}
          /\ \A j, k \in DOMAIN yielded' : j < k => yielded'[j] < yielded'[k]
      <4>1. ToSet(yielded) \subseteq 1 .. m
        BY <3>4 DEF Contained
      <4>2. \A j, k \in DOMAIN yielded : j < k => yielded[j] < yielded[k]
        BY DEF YieldsContainedFlags
      <4> QED
        BY <3>0, <3>1, <3>3, <4>1, <4>2, AppendedLast
    <3>6. Contained(i) = Contained(m) \cup {i}
      <4>1. \A j \in 1 .. i : j \in 1 .. m \/ j \in (m + 1) .. (i - 1) \/ j = i
        BY <3>0, <3>3
      <4>2. 1 .. m \subseteq 1 .. i /\ i \in 1 .. i
        BY <3>0, <3>3
      <4> QED
        BY <3>1, <4>1, <4>2 DEF Contained
    <3> QED
      BY <3>1, <3>2, <3>4, <3>5, <3>6 DEF YieldsContainedFlags, Contained, Includes
  <2>4. CASE NextNone
    <3> DEFINE m == iterator.index
               n == Len(flags)
    <3>1. /\ \A i \in (m + 1) .. n : ~Includes(iterator.value, flags[i])
          /\ iterator'.value = iterator.value /\ iterator'.index = n
          /\ UNCHANGED <<flags, value, yielded>>
      BY <2>4 DEF NextNone, TypeOK
    <3>2. m \in Nat /\ n \in Nat /\ m <= n
      BY LenProperties DEF TypeOK, IndexInside
    <3> HIDE DEF m, n
    <3>3. Contained(n) = Contained(m)
      <4>1. \A j \in 1 .. n : j \in 1 .. m \/ j \in (m + 1) .. n
        BY <3>2
      <4>2. 1 .. m \subseteq 1 .. n
        BY <3>2
      <4> QED
        BY <3>1, <4>1, <4>2 DEF Contained
    <3> QED
      BY <3>1, <3>3 DEF YieldsContainedFlags, Contained, Includes, m
  <2> QED
    BY <2>1, <2>2, <2>3, <2>4
    DEF Next, Read, Parse, Named, Union, Intersection, Difference, SymmetricDifference,
        Not, Becomes, vars
<1> QED
  BY <1>1, <1>2, <1>3, TypesKept, StaysInside, PTL DEF Spec

-------------------------------------------------------------------------------
(* The database column.                                                      *)

LEMMA CountUp ==
    ASSUME NEW N \in Nat, NEW T, 0 \in T, \A n \in 0 .. N - 1 : n \in T => n + 1 \in T
    PROVE  0 .. N \subseteq T
<1> DEFINE R == OpToRel(<, Nat)
           M == {n \in Nat : n <= N /\ n \notin T}
<1>1. \A i, j \in Nat : <<i, j>> \in R <=> i < j
  BY DEF OpToRel
<1>2. IsWellFoundedOn(R, Nat)
  BY NatLessThanWellFounded
<1> HIDE DEF R
<1>3. CASE M # {}
  <2>1. M \subseteq Nat
    OBVIOUS
  <2>2. PICK m \in M : \A k \in M : <<k, m>> \notin R
    BY <1>2, <1>3, <2>1, WFMin
  <2>3. m \in Nat /\ m <= N /\ m # 0 /\ m \notin T
    OBVIOUS
  <2>4. m - 1 \in 0 .. N - 1 /\ m - 1 \in Nat /\ m - 1 < m /\ m - 1 <= N
    BY <2>3
  <2>5. m - 1 \notin M
    BY <1>1, <2>2, <2>3, <2>4
  <2>6. m - 1 \in T /\ (m - 1) + 1 = m
    BY <2>4, <2>5
  <2> QED
    BY <2>3, <2>4, <2>6
<1> QED
  BY <1>3

\* A function on 0 .. N is given by its first value and its steps.
Steps(f, N, b, g) == f[0] = b /\ \A n \in 0 .. N - 1 : f[n + 1] = g[n][f[n]]

LEMMA StepsGive ==
    ASSUME NEW N \in Nat, NEW S, NEW b \in S, NEW g \in [0 .. N - 1 -> [S -> S]]
    PROVE  \E f \in [0 .. N -> S] : Steps(f, N, b, g)
<1> DEFINE Good(m) == \E f \in [0 .. m -> S] :
                         f[0] = b /\ \A n \in 0 .. m - 1 : f[n + 1] = g[n][f[n]]
           T == {m \in Nat : Good(m)}
<1>1. 0 \in T
  <2> DEFINE f == [n \in 0 .. 0 |-> b]
  <2>1. f \in [0 .. 0 -> S] /\ f[0] = b /\ \A n \in 0 .. 0 - 1 : FALSE
    OBVIOUS
  <2> QED
    BY <2>1
<1>2. ASSUME NEW m \in 0 .. N - 1, m \in T PROVE m + 1 \in T
  <2>1. m \in Nat /\ m + 1 \in Nat /\ (m + 1) - 1 = m
    OBVIOUS
  <2>2. PICK f \in [0 .. m -> S] :
          f[0] = b /\ \A n \in 0 .. m - 1 : f[n + 1] = g[n][f[n]]
    BY <1>2
  <2> DEFINE h == [n \in 0 .. m + 1 |-> IF n = m + 1 THEN g[m][f[m]] ELSE f[n]]
  <2>3. f[m] \in S /\ g[m][f[m]] \in S
    BY <2>1
  <2>4. h \in [0 .. m + 1 -> S]
    BY <2>1, <2>3
  <2>5. h[0] = b
    BY <2>1, <2>2
  <2>6. ASSUME NEW n \in 0 .. (m + 1) - 1 PROVE h[n + 1] = g[n][h[n]]
    <3>1. n \in 0 .. m /\ n # m + 1 /\ h[n] = f[n]
      BY <2>1
    <3>2. CASE n = m
      BY <2>1, <3>1, <3>2
    <3>3. CASE n # m
      <4>1. n \in 0 .. m - 1 /\ n + 1 \in 0 .. m + 1 /\ n + 1 # m + 1
        BY <2>1, <3>1, <3>3
      <4>2. h[n + 1] = f[n + 1]
        BY <4>1
      <4> QED
        BY <2>2, <3>1, <4>1, <4>2
    <3> QED
      BY <3>2, <3>3
  <2> HIDE DEF h
  <2>7. Good(m + 1)
    BY <2>4, <2>5, <2>6
  <2> QED
    BY <2>1, <2>7
<1> HIDE DEF T
<1>3. N \in T
  <2>1. 0 .. N \subseteq T
    BY <1>1, <1>2, CountUp
  <2> QED
    BY <2>1
<1> QED
  BY <1>3 DEF T, Steps

LEMMA WeightSteps ==
    /\ Weight \in [0 .. Width -> Nat \ {0}]
    /\ Weight[0] = 1
    /\ \A p \in 0 .. Width - 1 : Weight[p + 1] = 2 * Weight[p]
<1> DEFINE S == Nat \ {0}
           g == [p \in 0 .. Width - 1 |-> [v \in S |-> 2 * v]]
           Body(f) == [p \in 0 .. Width |-> IF p = 0 THEN 1 ELSE 2 * f[p - 1]]
<1>0. Width \in Nat
  BY WidthIsPositive
<1>1. PICK f \in [0 .. Width -> S] :
        f[0] = 1 /\ \A p \in 0 .. Width - 1 : f[p + 1] = g[p][f[p]]
  <2>1. g \in [0 .. Width - 1 -> [S -> S]] /\ 1 \in S
    OBVIOUS
  <2> HIDE DEF g, S
  <2>2. \E f \in [0 .. Width -> S] : Steps(f, Width, 1, g)
    BY <1>0, <2>1, StepsGive
  <2> QED
    BY <2>2 DEF Steps
<1>2. f = Body(f)
  <2>1. ASSUME NEW p \in 0 .. Width, p # 0 PROVE f[p] = 2 * f[p - 1]
    <3>1. p - 1 \in 0 .. Width - 1 /\ (p - 1) + 1 = p /\ p - 1 \in 0 .. Width
      BY <1>0, <2>1
    <3>2. f[(p - 1) + 1] = g[p - 1][f[p - 1]]
      BY <1>1, <3>1
    <3>3. f[p - 1] \in S
      BY <3>1
    <3> QED
      BY <3>1, <3>2, <3>3
  <2> QED
    BY <1>1, <2>1
<1>3. Weight = CHOOSE h : h = Body(h)
  BY DEF Weight
<1>4. Weight = Body(Weight)
  BY <1>2, <1>3
<1>5. Weight[0] = 1
  BY <1>0, <1>4
<1>6. \A p \in 0 .. Width - 1 : Weight[p + 1] = 2 * Weight[p]
  <2> SUFFICES ASSUME NEW p \in 0 .. Width - 1 PROVE Weight[p + 1] = 2 * Weight[p]
    OBVIOUS
  <2>1. p + 1 \in 0 .. Width /\ p + 1 # 0 /\ (p + 1) - 1 = p
    BY <1>0
  <2> QED
    BY <1>4, <2>1
<1>7. \A p \in 0 .. Width : Weight[p] \in Nat \ {0}
  <2> DEFINE T == {p \in 0 .. Width : Weight[p] \in Nat \ {0}}
  <2>1. 0 \in T
    BY <1>0, <1>5
  <2>2. ASSUME NEW p \in 0 .. Width - 1, p \in T PROVE p + 1 \in T
    <3>1. p + 1 \in 0 .. Width /\ Weight[p + 1] = 2 * Weight[p]
      BY <1>0, <1>6
    <3> QED
      BY <2>2, <3>1
  <2> HIDE DEF T
  <2>3. 0 .. Width \subseteq T
    BY <1>0, <2>1, <2>2, CountUp
  <2> QED
    BY <2>3 DEF T
<1> QED
  BY <1>4, <1>5, <1>6, <1>7

\* What a position adds to the number.
Bit(a, p) == IF p \in a THEN 1 ELSE 0

LEMMA BelowSteps ==
    ASSUME NEW a
    PROVE  /\ Below(a) \in [0 .. Width -> Nat]
           /\ Below(a)[0] = 0
           /\ \A p \in 0 .. Width - 1 : Below(a)[p + 1] = Below(a)[p] + Bit(a, p) * Weight[p]
<1> DEFINE add(p) == IF p \in a THEN Weight[p] ELSE 0
           g == [p \in 0 .. Width - 1 |-> [v \in Nat |-> v + add(p)]]
           Body(f) == [n \in 0 .. Width |-> IF n = 0 THEN 0 ELSE f[n - 1] + add(n - 1)]
<1>0. Width \in Nat
  BY WidthIsPositive
<1>1. \A p \in 0 .. Width - 1 : add(p) \in Nat /\ add(p) = Bit(a, p) * Weight[p]
  <2> SUFFICES ASSUME NEW p \in 0 .. Width - 1
               PROVE  add(p) \in Nat /\ add(p) = Bit(a, p) * Weight[p]
    OBVIOUS
  <2>1. Weight[p] \in Nat
    BY <1>0, WeightSteps
  <2> QED
    BY <2>1 DEF Bit
<1>2. Below(a) = CHOOSE h : h = Body(h)
  BY DEF Below
<1> HIDE DEF add
<1>3. PICK f \in [0 .. Width -> Nat] : Steps(f, Width, 0, g)
  <2>1. g \in [0 .. Width - 1 -> [Nat -> Nat]]
    BY <1>1
  <2> HIDE DEF g
  <2>2. \E f \in [0 .. Width -> Nat] : Steps(f, Width, 0, g)
    BY <1>0, <2>1, StepsGive
  <2> QED
    BY <2>2
<1>4. f = Body(f)
  <2>1. ASSUME NEW n \in 0 .. Width, n # 0 PROVE f[n] = f[n - 1] + add(n - 1)
    <3>1. n - 1 \in 0 .. Width - 1 /\ (n - 1) + 1 = n /\ n - 1 \in 0 .. Width
      BY <1>0, <2>1
    <3>2. f[(n - 1) + 1] = g[n - 1][f[n - 1]]
      BY <1>3, <3>1 DEF Steps
    <3>3. f[n - 1] \in Nat
      BY <3>1
    <3> QED
      BY <3>1, <3>2, <3>3
  <2> QED
    BY <1>3, <2>1 DEF Steps
<1>5. Below(a) = Body(Below(a))
  BY <1>2, <1>4
<1>6. Below(a)[0] = 0
  BY <1>0, <1>5
<1>7. ASSUME NEW p \in 0 .. Width - 1 PROVE Below(a)[p + 1] = Below(a)[p] + add(p)
  <2>1. p + 1 \in 0 .. Width /\ p + 1 # 0 /\ (p + 1) - 1 = p
    BY <1>0
  <2> QED
    BY <1>5, <2>1
<1>8. \A n \in 0 .. Width : Below(a)[n] \in Nat
  <2> DEFINE T == {n \in 0 .. Width : Below(a)[n] \in Nat}
  <2>1. 0 \in T
    BY <1>0, <1>6
  <2>2. ASSUME NEW n \in 0 .. Width - 1, n \in T PROVE n + 1 \in T
    <3>1. n + 1 \in 0 .. Width
      BY <1>0
    <3> QED
      BY <1>1, <1>7, <2>2, <3>1
  <2> HIDE DEF T
  <2>3. 0 .. Width \subseteq T
    BY <1>0, <2>1, <2>2, CountUp
  <2> QED
    BY <2>3 DEF T
<1> QED
  BY <1>1, <1>5, <1>6, <1>7, <1>8

\* The positions below n denote a number that n outweighs.
LEMMA BelowWeight ==
    ASSUME NEW a
    PROVE  \A n \in 0 .. Width : Below(a)[n] < Weight[n]
<1> DEFINE B == Below(a)
           T == {n \in 0 .. Width : B[n] < Weight[n]}
<1>0. Width \in Nat
  BY WidthIsPositive
<1>1. 0 \in T
  BY <1>0, BelowSteps, WeightSteps
<1>2. ASSUME NEW n \in 0 .. Width - 1, n \in T PROVE n + 1 \in T
  <2>1. n + 1 \in 0 .. Width /\ n \in 0 .. Width
    BY <1>0
  <2>2. B[n] \in Nat /\ B[n + 1] = B[n] + Bit(a, n) * Weight[n]
    BY <2>1, BelowSteps
  <2>3. Weight[n] \in Nat /\ Weight[n + 1] = 2 * Weight[n]
    BY <2>1, WeightSteps
  <2>4. Bit(a, n) * Weight[n] <= Weight[n] /\ Bit(a, n) * Weight[n] \in Nat
    BY <2>3 DEF Bit
  <2>5. B[n] < Weight[n]
    BY <1>2
  <2> HIDE DEF B
  <2>6. B[n + 1] < Weight[n + 1]
    BY <2>2, <2>3, <2>4, <2>5
  <2> QED
    BY <2>1, <2>6
<1> HIDE DEF T
<1>3. 0 .. Width \subseteq T
  BY <1>0, <1>1, <1>2, CountUp
<1> QED
  BY <1>3 DEF T

\* The positions from q on add a multiple of the weight of q.
LEMMA HigherPositions ==
    ASSUME NEW a, NEW q \in 0 .. Width
    PROVE  \A n \in q .. Width : \E h \in Nat : Below(a)[n] = h * Weight[q] + Below(a)[q]
<1> DEFINE B == Below(a)
           W == Weight[q]
           OK(n) == /\ \E c \in Nat : Weight[n] = c * W
                    /\ \E h \in Nat : B[n] = h * W + B[q]
           T == {d \in 0 .. Width - q : OK(q + d)}
<1>0. Width \in Nat /\ q \in Nat /\ Width - q \in Nat
  BY WidthIsPositive
<1>1. W \in Nat /\ B[q] \in Nat
  BY WeightSteps, BelowSteps
<1>2. 0 \in T
  <2>1. q + 0 = q /\ Weight[q] = 1 * W /\ B[q] = 0 * W + B[q]
    BY <1>0, <1>1
  <2>2. OK(q + 0)
    BY <2>1
  <2> HIDE DEF OK
  <2> QED
    BY <1>0, <2>2
<1>3. ASSUME NEW d \in 0 .. (Width - q) - 1, d \in T PROVE d + 1 \in T
  <2> DEFINE n == q + d
  <2>1. n \in 0 .. Width - 1 /\ q + (d + 1) = n + 1 /\ d + 1 \in 0 .. Width - q /\ n \in 0 .. Width
    BY <1>0
  <2>2. OK(n)
    BY <1>3
  <2> HIDE DEF n
  <2>3. PICK c \in Nat : Weight[n] = c * W
    BY <2>2
  <2>4. PICK h \in Nat : B[n] = h * W + B[q]
    BY <2>2
  <2>5. Weight[n + 1] = 2 * Weight[n] /\ B[n + 1] = B[n] + Bit(a, n) * Weight[n]
    BY <2>1, WeightSteps, BelowSteps
  <2>6. Weight[n + 1] = (2 * c) * W /\ 2 * c \in Nat
    BY <1>1, <2>3, <2>5
  <2>7. \E k \in Nat : B[n + 1] = k * W + B[q]
    <3> HIDE DEF B, W
    <3>1. CASE n \in a
      <4>1. B[n + 1] = (h * W + B[q]) + c * W
        BY <1>1, <2>3, <2>4, <2>5, <3>1 DEF Bit
      <4>2. (h * W + B[q]) + c * W = (h + c) * W + B[q] /\ h + c \in Nat
        BY <1>1
      <4> QED
        BY <4>1, <4>2
    <3>2. CASE n \notin a
      <4>1. Bit(a, n) * Weight[n] = 0
        BY <1>1, <2>3, <3>2 DEF Bit
      <4>2. B[n + 1] = h * W + B[q]
        BY <1>1, <2>4, <2>5, <4>1
      <4> QED
        BY <4>2
    <3> QED
      BY <3>1, <3>2
  <2>8. OK(n + 1)
    BY <2>6, <2>7
  <2> HIDE DEF OK
  <2> QED
    BY <2>1, <2>8
<1> HIDE DEF T
<1>4. 0 .. Width - q \subseteq T
  BY <1>0, <1>2, <1>3, CountUp
<1> SUFFICES ASSUME NEW n \in q .. Width
             PROVE  \E h \in Nat : B[n] = h * W + B[q]
  OBVIOUS
<1>5. n - q \in 0 .. Width - q /\ q + (n - q) = n
  BY <1>0
<1>6. OK(q + (n - q))
  BY <1>4, <1>5 DEF T
<1> QED
  BY <1>5, <1>6

LEMMA DivUnique ==
    ASSUME NEW d \in Nat \ {0}, NEW q \in Int, NEW r \in 0 .. d - 1, NEW n \in Int, n = d * q + r
    PROVE  n \div d = q /\ n % d = r
<1> DEFINE m == n \div d
           s == n % d
<1>1. m \in Int /\ s \in 0 .. d - 1 /\ n = d * m + s
  BY SMTT(30)
<1> HIDE DEF m, s
<1>2. d * (q - m) = s - r
  BY <1>1
<1>3. q - m <= 0
  <2> SUFFICES ASSUME q - m >= 1 PROVE FALSE
    BY <1>1
  <2>1. q - m - 1 \in Nat /\ q - m = (q - m - 1) + 1
    BY <1>1
  <2>2. d * (q - m) = d * (q - m - 1) + d /\ d * (q - m - 1) >= 0
    BY <1>1, <2>1
  <2> QED
    BY <1>1, <1>2, <2>2
<1>4. m - q <= 0
  <2> SUFFICES ASSUME m - q >= 1 PROVE FALSE
    BY <1>1
  <2>1. m - q - 1 \in Nat /\ m - q = (m - q - 1) + 1
    BY <1>1
  <2>2. d * (m - q) = d * (m - q - 1) + d /\ d * (m - q - 1) >= 0
    BY <1>1, <2>1
  <2>3. d * (m - q) = r - s
    BY <1>1
  <2> QED
    BY <1>1, <2>2, <2>3
<1>5. m = q
  BY <1>1, <1>3, <1>4
<1>6. s = r
  BY <1>1, <1>5
<1> QED
  BY <1>5, <1>6 DEF m, s

\* Every bit of a bitmap is found again in the number that it denotes.
LEMMA Digits ==
    ASSUME NEW a, NEW p \in Positions
    PROVE  (Unsigned(a) \div Weight[p]) % 2 = Bit(a, p)
<1> DEFINE B == Below(a)
           W == Weight[p]
           b == Bit(a, p)
<1>0. Width \in Nat /\ p \in 0 .. Width - 1 /\ p \in 0 .. Width /\ p + 1 \in 0 .. Width
      /\ Width \in p + 1 .. Width
  BY WidthIsPositive DEF Positions
<1>1. W \in Nat \ {0} /\ Weight[p + 1] = 2 * W
  BY <1>0, WeightSteps
<1>2. B[p] \in Nat /\ B[p + 1] = B[p] + b * W /\ B[p] < W
  BY <1>0, BelowSteps, BelowWeight
<1>3. b \in 0 .. 1
  BY DEF Bit
<1>4. PICK h \in Nat : B[Width] = h * Weight[p + 1] + B[p + 1]
  BY <1>0, HigherPositions
<1>5. Unsigned(a) = B[Width]
  BY DEF Unsigned
<1> HIDE DEF B, W, b
<1>6. Unsigned(a) = W * (2 * h + b) + B[p]
  <2>1. Unsigned(a) = h * (2 * W) + (B[p] + b * W)
    BY <1>1, <1>2, <1>4, <1>5
  <2>2. h * (2 * W) + (B[p] + b * W) = W * (2 * h + b) + B[p]
    BY <1>1, <1>2, <1>3
  <2> QED
    BY <2>1, <2>2
<1>7. Unsigned(a) \div W = 2 * h + b
  <2> DEFINE k == 2 * h + b
             r == B[p]
             n == Unsigned(a)
  <2>1. k \in Int /\ r \in 0 .. W - 1 /\ n = W * k + r
    BY <1>1, <1>2, <1>3, <1>6
  <2> HIDE DEF k, r, n
  <2>2. n \in Int
    BY <1>1, <2>1
  <2>3. n \div W = k
    BY <1>1, <2>1, <2>2, DivUnique
  <2> QED
    BY <2>3 DEF k, n
<1>8. (2 * h + b) % 2 = b
  BY <1>3
<1> QED
  BY <1>7, <1>8 DEF b, W

\* The column is the same number, but for multiples of what 2^Width stands for.
LEMMA ColumnModulo ==
    ASSUME NEW a
    PROVE  ToColumn(a) % Weight[Width] = Unsigned(a)
<1> DEFINE M == Weight[Width]
           u == Unsigned(a)
<1>1. M \in Nat \ {0} /\ u \in 0 .. M - 1
  <2>1. Width \in 0 .. Width
    BY WidthIsPositive
  <2>2. Weight[Width] \in Nat \ {0} /\ Below(a)[Width] \in Nat
    BY <2>1, WeightSteps, BelowSteps
  <2>3. Below(a)[Width] < Weight[Width]
    BY <2>1, BelowWeight
  <2> QED
    BY <2>2, <2>3 DEF Unsigned
<1>2. ToColumn(a) = u \/ ToColumn(a) = u - M
  BY DEF ToColumn
<1> HIDE DEF M, u
<1>3. u % M = u
  <2>1. u = M * 0 + u /\ 0 \in Int /\ u \in Int
    BY <1>1
  <2> QED
    BY <1>1, <2>1, DivUnique
<1>4. (u - M) % M = u
  <2>1. u - M = M * (-1) + u /\ -1 \in Int /\ u - M \in Int
    BY <1>1
  <2> QED
    BY <1>1, <2>1, DivUnique
<1> QED
  BY <1>2, <1>3, <1>4 DEF M, u

\* A value survives the database, for any width: the highest bit makes the
\* column negative and is found again, and so is every other.
THEOREM ColumnKeeps == Spec => []ColumnRoundTrip
<1>1. TypeOK /\ DeclaredBitsOnly => ColumnRoundTrip
  <2> SUFFICES ASSUME TypeOK, DeclaredBitsOnly
               PROVE  FromColumn(ToColumn(value)) = value
    BY DEF ColumnRoundTrip
  <2>1. \A p \in Positions :
          ((ToColumn(value) % Weight[Width]) \div Weight[p]) % 2 = 1 <=> p \in value
    BY ColumnModulo, Digits DEF Bit
  <2>2. {p \in Positions : ((ToColumn(value) % Weight[Width]) \div Weight[p]) % 2 = 1} = value
    BY <2>1 DEF TypeOK, Bitmaps
  <2> QED
    BY <2>2 DEF FromColumn, FromRaw, DeclaredBitsOnly
<1> QED
  BY <1>1, TypesKept, OnlyDeclaredBits, PTL

=============================================================================
