------------------------- MODULE PasswordStorageProofs -------------------------
(*****************************************************************************)
(* Which plaintexts a stored password accepts, for any alphabet, any length  *)
(* of hash and salt, any plaintexts and any number of users.  KeptExplained  *)
(* is inductive; the rest is about the bytes of a password: its second half  *)
(* gives the salt back, and its first half tells inputs apart.               *)
(*****************************************************************************)
EXTENDS PasswordStorage, SequenceTheorems, TLAPS

USE HalfIsPositive, PlainBound

-------------------------------------------------------------------------------
(* The bytes of a password.                                                  *)

Hashed == [input : Seq(Bytes), byte : 1 .. Half]

PasswordBytes == Bytes \cup Hashed

LEMMA PlaintextShape ==
    ASSUME NEW plain \in Plaintexts
    PROVE  plain \in Seq(Bytes)
BY DEF Plaintexts

LEMMA SaltShape ==
    ASSUME NEW salt \in Salts
    PROVE  /\ salt \in Seq(Bytes)
           /\ Len(salt) = Half
           /\ salt = [k \in 1 .. Half |-> salt[k]]
BY DEF Salts

LEMMA DigestShape ==
    ASSUME NEW input \in Seq(Bytes)
    PROVE  /\ Digest(input) \in Seq(Hashed)
           /\ Len(Digest(input)) = Half
           /\ \A k \in 1 .. Half : Digest(input)[k] = [input |-> input, byte |-> k]
<1> DEFINE Byte(k) == [input |-> input, byte |-> k]
<1>1. \A k \in 1 .. Half : Byte(k) \in Hashed
  BY DEF Hashed
<1> HIDE DEF Byte
<1>2. [k \in 1 .. Half |-> Byte(k)] \in Seq(Hashed)
  BY <1>1
<1>3. Digest(input) = [k \in 1 .. Half |-> Byte(k)]
  BY DEF Digest, Byte
<1>4. Len(Digest(input)) = Half
  BY <1>2, <1>3
<1> QED
  BY <1>2, <1>3, <1>4 DEF Digest

LEMMA PasswordShape ==
    ASSUME NEW plain \in Plaintexts, NEW salt \in Salts
    PROVE  LET password == WithSalt(plain, salt)
           IN  /\ password \in Seq(PasswordBytes)
               /\ Len(password) = 2 * Half
               /\ \A k \in 1 .. Half :
                    password[k] = [input |-> salt \o plain, byte |-> k]
               /\ \A k \in 1 .. Half : password[Half + k] = salt[k]
<1> DEFINE d == Digest(salt \o plain)
<1>1. salt \o plain \in Seq(Bytes)
  BY PlaintextShape, SaltShape
<1>2. /\ d \in Seq(Hashed) /\ Len(d) = Half
      /\ \A k \in 1 .. Half : d[k] = [input |-> salt \o plain, byte |-> k]
  BY <1>1, DigestShape, Zenon
<1>3. salt \in Seq(Bytes) /\ Len(salt) = Half
  BY SaltShape
<1>4. WithSalt(plain, salt) = d \o salt
  BY DEF WithSalt, FromRawParts
<1> HIDE DEF d
<1>5. d \in Seq(PasswordBytes) /\ salt \in Seq(PasswordBytes)
  BY <1>2, <1>3 DEF PasswordBytes
<1>6. d \o salt \in Seq(PasswordBytes) /\ Len(d \o salt) = 2 * Half
  <2>1. d \o salt \in Seq(PasswordBytes) /\ Len(d \o salt) = Len(d) + Len(salt)
    BY <1>5, ConcatProperties
  <2> QED
    BY <1>2, <1>3, <2>1
<1>7. \A k \in 1 .. Half : (d \o salt)[k] = d[k] /\ (d \o salt)[Half + k] = salt[k]
  BY <1>2, <1>3, <1>5
<1> QED
  BY <1>2, <1>4, <1>6, <1>7

\* salt() gives back the salt that a password was made with.
LEMMA SaltRecovered ==
    ASSUME NEW plain \in Plaintexts, NEW salt \in Salts
    PROVE  SaltOf(WithSalt(plain, salt)) = salt
<1> DEFINE p == WithSalt(plain, salt)
<1>1. /\ p \in Seq(PasswordBytes) /\ Len(p) = 2 * Half
      /\ \A k \in 1 .. Half : p[Half + k] = salt[k]
  BY PasswordShape
<1> HIDE DEF p
<1>2. /\ Half + 1 \in Int /\ 2 * Half \in Int
      /\ \A k \in Half + 1 .. 2 * Half : p[k] \in PasswordBytes
  BY <1>1
<1>3. /\ SaltOf(p) \in Seq(PasswordBytes)
      /\ Len(SaltOf(p)) = IF Half + 1 <= 2 * Half THEN 2 * Half - (Half + 1) + 1 ELSE 0
      /\ \A k \in 1 .. 2 * Half - (Half + 1) + 1 : SaltOf(p)[k] = p[(Half + 1) + k - 1]
  BY <1>2, SubSeqProperties DEF SaltOf
<1>4. Len(SaltOf(p)) = Half /\ \A k \in 1 .. Half : SaltOf(p)[k] = salt[k]
  <2>1. Half + 1 <= 2 * Half /\ 2 * Half - (Half + 1) + 1 = Half
    OBVIOUS
  <2>2. Len(SaltOf(p)) = Half /\ \A k \in 1 .. Half : SaltOf(p)[k] = p[(Half + 1) + k - 1]
    BY <1>3, <2>1
  <2>3. \A k \in 1 .. Half : (Half + 1) + k - 1 = Half + k
    OBVIOUS
  <2> QED
    BY <1>1, <2>2, <2>3
<1>5. SaltOf(p) = [k \in 1 .. Half |-> salt[k]]
  BY <1>3, <1>4
<1> QED
  BY <1>5, SaltShape DEF p

\* Two plaintexts are the same if they are after the same prefix.
LEMMA Cancelled ==
    ASSUME NEW a \in Seq(Bytes), NEW p \in Seq(Bytes), NEW q \in Seq(Bytes),
           a \o p = a \o q
    PROVE  p = q
<1>1. Len(p) = Len(q)
  BY Len(a \o p) = Len(a) + Len(p), Len(a \o q) = Len(a) + Len(q)
<1>2. \A k \in 1 .. Len(p) : p[k] = (a \o p)[Len(a) + k]
  OBVIOUS
<1>3. \A k \in 1 .. Len(q) : q[k] = (a \o q)[Len(a) + k]
  OBVIOUS
<1>4. \A k \in 1 .. Len(p) : p[k] = q[k]
  BY <1>1, <1>2, <1>3
<1> QED
  BY <1>1, <1>4

\* Two passwords are equal only if they were made from the same.
LEMMA PasswordsDistinct ==
    ASSUME NEW p \in Plaintexts, NEW s \in Salts, NEW q \in Plaintexts, NEW t \in Salts
    PROVE  Same(WithSalt(p, s), WithSalt(q, t)) <=> p = q /\ s = t
<1>1. ASSUME WithSalt(p, s) = WithSalt(q, t) PROVE p = q /\ s = t
  <2>1. s = t
    BY <1>1, SaltRecovered
  <2>2. [input |-> s \o p, byte |-> 1] = [input |-> t \o q, byte |-> 1]
    <3>1. 1 \in 1 .. Half
      OBVIOUS
    <3>2. WithSalt(p, s)[1] = [input |-> s \o p, byte |-> 1]
      BY <3>1, PasswordShape, Zenon
    <3>3. WithSalt(q, t)[1] = [input |-> t \o q, byte |-> 1]
      BY <3>1, PasswordShape, Zenon
    <3> QED
      BY <1>1, <3>2, <3>3
  <2>3. s \o p = s \o q
    BY <2>1, <2>2
  <2> QED
    BY <2>1, <2>3, Cancelled, PlaintextShape, SaltShape
<1> QED
  BY <1>1 DEF Same

\* A password accepts the plaintext it was made from.
LEMMA Verified ==
    ASSUME NEW p \in Plaintexts, NEW s \in Salts, NEW q \in Plaintexts
    PROVE  Verify(WithSalt(p, s), q) <=> p = q
BY SaltRecovered, PasswordsDistinct DEF Verify

-------------------------------------------------------------------------------
(* What is left of a password when its end is cut off.                       *)

LEMMA CutShape ==
    ASSUME NEW w \in Seq(PasswordBytes), NEW n \in 0 .. Len(w)
    PROVE  /\ SubSeq(w, 1, n) \in Seq(PasswordBytes)
           /\ Len(SubSeq(w, 1, n)) = n
           /\ \A k \in 1 .. n : SubSeq(w, 1, n)[k] = w[k]
<1>1. 1 \in Int /\ n \in Int /\ \A k \in 1 .. n : w[k] \in PasswordBytes
  OBVIOUS
<1>2. /\ SubSeq(w, 1, n) \in Seq(PasswordBytes)
      /\ Len(SubSeq(w, 1, n)) = IF 1 <= n THEN n - 1 + 1 ELSE 0
      /\ \A k \in 1 .. n - 1 + 1 : SubSeq(w, 1, n)[k] = w[1 + k - 1]
  BY <1>1, SubSeqProperties
<1> QED
  BY <1>2

LEMMA CutAgain ==
    ASSUME NEW w \in Seq(PasswordBytes), NEW n \in 1 .. Len(w)
    PROVE  Front(SubSeq(w, 1, n)) = SubSeq(w, 1, n - 1)
<1> DEFINE c == SubSeq(w, 1, n)
<1>1. c \in Seq(PasswordBytes) /\ Len(c) = n /\ \A k \in 1 .. n : c[k] = w[k]
  BY CutShape
<1> HIDE DEF c
<1>2. /\ SubSeq(c, 1, n - 1) \in Seq(PasswordBytes) /\ Len(SubSeq(c, 1, n - 1)) = n - 1
      /\ \A k \in 1 .. n - 1 : SubSeq(c, 1, n - 1)[k] = c[k]
  BY <1>1, CutShape
<1>3. /\ SubSeq(w, 1, n - 1) \in Seq(PasswordBytes) /\ Len(SubSeq(w, 1, n - 1)) = n - 1
      /\ \A k \in 1 .. n - 1 : SubSeq(w, 1, n - 1)[k] = w[k]
  BY CutShape
<1>4. SubSeq(c, 1, n - 1) = SubSeq(w, 1, n - 1)
  BY <1>1, <1>2, <1>3
<1> QED
  BY <1>1, <1>4 DEF Front, c

LEMMA CutNowhere ==
    ASSUME NEW w \in Seq(PasswordBytes)
    PROVE  SubSeq(w, 1, Len(w)) = w
BY CutShape

-------------------------------------------------------------------------------
(* The invariant for one user: what is kept is the first n bytes of the      *)
(* password that was made, and it was damaged if some are missing.           *)

Forms == {"text", "column"}

Keeps(cells, secrets, cut, plain, salt, form, n) ==
    /\ secrets = {[plain |-> plain, salt |-> salt]}
    /\ cells = {Encode(form, SubSeq(WithSalt(plain, salt), 1, n))}
    /\ cut <=> n # 2 * Half

KeptOf(cells, secrets, cut) ==
    \/ cells = {} /\ secrets = {} /\ ~cut
    \/ \E plain \in Plaintexts, salt \in Salts, form \in Forms, n \in 0 .. 2 * Half :
         Keeps(cells, secrets, cut, plain, salt, form, n)

Typed ==
    /\ kept = [u \in Users |-> kept[u]]
    /\ secret = [u \in Users |-> secret[u]]
    /\ damaged \in [Users -> BOOLEAN]

Kept == Typed /\ \A u \in Users : KeptOf(kept[u], secret[u], damaged[u])

LEMMA WholePassword ==
    ASSUME NEW plain \in Plaintexts, NEW salt \in Salts
    PROVE  SubSeq(WithSalt(plain, salt), 1, 2 * Half) = WithSalt(plain, salt)
BY PasswordShape, CutNowhere

LEMMA KeptIsExplained == Kept => KeptExplained
<1> DEFINE Made(u, plain, salt, form) ==
             /\ secret[u] = {[plain |-> plain, salt |-> salt]}
             /\ \/ ~damaged[u] /\ kept[u] = {Encode(form, WithSalt(plain, salt))}
                \/ /\ damaged[u]
                   /\ \E n \in 0 .. 2 * Half - 1 :
                        kept[u] = {Encode(form, SubSeq(WithSalt(plain, salt), 1, n))}
<1>0. SUFFICES ASSUME Kept, NEW u \in Users,
                      ~(kept[u] = {} /\ secret[u] = {} /\ ~damaged[u])
               PROVE  \E plain \in Plaintexts, salt \in Salts, form \in Forms :
                        Made(u, plain, salt, form)
  BY DEF KeptExplained, Forms
<1>1. PICK plain \in Plaintexts, salt \in Salts, form \in Forms, n \in 0 .. 2 * Half :
        Keeps(kept[u], secret[u], damaged[u], plain, salt, form, n)
  BY <1>0 DEF Kept, KeptOf
<1>2. CASE n = 2 * Half
  <2>1. kept[u] = {Encode(form, WithSalt(plain, salt))}
    BY <1>1, <1>2, WholePassword DEF Keeps
  <2>2. secret[u] = {[plain |-> plain, salt |-> salt]} /\ ~damaged[u]
    BY <1>1, <1>2 DEF Keeps
  <2> QED
    BY <2>1, <2>2
<1>3. CASE n # 2 * Half
  <2>1. n \in 0 .. 2 * Half - 1
    BY <1>3
  <2> QED
    BY <1>1, <1>3, <2>1 DEF Keeps
<1> QED
  BY <1>2, <1>3

\* What can be decoded of it: the password, if nothing is missing.
LEMMA Decoded ==
    ASSUME NEW plain \in Plaintexts, NEW salt \in Salts, NEW form \in Forms,
           NEW n \in 0 .. 2 * Half
    PROVE  Decode(Encode(form, SubSeq(WithSalt(plain, salt), 1, n)))
             = IF n = 2 * Half THEN {WithSalt(plain, salt)} ELSE {}
<1> DEFINE c == SubSeq(WithSalt(plain, salt), 1, n)
<1>1. Len(c) = n
  BY PasswordShape, CutShape
<1>2. n = 2 * Half => c = WithSalt(plain, salt)
  BY WholePassword
<1> HIDE DEF c
<1>3. Encode(form, c).bytes = c
  BY DEF Encode, Serialize, EncodeColumn
<1>4. Decode(Encode(form, c)) = IF n = 2 * Half THEN {WithSalt(plain, salt)} ELSE {}
  BY <1>1, <1>2, <1>3 DEF Decode, Deserialize, DecodeColumn, Exactly
<1> QED
  BY <1>4 DEF c

-------------------------------------------------------------------------------
(* Each action keeps it.                                                     *)

\* One user's part is replaced by something that is explained as well.
LEMMA OneUser ==
    ASSUME Kept, NEW u \in Users, NEW cells, NEW secrets, NEW cut \in BOOLEAN,
           KeptOf(cells, secrets, cut),
           kept' = [kept EXCEPT ![u] = cells],
           secret' = [secret EXCEPT ![u] = secrets],
           damaged' = [damaged EXCEPT ![u] = cut]
    PROVE  Kept'
<1>1. Typed'
  BY DEF Kept, Typed
<1>2. ASSUME NEW v \in Users PROVE KeptOf(kept'[v], secret'[v], damaged'[v])
  <2>1. CASE v = u
    <3>1. kept'[v] = cells /\ secret'[v] = secrets /\ damaged'[v] = cut
      BY <2>1 DEF Kept, Typed
    <3> QED
      BY <3>1
  <2>2. CASE v # u
    <3>1. kept'[v] = kept[v] /\ secret'[v] = secret[v] /\ damaged'[v] = damaged[v]
      BY <2>2 DEF Kept, Typed
    <3> QED
      BY <3>1 DEF Kept
  <2> QED
    BY <2>1, <2>2
<1> QED
  BY <1>1, <1>2 DEF Kept

LEMMA NoUser == ASSUME Kept, UNCHANGED <<kept, secret, damaged>> PROVE Kept'
BY DEF Kept, Typed

LEMMA RegisterKept ==
    ASSUME Kept, NEW u \in Users, NEW plain \in Plaintexts, NEW salt \in Salts,
           NEW form \in Forms, Register(u, plain, salt, form)
    PROVE  Kept'
<1> DEFINE cells == {Encode(form, WithSalt(plain, salt))}
           secrets == {[plain |-> plain, salt |-> salt]}
<1>1. 2 * Half \in 0 .. 2 * Half
  OBVIOUS
<1>2. Keeps(cells, secrets, FALSE, plain, salt, form, 2 * Half)
  BY WholePassword DEF Keeps
<1>3. KeptOf(cells, secrets, FALSE)
  BY <1>1, <1>2 DEF KeptOf
<1> QED
  BY <1>3, OneUser DEF Register

\* Only a whole password can be converted, and it stays whole.
LEMMA ConvertKept ==
    ASSUME Kept, NEW u \in Users, NEW form \in Forms, Convert(u, form)
    PROVE  Kept'
<1>1. PICK cell \in kept[u] : \E password \in Decode(cell) :
        kept' = [kept EXCEPT ![u] = {Encode(form, password)}]
  BY DEF Convert
<1>2. PICK plain \in Plaintexts, salt \in Salts, was \in Forms, n \in 0 .. 2 * Half :
        Keeps(kept[u], secret[u], damaged[u], plain, salt, was, n)
  BY <1>1 DEF Kept, KeptOf
<1>3. Decode(cell) = IF n = 2 * Half THEN {WithSalt(plain, salt)} ELSE {}
  <2>1. cell = Encode(was, SubSeq(WithSalt(plain, salt), 1, n))
    BY <1>1, <1>2 DEF Keeps
  <2> QED
    BY <2>1, Decoded
<1>4. n = 2 * Half /\ kept' = [kept EXCEPT ![u] = {Encode(form, WithSalt(plain, salt))}]
  BY <1>1, <1>3
<1>5. /\ damaged[u] = FALSE
      /\ secret' = [secret EXCEPT ![u] = secret[u]]
      /\ damaged' = [damaged EXCEPT ![u] = FALSE]
  BY <1>2, <1>4 DEF Convert, Keeps, Kept, Typed
<1>6. Keeps({Encode(form, WithSalt(plain, salt))}, secret[u], FALSE, plain, salt, form, n)
  BY <1>2, <1>4, WholePassword DEF Keeps
<1>7. KeptOf({Encode(form, WithSalt(plain, salt))}, secret[u], FALSE)
  BY <1>6 DEF KeptOf
<1> QED
  BY <1>4, <1>5, <1>7, OneUser

LEMMA TruncateKept ==
    ASSUME Kept, NEW u \in Users, Truncate(u)
    PROVE  Kept'
<1>1. PICK cell \in kept[u] :
        cell.bytes # <<>> /\ kept' = [kept EXCEPT ![u] = {[cell EXCEPT !.bytes = Front(@)]}]
  BY DEF Truncate
<1>2. PICK plain \in Plaintexts, salt \in Salts, form \in Forms, n \in 0 .. 2 * Half :
        Keeps(kept[u], secret[u], damaged[u], plain, salt, form, n)
  BY <1>1 DEF Kept, KeptOf
<1> DEFINE w == WithSalt(plain, salt)
           left == Encode(form, SubSeq(w, 1, n - 1))
<1>3. w \in Seq(PasswordBytes) /\ Len(w) = 2 * Half
  BY PasswordShape
<1>4. cell = Encode(form, SubSeq(w, 1, n)) /\ cell.bytes = SubSeq(w, 1, n)
  BY <1>1, <1>2 DEF Keeps, Encode, Serialize, EncodeColumn
<1>5. n \in 1 .. 2 * Half /\ n - 1 \in 0 .. 2 * Half /\ n - 1 # 2 * Half
  <2>1. Len(SubSeq(w, 1, n)) = n
    BY <1>3, CutShape
  <2>2. SubSeq(w, 1, n) \in Seq(PasswordBytes)
    BY <1>3, CutShape
  <2>3. n # 0
    BY <1>1, <1>4, <2>1, <2>2
  <2> QED
    BY <2>3
<1>6. Front(SubSeq(w, 1, n)) = SubSeq(w, 1, n - 1)
  BY <1>3, <1>5, CutAgain
<1> HIDE DEF w
<1>7. [cell EXCEPT !.bytes = Front(@)] = left
  <2>1. form \in {"text", "column"}
    BY DEF Forms
  <2>2. cell = [form |-> form, bytes |-> SubSeq(w, 1, n)]
    BY <1>4, <2>1 DEF Encode, Serialize, EncodeColumn
  <2>3. left = [form |-> form, bytes |-> SubSeq(w, 1, n - 1)]
    BY <2>1 DEF Encode, Serialize, EncodeColumn
  <2>4. [cell EXCEPT !.bytes = Front(SubSeq(w, 1, n))]
          = [form |-> form, bytes |-> Front(SubSeq(w, 1, n))]
    BY <2>2
  <2>5. cell.bytes = SubSeq(w, 1, n)
    BY <2>2
  <2> HIDE DEF left
  <2> QED
    BY <1>6, <2>3, <2>4, <2>5
<1>8. Keeps({left}, secret[u], TRUE, plain, salt, form, n - 1)
  BY <1>2, <1>5 DEF Keeps, w
<1>9. KeptOf({left}, secret[u], TRUE)
  BY <1>5, <1>8 DEF KeptOf
<1>10. /\ kept' = [kept EXCEPT ![u] = {left}]
       /\ secret' = [secret EXCEPT ![u] = secret[u]]
       /\ damaged' = [damaged EXCEPT ![u] = TRUE]
  BY <1>1, <1>7 DEF Truncate, Kept, Typed
<1> QED
  BY <1>9, <1>10, OneUser

LEMMA InitKept == Init => Kept
BY DEF Init, Kept, Typed, KeptOf

LEMMA StepKept == Kept /\ [Next]_vars => Kept'
<1> SUFFICES ASSUME Kept, [Next]_vars PROVE Kept'
  OBVIOUS
<1>1. CASE UNCHANGED vars
  BY <1>1, NoUser DEF vars
<1>2. ASSUME NEW u \in Users, NEW plain \in Plaintexts, NEW salt \in Salts,
             NEW form \in Forms, Register(u, plain, salt, form)
      PROVE  Kept'
  BY <1>2, RegisterKept
<1>3. ASSUME NEW u \in Users, NEW form \in Forms, Convert(u, form) PROVE Kept'
  BY <1>3, ConvertKept
<1>4. ASSUME NEW u \in Users, Truncate(u) PROVE Kept'
  BY <1>4, TruncateKept
<1>5. ASSUME NEW u \in Users, NEW plain \in Plaintexts, Attempt(u, plain) PROVE Kept'
  BY <1>5, NoUser DEF Attempt
<1>6. ASSUME NEW u \in Users, NEW v \in Users, Compare(u, v) PROVE Kept'
  BY <1>6, NoUser DEF Compare
<1> QED
  BY <1>1, <1>2, <1>3, <1>4, <1>5, <1>6 DEF Next, Forms

LEMMA AlwaysKept == Spec => []Kept
BY InitKept, StepKept, PTL DEF Spec

\* What is kept for a user is the password that was made for it, whole or cut
\* short, whatever was converted and cut in whichever order.
THEOREM KeptCorrect == Spec => []KeptExplained
BY AlwaysKept, KeptIsExplained, PTL

-------------------------------------------------------------------------------
(* What a comparison makes of it.                                            *)

\* The password of a user, decoded.
LEMMA KeptDecoded ==
    ASSUME Kept, NEW u \in Users, kept[u] # {}
    PROVE  \E plain \in Plaintexts, salt \in Salts, cell \in kept[u] :
             /\ secret[u] = {[plain |-> plain, salt |-> salt]}
             /\ kept[u] = {cell}
             /\ Decode(cell) = IF damaged[u] THEN {} ELSE {WithSalt(plain, salt)}
<1>1. PICK plain \in Plaintexts, salt \in Salts, form \in Forms, n \in 0 .. 2 * Half :
        Keeps(kept[u], secret[u], damaged[u], plain, salt, form, n)
  BY DEF Kept, KeptOf
<1> DEFINE cell == Encode(form, SubSeq(WithSalt(plain, salt), 1, n))
<1>2. Decode(cell) = IF n = 2 * Half THEN {WithSalt(plain, salt)} ELSE {}
  BY Decoded
<1>3. secret[u] = {[plain |-> plain, salt |-> salt]} /\ kept[u] = {cell}
  BY <1>1 DEF Keeps
<1>4. damaged[u] <=> n # 2 * Half
  BY <1>1 DEF Keeps
<1> HIDE DEF cell
<1>5. Decode(cell) = IF damaged[u] THEN {} ELSE {WithSalt(plain, salt)}
  BY <1>2, <1>4
<1> QED
  BY <1>3, <1>5

LEMMA AttemptAnswered ==
    ASSUME Kept, NEW u \in Users, NEW plain \in Plaintexts, Attempt(u, plain)
    PROVE  verdict' = IF damaged[u] THEN "error"
                      ELSE Outcome(\E s \in secret[u] : s.plain = plain)
<1>1. kept[u] # {}
  BY DEF Attempt
<1>2. PICK p \in Plaintexts, salt \in Salts, cell \in kept[u] :
        /\ secret[u] = {[plain |-> p, salt |-> salt]}
        /\ kept[u] = {cell}
        /\ Decode(cell) = IF damaged[u] THEN {} ELSE {WithSalt(p, salt)}
  BY <1>1, KeptDecoded
<1>3. CASE damaged[u]
  BY <1>2, <1>3 DEF Attempt
<1>4. CASE ~damaged[u]
  <2>1. (\E c \in kept[u] : \E password \in Decode(c) : Verify(password, plain))
          <=> p = plain
    BY <1>2, <1>4, Verified
  <2>2. (\E s \in secret[u] : s.plain = plain) <=> p = plain
    BY <1>2
  <2>3. ~\E c \in kept[u] : Decode(c) = {}
    BY <1>2, <1>4
  <2>4. verdict' = Outcome(\E c \in kept[u] : \E password \in Decode(c) :
                             Verify(password, plain))
    BY <2>3 DEF Attempt
  <2> QED
    BY <1>4, <2>1, <2>2, <2>4 DEF Outcome
<1> QED
  BY <1>3, <1>4

LEMMA CompareAnswered ==
    ASSUME Kept, NEW u \in Users, NEW v \in Users, Compare(u, v),
           ~damaged[u], ~damaged[v]
    PROVE  verdict' = Outcome(secret[u] = secret[v])
<1>1. kept[u] # {} /\ kept[v] # {}
  BY DEF Compare
<1>2. PICK p \in Plaintexts, s \in Salts, a \in kept[u] :
        /\ secret[u] = {[plain |-> p, salt |-> s]}
        /\ kept[u] = {a}
        /\ Decode(a) = {WithSalt(p, s)}
  BY <1>1, KeptDecoded
<1>3. PICK q \in Plaintexts, t \in Salts, b \in kept[v] :
        /\ secret[v] = {[plain |-> q, salt |-> t]}
        /\ kept[v] = {b}
        /\ Decode(b) = {WithSalt(q, t)}
  BY <1>1, KeptDecoded
<1>4. (\E c \in kept[u], d \in kept[v] :
         \E x \in Decode(c), y \in Decode(d) : Same(x, y)) <=> p = q /\ s = t
  <2>1. Same(WithSalt(p, s), WithSalt(q, t)) <=> p = q /\ s = t
    BY PasswordsDistinct
  <2> QED
    BY <1>2, <1>3, <2>1
<1>5. secret[u] = secret[v] <=> p = q /\ s = t
  <2>1. [plain |-> p, salt |-> s] = [plain |-> q, salt |-> t] <=> p = q /\ s = t
    OBVIOUS
  <2>2. secret[u] = secret[v] <=> [plain |-> p, salt |-> s] = [plain |-> q, salt |-> t]
    BY <1>2, <1>3, Zenon
  <2> QED
    BY <2>1, <2>2
<1>6. ~\E cell \in kept[u] \cup kept[v] : Decode(cell) = {}
  BY <1>2, <1>3
<1>7. verdict' = Outcome(\E c \in kept[u], d \in kept[v] :
                           \E x \in Decode(c), y \in Decode(d) : Same(x, y))
  BY <1>6 DEF Compare
<1> QED
  BY <1>4, <1>5, <1>7 DEF Outcome

\* A stored password accepts the plaintext it was made from and no other, and
\* one that was cut short is an error, for any bytes and any plaintexts.
THEOREM AcceptsCorrectly == Spec => AcceptsItsPlaintext
<1>1. Kept /\ [Next]_vars =>
        [\A u \in Users, plain \in Plaintexts :
           Attempt(u, plain) =>
             verdict' = IF damaged[u] THEN "error"
                        ELSE Outcome(\E s \in secret[u] : s.plain = plain)]_vars
  BY AttemptAnswered
<1> QED
  BY <1>1, AlwaysKept, PTL DEF Spec, AcceptsItsPlaintext

\* Two users share a password value only if they share plaintext and salt.
THEOREM EqualCorrectly == Spec => EqualWhenAlikeInBoth
<1>1. Kept /\ [Next]_vars =>
        [\A u, v \in Users :
           Compare(u, v) /\ ~damaged[u] /\ ~damaged[v] =>
             verdict' = Outcome(secret[u] = secret[v])]_vars
  BY CompareAnswered
<1> QED
  BY <1>1, AlwaysKept, PTL DEF Spec, EqualWhenAlikeInBoth

===============================================================================
