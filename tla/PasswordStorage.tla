---------------------------- MODULE PasswordStorage ----------------------------
(*****************************************************************************)
(* Password (password.rs) from registration to verification: a salted hash   *)
(* packed with its salt, kept as a column (sqlx) or as text (serde), copied  *)
(* from one form to the other, cut short by a column that is too narrow, and *)
(* compared with the plaintext of a login and with other passwords.          *)
(*                                                                           *)
(* Bytes are model values.  SHA-256 and random salts are external: a digest  *)
(* is Half bytes that stand for the whole input, so that different inputs    *)
(* have different digests, and a salt is any Half bytes.                     *)
(*****************************************************************************)
EXTENDS Naturals, SequencesExt

CONSTANTS
    Bytes,
    Half,           \* length of a hash and of a salt (32 in the code)
    MaxPlain,       \* bound on the length of a plaintext
    Users

ASSUME HalfIsPositive == Half \in Nat \ {0}
ASSUME PlainBound == MaxPlain \in Nat

VARIABLES
    kept,           \* what the application has stored for each user
    secret,         \* history: the plaintext and salt it was made from
    damaged,        \* history: was it cut short?
    verdict         \* the outcome of the last comparison

vars == <<kept, secret, damaged, verdict>>

Plaintexts == UNION {[1 .. n -> Bytes] : n \in 0 .. MaxPlain}

Salts == [1 .. Half -> Bytes]

\* The bytes of a digest, in an array of Half.
Digest(input) == [k \in 1 .. Half |-> [input |-> input, byte |-> k]]

-------------------------------------------------------------------------------
(* The value.                                                                *)

\* Mutant of FromRawParts: the halves are swapped.
FromRawPartsSwapped(hash, salt) == salt \o hash

FromRawParts(hash, salt) == hash \o salt

\* salt(): the last chunk
SaltOf(password) == SubSeq(password, Half + 1, 2 * Half)

\* Mutant of WithSalt: the array for the salt was never filled.
WithSaltUnfilled(plain, salt) ==
    LET blank == [k \in 1 .. Half |-> CHOOSE b \in Bytes : TRUE]
    IN  FromRawParts(Digest(blank \o plain), blank)

\* The salt is hashed before the plaintext.
WithSalt(plain, salt) == FromRawParts(Digest(salt \o plain), salt)

\* ==, between passwords: all bytes are compared.
Same(p, q) == p = q

\* Mutant of Verify: a new salt is drawn, as for a new password.
VerifyResalted(password, plain) ==
    Same(password, WithSalt(plain, CHOOSE salt \in Salts : TRUE))

\* ==, with a plaintext: it is hashed with the salt of the password.
Verify(password, plain) == Same(password, WithSalt(plain, SaltOf(password)))

-------------------------------------------------------------------------------
(* Its stored forms.                                                         *)

\* Serialize: hex text with a prefix, which spells every byte.
Serialize(password) == [form |-> "text", bytes |-> password]

\* sqlx::Encode: the bytes, as a blob.
EncodeColumn(password) == [form |-> "column", bytes |-> password]

Encode(form, password) ==
    IF form = "text" THEN Serialize(password) ELSE EncodeColumn(password)

\* Mutant of Exactly: what is missing is padded.
ExactlyPadded(bytes) ==
    {[k \in 1 .. 2 * Half |-> IF k <= Len(bytes) THEN bytes[k] ELSE CHOOSE b \in Bytes : TRUE]}

\* from_bytes, for as many bytes as a password has.
Exactly(bytes) == IF Len(bytes) = 2 * Half THEN {bytes} ELSE {}

\* Deserialize: decode_to_array is an error for text of any other length.
Deserialize(cell) == Exactly(cell.bytes)

\* sqlx::Decode: so is try_into, for a blob.
DecodeColumn(cell) == Exactly(cell.bytes)

Decode(cell) == IF cell.form = "text" THEN Deserialize(cell) ELSE DecodeColumn(cell)

-------------------------------------------------------------------------------
(* The application.                                                          *)

Init ==
    /\ kept = [u \in Users |-> {}]
    /\ secret = [u \in Users |-> {}]
    /\ damaged = [u \in Users |-> FALSE]
    /\ verdict = "none"

\* new, and with_salt: a password is hashed and stored.
Register(u, plain, salt, form) ==
    /\ kept' = [kept EXCEPT ![u] = {Encode(form, WithSalt(plain, salt))}]
    /\ secret' = [secret EXCEPT ![u] = {[plain |-> plain, salt |-> salt]}]
    /\ damaged' = [damaged EXCEPT ![u] = FALSE]
    /\ UNCHANGED verdict

\* A password is decoded and stored in the other form.
Convert(u, form) ==
    /\ \E cell \in kept[u] : \E password \in Decode(cell) :
         kept' = [kept EXCEPT ![u] = {Encode(form, password)}]
    /\ UNCHANGED <<secret, damaged, verdict>>

\* The medium cuts it short.
Truncate(u) ==
    /\ \E cell \in kept[u] :
         /\ cell.bytes # <<>>
         /\ kept' = [kept EXCEPT ![u] = {[cell EXCEPT !.bytes = Front(@)]}]
    /\ damaged' = [damaged EXCEPT ![u] = TRUE]
    /\ UNCHANGED <<secret, verdict>>

\* What the application makes of a comparison of decoded passwords.
Outcome(accepted) == IF accepted THEN "accepted" ELSE "rejected"

\* A login attempt.
Attempt(u, plain) ==
    /\ kept[u] # {}
    /\ verdict' = IF \E cell \in kept[u] : Decode(cell) = {} THEN "error"
                  ELSE Outcome(\E cell \in kept[u] : \E password \in Decode(cell) :
                                   Verify(password, plain))
    /\ UNCHANGED <<kept, secret, damaged>>

\* Two users' passwords are compared with each other.
Compare(u, v) ==
    /\ kept[u] # {} /\ kept[v] # {}
    /\ verdict' = IF \E cell \in kept[u] \cup kept[v] : Decode(cell) = {} THEN "error"
                  ELSE Outcome(\E a \in kept[u], b \in kept[v] :
                                   \E p \in Decode(a), q \in Decode(b) : Same(p, q))
    /\ UNCHANGED <<kept, secret, damaged>>

Next ==
    \E u \in Users :
        \/ \E plain \in Plaintexts, salt \in Salts, form \in {"text", "column"} :
             Register(u, plain, salt, form)
        \/ \E form \in {"text", "column"} : Convert(u, form)
        \/ Truncate(u)
        \/ \E plain \in Plaintexts : Attempt(u, plain)
        \/ \E v \in Users : Compare(u, v)

Spec == Init /\ [][Next]_vars

-------------------------------------------------------------------------------

\* What is kept for a user is the password that was made for it, in either
\* form and whole, or else cut short; nothing else is ever put together from
\* it, by converting what was cut or cutting what was converted.
KeptExplained ==
    \A u \in Users :
        \/ kept[u] = {} /\ secret[u] = {} /\ ~damaged[u]
        \/ \E plain \in Plaintexts, salt \in Salts, form \in {"text", "column"} :
             LET password == WithSalt(plain, salt)
             IN  /\ secret[u] = {[plain |-> plain, salt |-> salt]}
                 /\ \/ ~damaged[u] /\ kept[u] = {Encode(form, password)}
                    \/ /\ damaged[u]
                       /\ \E n \in 0 .. 2 * Half - 1 :
                            kept[u] = {Encode(form, SubSeq(password, 1, n))}

\* A stored password accepts the plaintext it was made from and no other,
\* however often it was converted; one that was cut short is an error and
\* neither accepts nor rejects anybody.
AcceptsItsPlaintext ==
    [][\A u \in Users, plain \in Plaintexts :
         Attempt(u, plain) =>
             verdict' = IF damaged[u] THEN "error"
                        ELSE Outcome(\E s \in secret[u] : s.plain = plain)]_vars

\* Two users share a password value only if they share plaintext and salt: a
\* common plaintext does not show.
EqualWhenAlikeInBoth ==
    [][\A u, v \in Users :
         Compare(u, v) /\ ~damaged[u] /\ ~damaged[v] =>
             verdict' = Outcome(secret[u] = secret[v])]_vars

=============================================================================
