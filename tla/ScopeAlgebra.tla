------------------------------ MODULE ScopeAlgebra ------------------------------
(*****************************************************************************)
(* A type declared by scope! (scope.rs): a bitmap of at most Width           *)
(* permissions, built by parsing, by set operations and from a database      *)
(* column, and iterated flag by flag.  A bitmap is the set of its positions. *)
(*                                                                           *)
(* Every declaration over Width positions is considered, compound scopes     *)
(* whose members are bare positions included: such positions belong to no    *)
(* flag of their own.                                                        *)
(*****************************************************************************)
EXTENDS Integers, Sequences, SequencesExt

CONSTANTS
    Width,          \* positions of the representation (64 in the code)
    ByteWidth,      \* positions in a byte of its text
    MaxFlags        \* bound on the flags of a declaration

ASSUME WidthIsPositive == Width \in Nat \ {0}
ASSUME WholeBytes == ByteWidth \in Nat \ {0} /\ Width % ByteWidth = 0
ASSUME FlagsBound == MaxFlags \in Nat

VARIABLES
    flags,          \* FLAGS: the values of the declared flags, in order
    value,          \* a scope value in the hands of the program
    iterator,       \* a Values iterator: the value it copied and its index
    yielded         \* the flags it has returned, by their places in FLAGS

vars == <<flags, value, iterator, yielded>>

Positions == 0 .. Width - 1

Bitmaps == SUBSET Positions

\* ALL: every bit used by a declared scope.
All == UNION ToSet(flags)

TypeOK ==
    /\ flags \in Seq(Bitmaps)
    /\ value \in Bitmaps
    /\ iterator \in [value: Bitmaps, index: Nat]
    /\ yielded \in Seq(Nat)

\* A declared flag has at least one member.
Declarations ==
    UNION {[1 .. n -> Bitmaps \ {{}}] : n \in 0 .. MaxFlags}

New(v) == [value |-> v, index |-> 0]

Init ==
    /\ flags \in Declarations
    /\ value = {}
    /\ iterator = New({})
    /\ yielded = <<>>

-------------------------------------------------------------------------------
(* The operations of a scope.                                                *)

\* contains
Includes(a, b) == a \cap b = b

\* Mutant of IsAll: what the comment of the trait says.
IsAllPrimitives(a) ==
    \A f \in ToSet(flags) : (\E p \in Positions : f = {p}) => Includes(a, f)

\* is_all, which compares with ALL.
IsAll(a) == a = All

\* Mutant of FromRaw: undeclared bits are let through.
FromRawUnmasked(raw) == raw

\* from_raw: bits which do not belong to a declared scope are ignored.
FromRaw(raw) == raw \cap All

\* Not: relative to ALL.
Complement(a) == All \ a

\* Powers of two: what a position counts for in a number.
Weight[p \in 0 .. Width] == IF p = 0 THEN 1 ELSE 2 * Weight[p - 1]

\* The number that the positions of a bitmap below n denote.
Below(a) ==
    LET below[n \in 0 .. Width] ==
            IF n = 0 THEN 0
            ELSE below[n - 1] + (IF n - 1 \in a THEN Weight[n - 1] ELSE 0)
    IN  below

\* The number that a bitmap denotes, as u64.
Unsigned(a) == Below(a)[Width]

\* Mutant of ToColumn: numbers beyond the column's range are clamped to it.
ToColumnClamped(a) ==
    IF Unsigned(a) >= Weight[Width - 1] THEN Weight[Width - 1] - 1 ELSE Unsigned(a)

\* `as i64`: the column of the database holds the same bits, read as a
\* two's-complement number.
ToColumn(a) ==
    IF Unsigned(a) >= Weight[Width - 1] THEN Unsigned(a) - Weight[Width] ELSE Unsigned(a)

\* `as u64`, then from_raw.
FromColumn(n) ==
    FromRaw({p \in Positions : ((n % Weight[Width]) \div Weight[p]) % 2 = 1})

Bytes == Width \div ByteWidth

\* Mutant of ToText: to_be_bytes.
ToTextBig(a) ==
    [k \in 1 .. Bytes |->
        {j \in 0 .. ByteWidth - 1 : (Bytes - k) * ByteWidth + j \in a}]

\* to_le_bytes, in hex: the text spells the bytes, the lowest one first.
ToText(a) ==
    [k \in 1 .. Bytes |-> {j \in 0 .. ByteWidth - 1 : (k - 1) * ByteWidth + j \in a}]

\* FromStr: text of another length is an error; from_le_bytes, then from_raw.
FromText(text) ==
    IF Len(text) # Bytes THEN {}
    ELSE {FromRaw({p \in Positions : p % ByteWidth \in text[p \div ByteWidth + 1]})}

-------------------------------------------------------------------------------
(* A program computing with scopes.                                          *)

Becomes(v) == value' = v /\ UNCHANGED <<flags, iterator, yielded>>

\* FromStr and Deserialize, of text of any origin.
Read(text) == \E v \in FromText(text) : Becomes(v)

\* from_raw and the database decoder, of bits of any origin.
Parse(raw) == Becomes(FromRaw(raw))

\* A declared constant, or from_name.
Named(i) == Becomes(flags[i])

Union(i) == Becomes(value \cup flags[i])

Intersection(i) == Becomes(value \cap flags[i])

Difference(i) == Becomes(value \ flags[i])

SymmetricDifference(i) == Becomes((value \ flags[i]) \cup (flags[i] \ value))

Not == Becomes(Complement(value))

\* values(): the iterator copies the value.
Values ==
    /\ iterator' = New(value)
    /\ yielded' = <<>>
    /\ UNCHANGED <<flags, value>>

\* Mutant of NextValue: the index stays on the flag that was found.
NextValueAgain ==
    \E i \in (iterator.index + 1) .. Len(flags) :
        /\ Includes(iterator.value, flags[i])
        /\ \A j \in (iterator.index + 1) .. (i - 1) : ~Includes(iterator.value, flags[j])
        /\ iterator' = [iterator EXCEPT !.index = i - 1]
        /\ Len(yielded) < MaxFlags + 1
        /\ yielded' = Append(yielded, i)
        /\ UNCHANGED <<flags, value>>

\* next() -> Some: the first flag from the index on that the value contains.
\* Names is the same walk and returns the flag's name.
NextValue ==
    \E i \in (iterator.index + 1) .. Len(flags) :
        /\ Includes(iterator.value, flags[i])
        /\ \A j \in (iterator.index + 1) .. (i - 1) : ~Includes(iterator.value, flags[j])
        /\ iterator' = [iterator EXCEPT !.index = i]
        /\ yielded' = Append(yielded, i)
        /\ UNCHANGED <<flags, value>>

\* next() -> None: nothing is left, now and at every later call.
NextNone ==
    /\ \A i \in (iterator.index + 1) .. Len(flags) : ~Includes(iterator.value, flags[i])
    /\ iterator' = [iterator EXCEPT !.index = Len(flags)]
    /\ UNCHANGED <<flags, value, yielded>>

Texts == UNION {[1 .. n -> SUBSET (0 .. ByteWidth - 1)] : n \in 0 .. Bytes + 1}

Next ==
    \/ \E text \in Texts : Read(text)
    \/ \E raw \in Bitmaps : Parse(raw)
    \/ \E i \in DOMAIN flags :
         \/ Named(i) \/ Union(i) \/ Intersection(i)
         \/ Difference(i) \/ SymmetricDifference(i)
    \/ Not
    \/ Values \/ NextValue \/ NextNone

Spec == Init /\ [][Next]_vars

-------------------------------------------------------------------------------

\* However it was computed, a value holds declared bits only, so that is_all,
\* contains and equality never depend on bits nobody declared.
DeclaredBitsOnly == value \subseteq All

\* An iterator returns, in the order of declaration and once each, the flags
\* contained in the value it was made from, whatever becomes of that value.
YieldsContainedFlags ==
    /\ ToSet(yielded) = {i \in 1 .. iterator.index : Includes(iterator.value, flags[i])}
    /\ \A j, k \in DOMAIN yielded : j < k => yielded[j] < yielded[k]

\* A value survives the database, its highest bit included.
ColumnRoundTrip == FromColumn(ToColumn(value)) = value

\* A value is read back from its text, every byte in its place.
TextRoundTrip == FromText(ToText(value)) = {value}

\* The doc comment of Scope::is_all (scope.rs:47) says: "Returns true when all
\* primitive flags are set."  A primitive flag has one position.  Of any value,
\* however computed, is_all says that and one thing more: that the positions
\* are set which only compound scopes use (scope.rs:432).  It is what its comment
\* says exactly if there are none such.
IsAllMeansPrimitivesAndBare ==
    LET primitives == {f \in ToSet(flags) : \E p \in Positions : f = {p}}
        bare == All \ UNION primitives
    IN  IsAll(value) <=>
            (\A f \in primitives : Includes(value, f)) /\ bare \subseteq value

=============================================================================
