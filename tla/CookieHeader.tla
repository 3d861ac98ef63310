------------------------------ MODULE CookieHeader ------------------------------
(*****************************************************************************)
(* The text of the session cookie: what Session::into_response_parts         *)
(* (session.rs) spells and what session_id (authentication.rs) reads.        *)
(*                                                                           *)
(* Text is a sequence of tokens: "semicolon", "blank", "session=", "other=", *)
(* "0x", and digits.  A digit stands for one byte of an identifier in hex; a *)
(* base and a number of digits that TLC can go through stand for the 256     *)
(* values and the 16 bytes of the code.                                      *)
(*****************************************************************************)
EXTENDS Naturals, SequencesExt

CONSTANTS
    Base,           \* how many values a byte has
    Width           \* bytes of an identifier (16 in the code)

ASSUME BaseIsPositive == Base \in Nat \ {0}
ASSUME WidthIsPositive == Width \in Nat \ {0}

\* The digits, in the order of their values.
Digits == [n \in 1 .. Base |-> ToString(n - 1)]

\* Digits are told from one another and from the tokens that reading looks for.
ASSUME DigitsApart ==
    \A m \in 1 .. Base :
        /\ Digits[m] \notin {"semicolon", "blank", "0x"}
        /\ \A n \in 1 .. Base : Digits[m] = Digits[n] => m = n

\* What a digit counts that n others follow.
Weight[n \in 0 .. Width] == IF n = 0 THEN 1 ELSE Base * Weight[n - 1]

-------------------------------------------------------------------------------
(* Writing.                                                                  *)

\* to_be_bytes, in hex
Text(id) == [k \in 1 .. Width |-> Digits[((id \div Weight[Width - k]) % Base) + 1]]

-------------------------------------------------------------------------------
(* Reading.                                                                  *)

\* split(';'): where the pieces begin, and the piece that begins there.
Starts(header) == {1} \cup {k + 1 : k \in {j \in DOMAIN header : header[j] = "semicolon"}}

Piece(header, start) ==
    LET ends == {k \in start .. Len(header) : header[k] = "semicolon"}
    IN  SubSeq(header, start, IF ends = {} THEN Len(header) ELSE Min(ends) - 1)

\* Mutant of Trimmed: only what precedes the name is trimmed.
TrimmedStart(piece) ==
    LET inked == {k \in DOMAIN piece : piece[k] # "blank"}
    IN  IF inked = {} THEN <<>> ELSE SubSeq(piece, Min(inked), Len(piece))

\* trim_ascii
Trimmed(piece) ==
    LET inked == {k \in DOMAIN piece : piece[k] # "blank"}
    IN  IF inked = {} THEN <<>> ELSE SubSeq(piece, Min(inked), Max(inked))

\* The pieces that strip_prefix(b"session=") accepts, and what it leaves of one.
Named(header) ==
    {start \in Starts(header) : IsPrefix(<<"session=">>, Trimmed(Piece(header, start)))}

ValueAt(header, start) == Tail(Trimmed(Piece(header, start)))

ValueOf(digit) == CHOOSE n \in 0 .. Base - 1 : Digits[n + 1] = digit

\* from_be_bytes
Number(digits) ==
    LET number[k \in 0 .. Width] ==
            IF k = 0 THEN 0 ELSE number[k - 1] * Base + ValueOf(digits[k])
    IN  number[Width]

Spelt(text) == IF IsPrefix(<<"0x">>, text) THEN Tail(text) ELSE text

AllDigits(text) == Len(text) = Width /\ ToSet(text) \subseteq ToSet(Digits)

\* Mutant of Decode: from_le_bytes.
DecodeLittle(text) ==
    IF AllDigits(Spelt(text)) THEN {Number(Reverse(Spelt(text)))} ELSE {}

\* decode_to_array(..).ok(), which allows for a prefix
Decode(text) ==
    IF AllDigits(Spelt(text)) THEN {Number(Spelt(text))} ELSE {}

\* Mutant of SessionId: a value that does not decode gives way to the next.
SessionIdOfValid(headers) ==
    LET valid(h) == {start \in Named(h) : Decode(ValueAt(h, start)) # {}}
        naming == {k \in DOMAIN headers : valid(headers[k]) # {}}
        first == headers[Min(naming)]
    IN  IF naming = {} THEN {} ELSE Decode(ValueAt(first, Min(valid(first))))

\* find_map over the headers, each by find_map over its pieces: the first
\* value of the first header that has one, and nothing else, is decoded.
SessionId(headers) ==
    LET naming == {k \in DOMAIN headers : Named(headers[k]) # {}}
        first == headers[Min(naming)]
    IN  IF naming = {} THEN {} ELSE Decode(ValueAt(first, Min(Named(first))))

=============================================================================
