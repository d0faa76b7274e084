----------------------------- MODULE JsonValue -----------------------------
(***************************************************************************)
(* JSON as otelfwd and its producers use it.  A value is a record with one *)
(* field, named for its type.  A text which is sent has its strings        *)
(* escaped and its numbers as text; Parse is what a JSON reader makes of   *)
(* it, JsonText what a JSON writer makes of a value.  The reader and the   *)
(* writer are rapidjson, which is not part of the repository: they are     *)
(* parameters, and the instance gives them ReadJson and WriteJson.         *)
(***************************************************************************)
EXTENDS Integers, SequencesExt

CONSTANTS
    Bits,               \* the width of the 64 bit integers
    Parse(_),           \* the reader
    JsonText(_)         \* the writer

ASSUME BitsAssumption == Bits \in Nat \ {0} /\ Bits % 8 = 0

MaxInt == 2 ^ (Bits - 1) - 1
MaxUint == 2 ^ Bits - 1

Null == [null |-> TRUE]
Str(s) == [string |-> s]
Num(text) == [number |-> text]
Int64(n) == [int |-> n]
Double(text) == [double |-> text]
Bool(b) == [bool |-> b]
Arr(seq) == [array |-> seq]
Obj(members) == [object |-> members]     \* a sequence of pairs of a name and a value

Is(v, type) == type \in DOMAIN v

Names(v) == {m[1] : m \in Range(v.object)}
Find(v, name) == SelectSeq(v.object, LAMBDA m : m[1] = name)[1][2]
Has(v, name, type) == name \in Names(v) /\ Is(Find(v, name), type)

\* Op over a sequence, from its first element on
Fold(Op(_, _), base, seq) ==
    LET upTo[i \in 0..Len(seq)] == IF i = 0 THEN base ELSE Op(upTo[i - 1], seq[i])
    IN upTo[Len(seq)]

\* The same for an operator which is associative, by halves
Combined(Op(_, _), none, seq) ==
    LET part[i \in 1..Len(seq), n \in 0..Len(seq)] ==
            IF n = 1 THEN seq[i] ELSE Op(part[i, n \div 2], part[i + (n \div 2), n - (n \div 2)])
    IN IF seq = << >> THEN none ELSE part[1, Len(seq)]

Chars(s) == [i \in 1..Len(s) |-> SubSeq(s, i, i)]
Text(chars) == Combined(LAMBDA a, b : a \o b, "", chars)
Joined(texts) == Combined(LAMBDA a, b : a \o "," \o b, "", texts)

Digits == "0123456789"
IsDigit(c) == c \in Range(Chars(Digits))
DigitOf(c) == CHOOSE d \in 0..9 : SubSeq(Digits, d + 1, d + 1) = c
IsDecimal(s) == s # "" /\ \A i \in 1..Len(s) : IsDigit(SubSeq(s, i, i))
ValueOf(s) == Fold(LAMBDA n, c : 10 * n + DigitOf(c), 0, Chars(s))

\* The characters which a JSON string must not have, and their escapes.  \b and the other control
\* characters, which become \u00xx, are written by the same rule; TLA+ has no text for them.
Escapes == [c \in {"\"", "\\", "\n", "\r", "\t", "\f"} |->
    CASE c = "\"" -> "\\\"" [] c = "\\" -> "\\\\" [] c = "\n" -> "\\n"
      [] c = "\r" -> "\\r" [] c = "\t" -> "\\t" [] c = "\f" -> "\\f"]

Escape(s) == Text([i \in 1..Len(s) |->
    LET c == SubSeq(s, i, i) IN IF c \in DOMAIN Escapes THEN Escapes[c] ELSE c])

\* A number is an integer if its text says so and it has not more than 64 bits
Number(text) ==
    LET negative == text # "" /\ SubSeq(text, 1, 1) = "-"
        digits == IF negative THEN SubSeq(text, 2, Len(text)) ELSE text
        n == IF negative THEN -ValueOf(digits) ELSE ValueOf(digits)
    IN IF IsDecimal(digits) /\ n \in -(MaxInt + 1)..MaxUint THEN Int64(n) ELSE Double(text)
=============================================================================
