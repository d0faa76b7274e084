-------------------------------- MODULE Utf8 --------------------------------
(***************************************************************************)
(* ToValidUtf8: a text of bytes becomes UTF-8, and every byte which is not *)
(* part of a character becomes U+FFFD.  Behind it is UTF-8 by its          *)
(* definition, which is the reference.                                     *)
(***************************************************************************)
EXTENDS Integers, Sequences, FiniteSetsExt

Replacement == <<239, 191, 189>>        \* U+FFFD

\* The length of a character, from its first byte: 0 if it is not a first byte
CharacterLength(c) ==
    CASE c < 128 -> 1
      [] c \in 194..223 -> 2
      [] c \in 224..239 -> 3
      [] c \in 240..244 -> 4
      [] OTHER -> 0

\* The second bytes which would make an overlong form, a surrogate or more than U+10FFFF
BadSecond(c) ==
    CASE c = 224 -> 0..159 [] c = 237 -> 160..255 [] c = 240 -> 0..143 [] c = 244 -> 144..255 [] OTHER -> {}

\* MUTANT of IsCharacter: does not look for overlong forms and surrogates
IsCharacterBits(text, i, len) ==
    /\ len > 0 /\ i + len - 1 <= Len(text)
    /\ \A k \in (i + 1)..(i + len - 1) : text[k] \in 128..191

IsCharacter(text, i, len) ==
    /\ len > 0 /\ i + len - 1 <= Len(text)
    /\ \A k \in (i + 1)..(i + len - 1) : text[k] \in 128..191
    /\ len \in {3, 4} => text[i + 1] \notin BadSecond(text[i])

ToValidUtf8(text) ==
    LET out[i \in 1..(Len(text) + 1)] ==
            IF i > Len(text) THEN << >>
            ELSE LET len == CharacterLength(text[i])
                 IN IF IsCharacter(text, i, len) THEN SubSeq(text, i, i + len - 1) \o out[i + len]
                    ELSE Replacement \o out[i + 1]
    IN out[1]

(***************************************************************************)
(* UTF-8 by its definition: the shortest form of a code point which is not *)
(* a surrogate.                                                            *)
(***************************************************************************)
\* The bits of a code point in the bytes behind the first
CodePoint(bytes) ==
    LET First(bits) == bytes[1] % bits
        Low(k) == bytes[k] % 64
    IN CASE Len(bytes) = 1 -> bytes[1]
         [] Len(bytes) = 2 -> First(32) * 64 + Low(2)
         [] Len(bytes) = 3 -> First(16) * 4096 + Low(2) * 64 + Low(3)
         [] OTHER -> First(8) * 262144 + Low(2) * 4096 + Low(3) * 64 + Low(4)

Encoded(c) ==
    IF c < 128 THEN <<c>>
    ELSE IF c < 2048 THEN <<192 + c \div 64, 128 + (c % 64)>>
    ELSE IF c < 65536 THEN <<224 + c \div 4096, 128 + ((c \div 64) % 64), 128 + (c % 64)>>
    ELSE <<240 + c \div 262144, 128 + ((c \div 4096) % 64), 128 + ((c \div 64) % 64), 128 + (c % 64)>>

IsEncoded(bytes) ==
    LET c == CodePoint(bytes)
    IN c <= 1114111 /\ ~(55296 <= c /\ c <= 57343) /\ Encoded(c) = bytes

\* The lengths of the characters at a place of a text
CharactersAt(text, i) == {n \in 1..4 : i + n - 1 <= Len(text) /\ IsEncoded(SubSeq(text, i, i + n - 1))}

\* Every character stays, every other byte is replaced
Replaced(text) ==
    LET out[i \in 1..(Len(text) + 1)] ==
            IF i > Len(text) THEN << >>
            ELSE IF CharactersAt(text, i) = {} THEN Replacement \o out[i + 1]
            ELSE LET n == Min(CharactersAt(text, i)) IN SubSeq(text, i, i + n - 1) \o out[i + n]
    IN out[1]
=============================================================================
