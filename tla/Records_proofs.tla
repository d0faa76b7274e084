--------------------------- MODULE Records_proofs ---------------------------
(***************************************************************************)
(* What is proved of Records, for every reader and writer of JSON: a text  *)
(* becomes UTF-8, and a line of a console has the name of its process.     *)
(***************************************************************************)
EXTENDS Records, SequenceTheorems, TLAPS

(***************************************************************************)
(* UTF-8: what the first bytes of a character say, and the definition.     *)
(***************************************************************************)
Octet == 0..255

\* The bytes of a sequence of a length
LEMMA TupleIs ==
    ASSUME NEW s \in Seq(Octet), NEW a, NEW b, NEW c, NEW d
    PROVE  /\ Len(s) = 1 => (<<a>> = s <=> a = s[1])
           /\ Len(s) = 2 => (<<a, b>> = s <=> a = s[1] /\ b = s[2])
           /\ Len(s) = 3 => (<<a, b, c>> = s <=> a = s[1] /\ b = s[2] /\ c = s[3])
           /\ Len(s) = 4 => (<<a, b, c, d>> = s <=> a = s[1] /\ b = s[2] /\ c = s[3] /\ d = s[4])
           /\ Len(s) # 1 => <<a>> # s
           /\ Len(s) # 2 => <<a, b>> # s
           /\ Len(s) # 3 => <<a, b, c>> # s
           /\ Len(s) # 4 => <<a, b, c, d>> # s
<1>1. Len(s) \in Nat /\ s = [i \in 1..Len(s) |-> s[i]]
    OBVIOUS
<1>2. Len(s) = 1 => (<<a>> = s <=> a = s[1])
    BY <1>1
<1>3. Len(s) = 2 => (<<a, b>> = s <=> a = s[1] /\ b = s[2])
    BY <1>1
<1>4. Len(s) = 3 => (<<a, b, c>> = s <=> a = s[1] /\ b = s[2] /\ c = s[3])
    BY <1>1
<1>5. Len(s) = 4 => (<<a, b, c, d>> = s <=> a = s[1] /\ b = s[2] /\ c = s[3] /\ d = s[4])
    BY <1>1
<1>6. /\ Len(s) # 1 => <<a>> # s
      /\ Len(s) # 2 => <<a, b>> # s
      /\ Len(s) # 3 => <<a, b, c>> # s
      /\ Len(s) # 4 => <<a, b, c, d>> # s
    OBVIOUS
<1> QED
    BY <1>2, <1>3, <1>4, <1>5, <1>6

\* The bits of a code point, in two, three and four bytes
IsTwo(a, b, c) ==
    /\ c \in Nat /\ c <= 2047
    /\ 128 <= c /\ 192 + c \div 64 = a /\ 128 + (c % 64) = b <=> a \in 194..223 /\ b \in 128..191

LEMMA TwoBytes ==
    ASSUME NEW a \in Octet, NEW b \in Octet
    PROVE  IsTwo(a, b, (a % 32) * 64 + (b % 64))
<1> DEFINE c == (a % 32) * 64 + (b % 64)
           x == a % 32
           y == b % 64
<1>1. x \in 0..31 /\ y \in 0..63
    BY DEF Octet
<1>2. /\ 192 + x = a <=> a \in 192..223
      /\ 128 + y = b <=> b \in 128..191
      /\ a \in 192..223 => (x > 1 <=> a \in 194..223)
    BY SMT DEF Octet
<1>3. c = x * 64 + y
    OBVIOUS
<1> HIDE DEF c, x, y
<1>4. c \div 64 = x /\ c % 64 = y /\ c \in Nat /\ c <= 2047
    BY <1>1, <1>3, SMT
<1>5. 128 <= c <=> x > 1
    BY <1>1, <1>3, SMT
<1>6. IsTwo(a, b, c)
    BY <1>2, <1>4, <1>5, SMT DEF IsTwo
<1> QED
    BY <1>6 DEF c

IsThree(a, b, d, c) ==
    /\ c \in Nat /\ c <= 65535
    /\ (/\ 2048 <= c /\ ~(55296 <= c /\ c <= 57343)
        /\ 224 + c \div 4096 = a /\ 128 + ((c \div 64) % 64) = b /\ 128 + (c % 64) = d)
         <=> a \in 224..239 /\ b \in 128..191 /\ d \in 128..191 /\ (a = 224 => b > 159) /\ (a = 237 => b < 160)

LEMMA ThreeBytes ==
    ASSUME NEW a \in Octet, NEW b \in Octet, NEW d \in Octet
    PROVE  IsThree(a, b, d, (a % 16) * 4096 + (b % 64) * 64 + (d % 64))
<1> DEFINE c == (a % 16) * 4096 + (b % 64) * 64 + (d % 64)
           x == a % 16
           y == b % 64
           z == d % 64
<1>1. x \in 0..15 /\ y \in 0..63 /\ z \in 0..63
    BY DEF Octet
<1>2. /\ 224 + x = a <=> a \in 224..239
      /\ 128 + y = b <=> b \in 128..191
      /\ 128 + z = d <=> d \in 128..191
    BY DEF Octet
<1>3. c = x * 4096 + y * 64 + z
    OBVIOUS
<1> HIDE DEF c, x, y, z
<1>4. c \div 4096 = x /\ (c \div 64) % 64 = y /\ c % 64 = z /\ c \in Nat /\ c <= 65535
    BY <1>1, <1>3, SMT
<1>5. 2048 <= c <=> x > 0 \/ y > 31
    BY <1>1, <1>3, SMT
<1>6. 55296 <= c /\ c <= 57343 <=> x = 13 /\ y > 31
    BY <1>1, <1>3, SMT
<1>7. ASSUME a \in 224..239, b \in 128..191
      PROVE  /\ 2048 <= c <=> (a = 224 => b > 159)
             /\ ~(55296 <= c /\ c <= 57343) <=> (a = 237 => b < 160)
    <2>1. a = 224 + x /\ b = 128 + y
        BY <1>2, <1>7, SMT
    <2> QED
        BY <1>1, <1>5, <1>6, <2>1, SMT
<1> DEFINE Long == 2048 <= c
           Surrogate == 55296 <= c /\ c <= 57343
<1>8. Long /\ ~Surrogate /\ 224 + x = a /\ 128 + y = b /\ 128 + z = d
        <=> a \in 224..239 /\ b \in 128..191 /\ d \in 128..191 /\ (a = 224 => b > 159) /\ (a = 237 => b < 160)
    <2>1. b \in 128..191 /\ a \in 224..239 =>
             (Long <=> (a = 224 => b > 159)) /\ (~Surrogate <=> (a = 237 => b < 160))
        BY <1>7, SMT
    <2> HIDE DEF Long, Surrogate
    <2> QED
        BY <1>2, <2>1, SMT
<1>9. IsThree(a, b, d, c)
    <2>1. /\ 224 + c \div 4096 = a <=> 224 + x = a
          /\ 128 + ((c \div 64) % 64) = b <=> 128 + y = b
          /\ 128 + (c % 64) = d <=> 128 + z = d
        BY <1>4, SMT
    <2> QED
        BY <1>4, <1>8, <2>1, SMT DEF IsThree
<1> QED
    BY <1>9 DEF c

IsFour(a, b, d, e, c) ==
    /\ c \in Nat
    /\ (/\ 65536 <= c /\ c <= 1114111
        /\ 240 + c \div 262144 = a /\ 128 + ((c \div 4096) % 64) = b
        /\ 128 + ((c \div 64) % 64) = d /\ 128 + (c % 64) = e)
         <=> /\ a \in 240..244 /\ b \in 128..191 /\ d \in 128..191 /\ e \in 128..191
             /\ (a = 240 => b > 143) /\ (a = 244 => b < 144)

LEMMA FourBytes ==
    ASSUME NEW a \in Octet, NEW b \in Octet, NEW d \in Octet, NEW e \in Octet
    PROVE  IsFour(a, b, d, e, (a % 8) * 262144 + (b % 64) * 4096 + (d % 64) * 64 + (e % 64))
<1> DEFINE c == (a % 8) * 262144 + (b % 64) * 4096 + (d % 64) * 64 + (e % 64)
           x == a % 8
           y == b % 64
           z == d % 64
           w == e % 64
<1>1. x \in 0..7 /\ y \in 0..63 /\ z \in 0..63 /\ w \in 0..63
    BY DEF Octet
<1>2. /\ 240 + x = a <=> a \in 240..247
      /\ 128 + y = b <=> b \in 128..191
      /\ 128 + z = d <=> d \in 128..191
      /\ 128 + w = e <=> e \in 128..191
    BY DEF Octet
<1>3. c = x * 262144 + y * 4096 + z * 64 + w
    OBVIOUS
<1> HIDE DEF c, x, y, z, w
<1>4. c \div 262144 = x /\ (c \div 4096) % 64 = y /\ (c \div 64) % 64 = z /\ c % 64 = w /\ c \in Nat
    BY <1>1, <1>3, SMT
<1>5. 65536 <= c <=> x > 0 \/ y > 15
    BY <1>1, <1>3, SMT
<1>6. c <= 1114111 <=> x < 4 \/ (x = 4 /\ y < 16)
    BY <1>1, <1>3, SMT
<1>7. ASSUME a \in 240..247, b \in 128..191
      PROVE  /\ 65536 <= c <=> (a = 240 => b > 143)
             /\ c <= 1114111 <=> a \in 240..244 /\ (a = 244 => b < 144)
    <2>1. a = 240 + x /\ b = 128 + y
        BY <1>2, <1>7, SMT
    <2> QED
        BY <1>1, <1>5, <1>6, <2>1, SMT
<1>8. a \in 240..244 => a \in 240..247
    BY SMT DEF Octet
<1> DEFINE Long == 65536 <= c
           Small == c <= 1114111
<1>9. Long /\ Small /\ 240 + x = a /\ 128 + y = b /\ 128 + z = d /\ 128 + w = e
        <=> /\ a \in 240..244 /\ b \in 128..191 /\ d \in 128..191 /\ e \in 128..191
            /\ (a = 240 => b > 143) /\ (a = 244 => b < 144)
    <2>1. b \in 128..191 /\ a \in 240..247 =>
             (Long <=> (a = 240 => b > 143)) /\ (Small <=> a \in 240..244 /\ (a = 244 => b < 144))
        BY <1>7, SMT
    <2> HIDE DEF Long, Small
    <2> QED
        BY <1>2, <1>8, <2>1, SMT
<1>10. IsFour(a, b, d, e, c)
    <2>1. /\ 240 + c \div 262144 = a <=> 240 + x = a
          /\ 128 + ((c \div 4096) % 64) = b <=> 128 + y = b
          /\ 128 + ((c \div 64) % 64) = d <=> 128 + z = d
          /\ 128 + (c % 64) = e <=> 128 + w = e
        BY <1>4, SMT
    <2> QED
        BY <1>4, <1>9, <2>1, SMT DEF IsFour
<1> QED
    BY <1>10 DEF c

\* What is a character: by the definition, for every length
LEMMA EncodedOne ==
    ASSUME NEW s \in Seq(Octet), Len(s) = 1
    PROVE  IsEncoded(s) <=> s[1] < 128
<1> DEFINE c == s[1]
<1>1. CodePoint(s) = c /\ c \in Octet
    BY DEF CodePoint
<1> HIDE DEF c
<1>2. <<c>> = s
    BY TupleIs DEF c
<1>3. Encoded(c) = s <=> c < 128
    <2>1. CASE c < 128
        BY <1>2, <2>1 DEF Encoded
    <2>2. CASE ~(c < 128)
        <3>1. Encoded(c) = <<192 + c \div 64, 128 + (c % 64)>>
            BY <1>1, <2>2, SMT DEF Encoded, Octet
        <3> QED
            BY <2>2, <3>1, TupleIs
    <2> QED
        BY <2>1, <2>2
<1>4. c < 128 => c <= 1114111 /\ ~(55296 <= c /\ c <= 57343)
    BY <1>1, SMT DEF Octet
<1> QED
    BY <1>1, <1>3, <1>4, SMT DEF IsEncoded, c

TwoBytesAre(s) == s[1] \in 194..223 /\ s[2] \in 128..191

LEMMA EncodedTwo ==
    ASSUME NEW s \in Seq(Octet), Len(s) = 2
    PROVE  IsEncoded(s) <=> TwoBytesAre(s)
<1> DEFINE a == s[1]
           b == s[2]
           c == (a % 32) * 64 + (b % 64)
<1>1. CodePoint(s) = c /\ a \in Octet /\ b \in Octet
    BY SMT DEF CodePoint
<1>2. IsTwo(a, b, c)
    BY <1>1, TwoBytes
<1>3. <<192 + c \div 64, 128 + (c % 64)>> = s <=> 192 + c \div 64 = a /\ 128 + (c % 64) = b
    BY TupleIs
<1>4. \A x : <<x>> # s
    BY TupleIs
<1> HIDE DEF a, b, c
<1>5. Encoded(c) = s <=> 128 <= c /\ 192 + c \div 64 = a /\ 128 + (c % 64) = b
    <2>1. CASE c < 128
        <3>1. Encoded(c) = <<c>>
            BY <2>1, SMT DEF Encoded
        <3>2. Encoded(c) # s
            BY <1>4, <3>1
        <3> QED
            BY <1>2, <2>1, <3>2, SMT DEF IsTwo
    <2>2. CASE ~(c < 128)
        BY <1>2, <1>3, <2>2, SMT DEF Encoded, IsTwo
    <2> QED
        BY <2>1, <2>2
<1>6. c <= 1114111 /\ ~(55296 <= c /\ c <= 57343)
    BY <1>2, SMT DEF IsTwo
<1>7. IsEncoded(s) <=> a \in 194..223 /\ b \in 128..191
    BY <1>1, <1>2, <1>5, <1>6, SMT DEF IsEncoded, IsTwo
<1> QED
    BY <1>7 DEF a, b, TwoBytesAre

LEMMA EncodedThree ==
    ASSUME NEW s \in Seq(Octet), Len(s) = 3
    PROVE  IsEncoded(s) <=> /\ s[1] \in 224..239 /\ s[2] \in 128..191 /\ s[3] \in 128..191
                            /\ (s[1] = 224 => s[2] > 159) /\ (s[1] = 237 => s[2] < 160)
<1> DEFINE a == s[1]
           b == s[2]
           d == s[3]
           c == (a % 16) * 4096 + (b % 64) * 64 + (d % 64)
<1>1. CodePoint(s) = c /\ a \in Octet /\ b \in Octet /\ d \in Octet
    BY SMT DEF CodePoint
<1>2. IsThree(a, b, d, c)
    BY <1>1, ThreeBytes
<1>3. <<224 + c \div 4096, 128 + ((c \div 64) % 64), 128 + (c % 64)>> = s
        <=> 224 + c \div 4096 = a /\ 128 + ((c \div 64) % 64) = b /\ 128 + (c % 64) = d
    BY TupleIs
<1> HIDE DEF a, b, c, d
<1> DEFINE OneByte == <<c>>
           TwoOf == <<192 + c \div 64, 128 + (c % 64)>>
<1>4. OneByte # s /\ TwoOf # s
    <2>1. Len(OneByte) = 1 /\ Len(TwoOf) = 2
        OBVIOUS
    <2> HIDE DEF OneByte, TwoOf
    <2>2. Len(OneByte) # Len(s) /\ Len(TwoOf) # Len(s)
        BY <2>1
    <2> QED
        BY <2>2, Zenon
<1>5. Encoded(c) = s <=> 2048 <= c /\ 224 + c \div 4096 = a /\ 128 + ((c \div 64) % 64) = b /\ 128 + (c % 64) = d
    <2>1. CASE c < 2048
        <3>1. Encoded(c) \in {OneByte, TwoOf}
            BY <2>1, SMT DEF Encoded
        <3> HIDE DEF OneByte, TwoOf
        <3>2. Encoded(c) # s
            BY <1>4, <3>1
        <3> QED
            BY <1>2, <2>1, <3>2, SMT DEF IsThree
    <2>2. CASE ~(c < 2048)
        BY <1>2, <1>3, <2>2, SMT DEF Encoded, IsThree
    <2> QED
        BY <2>1, <2>2
<1>6. c <= 1114111
    BY <1>2, SMT DEF IsThree
<1>7. IsEncoded(s) <=> /\ a \in 224..239 /\ b \in 128..191 /\ d \in 128..191
                       /\ (a = 224 => b > 159) /\ (a = 237 => b < 160)
    BY <1>1, <1>2, <1>5, <1>6, SMT DEF IsEncoded, IsThree
<1> QED
    BY <1>7 DEF a, b, d

LEMMA EncodedFour ==
    ASSUME NEW s \in Seq(Octet), Len(s) = 4
    PROVE  IsEncoded(s) <=> /\ s[1] \in 240..244 /\ s[2] \in 128..191 /\ s[3] \in 128..191 /\ s[4] \in 128..191
                            /\ (s[1] = 240 => s[2] > 143) /\ (s[1] = 244 => s[2] < 144)
<1> DEFINE a == s[1]
           b == s[2]
           d == s[3]
           e == s[4]
           c == (a % 8) * 262144 + (b % 64) * 4096 + (d % 64) * 64 + (e % 64)
<1>1. CodePoint(s) = c /\ a \in Octet /\ b \in Octet /\ d \in Octet /\ e \in Octet
    BY SMT DEF CodePoint
<1>2. IsFour(a, b, d, e, c)
    BY <1>1, FourBytes
<1>3. <<240 + c \div 262144, 128 + ((c \div 4096) % 64), 128 + ((c \div 64) % 64), 128 + (c % 64)>> = s
        <=> /\ 240 + c \div 262144 = a /\ 128 + ((c \div 4096) % 64) = b
            /\ 128 + ((c \div 64) % 64) = d /\ 128 + (c % 64) = e
    BY TupleIs
<1> HIDE DEF a, b, c, d, e
<1> DEFINE OneByte == <<c>>
           TwoOf == <<192 + c \div 64, 128 + (c % 64)>>
           ThreeOf == <<224 + c \div 4096, 128 + ((c \div 64) % 64), 128 + (c % 64)>>
<1>4. OneByte # s /\ TwoOf # s /\ ThreeOf # s
    <2>1. Len(OneByte) = 1 /\ Len(TwoOf) = 2 /\ Len(ThreeOf) = 3
        OBVIOUS
    <2> HIDE DEF OneByte, TwoOf, ThreeOf
    <2>2. Len(OneByte) # Len(s) /\ Len(TwoOf) # Len(s) /\ Len(ThreeOf) # Len(s)
        BY <2>1
    <2> QED
        BY <2>2, Zenon
<1>5. Encoded(c) = s <=> /\ 65536 <= c /\ 240 + c \div 262144 = a /\ 128 + ((c \div 4096) % 64) = b
                         /\ 128 + ((c \div 64) % 64) = d /\ 128 + (c % 64) = e
    <2>1. CASE c < 65536
        <3>1. Encoded(c) \in {OneByte, TwoOf, ThreeOf}
            BY <2>1, SMT DEF Encoded
        <3> HIDE DEF OneByte, TwoOf, ThreeOf
        <3>2. Encoded(c) # s
            BY <1>4, <3>1
        <3> QED
            BY <1>2, <2>1, <3>2, SMT DEF IsFour
    <2>2. CASE ~(c < 65536)
        BY <1>2, <1>3, <2>2, SMT DEF Encoded, IsFour
    <2> QED
        BY <2>1, <2>2
<1>6. 65536 <= c => ~(55296 <= c /\ c <= 57343)
    BY <1>2, SMT DEF IsFour
<1>7. IsEncoded(s) <=> /\ a \in 240..244 /\ b \in 128..191 /\ d \in 128..191 /\ e \in 128..191
                       /\ (a = 240 => b > 143) /\ (a = 244 => b < 144)
    BY <1>1, <1>2, <1>5, <1>6, SMT DEF IsEncoded, IsFour
<1> QED
    BY <1>7 DEF a, b, d, e

\* The length which the first byte says
LEMMA FirstByte ==
    ASSUME NEW c \in Octet
    PROVE  /\ (CharacterLength(c) = 1) <=> c < 128
           /\ (CharacterLength(c) = 2) <=> c \in 194..223
           /\ (CharacterLength(c) = 3) <=> c \in 224..239
           /\ (CharacterLength(c) = 4) <=> c \in 240..244
           /\ CharacterLength(c) \in 0..4
    BY SMT DEF CharacterLength, Octet

\* The second bytes which are not of a character
FirstOfThree == 224..239
FirstOfFour == 240..244
Behind == 128..191
SecondOfThree(a, b) == (b \notin BadSecond(a)) <=> (a = 224 => b > 159) /\ (a = 237 => b < 160)
SecondOfFour(a, b) == (b \notin BadSecond(a)) <=> (a = 240 => b > 143) /\ (a = 244 => b < 144)

LEMMA SecondByteOfThree ==
    ASSUME NEW a \in FirstOfThree, NEW b \in Behind
    PROVE  SecondOfThree(a, b)
<1>1. CASE a = 224
    <2>1. BadSecond(a) = 0..159
        BY <1>1, SMT DEF BadSecond, FirstOfThree
    <2> QED
        BY <1>1, <2>1, SMT DEF SecondOfThree, FirstOfThree, Behind
<1>2. CASE a = 237
    <2>1. BadSecond(a) = 160..255
        BY <1>2, SMT DEF BadSecond, FirstOfThree
    <2> QED
        BY <1>2, <2>1, SMT DEF SecondOfThree, FirstOfThree, Behind
<1>3. CASE a \notin {224, 237}
    <2>1. BadSecond(a) = {}
        BY <1>3, SMT DEF BadSecond, FirstOfThree
    <2> QED
        BY <1>3, <2>1, SMT DEF SecondOfThree, FirstOfThree, Behind
<1> QED
    BY <1>1, <1>2, <1>3

LEMMA SecondByteOfFour ==
    ASSUME NEW a \in FirstOfFour, NEW b \in Behind
    PROVE  SecondOfFour(a, b)
<1>1. CASE a = 240
    <2>1. BadSecond(a) = 0..143
        BY <1>1, SMT DEF BadSecond, FirstOfFour
    <2> QED
        BY <1>1, <2>1, SMT DEF SecondOfFour, FirstOfFour, Behind
<1>2. CASE a = 244
    <2>1. BadSecond(a) = 144..255
        BY <1>2, SMT DEF BadSecond, FirstOfFour
    <2> QED
        BY <1>2, <2>1, SMT DEF SecondOfFour, FirstOfFour, Behind
<1>3. CASE a \notin {240, 244}
    <2>1. BadSecond(a) = {}
        BY <1>3, SMT DEF BadSecond, FirstOfFour
    <2> QED
        BY <1>3, <2>1, SMT DEF SecondOfFour, FirstOfFour, Behind
<1> QED
    BY <1>1, <1>2, <1>3

\* The bytes of a piece of a text
LEMMA PieceIs ==
    ASSUME NEW t \in Seq(Octet), NEW i \in 1..Len(t), NEW n \in 1..4, i + n - 1 <= Len(t)
    PROVE  /\ SubSeq(t, i, i + n - 1) \in Seq(Octet) /\ Len(SubSeq(t, i, i + n - 1)) = n
           /\ \A k \in 1..n : SubSeq(t, i, i + n - 1)[k] = t[i + (k - 1)] /\ t[i + (k - 1)] \in Octet
<1> DEFINE m == i + n - 1
           s == SubSeq(t, i, m)
<1>1. m \in Nat /\ i <= m /\ m <= Len(t) /\ i \in Nat /\ Len(t) \in Nat
    OBVIOUS
<1>2. m - i + 1 = n
    OBVIOUS
<1> HIDE DEF m
<1>3. s \in Seq(Octet) /\ Len(s) = m - i + 1 /\ \A k \in 1..(m - i + 1) : s[k] = t[i + k - 1]
    BY <1>1
<1>4. \A k \in 1..n : s[k] \in Octet
    <2> HIDE DEF s
    <2> QED
        BY <1>2, <1>3
<1>5. \A k \in 1..n : i + k - 1 = i + (k - 1)
    BY <1>1
<1>6. \A k \in 1..n : s[k] = t[i + (k - 1)]
    BY <1>2, <1>3, <1>5
<1>7. s \in Seq(Octet) /\ Len(s) = n /\ \A k \in 1..n : s[k] = t[i + (k - 1)] /\ t[i + (k - 1)] \in Octet
    BY <1>2, <1>3, <1>4, <1>6
<1> QED
    BY <1>7 DEF m

\* At a place of a text, by its bytes: a character of one, two, three or four bytes
OneAt(t, i) == t[i] < 128
TwoAt(t, i) == t[i] \in 194..223 /\ t[i + 1] \in 128..191
ThreeAt(t, i) == /\ t[i] \in 224..239 /\ t[i + 1] \in 128..191 /\ t[i + 2] \in 128..191
                 /\ (t[i] = 224 => t[i + 1] > 159) /\ (t[i] = 237 => t[i + 1] < 160)
FourAt(t, i) == /\ t[i] \in 240..244 /\ t[i + 1] \in 128..191 /\ t[i + 2] \in 128..191 /\ t[i + 3] \in 128..191
                /\ (t[i] = 240 => t[i + 1] > 143) /\ (t[i] = 244 => t[i + 1] < 144)

LEMMA OneIs ==
    ASSUME NEW t \in Seq(Octet), NEW i \in 1..Len(t), i + 1 - 1 <= Len(t)
    PROVE  /\ IsEncoded(SubSeq(t, i, i + 1 - 1)) <=> OneAt(t, i)
           /\ CharacterLength(t[i]) = 1 /\ IsCharacter(t, i, 1) <=> OneAt(t, i)
<1> DEFINE s == SubSeq(t, i, i + 1 - 1)
<1>1. s \in Seq(Octet) /\ Len(s) = 1 /\ s[1] = t[i + (1 - 1)] /\ t[i + (1 - 1)] \in Octet
    BY PieceIs
<1>2. i + (1 - 1) = i /\ \A k : k \notin (i + 1)..(i + 1 - 1)
    OBVIOUS
<1> HIDE DEF s
<1>3. IsEncoded(s) <=> s[1] < 128
    BY <1>1, EncodedOne
<1>4. s[1] = t[i] /\ t[i] \in Octet
    BY <1>1, <1>2
<1>5. IsCharacter(t, i, 1)
    BY <1>2 DEF IsCharacter
<1>6. (CharacterLength(t[i]) = 1) <=> t[i] < 128
    BY <1>4, FirstByte
<1>7. /\ IsEncoded(s) <=> OneAt(t, i)
      /\ CharacterLength(t[i]) = 1 /\ IsCharacter(t, i, 1) <=> OneAt(t, i)
    BY <1>3, <1>4, <1>5, <1>6 DEF OneAt
<1> QED
    BY <1>7 DEF s

LEMMA TwoIs ==
    ASSUME NEW t \in Seq(Octet), NEW i \in 1..Len(t), i + 2 - 1 <= Len(t)
    PROVE  /\ IsEncoded(SubSeq(t, i, i + 2 - 1)) <=> TwoAt(t, i)
           /\ CharacterLength(t[i]) = 2 /\ IsCharacter(t, i, 2) <=> TwoAt(t, i)
<1> DEFINE s == SubSeq(t, i, i + 2 - 1)
<1>1. /\ s \in Seq(Octet) /\ Len(s) = 2
      /\ s[1] = t[i + (1 - 1)] /\ t[i + (1 - 1)] \in Octet /\ s[2] = t[i + (2 - 1)] /\ t[i + (2 - 1)] \in Octet
    BY PieceIs
<1>2. i + (1 - 1) = i /\ i + (2 - 1) = i + 1 /\ \A k : k \in (i + 1)..(i + 2 - 1) <=> k = i + 1
    OBVIOUS
<1> HIDE DEF s
<1>3. IsEncoded(s) <=> s[1] \in 194..223 /\ s[2] \in 128..191
    <2>1. IsEncoded(s) <=> TwoBytesAre(s)
        BY <1>1, EncodedTwo
    <2> QED
        BY <2>1 DEF TwoBytesAre
<1>4. s[1] = t[i] /\ t[i] \in Octet /\ s[2] = t[i + 1]
    BY <1>1, <1>2
<1>5. IsCharacter(t, i, 2) <=> t[i + 1] \in 128..191
    BY <1>2 DEF IsCharacter
<1>6. (CharacterLength(t[i]) = 2) <=> t[i] \in 194..223
    BY <1>4, FirstByte
<1>7. /\ IsEncoded(s) <=> TwoAt(t, i)
      /\ CharacterLength(t[i]) = 2 /\ IsCharacter(t, i, 2) <=> TwoAt(t, i)
    BY <1>3, <1>4, <1>5, <1>6, SMT DEF TwoAt
<1> QED
    BY <1>7 DEF s

LEMMA ThreeIs ==
    ASSUME NEW t \in Seq(Octet), NEW i \in 1..Len(t), i + 3 - 1 <= Len(t)
    PROVE  /\ IsEncoded(SubSeq(t, i, i + 3 - 1)) <=> ThreeAt(t, i)
           /\ CharacterLength(t[i]) = 3 /\ IsCharacter(t, i, 3) <=> ThreeAt(t, i)
<1> DEFINE s == SubSeq(t, i, i + 3 - 1)
           Between(x) == x \in 128..191
           NotBad == (t[i] = 224 => t[i + 1] > 159) /\ (t[i] = 237 => t[i + 1] < 160)
<1>1. /\ s \in Seq(Octet) /\ Len(s) = 3
      /\ s[1] = t[i + (1 - 1)] /\ t[i + (1 - 1)] \in Octet /\ s[2] = t[i + (2 - 1)] /\ s[3] = t[i + (3 - 1)]
    BY PieceIs
<1>2. /\ i + (1 - 1) = i /\ i + (2 - 1) = i + 1 /\ i + (3 - 1) = i + 2
      /\ \A k : k \in (i + 1)..(i + 3 - 1) <=> k = i + 1 \/ k = i + 2
    OBVIOUS
<1> HIDE DEF s
<1>3. IsEncoded(s) <=> /\ s[1] \in 224..239 /\ s[2] \in 128..191 /\ s[3] \in 128..191
                       /\ (s[1] = 224 => s[2] > 159) /\ (s[1] = 237 => s[2] < 160)
    BY <1>1, EncodedThree
<1>4. s[1] = t[i] /\ t[i] \in Octet /\ s[2] = t[i + 1] /\ s[3] = t[i + 2]
    BY <1>1, <1>2
<1>5. IsCharacter(t, i, 3) <=> Between(t[i + 1]) /\ Between(t[i + 2]) /\ t[i + 1] \notin BadSecond(t[i])
    <2>1. (\A k \in (i + 1)..(i + 3 - 1) : Between(t[k])) <=> Between(t[i + 1]) /\ Between(t[i + 2])
        <3> HIDE DEF Between
        <3> QED
            BY <1>2, Zenon
    <2>2. 3 > 0 /\ 3 \in {3, 4} /\ i + 3 - 1 <= Len(t)
        OBVIOUS
    <2>3. IsCharacter(t, i, 3) <=> /\ \A k \in (i + 1)..(i + 3 - 1) : Between(t[k])
                                   /\ t[i + 1] \notin BadSecond(t[i])
        BY <2>2, Zenon DEF IsCharacter
    <2> QED
        BY <2>1, <2>3, Zenon
<1>6. (CharacterLength(t[i]) = 3) <=> t[i] \in 224..239
    BY <1>4, FirstByte
<1>7. t[i] \in 224..239 /\ Between(t[i + 1]) => (t[i + 1] \notin BadSecond(t[i]) <=> NotBad)
    <2> SUFFICES ASSUME t[i] \in 224..239, Between(t[i + 1])
                 PROVE  t[i + 1] \notin BadSecond(t[i]) <=> NotBad
        OBVIOUS
    <2> DEFINE a == t[i]
               b == t[i + 1]
    <2>1. a \in FirstOfThree /\ b \in Behind
        BY DEF FirstOfThree, Behind
    <2> HIDE DEF a, b
    <2>2. SecondOfThree(a, b)
        BY <2>1, SecondByteOfThree
    <2>3. (b \notin BadSecond(a)) <=> NotBad
        BY <2>2 DEF a, b, SecondOfThree
    <2> QED
        BY <2>3 DEF a, b
<1>8. IsEncoded(s) <=> t[i] \in 224..239 /\ Between(t[i + 1]) /\ Between(t[i + 2]) /\ NotBad
    BY <1>3, <1>4, SMT
<1>9. ThreeAt(t, i) <=> t[i] \in 224..239 /\ Between(t[i + 1]) /\ Between(t[i + 2]) /\ NotBad
    BY Zenon DEF ThreeAt
<1> HIDE DEF Between, NotBad
<1>10. /\ IsEncoded(s) <=> ThreeAt(t, i)
       /\ CharacterLength(t[i]) = 3 /\ IsCharacter(t, i, 3) <=> ThreeAt(t, i)
    BY <1>5, <1>6, <1>7, <1>8, <1>9, Zenon
<1> QED
    BY <1>10 DEF s

LEMMA FourIs ==
    ASSUME NEW t \in Seq(Octet), NEW i \in 1..Len(t), i + 4 - 1 <= Len(t)
    PROVE  /\ IsEncoded(SubSeq(t, i, i + 4 - 1)) <=> FourAt(t, i)
           /\ CharacterLength(t[i]) = 4 /\ IsCharacter(t, i, 4) <=> FourAt(t, i)
<1> DEFINE s == SubSeq(t, i, i + 4 - 1)
           Between(x) == x \in 128..191
           NotBad == (t[i] = 240 => t[i + 1] > 143) /\ (t[i] = 244 => t[i + 1] < 144)
<1>1. /\ s \in Seq(Octet) /\ Len(s) = 4
      /\ s[1] = t[i + (1 - 1)] /\ t[i + (1 - 1)] \in Octet /\ s[2] = t[i + (2 - 1)] /\ s[3] = t[i + (3 - 1)]
      /\ s[4] = t[i + (4 - 1)]
    BY PieceIs
<1>2. /\ i + (1 - 1) = i /\ i + (2 - 1) = i + 1 /\ i + (3 - 1) = i + 2 /\ i + (4 - 1) = i + 3
      /\ \A k : k \in (i + 1)..(i + 4 - 1) <=> k = i + 1 \/ k = i + 2 \/ k = i + 3
    OBVIOUS
<1> HIDE DEF s
<1>3. IsEncoded(s) <=> /\ s[1] \in 240..244 /\ s[2] \in 128..191 /\ s[3] \in 128..191 /\ s[4] \in 128..191
                       /\ (s[1] = 240 => s[2] > 143) /\ (s[1] = 244 => s[2] < 144)
    BY <1>1, EncodedFour
<1>4. s[1] = t[i] /\ t[i] \in Octet /\ s[2] = t[i + 1] /\ s[3] = t[i + 2] /\ s[4] = t[i + 3]
    BY <1>1, <1>2
<1>5. IsCharacter(t, i, 4) <=>
        Between(t[i + 1]) /\ Between(t[i + 2]) /\ Between(t[i + 3]) /\ t[i + 1] \notin BadSecond(t[i])
    <2>1. (\A k \in (i + 1)..(i + 4 - 1) : Between(t[k])) <=> Between(t[i + 1]) /\ Between(t[i + 2]) /\ Between(t[i + 3])
        <3> HIDE DEF Between
        <3> QED
            BY <1>2, Zenon
    <2>2. 4 > 0 /\ 4 \in {3, 4} /\ i + 4 - 1 <= Len(t)
        OBVIOUS
    <2>3. IsCharacter(t, i, 4) <=> /\ \A k \in (i + 1)..(i + 4 - 1) : Between(t[k])
                                   /\ t[i + 1] \notin BadSecond(t[i])
        BY <2>2, Zenon DEF IsCharacter
    <2> QED
        BY <2>1, <2>3, Zenon
<1>6. (CharacterLength(t[i]) = 4) <=> t[i] \in 240..244
    BY <1>4, FirstByte
<1>7. t[i] \in 240..244 /\ Between(t[i + 1]) => (t[i + 1] \notin BadSecond(t[i]) <=> NotBad)
    <2> SUFFICES ASSUME t[i] \in 240..244, Between(t[i + 1])
                 PROVE  t[i + 1] \notin BadSecond(t[i]) <=> NotBad
        OBVIOUS
    <2> DEFINE a == t[i]
               b == t[i + 1]
    <2>1. a \in FirstOfFour /\ b \in Behind
        BY DEF FirstOfFour, Behind
    <2> HIDE DEF a, b
    <2>2. SecondOfFour(a, b)
        BY <2>1, SecondByteOfFour
    <2>3. (b \notin BadSecond(a)) <=> NotBad
        BY <2>2 DEF a, b, SecondOfFour
    <2> QED
        BY <2>3 DEF a, b
<1>8. IsEncoded(s) <=> t[i] \in 240..244 /\ Between(t[i + 1]) /\ Between(t[i + 2]) /\ Between(t[i + 3]) /\ NotBad
    BY <1>3, <1>4, SMT
<1>9. FourAt(t, i) <=> t[i] \in 240..244 /\ Between(t[i + 1]) /\ Between(t[i + 2]) /\ Between(t[i + 3]) /\ NotBad
    BY Zenon DEF FourAt
<1> HIDE DEF Between, NotBad
<1>10. /\ IsEncoded(s) <=> FourAt(t, i)
       /\ CharacterLength(t[i]) = 4 /\ IsCharacter(t, i, 4) <=> FourAt(t, i)
    BY <1>5, <1>6, <1>7, <1>8, <1>9, Zenon
<1> QED
    BY <1>10 DEF s

\* At every place the code finds the character which is there by the definition.
IsAt(t, i, n) == IsEncoded(SubSeq(t, i, i + n - 1)) <=> CharacterLength(t[i]) = n /\ IsCharacter(t, i, n)

LEMMA CharacterIs ==
    ASSUME NEW t \in Seq(Octet), NEW i \in 1..Len(t), NEW n \in 1..4, i + n - 1 <= Len(t)
    PROVE  IsAt(t, i, n)
<1>1. CASE n = 1
    <2>1. IsAt(t, i, 1)
        BY <1>1, OneIs DEF IsAt
    <2> QED
        BY <1>1, <2>1
<1>2. CASE n = 2
    <2>1. IsAt(t, i, 2)
        BY <1>2, TwoIs DEF IsAt
    <2> QED
        BY <1>2, <2>1
<1>3. CASE n = 3
    <2>1. IsAt(t, i, 3)
        BY <1>3, ThreeIs DEF IsAt
    <2> QED
        BY <1>3, <2>1
<1>4. CASE n = 4
    <2>1. IsAt(t, i, 4)
        BY <1>4, FourIs DEF IsAt
    <2> QED
        BY <1>4, <2>1
<1> QED
    BY <1>1, <1>2, <1>3, <1>4

\* No place has two characters.
LEMMA CharactersAre ==
    ASSUME NEW t \in Seq(Octet), NEW i \in 1..Len(t)
    PROVE  CharactersAt(t, i) = IF IsCharacter(t, i, CharacterLength(t[i])) THEN {CharacterLength(t[i])} ELSE {}
<1> DEFINE len == CharacterLength(t[i])
<1>1. len \in 0..4
    BY DEF CharacterLength
<1> HIDE DEF len
<1>2. ASSUME NEW n \in CharactersAt(t, i) PROVE n = len /\ IsCharacter(t, i, len)
    BY <1>2, CharacterIs DEF CharactersAt, IsAt, len
<1>3. ASSUME IsCharacter(t, i, len) PROVE len \in CharactersAt(t, i)
    <2>1. len \in 1..4 /\ i + len - 1 <= Len(t)
        BY <1>1, <1>3 DEF IsCharacter
    <2>2. IsEncoded(SubSeq(t, i, i + len - 1))
        BY <1>3, <2>1, CharacterIs DEF IsAt, len
    <2> QED
        BY <2>1, <2>2 DEF CharactersAt
<1>4. CharactersAt(t, i) = IF IsCharacter(t, i, len) THEN {len} ELSE {}
    BY <1>2, <1>3
<1> QED
    BY <1>4 DEF len

\* A text becomes UTF-8: both walk through the text in the same steps.
LEMMA Utf8Is ==
    ASSUME NEW t \in Seq(Octet)
    PROVE  ToValidUtf8(t) = Replaced(t)
<1> DEFINE Place == 1..(Len(t) + 1)
           Length(i) == CharacterLength(t[i])
           Code(out, i) == IF i > Len(t) THEN << >>
                           ELSE IF IsCharacter(t, i, Length(i)) THEN SubSeq(t, i, i + Length(i) - 1) \o out[i + Length(i)]
                           ELSE Replacement \o out[i + 1]
           At(i) == CharactersAt(t, i)
           Definition(out, i) == IF i > Len(t) THEN << >>
                                 ELSE IF At(i) = {} THEN Replacement \o out[i + 1]
                                 ELSE SubSeq(t, i, i + Min(At(i)) - 1) \o out[i + Min(At(i))]
<1>1. ASSUME NEW out, NEW i \in Place PROVE Code(out, i) = Definition(out, i)
    <2>1. CASE i > Len(t)
        BY <2>1
    <2>2. CASE ~(i > Len(t))
        <3>1. i \in 1..Len(t)
            BY <2>2
        <3>2. At(i) = IF IsCharacter(t, i, Length(i)) THEN {Length(i)} ELSE {}
            BY <3>1, CharactersAre
        <3>3. \A n \in Int : Min({n}) = n
            BY DEF Min
        <3>4. Length(i) \in Int
            BY DEF CharacterLength
        <3> HIDE DEF At, Length
        <3> QED
            BY <2>2, <3>2, <3>3, <3>4
    <2> QED
        BY <2>1, <2>2
<1>2. \A out : [i \in Place |-> Code(out, i)] = [i \in Place |-> Definition(out, i)]
    BY <1>1
<1>3. (CHOOSE out : out = [i \in Place |-> Code(out, i)]) = (CHOOSE out : out = [i \in Place |-> Definition(out, i)])
    <2> HIDE DEF Code, Definition
    <2> QED
        BY <1>2
<1>4. ToValidUtf8(t) = (CHOOSE out : out = [i \in Place |-> Code(out, i)])[1]
    BY DEF ToValidUtf8
<1>5. Replaced(t) = (CHOOSE out : out = [i \in Place |-> Definition(out, i)])[1]
    BY DEF Replaced
<1> QED
    BY <1>3, <1>4, <1>5

(***************************************************************************)
(* The names of the processes.  What stat told is still true only if nothing  *)
(* was written since: then the names of the file are known, or the file    *)
(* which is read next is this one.                                         *)
(***************************************************************************)

Maps == [Pids -> Tasks \cup {""}]

NamesType ==
    /\ running \in Maps /\ pidMap \in Maps /\ files \in Seq(Maps)
    /\ change \in Nat /\ seen \in Nat \X Nat /\ seen[2] <= change
    /\ reload \in [step : {"none", "opened", "changed", "done"}, handle : Nat]
    /\ reload.handle <= Len(files) /\ (reload.step = "changed" => reload.handle # 0)

AllAreHad == AreHad(running) /\ AreHad(pidMap) /\ \A i \in DOMAIN files : AreHad(files[i])

Fresh ==
    files # << >> /\ ~missed /\ seen = Stat =>
        IF reload.step = "changed" THEN reload.handle = Len(files) ELSE Knows(pidMap, files[Len(files)])

NamesInv == NamesType /\ AllAreHad /\ Fresh

\* Nothing is known before the file was looked at.
LEMMA NamesInvInit == NamesInit => NamesInv
<1> SUFFICES ASSUME NamesInit PROVE NamesInv
    OBVIOUS
<1>a. files = << >> /\ Len(files) = 0 /\ files \in Seq(Maps) /\ DOMAIN files = 1..0
    BY DEF NamesInit
<1>b. NoNames \in Maps /\ \A p \in Pids : NoNames[p] = ""
    BY DEF NoNames, Maps
<1>c. seen = <<0, 0>> /\ change = 0 /\ seen \in Nat \X Nat /\ seen[2] = 0
    BY DEF NamesInit
<1>d. reload \in [step : {"none", "opened", "changed", "done"}, handle : Nat] /\ reload.handle = 0 /\ reload.step = "none"
    BY DEF NamesInit, NoReload
<1>e. running = NoNames /\ pidMap = NoNames
    BY DEF NamesInit
<1>1. NamesType
    <2>1. running \in Maps /\ pidMap \in Maps
        BY <1>b, <1>e
    <2>2. change \in Nat /\ seen \in Nat \X Nat /\ seen[2] <= change
        BY <1>c
    <2>3. reload.handle <= Len(files) /\ reload.step # "changed"
        BY <1>a, <1>d
    <2> QED
        BY <1>a, <1>d, <2>1, <2>2, <2>3, Zenon DEF NamesType
<1>2. AllAreHad
    <2>1. AreHad(running) /\ AreHad(pidMap)
        BY <1>b, <1>e DEF AreHad
    <2>2. DOMAIN files = {}
        BY <1>a
    <2> QED
        BY <2>1, <2>2, Zenon DEF AllAreHad
<1>3. Fresh
    BY DEF NamesInit, Fresh
<1> QED
    BY <1>1, <1>2, <1>3 DEF NamesInv

\* A range has one end.
LEMMA SameLength == ASSUME NEW m \in Nat, NEW n \in Nat, 1..m = 1..n PROVE m = n
<1>1. ~(m < n)
    <2> SUFFICES ASSUME m < n PROVE FALSE
        OBVIOUS
    <2>1. n \in 1..n /\ n \notin 1..m
        OBVIOUS
    <2> QED
        BY <2>1
<1>2. ~(n < m)
    <2> SUFFICES ASSUME n < m PROVE FALSE
        OBVIOUS
    <2>1. m \in 1..m /\ m \notin 1..n
        OBVIOUS
    <2> QED
        BY <2>1
<1> QED
    BY <1>1, <1>2

\* A file which changed is not the one which stat told about.
LEMMA FileChanges ==
    ASSUME NamesInv, change' = change + 1, UNCHANGED <<running, had, pidMap, seen, reload, missed>>,
           NEW map \in Maps, AreHad(map),
           files' = Append(files, map) \/ (files' = [files EXCEPT ![Len(files)] = map])
    PROVE  NamesInv'
<1>1. files \in Seq(Maps) /\ Len(files) \in Nat /\ DOMAIN files = 1..Len(files)
    BY DEF NamesInv, NamesType
<1>2. /\ files' \in Seq(Maps) /\ Len(files) <= Len(files')
      /\ DOMAIN files' = 1..Len(files')
      /\ \A i \in DOMAIN files' : files'[i] = map \/ (i \in DOMAIN files /\ files'[i] = files[i])
    <2>1. CASE files' = Append(files, map)
        BY <1>1, <2>1
    <2>2. CASE files' = [files EXCEPT ![Len(files)] = map]
        <3>1. DOMAIN files' = DOMAIN files /\ \A i \in DOMAIN files : files'[i] = map \/ files'[i] = files[i]
            BY <2>2
        <3>2. \A i \in DOMAIN files : files[i] \in Maps
            BY <1>1
        <3>3. files' \in [1..Len(files) -> Maps]
            BY <1>1, <2>2, <3>2
        <3>4. files' \in Seq(Maps)
            BY <1>1, <3>3, SeqDef, Zenon
        <3>5. Len(files') = Len(files)
            <4>1. DOMAIN files' = 1..Len(files') /\ Len(files') \in Nat
                BY <3>4, LenProperties, Zenon
            <4>2. DOMAIN files' = 1..Len(files)
                BY <3>3
            <4> QED
                BY <1>1, <4>1, <4>2, SameLength, Zenon
        <3>6. Len(files) <= Len(files')
            BY <1>1, <3>5
        <3>7. DOMAIN files' = 1..Len(files')
            BY <1>1, <3>1, <3>5
        <3>8. \A i \in DOMAIN files' : files'[i] = map \/ (i \in DOMAIN files /\ files'[i] = files[i])
            BY <3>1
        <3> QED
            BY <3>4, <3>6, <3>7, <3>8
    <2> QED
        BY <2>1, <2>2
<1>3. NamesType'
    <2>1. change \in Nat /\ seen \in Nat \X Nat /\ seen[2] <= change /\ reload.handle <= Len(files)
          /\ reload \in [step : {"none", "opened", "changed", "done"}, handle : Nat]
        BY DEF NamesInv, NamesType
    <2>2. reload.handle \in Nat
        BY <2>1
    <2>5. files' \in Seq(Maps) /\ Len(files) <= Len(files')
        BY <1>2
    <2>6. Len(files') \in Nat
        BY <2>5
    <2>3. reload'.handle <= Len(files')
        <3>1. reload'.handle = reload.handle /\ Len(files) \in Nat
            BY <1>1
        <3> QED
            BY <2>1, <2>2, <2>5, <2>6, <3>1
    <2>4. seen[2] \in Nat /\ seen'[2] <= change' /\ change' \in Nat
        BY <2>1
    <2> QED
        BY <1>2, <2>3, <2>4 DEF NamesInv, NamesType
<1>4. AllAreHad'
    BY <1>2 DEF NamesInv, AllAreHad, AreHad
<1>5. seen' # Stat'
    BY DEF NamesInv, NamesType, Stat
<1>6. Fresh'
    BY <1>5 DEF Fresh
<1> QED
    BY <1>3, <1>4, <1>6 DEF NamesInv

\* A process which starts makes no name wrong: the process had the old one too.
LEMMA StartKeeps == ASSUME NamesInv, NEW p \in Pids, NEW t \in Tasks, StartProcess(p, t) PROVE NamesInv'
<1>1. /\ running' = [running EXCEPT ![p] = t] /\ had' = had \cup {<<p, t>>}
      /\ UNCHANGED <<files, change, writing, pidMap, seen, reload, missed>>
    BY DEF StartProcess
<1>2. NamesType'
    BY <1>1 DEF NamesInv, NamesType, Maps
<1>3. AllAreHad'
    BY <1>1 DEF NamesInv, NamesType, Maps, AllAreHad, AreHad
<1>4. Fresh'
    BY <1>1 DEF NamesInv, Fresh, Knows, Stat
<1> QED
    BY <1>2, <1>3, <1>4 DEF NamesInv

\* A new, an emptied and a written file have true names only, and stat tells another thing of them.
LEMMA ServerKeeps == ASSUME NamesInv, ReplaceFile \/ EmptyFile \/ WriteFile PROVE NamesInv'
<1>1. NoNames \in Maps /\ AreHad(NoNames) /\ running \in Maps /\ AreHad(running)
    BY DEF NamesInv, NamesType, AllAreHad, Maps, NoNames, AreHad
<1> QED
    BY <1>1, FileChanges DEF ReplaceFile, EmptyFile, WriteFile

\* What stat tells is kept before the file is read: it will be read next, or `missed` says why not.
LEMMA StatKeeps == ASSUME NamesInv, StatPidFile PROVE NamesInv'
<1>1. /\ UNCHANGED <<running, had, files, change, writing, pidMap>>
      /\ seen' = IF files # << >> THEN Stat ELSE seen
      /\ missed' = (missed \/ (HasFileChanged /\ reload.handle # Len(files)))
      /\ reload.step = "opened"
    BY DEF StatPidFile
<1>2. /\ reload'.handle = reload.handle
      /\ reload'.step = IF HasFileChanged /\ reload.handle # 0 THEN "changed" ELSE "done"
      /\ reload' \in [step : {"none", "opened", "changed", "done"}, handle : Nat]
    BY DEF StatPidFile, NamesInv, NamesType
<1>3. files \in Seq(Maps) /\ Len(files) \in Nat /\ (files # << >> => Len(files) # 0)
    BY DEF NamesInv, NamesType
<1>4. NamesType'
    BY <1>1, <1>2, <1>3 DEF NamesInv, NamesType, Stat
<1>5. AllAreHad'
    BY <1>1 DEF NamesInv, AllAreHad, AreHad
<1>6. Fresh'
    <2> SUFFICES ASSUME files # << >>, ~missed'
                 PROVE  IF reload'.step = "changed" THEN reload'.handle = Len(files) ELSE Knows(pidMap, files[Len(files)])
        BY <1>1 DEF Fresh, Knows, Stat
    <2>1. CASE HasFileChanged
        BY <1>1, <1>2, <1>3, <2>1
    <2>2. CASE ~HasFileChanged
        <3>1. seen = Stat /\ ~missed
            BY <1>1, <2>2 DEF HasFileChanged
        <3>2. Knows(pidMap, files[Len(files)])
            BY <1>1, <3>1 DEF NamesInv, Fresh
        <3> QED
            BY <1>2, <2>2, <3>2
    <2> QED
        BY <2>1, <2>2
<1> QED
    BY <1>4, <1>5, <1>6 DEF NamesInv

\* The file which is read has true names, and all of them are known then.
LEMMA ReadKeeps == ASSUME NamesInv, ReadPidFile PROVE NamesInv'
<1> DEFINE f == files[reload.handle]
<1>1. /\ UNCHANGED <<running, had, files, change, writing, seen, missed>>
      /\ pidMap' = [p \in Pids |-> IF f[p] # "" THEN f[p] ELSE pidMap[p]]
      /\ reload.step = "changed"
    BY DEF ReadPidFile
<1>2. reload' = [step |-> "done", handle |-> reload.handle]
    BY DEF ReadPidFile, NamesInv, NamesType
<1>3. f \in Maps /\ AreHad(f)
    <2>1. files \in Seq(Maps) /\ Len(files) \in Nat /\ DOMAIN files = 1..Len(files)
        BY DEF NamesInv, NamesType
    <2>2. reload.handle \in Nat /\ reload.handle <= Len(files) /\ reload.handle # 0
        BY <1>1 DEF NamesInv, NamesType
    <2>3. reload.handle \in DOMAIN files
        BY <2>1, <2>2
    <2> QED
        BY <2>1, <2>3 DEF NamesInv, AllAreHad
<1>4. NamesType'
    BY <1>1, <1>2, <1>3 DEF NamesInv, NamesType, Maps
<1>5. AllAreHad'
    BY <1>1, <1>3 DEF NamesInv, AllAreHad, AreHad
<1>6. Fresh'
    <2> SUFFICES ASSUME files # << >>, ~missed, seen = Stat PROVE Knows(pidMap', files[Len(files)])
        BY <1>1, <1>2 DEF Fresh, Knows, Stat
    <2>1. reload.handle = Len(files)
        BY <1>1 DEF NamesInv, Fresh
    <2> QED
        BY <1>1, <2>1 DEF Knows
<1> QED
    BY <1>4, <1>5, <1>6 DEF NamesInv

\* To open the file, or to take a name, changes nothing which is known.
LEMMA OtherKeeps == ASSUME NamesInv, OpenPidFile \/ (\E p : TakeName(p)) PROVE NamesInv'
<1>1. UNCHANGED <<running, had, files, change, writing, pidMap, seen, missed>>
    BY DEF OpenPidFile, TakeName
<1>2. /\ reload' \in {NoReload, [step |-> "opened", handle |-> Len(files)]}
      /\ reload.step # "changed"
    BY DEF OpenPidFile, TakeName
<1>3. Len(files) \in Nat
    BY DEF NamesInv, NamesType
<1>4. NamesType'
    BY <1>1, <1>2, <1>3 DEF NamesInv, NamesType, NoReload
<1>5. AllAreHad'
    BY <1>1 DEF NamesInv, AllAreHad, AreHad
<1>6. Fresh'
    <2>1. reload'.step # "changed"
        BY <1>2 DEF NoReload
    <2>2. files # << >> /\ ~missed /\ seen = Stat => Knows(pidMap, files[Len(files)])
        BY <1>2 DEF NamesInv, Fresh
    <2> QED
        BY <1>1, <2>1, <2>2 DEF Fresh, Knows, Stat
<1> QED
    BY <1>4, <1>5, <1>6 DEF NamesInv

(***************************************************************************)
(* Sequences of any elements.                                              *)
(***************************************************************************)
AnySeq(q) == \E S : q \in Seq(S)

\* An element is appended
LEMMA AppendAny ==
    ASSUME NEW q, AnySeq(q), NEW e
    PROVE  /\ AnySeq(Append(q, e)) /\ Len(q) \in Nat /\ Len(Append(q, e)) = Len(q) + 1
           /\ \A i \in 1..Len(q) : Append(q, e)[i] = q[i]
           /\ Append(q, e)[Len(q) + 1] = e
<1>1. PICK S : q \in Seq(S)
    BY DEF AnySeq
<1> DEFINE T == S \cup {e}
<1>2. q \in Seq(T) /\ e \in T
    <2>1. q \in [1..Len(q) -> S] /\ Len(q) \in Nat
        BY <1>1
    <2>2. q \in [1..Len(q) -> T]
        BY <2>1
    <2> HIDE DEF T
    <2>3. q \in Seq(T)
        BY <2>1, <2>2, SeqDef, Zenon
    <2> QED
        BY <2>3 DEF T
<1> HIDE DEF T
<1>3. Append(q, e) \in Seq(T)
    BY <1>2
<1> QED
    BY <1>2, <1>3 DEF AnySeq

LEMMA EmptyIsSeq == AnySeq(<< >>)
<1>1. << >> \in Seq({})
    OBVIOUS
<1> QED
    BY <1>1 DEF AnySeq

(***************************************************************************)
(* Where a record is from.  A record of STDIN is a line of a console, and  *)
(* its line stays as it was written.                                       *)
(***************************************************************************)
FromConsole(e, arr) ==
    /\ {"source", "line", "attributes"} \subseteq DOMAIN e.record
    /\ e.from \in 1..Len(arr)
    /\ \E line \in ConsoleLines : arr[e.from] = [console |-> line] /\ e.record.line = line.text

Meant(e, arr) ==
    /\ e = [record |-> e.record, from |-> e.from]
    /\ e.record.source = "stdin" => FromConsole(e, arr)

AllMeant(q, arr) == AnySeq(q) /\ \A i \in 1..Len(q) : Meant(q[i], arr)

\* What arrives later does not change what a record means.
LEMMA MeantLater ==
    ASSUME NEW arr, AnySeq(arr), NEW x, NEW e, Meant(e, arr)
    PROVE  Meant(e, Append(arr, x))
<1> DEFINE later == Append(arr, x)
<1>1. Len(arr) \in Nat /\ Len(later) = Len(arr) + 1 /\ \A i \in 1..Len(arr) : later[i] = arr[i]
    BY AppendAny
<1> HIDE DEF later
<1>2. ASSUME FromConsole(e, arr) PROVE FromConsole(e, later)
    <2>1. e.from \in 1..Len(arr) /\ e.from \in 1..Len(later) /\ later[e.from] = arr[e.from]
        BY <1>1, <1>2 DEF FromConsole
    <2> QED
        BY <1>2, <2>1, Zenon DEF FromConsole
<1>3. Meant(e, later)
    BY <1>2 DEF Meant
<1> QED
    BY <1>3 DEF later

LEMMA AllMeantLater ==
    ASSUME NEW arr, AnySeq(arr), NEW x, NEW q, AllMeant(q, arr)
    PROVE  AllMeant(q, Append(arr, x))
    BY MeantLater DEF AllMeant

\* A record is put into a queue.
LEMMA AllMeantPut ==
    ASSUME NEW arr, NEW q, AllMeant(q, arr), NEW e, Meant(e, arr)
    PROVE  AllMeant(Append(q, e), arr)
<1>1. AnySeq(q)
    BY DEF AllMeant
<1> DEFINE put == Append(q, e)
<1>2. AnySeq(put) /\ Len(q) \in Nat /\ Len(put) = Len(q) + 1 /\ put[Len(q) + 1] = e /\ \A i \in 1..Len(q) : put[i] = q[i]
    BY <1>1, AppendAny
<1> HIDE DEF put
<1>3. ASSUME NEW i \in 1..Len(put) PROVE Meant(put[i], arr)
    <2>1. i \in 1..Len(q) \/ i = Len(q) + 1
        BY <1>2
    <2>2. CASE i \in 1..Len(q)
        BY <1>2, <2>2 DEF AllMeant
    <2>3. CASE i = Len(q) + 1
        BY <1>2, <2>3
    <2> QED
        BY <2>1, <2>2, <2>3
<1>4. AllMeant(put, arr)
    BY <1>2, <1>3 DEF AllMeant
<1> QED
    BY <1>4 DEF put

\* A record which comes from a socket is not from STDIN.
LEMMA FlatSource == ASSUME NEW line, NEW r \in DecodeFlatRecord(line, Now) PROVE r.source = "socket"
<1>1. r = FlatRecord(Parse(line), Now)
    BY DEF DecodeFlatRecord
<1> QED
    BY <1>1 DEF FlatRecord

LEMMA SyslogSource == ASSUME NEW d, NEW r \in DecodeSyslogMessage(d, Now) PROVE r.source = "socket"
<1>1. PICK m : r = SyslogRecord(m, Now)
    BY DEF DecodeSyslogMessage
<1> QED
    BY <1>1 DEF SyslogRecord

LEMMA HandleKeeps ==
    ASSUME NEW arr, AllMeant(queue, arr), NEW records, \A r \in records : r.source = "socket",
           NEW n, Handle(records, n)
    PROVE  AllMeant(queue', arr)
<1>1. CASE queue' = queue
    BY <1>1
<1>2. CASE records # {} /\ queue' = Append(queue, [record |-> CHOOSE r \in records : TRUE, from |-> n])
    <2> DEFINE r == CHOOSE r \in records : TRUE
    <2>1. r \in records
        BY <1>2
    <2> HIDE DEF r
    <2>2. r.source = "socket"
        BY <2>1
    <2>4. Meant([record |-> r, from |-> n], arr)
        BY <2>2 DEF Meant
    <2>3. queue' = Append(queue, [record |-> r, from |-> n])
        BY <1>2 DEF r
    <2> QED
        BY <2>3, <2>4, AllMeantPut
<1> QED
    BY <1>1, <1>2 DEF Handle

(***************************************************************************)
(* The name in the attributes of a record.                                 *)
(***************************************************************************)
\* One of two attributes, or one alone, has a key: its value is found.
LEMMA ValueIs ==
    ASSUME NEW a, NEW b, NEW key, b.key = key, a.key # key
    PROVE  ValueFor(<<b>>, key) = {b.value} /\ ValueFor(<<a, b>>, key) = {b.value}
<1>1. Range(<<b>>) = {b} /\ Range(<<a, b>>) = {a, b}
    <2>1. DOMAIN <<b>> = 1..1 /\ DOMAIN <<a, b>> = 1..2 /\ <<b>>[1] = b /\ <<a, b>>[1] = a /\ <<a, b>>[2] = b
        OBVIOUS
    <2>2. 1..1 = {1} /\ 1..2 = {1, 2}
        OBVIOUS
    <2> QED
        BY <2>1, <2>2 DEF Range
<1>2. {kv \in {b} : kv.key = key} = {b} /\ {kv \in {a, b} : kv.key = key} = {b}
    OBVIOUS
<1> QED
    BY <1>1, <1>2 DEF ValueFor

LEMMA TaskIs ==
    ASSUME NEW r, "attributes" \in DOMAIN r, NEW pid, NEW process
    PROVE  TaskOf(SetStdinAttributes(r, pid, process)) = IF process = "" THEN Unknown ELSE process
<1> DEFINE name == IF process = "" THEN Unknown ELSE process
           id == IntKV("process.pid", pid)
           task == StringKV("domino.task", name)
           kvs == (IF pid > 0 THEN <<id>> ELSE << >>) \o <<task>>
<1>1. SetStdinAttributes(r, pid, process).attributes = kvs
    BY DEF SetStdinAttributes
<1>2. task.key = "domino.task" /\ task.value = [stringValue |-> name] /\ id.key = "process.pid"
    BY DEF StringKV, IntKV, KV
<1> HIDE DEF name, id, task
<1>3. << >> \o <<task>> = <<task>> /\ <<id>> \o <<task>> = <<id, task>>
    <2>1. <<task>> \in Seq({id, task}) /\ <<id>> \in Seq({id, task})
        OBVIOUS
    <2>2. << >> \o <<task>> = <<task>>
        BY <2>1, ConcatEmptySeq, Zenon
    <2>3. <<id>> \o <<task>> = Append(<<id>>, task)
        BY <2>1, AppendIsConcat
    <2>4. Append(<<id>>, task) = <<id, task>>
        <3>1. /\ Append(<<id>>, task) \in Seq({id, task}) /\ Len(Append(<<id>>, task)) = 2
              /\ Append(<<id>>, task)[1] = id /\ Append(<<id>>, task)[2] = task
            OBVIOUS
        <3>2. <<id, task>> \in Seq({id, task}) /\ Len(<<id, task>>) = 2 /\ <<id, task>>[1] = id /\ <<id, task>>[2] = task
            OBVIOUS
        <3>3. \A i \in 1..2 : Append(<<id>>, task)[i] = <<id, task>>[i]
            BY <3>1, <3>2
        <3> QED
            BY <3>1, <3>2, <3>3, SeqEqual, Zenon
    <2> QED
        BY <2>2, <2>3, <2>4
<1>4. kvs = <<task>> \/ kvs = <<id, task>>
    BY <1>3
<1> HIDE DEF kvs
<1>5. ValueFor(kvs, "domino.task") = {[stringValue |-> name]}
    <2>1. ValueFor(<<task>>, "domino.task") = {task.value} /\ ValueFor(<<id, task>>, "domino.task") = {task.value}
        BY <1>2, ValueIs
    <2> QED
        BY <1>2, <1>4, <2>1
<1>6. (CHOOSE v \in ValueFor(kvs, "domino.task") : TRUE) = [stringValue |-> name]
    BY <1>5
<1>7. TaskOf(SetStdinAttributes(r, pid, process)) = name
    <2>1. TaskOf(SetStdinAttributes(r, pid, process)) = [stringValue |-> name].stringValue
        BY <1>1, <1>6, Zenon DEF TaskOf
    <2> QED
        BY <2>1
<1> QED
    BY <1>7 DEF name

(***************************************************************************)
(* The invariant.  A line which is ready has the name of a task which its  *)
(* process had; the last one has no name only if none was known.           *)
(***************************************************************************)
HasName(r) == TaskOf(r) # Unknown => <<ExtractProcessId(r.line), TaskOf(r)>> \in had

HasNoName(r, map, read) ==
    TaskOf(r) = Unknown /\ ExtractProcessId(r.line) \in Pids /\ read = NoReload => map[ExtractProcessId(r.line)] = ""

Named ==
    /\ ready \in 0..Len(batch)
    /\ \A i \in 1..ready : batch[i].record.source = "stdin" => HasName(batch[i].record)
    /\ ready > 0 /\ batch[ready].record.source = "stdin" => HasNoName(batch[ready].record, pidMap, reload)

RecordsInv ==
    /\ NamesInv /\ text \in Seq(Octet)
    /\ AnySeq(arrived) /\ AllMeant(queue, arrived) /\ AllMeant(batch, arrived) /\ Named

LEMMA RecordsInvInit == Init => RecordsInv
<1> SUFFICES ASSUME Init PROVE RecordsInv
    OBVIOUS
<1>1. NamesInv
    BY NamesInvInit DEF Init
<1>2. arrived = << >> /\ queue = << >> /\ batch = << >> /\ ready = 0 /\ text = << >>
    BY DEF Init
<1>3. Len(<< >>) = 0 /\ << >> \in Seq(Octet)
    OBVIOUS
<1>4. AllMeant(<< >>, << >>)
    BY <1>3, EmptyIsSeq DEF AllMeant
<1>5. Named
    BY <1>2, <1>3 DEF Named
<1> QED
    BY <1>1, <1>2, <1>3, <1>4, <1>5, EmptyIsSeq, Zenon DEF RecordsInv

(***************************************************************************)
(* The producers.                                                          *)
(***************************************************************************)
LEMMA NamesStay == ASSUME NamesInv, UNCHANGED nameVars PROVE NamesInv'
<1>1. UNCHANGED <<running, had, files, change, pidMap, seen, reload, missed>>
    BY DEF nameVars
<1>2. NamesType'
    BY <1>1 DEF NamesInv, NamesType
<1>3. AllAreHad'
    BY <1>1 DEF NamesInv, AllAreHad, AreHad
<1>4. Fresh'
    BY <1>1 DEF NamesInv, Fresh, Knows, Stat
<1> QED
    BY <1>2, <1>3, <1>4 DEF NamesInv

\* What is ready keeps its name while the push thread reads no file.
LEMMA NamedStays ==
    ASSUME Named, UNCHANGED <<batch, ready>>, had \subseteq had',
           reload' = NoReload => reload = NoReload /\ pidMap' = pidMap
    PROVE  Named'
<1>1. \A i \in 1..ready : batch[i].record.source = "stdin" => HasName(batch[i].record)'
    BY DEF Named, HasName
<1>2. ready > 0 /\ batch[ready].record.source = "stdin" => HasNoName(batch'[ready'].record, pidMap', reload')
    BY DEF Named, HasNoName
<1> QED
    BY <1>1, <1>2 DEF Named

\* More may have arrived.
Arrived == arrived' = arrived \/ \E x : arrived' = Append(arrived, x)

LEMMA ArrivedKeeps ==
    ASSUME AnySeq(arrived), Arrived, NEW q, AllMeant(q, arrived)
    PROVE  AnySeq(arrived') /\ AllMeant(q, arrived')
<1>1. CASE arrived' = arrived
    BY <1>1
<1>2. CASE \E x : arrived' = Append(arrived, x)
    BY <1>2, AppendAny, AllMeantLater
<1> QED
    BY <1>1, <1>2 DEF Arrived

LEMMA InputKeeps ==
    ASSUME RecordsInv, UNCHANGED <<nameVars, batch, ready>>, text' \in Seq(Octet), Arrived,
           AllMeant(queue, arrived') => AllMeant(queue', arrived')
    PROVE  RecordsInv'
<1>1. NamesInv'
    BY NamesStay DEF RecordsInv
<1>2. AnySeq(arrived') /\ AllMeant(queue, arrived') /\ AllMeant(batch, arrived')
    BY ArrivedKeeps DEF RecordsInv
<1>3. Named'
    BY NamedStays DEF RecordsInv, nameVars
<1> QED
    BY <1>1, <1>2, <1>3 DEF RecordsInv

LEMMA HandleLineKeeps ==
    ASSUME RecordsInv, NEW line, NEW from, IngestHandleLine(line, from)
    PROVE  RecordsInv'
<1>1. UNCHANGED <<nameVars, batch, ready>> /\ UNCHANGED text /\ arrived' = Append(arrived, from)
      /\ Handle(DecodeFlatRecord(line, Now), Len(arrived'))
    BY DEF IngestHandleLine, Arrives
<1>2. AllMeant(queue, arrived') => AllMeant(queue', arrived')
    BY <1>1, FlatSource, HandleKeeps
<1>3. text' \in Seq(Octet) /\ Arrived
    BY <1>1 DEF RecordsInv, Arrived
<1> QED
    BY <1>1, <1>2, <1>3, InputKeeps

LEMMA SyslogKeeps == ASSUME RecordsInv, SyslogThread PROVE RecordsInv'
<1>1. UNCHANGED <<nameVars, batch, ready>> /\ UNCHANGED <<text, arrived>>
    BY DEF SyslogThread
<1>2. ASSUME AllMeant(queue, arrived') PROVE AllMeant(queue', arrived')
    <2>1. queue' = queue \/ \E d, n : Handle({}, n) \/ Handle(DecodeSyslogMessage(d, Now), n)
        BY DEF SyslogThread
    <2>2. CASE queue' = queue
        BY <1>2, <2>2
    <2>3. ASSUME NEW d, NEW n, Handle({}, n) \/ Handle(DecodeSyslogMessage(d, Now), n) PROVE AllMeant(queue', arrived')
        BY <1>2, <2>3, SyslogSource, HandleKeeps
    <2> QED
        BY <2>1, <2>2, <2>3
<1>3. text' \in Seq(Octet) /\ Arrived
    BY <1>1 DEF RecordsInv, Arrived
<1> QED
    BY <1>1, <1>2, <1>3, InputKeeps

\* A line of the console is what its record means.
LEMMA ConsoleKeeps == ASSUME RecordsInv, NEW line \in ConsoleLines, ConsoleWrites(line) PROVE RecordsInv'
<1> DEFINE r == [EmptyRecord EXCEPT !.time = Now, !.line = line.text]
           e == [from |-> Len(arrived'), record |-> r]
<1>1. UNCHANGED <<nameVars, batch, ready>> /\ UNCHANGED text /\ arrived' = Append(arrived, [console |-> line])
      /\ queue' = Append(queue, e)
    BY DEF ConsoleWrites, Arrives
<1>2. Meant(e, arrived')
    <2>1. r.line = line.text /\ r.source = "stdin" /\ {"source", "line", "attributes"} \subseteq DOMAIN r
        BY DEF EmptyRecord
    <2>2. Len(arrived) \in Nat /\ Len(arrived') = Len(arrived) + 1 /\ arrived'[Len(arrived')] = [console |-> line]
        BY <1>1, AppendAny DEF RecordsInv
    <2> HIDE DEF r
    <2>3. e.record = r /\ e.from = Len(arrived') /\ e = [record |-> e.record, from |-> e.from]
        OBVIOUS
    <2>4. e.from \in 1..Len(arrived')
        BY <2>2, <2>3
    <2> HIDE DEF e
    <2>5. FromConsole(e, arrived')
        BY <2>1, <2>2, <2>3, <2>4 DEF FromConsole
    <2> QED
        BY <2>3, <2>5 DEF Meant
<1> HIDE DEF e
<1>3. AllMeant(queue, arrived') => AllMeant(queue', arrived')
    BY <1>1, <1>2, AllMeantPut
<1>4. text' \in Seq(Octet) /\ Arrived
    BY <1>1 DEF RecordsInv, Arrived
<1> QED
    BY <1>1, <1>3, <1>4, InputKeeps

LEMMA ByteKeeps == ASSUME RecordsInv, NEW b \in Bytes, ByteArrives(b) PROVE RecordsInv'
<1>1. UNCHANGED <<nameVars, batch, ready>> /\ UNCHANGED <<queue, arrived>> /\ text' = Append(text, b)
    BY DEF ByteArrives
<1>2. text' \in Seq(Octet) /\ Arrived
    BY <1>1, RecordsAssumption DEF RecordsInv, Arrived, Octet
<1> QED
    BY <1>1, <1>2, InputKeeps

(***************************************************************************)
(* The server and the push thread.                                         *)
(***************************************************************************)
LEMMA WaysStay ==
    ASSUME RecordsInv, UNCHANGED <<text, arrived, queue>>, NamesInv', AllMeant(batch', arrived'), Named'
    PROVE  RecordsInv'
    BY DEF RecordsInv

LEMMA ServerActsKeeps == ASSUME RecordsInv, ServerActs PROVE RecordsInv'
<1>1. /\ UNCHANGED <<text, arrived, queue, batch, ready>>
      /\ (\E p \in Pids, t \in Tasks : StartProcess(p, t)) \/ ReplaceFile \/ EmptyFile \/ WriteFile
    BY DEF ServerActs, inputVars
<1>2. NamesInv' /\ had \subseteq had' /\ UNCHANGED <<reload, pidMap>>
    <2>1. CASE \E p \in Pids, t \in Tasks : StartProcess(p, t)
        BY <2>1, StartKeeps DEF RecordsInv, StartProcess
    <2>2. CASE ReplaceFile \/ EmptyFile \/ WriteFile
        BY <2>2, ServerKeeps DEF RecordsInv, ReplaceFile, EmptyFile, WriteFile
    <2> QED
        BY <1>1, <2>1, <2>2
<1>3. Named'
    BY <1>1, <1>2, NamedStays DEF RecordsInv
<1> QED
    BY <1>1, <1>2, <1>3, WaysStay DEF RecordsInv

\* Nothing of the next batch is ready.
LEMMA NothingIsReady == ASSUME AnySeq(batch'), ready' = 0 PROVE Named'
<1>1. Len(batch') \in Nat
    BY AppendAny
<1> QED
    BY <1>1 DEF Named

LEMMA PopKeeps == ASSUME RecordsInv, PopBatch PROVE RecordsInv'
<1>1. UNCHANGED <<nameVars, text, arrived>> /\ batch' = queue /\ queue' = << >> /\ ready' = 0
    BY DEF PopBatch, inputVars
<1>2. NamesInv'
    BY <1>1, NamesStay DEF RecordsInv
<1>3. AllMeant(batch', arrived') /\ AnySeq(batch')
    BY <1>1 DEF RecordsInv, AllMeant
<1>4. Named'
    BY <1>1, <1>3, NothingIsReady
<1>5. AllMeant(queue', arrived')
    <2>1. Len(<< >>) = 0
        OBVIOUS
    <2> QED
        BY <1>1, <2>1, EmptyIsSeq DEF AllMeant
<1> QED
    BY <1>1, <1>2, <1>3, <1>4, <1>5 DEF RecordsInv

LEMMA PushKeeps == ASSUME RecordsInv, PushBatch PROVE RecordsInv'
<1>1. UNCHANGED <<nameVars, text, arrived, queue>> /\ batch' = << >> /\ ready' = 0
    BY DEF PushBatch, inputVars
<1>2. NamesInv'
    BY <1>1, NamesStay DEF RecordsInv
<1>3. AllMeant(batch', arrived') /\ AnySeq(batch')
    <2>1. Len(<< >>) = 0
        OBVIOUS
    <2> QED
        BY <1>1, <2>1, EmptyIsSeq DEF AllMeant
<1>4. Named'
    BY <1>1, <1>3, NothingIsReady
<1> QED
    BY <1>1, <1>2, <1>3, <1>4, WaysStay

LEMMA ReloadKeeps == ASSUME RecordsInv, ReloadNames PROVE RecordsInv'
<1>1. UNCHANGED <<text, arrived, queue, batch, ready>> /\ (OpenPidFile \/ StatPidFile \/ ReadPidFile)
    BY DEF ReloadNames, pushOnly, inputVars
<1>2. NamesInv'
    BY <1>1, OtherKeeps, StatKeeps, ReadKeeps DEF RecordsInv
<1>3. had' = had /\ reload' # NoReload
    <2>1. CASE OpenPidFile
        BY <2>1 DEF OpenPidFile, NoReload
    <2>2. CASE StatPidFile
        BY <2>2 DEF StatPidFile, NoReload, RecordsInv, NamesInv, NamesType
    <2>3. CASE ReadPidFile
        BY <2>3 DEF ReadPidFile, NoReload, RecordsInv, NamesInv, NamesType
    <2> QED
        BY <1>1, <2>1, <2>2, <2>3
<1>4. Named'
    BY <1>1, <1>3, NamedStays DEF RecordsInv
<1> QED
    BY <1>1, <1>2, <1>4, WaysStay DEF RecordsInv

\* A record which is ready takes the place of the one which was not.
LEMMA ReadyIs ==
    ASSUME RecordsInv, ready < Len(batch), NEW record, Ready(record)
    PROVE  /\ ready + 1 \in 1..Len(batch) /\ ready \in Nat /\ ready' = ready + 1
           /\ batch[ready + 1] = [record |-> Current, from |-> batch[ready + 1].from]
           /\ batch'[ready + 1] = [record |-> record, from |-> batch[ready + 1].from]
           /\ AnySeq(batch') /\ Len(batch') = Len(batch)
           /\ \A i \in 1..Len(batch) : i # ready + 1 => batch'[i] = batch[i]
<1>1. AnySeq(batch) /\ ready \in 0..Len(batch)
    BY DEF RecordsInv, AllMeant, Named
<1>2. Len(batch) \in Nat /\ DOMAIN batch = 1..Len(batch)
    BY <1>1, LenProperties DEF AnySeq
<1>3. ready + 1 \in 1..Len(batch) /\ ready \in Nat
    BY <1>1, <1>2
<1>4. batch[ready + 1] = [record |-> Current, from |-> batch[ready + 1].from]
    BY <1>3, Zenon DEF RecordsInv, AllMeant, Meant, Current
<1> DEFINE e == [record |-> record, from |-> batch[ready + 1].from]
<1>5. batch' = [batch EXCEPT ![ready + 1] = e] /\ ready' = ready + 1
    <2>1. [batch[ready + 1] EXCEPT !.record = record] = e
        BY <1>4
    <2> QED
        BY <2>1 DEF Ready
<1> HIDE DEF e
<1>6. batch'[ready + 1] = e /\ DOMAIN batch' = 1..Len(batch)
      /\ \A i \in 1..Len(batch) : i # ready + 1 => batch'[i] = batch[i]
    BY <1>2, <1>3, <1>5
<1>7. AnySeq(batch') /\ Len(batch') = Len(batch)
    <2>1. PICK S : batch \in Seq(S)
        BY <1>1 DEF AnySeq
    <2> DEFINE T == S \cup {e}
    <2>2. batch \in [1..Len(batch) -> S]
        BY <1>2, <2>1
    <2>3. batch \in [1..Len(batch) -> T]
        BY <2>2
    <2> HIDE DEF T
    <2>4. batch \in Seq(T)
        BY <1>2, <2>3, SeqDef, Zenon
    <2>5. e \in T
        BY DEF T
    <2> DEFINE k == ready + 1
    <2>6. k \in 1..Len(batch) /\ batch' = [batch EXCEPT ![k] = e]
        BY <1>3, <1>5
    <2> HIDE DEF k
    <2>7. [batch EXCEPT ![k] = e] \in Seq(T) /\ Len([batch EXCEPT ![k] = e]) = Len(batch)
        BY <2>4, <2>5, <2>6, ExceptSeq
    <2>8. batch' \in Seq(T) /\ Len(batch') = Len(batch)
        BY <2>6, <2>7, Zenon
    <2> QED
        BY <2>8 DEF AnySeq
<1> QED
    BY <1>3, <1>4, <1>5, <1>6, <1>7 DEF e

LEMMA ReadyKeeps ==
    ASSUME RecordsInv, NamesInv', UNCHANGED <<had, text, arrived, queue>>, ready < Len(batch), NEW record, Ready(record),
           NEW from, from = batch[ready + 1].from, Meant([record |-> record, from |-> from], arrived),
           record.source = "stdin" => HasName(record) /\ HasNoName(record, pidMap', reload')
    PROVE  RecordsInv'
<1> DEFINE e == [record |-> record, from |-> from]
<1>1. /\ ready + 1 \in 1..Len(batch) /\ ready \in Nat /\ ready' = ready + 1 /\ batch'[ready + 1] = e
      /\ AnySeq(batch') /\ Len(batch') = Len(batch)
      /\ \A i \in 1..Len(batch) : i # ready + 1 => batch'[i] = batch[i]
    BY ReadyIs
<1>2. Meant(e, arrived) /\ e.record = record
    OBVIOUS
<1> HIDE DEF e
<1>3. Len(batch) \in Nat
    BY AppendAny DEF RecordsInv, AllMeant
<1>4. \A i \in 1..Len(batch) : Meant(batch'[i], arrived')
    BY <1>1, <1>2 DEF RecordsInv, AllMeant
<1>5. AllMeant(batch', arrived')
    BY <1>1, <1>4 DEF AllMeant
<1>6. ready' \in 0..Len(batch')
    BY <1>1, <1>3
<1>7. ASSUME NEW i \in 1..ready', batch'[i].record.source = "stdin" PROVE HasName(batch'[i].record)
    <2>1. i \in 1..Len(batch) /\ (i = ready + 1 \/ i \in 1..ready)
        BY <1>1, <1>3
    <2>2. CASE i = ready + 1
        BY <1>1, <1>2, <1>7, <2>2
    <2>3. CASE i \in 1..ready /\ i # ready + 1
        BY <1>1, <1>7, <2>1, <2>3 DEF RecordsInv, Named
    <2> QED
        BY <2>1, <2>2, <2>3
<1>8. ASSUME NEW r PROVE HasName(r)' <=> HasName(r)
    BY DEF HasName
<1>9. batch'[ready'].record = record
    BY <1>1, <1>2
<1>10. batch'[ready'].record.source = "stdin" => HasNoName(batch'[ready'].record, pidMap', reload')
    BY <1>9
<1>11. Named'
    <2>1. \A i \in 1..ready' : batch'[i].record.source = "stdin" => HasName(batch[i].record)'
        BY <1>7 DEF HasName
    <2> QED
        BY <1>6, <1>10, <2>1 DEF Named
<1> QED
    BY <1>5, <1>11, WaysStay

LEMMA RecordIsReadyKeeps == ASSUME RecordsInv, RecordIsReady PROVE RecordsInv'
<1> DEFINE from == batch[ready + 1].from
           p == CurrentPid
           name == GetProcessNameFromMap(pidMap, p)
           record == SetStdinAttributes(Current, p, name)
<1>1. ready < Len(batch) /\ UNCHANGED <<text, arrived, queue>>
    BY DEF RecordIsReady, pushOnly, inputVars
<1>2. Meant([record |-> Current, from |-> from], arrived)
    <2>1. AnySeq(batch) /\ ready \in 0..Len(batch)
        BY DEF RecordsInv, AllMeant, Named
    <2>2. Len(batch) \in Nat
        BY <2>1, AppendAny
    <2>3. ready + 1 \in 1..Len(batch)
        BY <1>1, <2>1, <2>2
    <2>4. Meant(batch[ready + 1], arrived)
        BY <2>3 DEF RecordsInv, AllMeant
    <2>5. batch[ready + 1] = [record |-> Current, from |-> from]
        BY <2>4, Zenon DEF Meant, Current
    <2> QED
        BY <2>4, <2>5
<1>3. CASE Current.source # "stdin" /\ Ready(Current) /\ UNCHANGED nameVars
    <2>1. NamesInv' /\ had' = had
        BY <1>3, NamesStay DEF RecordsInv, nameVars
    <2> HIDE DEF from
    <2> QED
        BY <1>1, <1>2, <1>3, <2>1, ReadyKeeps DEF from
<1>4. CASE Current.source = "stdin" /\ TakeName(p) /\ Ready(record)
    <2>1. NamesInv' /\ UNCHANGED <<had, pidMap>>
        BY <1>4, OtherKeeps DEF RecordsInv, TakeName
    <2>2. /\ {"source", "line", "attributes"} \subseteq DOMAIN Current /\ from \in 1..Len(arrived)
          /\ \E line \in ConsoleLines : arrived[from] = [console |-> line] /\ Current.line = line.text
        BY <1>2, <1>4 DEF Meant, FromConsole
    <2>3. record.source = "stdin" /\ record.line = Current.line /\ DOMAIN record = DOMAIN Current
        BY <1>4, <2>2 DEF SetStdinAttributes
    <2>4. TaskOf(record) = IF name = "" THEN Unknown ELSE name
        BY <2>2, TaskIs
    <2>5. p = ExtractProcessId(record.line)
        BY <2>3 DEF CurrentPid
    <2> HIDE DEF record, from, p
    <2>6. Meant([record |-> record, from |-> from], arrived)
        BY <2>2, <2>3 DEF Meant, FromConsole
    <2>7. ASSUME name # "" PROVE p \in Pids /\ <<p, name>> \in had /\ name # Unknown
        <3>1. p \in Pids /\ name = pidMap[p]
            BY <2>7 DEF GetProcessNameFromMap
        <3>2. <<p, name>> \in had
            BY <2>7, <3>1 DEF RecordsInv, NamesInv, AllAreHad, AreHad
        <3>3. pidMap[p] \in Tasks \cup {""}
            BY <3>1 DEF RecordsInv, NamesInv, NamesType, Maps
        <3> QED
            BY <2>7, <3>1, <3>2, <3>3, RecordsAssumption
    <2>8. HasName(record)
        BY <2>4, <2>5, <2>7 DEF HasName
    <2>9. TaskOf(record) = Unknown /\ p \in Pids => pidMap'[p] = ""
        BY <2>1, <2>4, <2>7 DEF GetProcessNameFromMap
    <2>10. HasNoName(record, pidMap', reload')
        BY <2>5, <2>9 DEF HasNoName
    <2>11. from = batch[ready + 1].from
        BY DEF from
    <2> QED
        BY <1>1, <1>4, <2>1, <2>6, <2>8, <2>10, <2>11, ReadyKeeps
<1> QED
    BY <1>3, <1>4 DEF RecordIsReady

(***************************************************************************)
(* The theorems.                                                           *)
(***************************************************************************)
LEMMA StutterKeeps == ASSUME RecordsInv, UNCHANGED vars PROVE RecordsInv'
<1>1. UNCHANGED <<nameVars, batch, ready>> /\ UNCHANGED <<text, arrived, queue>>
    BY DEF vars, inputVars
<1>2. text' \in Seq(Octet) /\ Arrived
    BY <1>1 DEF RecordsInv, Arrived
<1> QED
    BY <1>1, <1>2, InputKeeps

\* Every step: of the producers, of the server and of the push thread
LEMMA NextKeeps == ASSUME RecordsInv, Next PROVE RecordsInv'
<1>1. CASE \E c \in MailCalls : MailProgramCalls(c)
    <2>1. UNCHANGED <<nameVars, batch, ready>> /\ UNCHANGED <<text, arrived, queue>>
        BY <1>1 DEF MailProgramCalls, inputVars
    <2>2. text' \in Seq(Octet) /\ Arrived
        BY <2>1 DEF RecordsInv, Arrived
    <2> QED
        BY <2>1, <2>2, InputKeeps
<1>2. CASE MailProgramSends \/ \E line \in FlatLines : ProgramWrites(line)
    <2>1. \E line, from : IngestHandleLine(line, from)
        BY <1>2 DEF MailProgramSends, ProgramWrites
    <2> QED
        BY <2>1, HandleLineKeeps
<1>3. CASE (\E m \in Messages : SyslogSends(m)) \/ (\E v \in WalRequests : WalHolds(v))
    <2>1. UNCHANGED <<nameVars, batch, ready>> /\ UNCHANGED <<text, queue>> /\ \E x : arrived' = Append(arrived, x)
        BY <1>3 DEF SyslogSends, WalHolds, Arrives
    <2>2. text' \in Seq(Octet) /\ Arrived
        BY <2>1 DEF RecordsInv, Arrived
    <2> QED
        BY <2>1, <2>2, InputKeeps
<1>4. CASE SyslogThread
    BY <1>4, SyslogKeeps
<1>5. CASE SyslogThreadEnds
    <2>1. UNCHANGED <<nameVars, batch, ready>> /\ UNCHANGED <<text, arrived, queue>>
        BY <1>5 DEF SyslogThreadEnds
    <2>2. text' \in Seq(Octet) /\ Arrived
        BY <2>1 DEF RecordsInv, Arrived
    <2> QED
        BY <2>1, <2>2, InputKeeps
<1>6. CASE \E line \in ConsoleLines : ConsoleWrites(line)
    BY <1>6, ConsoleKeeps
<1>7. CASE \E b \in Bytes : ByteArrives(b)
    BY <1>7, ByteKeeps
<1>8. CASE ServerActs
    BY <1>8, ServerActsKeeps
<1>9. CASE PopBatch \/ PushBatch
    BY <1>9, PopKeeps, PushKeeps
<1>10. CASE RecordIsReady
    BY <1>10, RecordIsReadyKeeps
<1>11. CASE ReloadNames
    BY <1>11, ReloadKeeps
<1> QED
    BY <1>1, <1>2, <1>3, <1>4, <1>5, <1>6, <1>7, <1>8, <1>9, <1>10, <1>11 DEF Next

\* Where a record is from, the names of the processes and the names of the lines which are
\* ready are as they should be between any two steps (otelfwd.cpp:664 LoadPidMap, 754
\* GetProcessName).
THEOREM RecordsInvariant == Spec => []RecordsInv
<1>1. ASSUME RecordsInv, [Next]_vars PROVE RecordsInv'
    BY <1>1, NextKeeps, StutterKeeps
<1> QED
    BY <1>1, RecordsInvInit, PTL DEF Spec

\* The names which are known are true, and all of the names of a file which did not change
\* after it was looked at.
LEMMA InvImpliesNamesAreKnown == RecordsInv => NamesAreKnown
<1> SUFFICES ASSUME RecordsInv PROVE NamesAreKnown
    OBVIOUS
<1>1. AreHad(pidMap)
    BY DEF RecordsInv, NamesInv, AllAreHad
<1>2. files # << >> /\ ~missed /\ seen = Stat /\ reload = NoReload => Knows(pidMap, files[Len(files)])
    BY DEF RecordsInv, NamesInv, Fresh, NoReload
<1> QED
    BY <1>1, <1>2 DEF NamesAreKnown

\* Every name of a process which the push thread knows is one which the process had, and
\* between two looks at the file its names are known (otelfwd.cpp:664 LoadPidMap).
THEOREM NamesAreKnownHolds == Spec => []NamesAreKnown
    BY RecordsInvariant, InvImpliesNamesAreKnown, PTL

LEMMA InvImpliesProcessesAreNamed == IdsAreRead /\ RecordsInv => ProcessesAreNamed
<1> SUFFICES ASSUME IdsAreRead, RecordsInv PROVE ProcessesAreNamed
    OBVIOUS
<1> DEFINE Line(i) == batch[i].record
           Id(i) == arrived[batch[i].from].console.pid
           Current1(i) == /\ i = ready /\ TaskOf(Line(i)) = Unknown /\ Id(i) \in Pids
                          /\ files # << >> /\ ~missed /\ seen = Stat /\ reload = NoReload
<1>1. NamesAreKnown
    BY InvImpliesNamesAreKnown
<1>2. ASSUME NEW i \in 1..ready, Line(i).source = "stdin"
      PROVE  Id(i) = ExtractProcessId(Line(i).line)
    <2>1. AnySeq(batch) /\ ready \in 0..Len(batch)
        BY DEF RecordsInv, AllMeant, Named
    <2>2. Len(batch) \in Nat
        BY <2>1, AppendAny
    <2>3. i \in 1..Len(batch)
        BY <2>1, <2>2
    <2>4. FromConsole(batch[i], arrived)
        BY <1>2, <2>3 DEF RecordsInv, AllMeant, Meant
    <2>5. PICK line \in ConsoleLines : arrived[batch[i].from] = [console |-> line] /\ Line(i).line = line.text
        BY <2>4 DEF FromConsole
    <2>6. Id(i) = line.pid
        BY <2>5
    <2> QED
        BY <2>5, <2>6 DEF IdsAreRead
<1>3. ASSUME NEW i \in 1..ready, Line(i).source = "stdin", TaskOf(Line(i)) # Unknown
      PROVE  <<Id(i), TaskOf(Line(i))>> \in had
    <2>1. HasName(Line(i))
        BY <1>3 DEF RecordsInv, Named
    <2> QED
        BY <1>2, <1>3, <2>1 DEF HasName
<1>4. ASSUME NEW i \in 1..ready, Line(i).source = "stdin", Current1(i)
      PROVE  files[Len(files)][Id(i)] = ""
    <2>1. HasNoName(Line(i), pidMap, reload)
        BY <1>4 DEF RecordsInv, Named
    <2>2. pidMap[Id(i)] = ""
        BY <1>2, <1>4, <2>1 DEF HasNoName
    <2>3. Knows(pidMap, files[Len(files)])
        BY <1>1, <1>4 DEF NamesAreKnown
    <2> QED
        BY <1>4, <2>2, <2>3 DEF Knows
<1> QED
    BY <1>1, <1>3, <1>4, Zenon DEF ProcessesAreNamed

\* A line of a console has the name of a task which its process had, and it has a name if the
\* file names the process (otelfwd.cpp:664 LoadPidMap, 754 GetProcessName).
THEOREM ProcessesAreNamedHolds == IdsAreRead /\ Spec => []ProcessesAreNamed
<1>1. IdsAreRead => [](RecordsInv => ProcessesAreNamed)
    <2> SUFFICES ASSUME IdsAreRead PROVE [](RecordsInv => ProcessesAreNamed)
        OBVIOUS
    <2>1. RecordsInv => ProcessesAreNamed
        BY InvImpliesProcessesAreNamed
    <2> QED
        BY <2>1, PTL
<1> QED
    BY <1>1, RecordsInvariant, PTL

\* A text of any bytes becomes UTF-8 (otelfwd.cpp:782 ToValidUtf8).
LEMMA InvImpliesTextIsValid == RecordsInv => TextIsValid
    BY Utf8Is DEF RecordsInv, TextIsValid

THEOREM TextIsValidHolds == Spec => []TextIsValid
    BY RecordsInvariant, InvImpliesTextIsValid, PTL
=============================================================================
