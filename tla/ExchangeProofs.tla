---------------------------- MODULE ExchangeProofs ----------------------------
(***************************************************************************)
(* Theorems about the checksum of Crc, for every byte string, and about    *)
(* Exchange on a serial line, for any requests, registers and noise.       *)
(***************************************************************************)
EXTENDS MCExchange, CodecProofs

-------------------------------------------------------------------------------
(* Exclusive or. *)

(* The bit of weight w of a nibble, and the nibble of four bits. *)
Bit(a, w) == (a \div w) % 2
Sum(x1, x2, x4, x8) == x1 + 2 * x2 + 4 * x4 + 8 * x8

(* A nibble is its bits. *)
LEMMA Bits == \A a \in 0..15 :
    /\ Bit(a, 1) \in 0..1 /\ Bit(a, 2) \in 0..1 /\ Bit(a, 4) \in 0..1 /\ Bit(a, 8) \in 0..1
    /\ a = Sum(Bit(a, 1), Bit(a, 2), Bit(a, 4), Bit(a, 8))
BY SMT DEF Bit, Sum

(* The bits of a sum are its terms. *)
LEMMA BitsOfSum == \A x1, x2, x4, x8 \in 0..1 :
    LET a == Sum(x1, x2, x4, x8)
    IN  /\ a \in 0..15
        /\ Bit(a, 1) = x1 /\ Bit(a, 2) = x2 /\ Bit(a, 4) = x4 /\ Bit(a, 8) = x8
BY SMT DEF Bit, Sum

(* The table of exclusive or adds bit by bit. *)
LEMMA NibbleXorBits == \A a, b \in 0..15 :
    NibbleXor[a][b] = Sum((Bit(a, 1) + Bit(b, 1)) % 2, (Bit(a, 2) + Bit(b, 2)) % 2,
                          (Bit(a, 4) + Bit(b, 4)) % 2, (Bit(a, 8) + Bit(b, 8)) % 2)
BY SMT DEF NibbleXor, Bit, Sum

(* Adding a bit twice changes nothing. *)
LEMMA XorOfBits == \A x, y \in 0..1 : /\ (x + y) % 2 \in 0..1
                                 /\ (x + ((x + y) % 2)) % 2 = y
                                 /\ (((x + y) % 2) + y) % 2 = x
                                 /\ (0 + y) % 2 = y
BY SMT

(* Exclusive or of nibbles is undone by either argument. *)
LEMMA NibbleCancel == \A a, b \in 0..15 :
    /\ NibbleXor[a][b] \in 0..15
    /\ NibbleXor[a][NibbleXor[a][b]] = b
    /\ NibbleXor[NibbleXor[a][b]][b] = a
    /\ NibbleXor[0][b] = b
<1> SUFFICES ASSUME NEW a \in 0..15, NEW b \in 0..15
             PROVE  /\ NibbleXor[a][b] \in 0..15
                    /\ NibbleXor[a][NibbleXor[a][b]] = b
                    /\ NibbleXor[NibbleXor[a][b]][b] = a
                    /\ NibbleXor[0][b] = b
  OBVIOUS
<1> DEFINE x(w) == (Bit(a, w) + Bit(b, w)) % 2
<1> DEFINE c == Sum(x(1), x(2), x(4), x(8))
<1>1. NibbleXor[a][b] = c
  BY NibbleXorBits
<1>2. x(1) \in 0..1 /\ x(2) \in 0..1 /\ x(4) \in 0..1 /\ x(8) \in 0..1
  BY Bits, XorOfBits
<1>3. c \in 0..15 /\ Bit(c, 1) = x(1) /\ Bit(c, 2) = x(2) /\ Bit(c, 4) = x(4) /\ Bit(c, 8) = x(8)
  <2> HIDE DEF x
  <2> QED BY <1>2, BitsOfSum
<1> HIDE DEF c
<1>4. NibbleXor[a][c] = b
  <2>1. NibbleXor[a][c] = Sum((Bit(a, 1) + x(1)) % 2, (Bit(a, 2) + x(2)) % 2,
                          (Bit(a, 4) + x(4)) % 2, (Bit(a, 8) + x(8)) % 2)
    BY <1>3, NibbleXorBits
  <2>2. NibbleXor[a][c] = Sum(Bit(b, 1), Bit(b, 2), Bit(b, 4), Bit(b, 8))
    BY <2>1, Bits, XorOfBits
  <2> QED BY <2>2, Bits
<1>5. NibbleXor[c][b] = a
  <2>1. NibbleXor[c][b] = Sum((x(1) + Bit(b, 1)) % 2, (x(2) + Bit(b, 2)) % 2,
                          (x(4) + Bit(b, 4)) % 2, (x(8) + Bit(b, 8)) % 2)
    BY <1>3, NibbleXorBits
  <2>2. NibbleXor[c][b] = Sum(Bit(a, 1), Bit(a, 2), Bit(a, 4), Bit(a, 8))
    BY <2>1, Bits, XorOfBits
  <2> QED BY <2>2, Bits
<1>6. NibbleXor[0][b] = b
  <2>1. Bit(0, 1) = 0 /\ Bit(0, 2) = 0 /\ Bit(0, 4) = 0 /\ Bit(0, 8) = 0
    BY SMT DEF Bit
  <2>2. NibbleXor[0][b] = Sum(Bit(b, 1), Bit(b, 2), Bit(b, 4), Bit(b, 8))
    <3>1. 0 \in 0..15 OBVIOUS
    <3> QED BY <2>1, <3>1, Bits, XorOfBits, NibbleXorBits
  <2> QED BY <2>2, Bits
<1> QED BY <1>1, <1>3, <1>4, <1>5, <1>6

(* The nibbles under a name, which the provers do not write out. *)
Nibble == 0..15

(* A nibble is a natural number up to 15. *)
LEMMA NibbleIff == \A x : x \in Nibble <=> x \in Nat /\ x <= 15
<1>1. \A m : m = 15 => m \in Nat /\ Nibble = 0..m
  BY SMT DEF Nibble
<1>2. \A m \in Nat : Nibble = 0..m => \A w : (w \in Nibble <=> w \in Nat /\ w <= m)
  BY SMT
<1>3. \A m : m = 15 => \A w : (w \in Nibble <=> w \in Nat /\ w <= m)
  BY <1>1, <1>2, SMT
<1> QED BY <1>3, SMT

(* NibbleCancel for the named set. *)
LEMMA NibbleFacts == \A x, y \in Nibble :
    /\ NibbleXor[x][y] \in Nibble
    /\ NibbleXor[x][NibbleXor[x][y]] = y
    /\ NibbleXor[NibbleXor[x][y]][y] = x
    /\ NibbleXor[0][y] = y
BY NibbleCancel, Zenon DEF Nibble

(* A byte is its two nibbles, a word its two bytes. *)
LEMMA SplitByte == \A x \in Nat : x <= 255 =>
    /\ x \div 16 \in Nat /\ x \div 16 <= 15 /\ x % 16 \in Nat /\ x % 16 <= 15
    /\ x = 16 * (x \div 16) + (x % 16)
BY SMT

LEMMA JoinByte == \A h, l \in Nat : h <= 15 /\ l <= 15 =>
    /\ 16 * h + l \in Nat /\ 16 * h + l <= 255
    /\ (16 * h + l) \div 16 = h /\ (16 * h + l) % 16 = l
BY SMT

(* Exclusive or of bytes is undone by either argument. *)
LEMMA ByteCancel == \A a, b \in Byte :
    /\ ByteXor(a, b) \in Byte
    /\ ByteXor(a, ByteXor(a, b)) = b
    /\ ByteXor(ByteXor(a, b), b) = a
    /\ ByteXor(0, b) = b /\ ByteXor(b, 0) = b
<1> SUFFICES ASSUME NEW a \in Byte, NEW b \in Byte
             PROVE  /\ ByteXor(a, b) \in Byte
                    /\ ByteXor(a, ByteXor(a, b)) = b
                    /\ ByteXor(ByteXor(a, b), b) = a
                    /\ ByteXor(0, b) = b /\ ByteXor(b, 0) = b
  OBVIOUS
<1> DEFINE N(x, y) == NibbleXor[x][y]
<1>1. \A x \in Byte : x \div 16 \in Nibble /\ x % 16 \in Nibble /\ x = 16 * (x \div 16) + (x % 16)
  BY SplitByte, ByteIff, NibbleIff, Zenon
<1>2. \A h, l \in Nibble : 16 * h + l \in Byte /\ (16 * h + l) \div 16 = h /\ (16 * h + l) % 16 = l
  BY JoinByte, ByteIff, NibbleIff, Zenon
<1>3. \A x, y \in Nibble : N(x, y) \in Nibble /\ N(x, N(x, y)) = y /\ N(N(x, y), y) = x
                          /\ N(0, y) = y /\ N(y, 0) = y
  <2>0. 0 \in Nibble
    BY NibbleIff, SMT
  <2>1. \A y \in Nibble : NibbleXor[NibbleXor[0][y]][y] = 0
    BY <2>0, NibbleFacts
  <2>2. \A y \in Nibble : NibbleXor[y][y] = 0
    BY <2>1, NibbleFacts
  <2>3. \A y \in Nibble : NibbleXor[y][0] = y
    BY <2>2, NibbleFacts
  <2> QED BY <2>3, NibbleFacts
<1> HIDE DEF N
<1>4. \A x, y : ByteXor(x, y) = 16 * N(x \div 16, y \div 16) + N(x % 16, y % 16)
  BY DEF ByteXor, N
<1>5. \A x, y \in Byte : /\ ByteXor(x, y) \in Byte
                         /\ ByteXor(x, y) \div 16 = N(x \div 16, y \div 16)
                         /\ ByteXor(x, y) % 16 = N(x % 16, y % 16)
  BY <1>1, <1>2, <1>3, <1>4
<1>6. 0 \in Byte /\ 0 \div 16 = 0 /\ 0 % 16 = 0
  BY ByteIff, SMT
<1>7. ByteXor(a, ByteXor(a, b)) = 16 * (b \div 16) + (b % 16)
  BY <1>1, <1>3, <1>4, <1>5
<1>8. ByteXor(ByteXor(a, b), b) = 16 * (a \div 16) + (a % 16)
  BY <1>1, <1>3, <1>4, <1>5
<1>9. ByteXor(0, b) = 16 * (b \div 16) + (b % 16)
  BY <1>1, <1>3, <1>4, <1>6
<1>10. ByteXor(b, 0) = 16 * (b \div 16) + (b % 16)
  BY <1>1, <1>3, <1>4, <1>6
<1> QED BY <1>1, <1>5, <1>7, <1>8, <1>9, <1>10

(* Exclusive or of nibbles bit by bit. *)
LEMMA NibbleBits == \A a, b \in Nibble :
    /\ NibbleXor[a][b] \in Nibble
    /\ \A w \in {1, 2, 4, 8} : /\ Bit(a, w) \in 0..1
                               /\ Bit(NibbleXor[a][b], w) = (Bit(a, w) + Bit(b, w)) % 2
<1> SUFFICES ASSUME NEW a \in Nibble, NEW b \in Nibble
             PROVE  /\ NibbleXor[a][b] \in Nibble
                    /\ \A w \in {1, 2, 4, 8} :
                          /\ Bit(a, w) \in 0..1
                          /\ Bit(NibbleXor[a][b], w) = (Bit(a, w) + Bit(b, w)) % 2
  OBVIOUS
<1> DEFINE x(w) == (Bit(a, w) + Bit(b, w)) % 2
<1>1. a \in 0..15 /\ b \in 0..15
  BY DEF Nibble
<1>2. /\ Bit(a, 1) \in 0..1 /\ Bit(a, 2) \in 0..1 /\ Bit(a, 4) \in 0..1 /\ Bit(a, 8) \in 0..1
      /\ Bit(b, 1) \in 0..1 /\ Bit(b, 2) \in 0..1 /\ Bit(b, 4) \in 0..1 /\ Bit(b, 8) \in 0..1
  BY <1>1, Bits
<1>3. x(1) \in 0..1 /\ x(2) \in 0..1 /\ x(4) \in 0..1 /\ x(8) \in 0..1
  BY <1>2, XorOfBits
<1>4. NibbleXor[a][b] = Sum(x(1), x(2), x(4), x(8))
  BY <1>1, NibbleXorBits
<1> HIDE DEF x
<1>5. /\ NibbleXor[a][b] \in 0..15
      /\ Bit(NibbleXor[a][b], 1) = x(1) /\ Bit(NibbleXor[a][b], 2) = x(2)
      /\ Bit(NibbleXor[a][b], 4) = x(4) /\ Bit(NibbleXor[a][b], 8) = x(8)
  BY <1>3, <1>4, BitsOfSum
<1>6. \A w \in {1, 2, 4, 8} : Bit(a, w) \in 0..1 /\ Bit(NibbleXor[a][b], w) = x(w)
  BY <1>2, <1>5
<1> QED BY <1>5, <1>6, Zenon DEF x, Nibble

(* Nibbles with the same bits are the same. *)
LEMMA NibbleSame == \A a, b \in Nibble :
    (\A w \in {1, 2, 4, 8} : Bit(a, w) = Bit(b, w)) => a = b
<1> SUFFICES ASSUME NEW a \in Nibble, NEW b \in Nibble,
                    \A w \in {1, 2, 4, 8} : Bit(a, w) = Bit(b, w)
             PROVE  a = b
  OBVIOUS
<1>1. /\ a = Sum(Bit(a, 1), Bit(a, 2), Bit(a, 4), Bit(a, 8))
      /\ b = Sum(Bit(b, 1), Bit(b, 2), Bit(b, 4), Bit(b, 8))
  BY Bits DEF Nibble
<1>2. Bit(a, 1) = Bit(b, 1) /\ Bit(a, 2) = Bit(b, 2) /\ Bit(a, 4) = Bit(b, 4)
      /\ Bit(a, 8) = Bit(b, 8)
  OBVIOUS
<1> QED BY <1>1, <1>2, Zenon

(* Exclusive or of nibbles is associative. *)
LEMMA NibbleAssoc == \A a, b, c \in Nibble :
    NibbleXor[NibbleXor[a][b]][c] = NibbleXor[a][NibbleXor[b][c]]
<1> SUFFICES ASSUME NEW a \in Nibble, NEW b \in Nibble, NEW c \in Nibble
             PROVE  NibbleXor[NibbleXor[a][b]][c] = NibbleXor[a][NibbleXor[b][c]]
  OBVIOUS
<1>1. \A x, y, z \in 0..1 : (((x + y) % 2) + z) % 2 = (x + ((y + z) % 2)) % 2
  BY SMT
<1> DEFINE p == NibbleXor[a][b]
           q == NibbleXor[b][c]
           l == NibbleXor[p][c]
           r == NibbleXor[a][q]
<1>2. /\ p \in Nibble /\ q \in Nibble
      /\ \A w \in {1, 2, 4, 8} : /\ Bit(p, w) = (Bit(a, w) + Bit(b, w)) % 2
                                 /\ Bit(q, w) = (Bit(b, w) + Bit(c, w)) % 2
  BY NibbleBits
<1>5. \A w \in {1, 2, 4, 8} : Bit(a, w) \in 0..1 /\ Bit(b, w) \in 0..1 /\ Bit(c, w) \in 0..1
  BY NibbleBits
<1> HIDE DEF p, q
<1>6. /\ l \in Nibble /\ r \in Nibble
      /\ \A w \in {1, 2, 4, 8} : /\ Bit(l, w) = (Bit(p, w) + Bit(c, w)) % 2
                                 /\ Bit(r, w) = (Bit(a, w) + Bit(q, w)) % 2
  BY <1>2, NibbleBits
<1> HIDE DEF l, r
<1>3. ASSUME NEW w \in {1, 2, 4, 8} PROVE Bit(l, w) = Bit(r, w)
  <2>1. Bit(l, w) = (((Bit(a, w) + Bit(b, w)) % 2) + Bit(c, w)) % 2
    BY <1>2, <1>6
  <2>2. Bit(r, w) = (Bit(a, w) + ((Bit(b, w) + Bit(c, w)) % 2)) % 2
    BY <1>2, <1>6
  <2>3. Bit(a, w) \in 0..1 /\ Bit(b, w) \in 0..1 /\ Bit(c, w) \in 0..1
    BY <1>5
  <2>4. (((Bit(a, w) + Bit(b, w)) % 2) + Bit(c, w)) % 2
            = (Bit(a, w) + ((Bit(b, w) + Bit(c, w)) % 2)) % 2
    BY <1>1, <2>3
  <2> QED BY <2>1, <2>2, <2>4
<1>4. l = r
  BY <1>6, <1>3, NibbleSame
<1> QED BY <1>4 DEF l, r, p, q

(* What a shift of a word makes of a nibble c that has the nibble a before it. *)
Shifted(a, c) == 8 * (a % 2) + (c \div 2)

(* The bits move down by one, and the low bit of a comes in. *)
LEMMA ShiftedBits == \A a, c \in Nibble :
    /\ Shifted(a, c) \in Nibble
    /\ Bit(Shifted(a, c), 1) = Bit(c, 2) /\ Bit(Shifted(a, c), 2) = Bit(c, 4)
    /\ Bit(Shifted(a, c), 4) = Bit(c, 8) /\ Bit(Shifted(a, c), 8) = Bit(a, 1)
<1>1. \A a, c \in 0..15 : Shifted(a, c) = Sum(Bit(c, 2), Bit(c, 4), Bit(c, 8), Bit(a, 1))
  <2>1. \A c \in 0..15 : c \div 2 = Bit(c, 2) + 2 * Bit(c, 4) + 4 * Bit(c, 8)
    BY SMT DEF Bit
  <2>2. \A a \in 0..15 : Bit(a, 1) = a % 2 /\ Bit(a, 1) \in 0..1
    BY SMT DEF Bit
  <2>3. \A c \in 0..15 : Bit(c, 2) \in 0..1 /\ Bit(c, 4) \in 0..1 /\ Bit(c, 8) \in 0..1
    BY Bits
  <2> QED BY <2>1, <2>2, <2>3, SMT DEF Shifted, Sum
<1>2. \A a, c \in 0..15 :
         /\ Bit(c, 2) \in 0..1 /\ Bit(c, 4) \in 0..1 /\ Bit(c, 8) \in 0..1 /\ Bit(a, 1) \in 0..1
  BY Bits
<1>3. ASSUME NEW a \in 0..15, NEW c \in 0..15
      PROVE  /\ Shifted(a, c) \in 0..15
             /\ Bit(Shifted(a, c), 1) = Bit(c, 2) /\ Bit(Shifted(a, c), 2) = Bit(c, 4)
             /\ Bit(Shifted(a, c), 4) = Bit(c, 8) /\ Bit(Shifted(a, c), 8) = Bit(a, 1)
  <2> DEFINE b == Sum(Bit(c, 2), Bit(c, 4), Bit(c, 8), Bit(a, 1))
  <2>1. /\ b \in 0..15
        /\ Bit(b, 1) = Bit(c, 2) /\ Bit(b, 2) = Bit(c, 4)
        /\ Bit(b, 4) = Bit(c, 8) /\ Bit(b, 8) = Bit(a, 1)
    BY <1>2, BitsOfSum
  <2>2. Shifted(a, c) = b
    BY <1>1
  <2> HIDE DEF b
  <2> QED BY <2>1, <2>2, Zenon
<1> QED BY <1>3, Zenon DEF Nibble

(* The shift of an exclusive or is the exclusive or of the shifts. *)
LEMMA ShiftedXor == \A a, b, c, d \in Nibble :
    /\ Shifted(a, c) \in Nibble
    /\ NibbleXor[Shifted(a, c)][Shifted(b, d)] = Shifted(NibbleXor[a][b], NibbleXor[c][d])
<1> SUFFICES ASSUME NEW a \in Nibble, NEW b \in Nibble, NEW c \in Nibble, NEW d \in Nibble
             PROVE  /\ Shifted(a, c) \in Nibble
                    /\ NibbleXor[Shifted(a, c)][Shifted(b, d)]
                          = Shifted(NibbleXor[a][b], NibbleXor[c][d])
  OBVIOUS
<1> DEFINE s == Shifted(a, c)
           t == Shifted(b, d)
           p == NibbleXor[a][b]
           q == NibbleXor[c][d]
           l == NibbleXor[s][t]
           r == Shifted(p, q)
<1>1. s \in Nibble /\ t \in Nibble /\ p \in Nibble /\ q \in Nibble
  BY NibbleBits, ShiftedBits
<1>2. /\ Bit(s, 1) = Bit(c, 2) /\ Bit(s, 2) = Bit(c, 4)
      /\ Bit(s, 4) = Bit(c, 8) /\ Bit(s, 8) = Bit(a, 1)
      /\ Bit(t, 1) = Bit(d, 2) /\ Bit(t, 2) = Bit(d, 4)
      /\ Bit(t, 4) = Bit(d, 8) /\ Bit(t, 8) = Bit(b, 1)
  BY ShiftedBits
<1>3. \A w \in {1, 2, 4, 8} : /\ Bit(p, w) = (Bit(a, w) + Bit(b, w)) % 2
                              /\ Bit(q, w) = (Bit(c, w) + Bit(d, w)) % 2
  BY NibbleBits
<1> HIDE DEF s, t, p, q
<1>4. l \in Nibble /\ r \in Nibble
  BY <1>1, NibbleBits, ShiftedBits
<1>5. \A w \in {1, 2, 4, 8} : Bit(l, w) = (Bit(s, w) + Bit(t, w)) % 2
  BY <1>1, NibbleBits
<1>6. /\ Bit(r, 1) = Bit(q, 2) /\ Bit(r, 2) = Bit(q, 4)
      /\ Bit(r, 4) = Bit(q, 8) /\ Bit(r, 8) = Bit(p, 1)
  BY <1>1, ShiftedBits
<1> HIDE DEF l, r
<1>7. Bit(l, 1) = Bit(r, 1) /\ Bit(l, 2) = Bit(r, 2) /\ Bit(l, 4) = Bit(r, 4)
      /\ Bit(l, 8) = Bit(r, 8)
  <2>1. 1 \in {1, 2, 4, 8} /\ 2 \in {1, 2, 4, 8} /\ 4 \in {1, 2, 4, 8} /\ 8 \in {1, 2, 4, 8}
    OBVIOUS
  <2> QED BY <1>2, <1>3, <1>5, <1>6, <2>1, Zenon
<1>8. l = r
  <2>1. \A w \in {1, 2, 4, 8} : Bit(l, w) = Bit(r, w)
    BY <1>7
  <2> QED BY <1>4, <2>1, NibbleSame
<1> QED BY <1>1, <1>8 DEF l, r, s, t, p, q

-------------------------------------------------------------------------------
(* The nibbles of a word, from the last to the first. *)
Nib0(a) == (a % 256) % 16
Nib1(a) == (a % 256) \div 16
Nib2(a) == (a \div 256) % 16
Nib3(a) == (a \div 256) \div 16

WordOf(n3, n2, n1, n0) == 256 * (16 * n3 + n2) + (16 * n1 + n0)

(* A word is its nibbles. *)
LEMMA WordNibbles == \A a \in Word :
    /\ Nib0(a) \in Nibble /\ Nib1(a) \in Nibble /\ Nib2(a) \in Nibble /\ Nib3(a) \in Nibble
    /\ a = WordOf(Nib3(a), Nib2(a), Nib1(a), Nib0(a))
<1> SUFFICES ASSUME NEW a \in Word
             PROVE  /\ Nib0(a) \in Nibble /\ Nib1(a) \in Nibble
                    /\ Nib2(a) \in Nibble /\ Nib3(a) \in Nibble
                    /\ a = WordOf(Nib3(a), Nib2(a), Nib1(a), Nib0(a))
  OBVIOUS
<1> DEFINE h == a \div 256
           l == a % 256
<1>1. h \in Byte /\ l \in Byte /\ a = 256 * h + l
  BY WordBytes
<1>2. /\ h \div 16 \in Nibble /\ h % 16 \in Nibble /\ h = 16 * (h \div 16) + (h % 16)
      /\ l \div 16 \in Nibble /\ l % 16 \in Nibble /\ l = 16 * (l \div 16) + (l % 16)
  <2>1. \A x \in Byte : /\ x \div 16 \in Nibble /\ x % 16 \in Nibble
                         /\ x = 16 * (x \div 16) + (x % 16)
    BY SplitByte, ByteIff, NibbleIff, Zenon
  <2> HIDE DEF h, l
  <2> QED BY <1>1, <2>1
<1> QED BY <1>1, <1>2, Zenon DEF Nib0, Nib1, Nib2, Nib3, WordOf

(* And any four nibbles make a word. *)
LEMMA NibblesWord ==
    ASSUME NEW n3 \in Nibble, NEW n2 \in Nibble, NEW n1 \in Nibble, NEW n0 \in Nibble
    PROVE  LET a == WordOf(n3, n2, n1, n0)
           IN  a \in Word /\ Nib3(a) = n3 /\ Nib2(a) = n2 /\ Nib1(a) = n1 /\ Nib0(a) = n0
<1> DEFINE h == 16 * n3 + n2
           l == 16 * n1 + n0
           a == WordOf(n3, n2, n1, n0)
<1>1. h \in Byte /\ h \div 16 = n3 /\ h % 16 = n2 /\ l \in Byte /\ l \div 16 = n1 /\ l % 16 = n0
  BY JoinByte, ByteIff, NibbleIff, Zenon
<1>2. a = 256 * h + l
  BY DEF WordOf
<1> HIDE DEF h, l, a
<1>3. a \in Word /\ a \div 256 = h /\ a % 256 = l
  BY <1>1, <1>2, WordBytes
<1>4. a \in Word /\ Nib3(a) = n3 /\ Nib2(a) = n2 /\ Nib1(a) = n1 /\ Nib0(a) = n0
  BY <1>1, <1>3, Zenon DEF Nib0, Nib1, Nib2, Nib3
<1> QED BY <1>4 DEF a

(* Exclusive or of words goes nibble by nibble. *)
LEMMA WordXor == \A a, b \in Word :
    /\ a ^^ b \in Word
    /\ Nib0(a ^^ b) = NibbleXor[Nib0(a)][Nib0(b)] /\ Nib1(a ^^ b) = NibbleXor[Nib1(a)][Nib1(b)]
    /\ Nib2(a ^^ b) = NibbleXor[Nib2(a)][Nib2(b)] /\ Nib3(a ^^ b) = NibbleXor[Nib3(a)][Nib3(b)]
<1> SUFFICES ASSUME NEW a \in Word, NEW b \in Word
             PROVE  /\ a ^^ b \in Word
                    /\ Nib0(a ^^ b) = NibbleXor[Nib0(a)][Nib0(b)]
                    /\ Nib1(a ^^ b) = NibbleXor[Nib1(a)][Nib1(b)]
                    /\ Nib2(a ^^ b) = NibbleXor[Nib2(a)][Nib2(b)]
                    /\ Nib3(a ^^ b) = NibbleXor[Nib3(a)][Nib3(b)]
  OBVIOUS
<1> DEFINE x0 == NibbleXor[Nib0(a)][Nib0(b)]
           x1 == NibbleXor[Nib1(a)][Nib1(b)]
           x2 == NibbleXor[Nib2(a)][Nib2(b)]
           x3 == NibbleXor[Nib3(a)][Nib3(b)]
<1>1. a ^^ b = WordOf(x3, x2, x1, x0)
  BY Zenon DEF ^^, ByteXor, WordOf, Nib0, Nib1, Nib2, Nib3
<1>2. x0 \in Nibble /\ x1 \in Nibble /\ x2 \in Nibble /\ x3 \in Nibble
  BY WordNibbles, NibbleBits
<1> HIDE DEF x0, x1, x2, x3
<1>3. /\ a ^^ b \in Word /\ Nib0(a ^^ b) = x0 /\ Nib1(a ^^ b) = x1
      /\ Nib2(a ^^ b) = x2 /\ Nib3(a ^^ b) = x3
  BY <1>1, <1>2, NibblesWord
<1> QED BY <1>3 DEF x0, x1, x2, x3

(* Words with the same nibbles are the same. *)
LEMMA WordSame == \A a, b \in Word :
    (Nib0(a) = Nib0(b) /\ Nib1(a) = Nib1(b) /\ Nib2(a) = Nib2(b) /\ Nib3(a) = Nib3(b)) => a = b
BY WordNibbles, Zenon

(* Exclusive or of words is associative. *)
LEMMA WordAssoc == \A a, b, c \in Word : (a ^^ b) ^^ c = a ^^ (b ^^ c)
<1> SUFFICES ASSUME NEW a \in Word, NEW b \in Word, NEW c \in Word
             PROVE  (a ^^ b) ^^ c = a ^^ (b ^^ c)
  OBVIOUS
<1> DEFINE p == a ^^ b
           q == b ^^ c
           l == p ^^ c
           r == a ^^ q
<1>1. /\ p \in Word /\ q \in Word
      /\ Nib0(p) = NibbleXor[Nib0(a)][Nib0(b)] /\ Nib1(p) = NibbleXor[Nib1(a)][Nib1(b)]
      /\ Nib2(p) = NibbleXor[Nib2(a)][Nib2(b)] /\ Nib3(p) = NibbleXor[Nib3(a)][Nib3(b)]
      /\ Nib0(q) = NibbleXor[Nib0(b)][Nib0(c)] /\ Nib1(q) = NibbleXor[Nib1(b)][Nib1(c)]
      /\ Nib2(q) = NibbleXor[Nib2(b)][Nib2(c)] /\ Nib3(q) = NibbleXor[Nib3(b)][Nib3(c)]
  BY WordXor
<1> HIDE DEF p, q
<1>2. /\ l \in Word /\ r \in Word
      /\ Nib0(l) = NibbleXor[Nib0(p)][Nib0(c)] /\ Nib1(l) = NibbleXor[Nib1(p)][Nib1(c)]
      /\ Nib2(l) = NibbleXor[Nib2(p)][Nib2(c)] /\ Nib3(l) = NibbleXor[Nib3(p)][Nib3(c)]
      /\ Nib0(r) = NibbleXor[Nib0(a)][Nib0(q)] /\ Nib1(r) = NibbleXor[Nib1(a)][Nib1(q)]
      /\ Nib2(r) = NibbleXor[Nib2(a)][Nib2(q)] /\ Nib3(r) = NibbleXor[Nib3(a)][Nib3(q)]
  BY <1>1, WordXor
<1> HIDE DEF l, r
<1>3. /\ Nib0(l) = Nib0(r) /\ Nib1(l) = Nib1(r)
      /\ Nib2(l) = Nib2(r) /\ Nib3(l) = Nib3(r)
  <2>1. /\ Nib0(a) \in Nibble /\ Nib1(a) \in Nibble /\ Nib2(a) \in Nibble /\ Nib3(a) \in Nibble
        /\ Nib0(b) \in Nibble /\ Nib1(b) \in Nibble /\ Nib2(b) \in Nibble /\ Nib3(b) \in Nibble
        /\ Nib0(c) \in Nibble /\ Nib1(c) \in Nibble /\ Nib2(c) \in Nibble /\ Nib3(c) \in Nibble
    BY WordNibbles
  <2>2. Nib0(l) = Nib0(r)
    BY <1>1, <1>2, <2>1, NibbleAssoc
  <2>3. Nib1(l) = Nib1(r)
    BY <1>1, <1>2, <2>1, NibbleAssoc
  <2>4. Nib2(l) = Nib2(r)
    BY <1>1, <1>2, <2>1, NibbleAssoc
  <2>5. Nib3(l) = Nib3(r)
    BY <1>1, <1>2, <2>1, NibbleAssoc
  <2> QED BY <2>2, <2>3, <2>4, <2>5
<1>4. l = r
  BY <1>2, <1>3, WordSame
<1> QED BY <1>4 DEF l, r, p, q

(* A shift of a word shifts each nibble. *)
LEMMA HalfNibbles == \A a \in Word :
    /\ a \div 2 \in Word /\ a % 2 = Nib0(a) % 2
    /\ Nib0(a \div 2) = Shifted(Nib1(a), Nib0(a)) /\ Nib1(a \div 2) = Shifted(Nib2(a), Nib1(a))
    /\ Nib2(a \div 2) = Shifted(Nib3(a), Nib2(a)) /\ Nib3(a \div 2) = Shifted(0, Nib3(a))
<1> SUFFICES ASSUME NEW a \in Word
             PROVE  /\ a \div 2 \in Word /\ a % 2 = Nib0(a) % 2
                    /\ Nib0(a \div 2) = Shifted(Nib1(a), Nib0(a))
                    /\ Nib1(a \div 2) = Shifted(Nib2(a), Nib1(a))
                    /\ Nib2(a \div 2) = Shifted(Nib3(a), Nib2(a))
                    /\ Nib3(a \div 2) = Shifted(0, Nib3(a))
  OBVIOUS
<1>1. \A n3, n2, n1, n0 \in Nat :
         /\ WordOf(n3, n2, n1, n0) \div 2
               = WordOf(Shifted(0, n3), Shifted(n3, n2), Shifted(n2, n1), Shifted(n1, n0))
         /\ WordOf(n3, n2, n1, n0) % 2 = n0 % 2
  BY SMT DEF WordOf, Shifted
<1> DEFINE n0 == Nib0(a)
           n1 == Nib1(a)
           n2 == Nib2(a)
           n3 == Nib3(a)
<1>2. /\ n0 \in Nibble /\ n1 \in Nibble /\ n2 \in Nibble /\ n3 \in Nibble
      /\ a = WordOf(n3, n2, n1, n0)
  BY WordNibbles
<1> HIDE DEF n0, n1, n2, n3
<1>3. n0 \in Nat /\ n1 \in Nat /\ n2 \in Nat /\ n3 \in Nat /\ 0 \in Nibble
  BY <1>2, NibbleIff, SMT
<1>4. /\ a \div 2 = WordOf(Shifted(0, n3), Shifted(n3, n2), Shifted(n2, n1), Shifted(n1, n0))
      /\ a % 2 = n0 % 2
  BY <1>1, <1>2, <1>3
<1>5. /\ Shifted(0, n3) \in Nibble /\ Shifted(n3, n2) \in Nibble
      /\ Shifted(n2, n1) \in Nibble /\ Shifted(n1, n0) \in Nibble
  BY <1>2, <1>3, ShiftedBits
<1>6. /\ a \div 2 \in Word
      /\ Nib3(a \div 2) = Shifted(0, n3) /\ Nib2(a \div 2) = Shifted(n3, n2)
      /\ Nib1(a \div 2) = Shifted(n2, n1) /\ Nib0(a \div 2) = Shifted(n1, n0)
  BY <1>4, <1>5, NibblesWord
<1> QED BY <1>4, <1>6 DEF n0, n1, n2, n3

(* The shift of an exclusive or, and its low bit when that of one argument is clear. *)
LEMMA HalfXor == \A a, b \in Word :
    /\ (a ^^ b) \div 2 = (a \div 2) ^^ (b \div 2)
    /\ a % 2 = 0 => (a ^^ b) % 2 = b % 2
<1> SUFFICES ASSUME NEW a \in Word, NEW b \in Word
             PROVE  /\ (a ^^ b) \div 2 = (a \div 2) ^^ (b \div 2)
                    /\ a % 2 = 0 => (a ^^ b) % 2 = b % 2
  OBVIOUS
<1> DEFINE p == a ^^ b
           l == p \div 2
           c == a \div 2
           d == b \div 2
           r == c ^^ d
<1>1. /\ p \in Word
      /\ Nib0(p) = NibbleXor[Nib0(a)][Nib0(b)] /\ Nib1(p) = NibbleXor[Nib1(a)][Nib1(b)]
      /\ Nib2(p) = NibbleXor[Nib2(a)][Nib2(b)] /\ Nib3(p) = NibbleXor[Nib3(a)][Nib3(b)]
  BY WordXor
<1>2. /\ c \in Word /\ d \in Word
      /\ Nib0(c) = Shifted(Nib1(a), Nib0(a)) /\ Nib0(d) = Shifted(Nib1(b), Nib0(b))
      /\ Nib1(c) = Shifted(Nib2(a), Nib1(a)) /\ Nib1(d) = Shifted(Nib2(b), Nib1(b))
      /\ Nib2(c) = Shifted(Nib3(a), Nib2(a)) /\ Nib2(d) = Shifted(Nib3(b), Nib2(b))
      /\ Nib3(c) = Shifted(0, Nib3(a)) /\ Nib3(d) = Shifted(0, Nib3(b))
      /\ a % 2 = Nib0(a) % 2 /\ b % 2 = Nib0(b) % 2
  BY HalfNibbles
<1> HIDE DEF p, c, d
<1>3. /\ l \in Word /\ p % 2 = Nib0(p) % 2
      /\ Nib0(l) = Shifted(Nib1(p), Nib0(p)) /\ Nib1(l) = Shifted(Nib2(p), Nib1(p))
      /\ Nib2(l) = Shifted(Nib3(p), Nib2(p)) /\ Nib3(l) = Shifted(0, Nib3(p))
  BY <1>1, HalfNibbles
<1>4. /\ r \in Word
      /\ Nib0(r) = NibbleXor[Nib0(c)][Nib0(d)] /\ Nib1(r) = NibbleXor[Nib1(c)][Nib1(d)]
      /\ Nib2(r) = NibbleXor[Nib2(c)][Nib2(d)] /\ Nib3(r) = NibbleXor[Nib3(c)][Nib3(d)]
  BY <1>2, WordXor
<1> HIDE DEF l, r
<1>5. 0 \in Nibble /\ NibbleXor[0][0] = 0
  BY NibbleIff, NibbleFacts, SMT
<1>6. /\ Nib0(a) \in Nibble /\ Nib1(a) \in Nibble /\ Nib2(a) \in Nibble /\ Nib3(a) \in Nibble
      /\ Nib0(b) \in Nibble /\ Nib1(b) \in Nibble /\ Nib2(b) \in Nibble /\ Nib3(b) \in Nibble
  BY WordNibbles
<1>7. /\ Nib0(l) = Nib0(r) /\ Nib1(l) = Nib1(r) /\ Nib2(l) = Nib2(r)
  BY <1>1, <1>2, <1>3, <1>4, <1>6, ShiftedXor
<1>8. Nib3(l) = Nib3(r)
  <2>1. NibbleXor[Shifted(0, Nib3(a))][Shifted(0, Nib3(b))]
            = Shifted(NibbleXor[0][0], NibbleXor[Nib3(a)][Nib3(b)])
    BY <1>5, <1>6, ShiftedXor
  <2> QED BY <1>1, <1>2, <1>3, <1>4, <1>5, <2>1
<1>9. l = r
  BY <1>3, <1>4, <1>7, <1>8, WordSame
<1>10. ASSUME a % 2 = 0 PROVE p % 2 = b % 2
  <2>1. \A x, y \in Nibble : /\ Bit(x, 1) = x % 2 /\ Bit(y, 1) = y % 2
                             /\ x % 2 = 0 => ((x % 2) + (y % 2)) % 2 = y % 2
    <3>1. \A x, y \in Nat : /\ Bit(x, 1) = x % 2 /\ Bit(y, 1) = y % 2
                            /\ x % 2 = 0 => ((x % 2) + (y % 2)) % 2 = y % 2
      BY SMT DEF Bit
    <3> QED BY <3>1, NibbleIff, Zenon
  <2>2. /\ NibbleXor[Nib0(a)][Nib0(b)] \in Nibble
        /\ Bit(NibbleXor[Nib0(a)][Nib0(b)], 1) = (Bit(Nib0(a), 1) + Bit(Nib0(b), 1)) % 2
    BY <1>6, NibbleBits
  <2> QED BY <1>1, <1>2, <1>3, <1>6, <1>10, <2>1, <2>2
<1> QED BY <1>9, <1>10 DEF l, r, p, c, d

-------------------------------------------------------------------------------
(* The table routine. *)

(* The two bytes of one step: the entry shows in the high one. *)
LEMMA TableStepBytes ==
    ASSUME NEW crc \in Word, NEW b \in Byte
    PROVE  LET x == ByteXor(crc % 256, b)
               t == Entry(x)
           IN  /\ x \in Byte /\ t \in Word
               /\ TableStep(crc, b) \in Word
               /\ TableStep(crc, b) \div 256 = t \div 256
               /\ TableStep(crc, b) % 256 = ByteXor(crc \div 256, t % 256)
<1> DEFINE x == ByteXor(crc % 256, b)
<1> DEFINE t == Entry(x)
<1>1. x \in Byte
  BY WordBytes, ByteCancel
<1>2. (crc ^^ b) % 256 = x
  <2>1. crc ^^ b = 256 * ByteXor(crc \div 256, 0) + x
    BY WordBytes DEF ^^
  <2>2. crc ^^ b = 256 * (crc \div 256) + x
    BY <2>1, WordBytes, ByteCancel
  <2> HIDE DEF x
  <2> QED BY <1>1, <2>2, WordBytes
<1>3. t \in Word
  <2> HIDE DEF x
  <2>1. x \in Index
    BY <1>1, Zenon DEF Index, Byte
  <2>2. Entry(x) \in Nat /\ Entry(x) <= 65535
    BY <2>1, TableAssumption, SMT
  <2> QED BY <2>2, WordRange, SMT
<1>4. crc \in 0..65535
  BY DEF Word
<1>5. TableStep(crc, b) = (crc \div 256) ^^ t
  BY <1>2, <1>4 DEF TableStep
<1> HIDE DEF x, t
<1>6. crc \div 256 \in Byte /\ t \div 256 \in Byte /\ t % 256 \in Byte
  BY <1>3, WordBytes
<1>7. (crc \div 256) ^^ t = 256 * ByteXor(0, t \div 256) + ByteXor(crc \div 256, t % 256)
  <2>1. (crc \div 256) \div 256 = 0 /\ (crc \div 256) % 256 = crc \div 256
    BY <1>6, WordBytes
  <2> QED BY <2>1 DEF ^^
<1>8. TableStep(crc, b) = 256 * (t \div 256) + ByteXor(crc \div 256, t % 256)
  BY <1>5, <1>6, <1>7, ByteCancel
<1>9. ByteXor(crc \div 256, t % 256) \in Byte
  BY <1>6, ByteCancel
<1> QED BY <1>1, <1>3, <1>6, <1>8, <1>9, WordBytes DEF x, t

(* One step forgets nothing: the state and the byte are found back from the result
   when one of them is known. *)
LEMMA TableStepInjective ==
    ASSUME NEW c \in Word, NEW d \in Word, NEW a \in Byte, NEW b \in Byte,
           c = d \/ a = b, TableStep(c, a) = TableStep(d, b)
    PROVE  c = d /\ a = b
<1> DEFINE r == c % 256
<1> DEFINE s == d % 256
<1> DEFINE x == ByteXor(r, a)
<1> DEFINE y == ByteXor(s, b)
<1>1. /\ x \in Byte /\ Entry(x) \in Word /\ y \in Byte /\ Entry(y) \in Word
      /\ Entry(x) \div 256 = Entry(y) \div 256
      /\ ByteXor(c \div 256, Entry(x) % 256) = ByteXor(d \div 256, Entry(y) % 256)
  BY TableStepBytes
<1>2. c \div 256 \in Byte /\ d \div 256 \in Byte /\ r \in Byte /\ s \in Byte
  BY WordBytes
<1>3. x = y
  <2> HIDE DEF x, y
  <2>1. x \in Index /\ y \in Index
    BY <1>1, Zenon DEF Index, Byte
  <2> QED BY <1>1, <2>1, TableAssumption, SMT
<1>4. c \div 256 = d \div 256
  <2> DEFINE t == Entry(x) % 256
  <2>1. t \in Byte
    BY <1>1, WordBytes
  <2>2. ByteXor(c \div 256, t) = ByteXor(d \div 256, t)
    BY <1>1, <1>3
  <2> HIDE DEF t
  <2> QED BY <1>2, <2>1, <2>2, ByteCancel
<1>5. r = s /\ a = b
  <2>1. CASE c = d
    <3>1. ByteXor(r, a) = ByteXor(r, b)
      BY <1>3, <2>1
    <3> HIDE DEF r, s
    <3>2. a = b
      BY <1>2, <3>1, ByteCancel
    <3> QED BY <2>1, <3>2 DEF r, s
  <2>2. CASE a = b
    <3>1. ByteXor(r, a) = ByteXor(s, a)
      BY <1>3, <2>2
    <3> HIDE DEF r, s
    <3>2. r = s
      BY <1>2, <3>1, ByteCancel
    <3> QED BY <2>2, <3>2
  <2> QED BY <2>1, <2>2
<1>6. c = 256 * (c \div 256) + r /\ d = 256 * (d \div 256) + s
  BY WordBytes
<1> HIDE DEF r, s
<1> QED BY <1>4, <1>5, <1>6

(* f is base followed by the results of the steps 1 to n. *)
Follows(f, n, base, step) == f[0] = base /\ \A i \in 1..n : f[i] = step[i][f[i - 1]]

(* A value can be carried through n steps. *)
LEMMA Iterates ==
    \A S : \A n \in Nat : \A base \in S : \A step \in [1..n -> [S -> S]] :
        \E f \in [0..n -> S] : Follows(f, n, base, step)
<1> SUFFICES ASSUME NEW S, NEW n \in Nat, NEW base \in S, NEW step \in [1..n -> [S -> S]]
             PROVE  \E f \in [0..n -> S] : Follows(f, n, base, step)
  OBVIOUS
<1> USE DEF Follows
<1> DEFINE G == {m \in Nat : \E f \in [0..m -> S] :
                    f[0] = base /\ \A i \in 1..m : f[i] = step[i][f[i - 1]]}
<1>1. 0 \in G
  <2> DEFINE f == [i \in 0..0 |-> base]
  <2>1. f \in [0..0 -> S] /\ f[0] = base /\ \A i \in 1..0 : f[i] = step[i][f[i - 1]]
    OBVIOUS
  <2> QED BY <2>1
<1>2. ASSUME NEW m \in 0..n, m \in G, m < n PROVE m + 1 \in G
  <2>1. PICK f \in [0..m -> S] : f[0] = base /\ \A i \in 1..m : f[i] = step[i][f[i - 1]]
    BY <1>2
  <2> DEFINE g == [i \in 0..(m + 1) |-> IF i <= m THEN f[i] ELSE step[m + 1][f[m]]]
  <2>2. step[m + 1] \in [S -> S] /\ f[m] \in S
    BY <1>2
  <2>3. g \in [0..(m + 1) -> S]
    BY <2>2
  <2>4. g[0] = base
    BY <2>1
  <2>5. ASSUME NEW i \in 1..(m + 1) PROVE g[i] = step[i][g[i - 1]]
    <3>1. CASE i <= m
      BY <2>1, <3>1
    <3>2. CASE i = m + 1
      BY <2>1, <3>2
    <3> QED BY <3>1, <3>2
  <2> HIDE DEF g
  <2> QED BY <2>3, <2>4, <2>5
<1> HIDE DEF G
<1>3. \A m \in 0..n : m \in G
  <2>1. \A i \in 0..n : i \in G /\ i < n => i + 1 \in G
    BY <1>2
  <2>2. 0 \in 0..n
    OBVIOUS
  <2> QED BY <1>1, <2>1, <2>2, Climb
<1> QED BY <1>3 DEF G

(* The states are the words of the frames. *)
LEMMA StateIsWord == State = Word
BY DEF State, Word

(* The states the table routine goes through. *)
LEMMA CrcStates ==
    ASSUME NEW data \in Seq(Byte)
    PROVE  \E f \in [0..Len(data) -> Word] :
              /\ f[0] = \hFFFF
              /\ \A i \in 1..Len(data) : f[i] = TableStep(f[i - 1], data[i])
              /\ egw_crc_modbus_table(data) = f[Len(data)]
<1> DEFINE n == Len(data)
<1> DEFINE step == [i \in 1..n |-> [c \in Word |-> TableStep(c, data[i])]]
<1>1. step \in [1..n -> [Word -> Word]]
  BY TableStepBytes
<1>2. \hFFFF \in Word
  BY WordRange, SMT
<1>3. PICK f \in [0..n -> Word] : f[0] = \hFFFF /\ \A i \in 1..n : f[i] = step[i][f[i - 1]]
  <2> DEFINE base == \hFFFF
  <2>1. base \in Word /\ n \in Nat
    BY <1>2
  <2>2. \E f \in [0..n -> Word] : Follows(f, n, base, step)
    <3> HIDE DEF step, base, n
    <3> QED BY <1>1, <2>1, Iterates, Zenon
  <2> QED BY <2>2 DEF Follows
<1> DEFINE of(b) == [c \in State |-> TableStep(c, b)]
           Is(g) == g = [i \in 0..n |-> IF i = 0 THEN \hFFFF ELSE of(data[i])[g[i - 1]]]
<1>4. ASSUME NEW i \in 1..n PROVE f[i] = TableStep(f[i - 1], data[i])
  <2>1. f[i - 1] \in Word
    BY <1>3
  <2>2. step[i][f[i - 1]] = TableStep(f[i - 1], data[i])
    BY <2>1
  <2> HIDE DEF step
  <2> QED BY <1>3, <2>2
<1>11. ASSUME NEW c \in Word, NEW b PROVE of(b)[c] = TableStep(c, b)
  BY StateIsWord
<1>5. Is(f)
  <2> HIDE DEF of, step
  <2>1. \A i \in 1..n : f[i - 1] \in Word
    BY <1>3
  <2>2. \A i \in 1..n : of(data[i])[f[i - 1]] = TableStep(f[i - 1], data[i])
    BY <1>11, <2>1
  <2>3. \A i \in 0..n : f[i] = IF i = 0 THEN \hFFFF ELSE of(data[i])[f[i - 1]]
    BY <1>3, <1>4, <2>2
  <2> QED BY <1>3, <2>3
<1> DEFINE g == CHOOSE h : Is(h)
<1>6. Is(g)
  <2>1. \E h : Is(h)
    BY <1>5
  <2> HIDE DEF Is
  <2> QED BY <2>1, Zenon
<1>7. egw_crc_modbus_table(data) = g[n]
  BY DEF egw_crc_modbus_table
<1> HIDE DEF g, of
<1>8. g[0] = \hFFFF /\ \A i \in 1..n : g[i] = of(data[i])[g[i - 1]]
  BY <1>6
<1> DEFINE G == {i \in 0..n : f[i] = g[i]}
<1>9. 0 \in G /\ \A i \in 0..n : i \in G /\ i < n => i + 1 \in G
  <2>1. \A i \in 1..n : of(data[i])[f[i - 1]] = TableStep(f[i - 1], data[i])
    BY <1>3, <1>11
  <2> QED BY <1>3, <1>4, <1>8, <2>1
<1>10. n \in G
  <2> HIDE DEF G
  <2>1. n \in Nat /\ 0 \in 0..n /\ n \in 0..n
    OBVIOUS
  <2>2. \A i \in 0..n : i \in G
    BY <1>9, <2>1, Climb
  <2> QED BY <2>1, <2>2
<1> QED BY <1>3, <1>4, <1>7, <1>10

(* Byte strings of one length that differ in one byte, at k. *)
DifferAt(s, t, k) ==
    /\ Len(s) = Len(t) /\ k \in 1..Len(s)
    /\ s[k] /= t[k] /\ \A i \in 1..Len(s) : i /= k => s[i] = t[i]

(* The checksum of the frames tells any two byte strings apart that differ in one byte,
   whatever their length: no change of one byte of what a frame's checksum covers goes
   unseen (egw_crc_modbus_table).  The state of the routine before the byte is the same,
   after it it differs, and no later step can make two states equal again. *)
THEOREM CrcDetectsOneByte ==
    ASSUME NEW s \in Seq(Byte), NEW t \in Seq(Byte), NEW k \in Nat, DifferAt(s, t, k)
    PROVE  /\ egw_crc_modbus_table(s) \in Word /\ egw_crc_modbus_table(t) \in Word
           /\ egw_crc_modbus_table(s) /= egw_crc_modbus_table(t)
<1> DEFINE n == Len(s)
<1>1. /\ n \in Nat /\ Len(t) = n /\ k \in 1..n
      /\ s[k] /= t[k] /\ \A i \in 1..n : i /= k => s[i] = t[i]
      /\ \A i \in 1..n : s[i] \in Byte /\ t[i] \in Byte
  BY DEF DifferAt
<1>2. PICK f \in [0..n -> Word] :
          /\ f[0] = \hFFFF
          /\ \A i \in 1..n : f[i] = TableStep(f[i - 1], s[i])
          /\ egw_crc_modbus_table(s) = f[n]
  BY CrcStates
<1>3. PICK g \in [0..n -> Word] :
          /\ g[0] = \hFFFF
          /\ \A i \in 1..n : g[i] = TableStep(g[i - 1], t[i])
          /\ egw_crc_modbus_table(t) = g[n]
  BY <1>1, CrcStates
<1> HIDE DEF n
<1>4. f[k - 1] = g[k - 1]
  <2> DEFINE G == {i \in 0..(k - 1) : f[i] = g[i]}
  <2>1. 0 \in G
    BY <1>1, <1>2, <1>3
  <2>2. \A i \in 0..(k - 1) : i \in G /\ i < k - 1 => i + 1 \in G
    <3> SUFFICES ASSUME NEW i \in 0..(k - 1), f[i] = g[i], i < k - 1 PROVE f[i + 1] = g[i + 1]
      OBVIOUS
    <3>1. i + 1 \in 1..n /\ i + 1 /= k /\ (i + 1) - 1 = i
      BY <1>1
    <3>2. s[i + 1] = t[i + 1]
      BY <1>1, <3>1
    <3> QED BY <1>2, <1>3, <3>1, <3>2
  <2>3. k - 1 \in Nat /\ 0 \in 0..(k - 1) /\ k - 1 \in 0..(k - 1)
    BY <1>1
  <2> HIDE DEF G
  <2>4. \A i \in 0..(k - 1) : i \in G
    BY <2>1, <2>2, <2>3, Climb
  <2> QED BY <2>3, <2>4 DEF G
<1>5. f[k] /= g[k]
  <2>1. f[k] = TableStep(f[k - 1], s[k]) /\ g[k] = TableStep(f[k - 1], t[k])
    BY <1>1, <1>2, <1>3, <1>4
  <2>2. f[k - 1] \in Word
    BY <1>1
  <2> QED BY <1>1, <2>1, <2>2, TableStepInjective
<1>6. f[n] /= g[n]
  <2> DEFINE G == {i \in k..n : f[i] /= g[i]}
  <2>1. k \in G
    BY <1>1, <1>5
  <2>2. \A i \in k..n : i \in G /\ i < n => i + 1 \in G
    <3> SUFFICES ASSUME NEW i \in k..n, f[i] /= g[i], i < n PROVE f[i + 1] /= g[i + 1]
      BY <1>1
    <3>1. i + 1 \in 1..n /\ i + 1 /= k /\ (i + 1) - 1 = i /\ i \in 0..n
      BY <1>1
    <3>2. s[i + 1] = t[i + 1] /\ s[i + 1] \in Byte /\ f[i] \in Word /\ g[i] \in Word
      BY <1>1, <3>1
    <3>3. f[i + 1] = TableStep(f[i], s[i + 1]) /\ g[i + 1] = TableStep(g[i], s[i + 1])
      BY <1>2, <1>3, <3>1, <3>2
    <3> QED BY <3>2, <3>3, TableStepInjective
  <2>3. n \in Nat /\ k \in 0..n /\ n \in k..n
    BY <1>1
  <2> HIDE DEF G
  <2>4. \A i \in k..n : i \in G
    BY <2>1, <2>2, <2>3, Climb
  <2> QED BY <2>3, <2>4 DEF G
<1> QED BY <1>1, <1>2, <1>3, <1>6

-------------------------------------------------------------------------------
(* The bit routine. *)

(* A shift of the bit method when the argument a, whose low bit is clear, is mixed in:
   it is halved. *)
LEMMA BitStepXor == \A a, b \in Word :
    /\ BitStep(b) \in Word
    /\ a % 2 = 0 => BitStep(a ^^ b) = (a \div 2) ^^ BitStep(b)
<1> SUFFICES ASSUME NEW a \in Word, NEW b \in Word
             PROVE  /\ BitStep(b) \in Word
                    /\ a % 2 = 0 => BitStep(a ^^ b) = (a \div 2) ^^ BitStep(b)
  OBVIOUS
<1> DEFINE g == \hA001
           c == a \div 2
           d == b \div 2
           p == a ^^ b
<1>1. g \in Word
  BY WordRange, SMT
<1>2. c \in Word /\ d \in Word /\ p \div 2 = c ^^ d /\ (a % 2 = 0 => p % 2 = b % 2)
  BY HalfNibbles, HalfXor
<1>3. /\ BitStep(b) = IF b % 2 = 1 THEN d ^^ g ELSE d
      /\ BitStep(p) = IF p % 2 = 1 THEN (p \div 2) ^^ g ELSE p \div 2
  BY DEF BitStep
<1> HIDE DEF g, c, d, p
<1>4. d ^^ g \in Word /\ (c ^^ d) ^^ g = c ^^ (d ^^ g)
  BY <1>1, <1>2, WordXor, WordAssoc
<1>5. /\ BitStep(b) \in Word
      /\ a % 2 = 0 => BitStep(p) = c ^^ BitStep(b)
  BY <1>2, <1>3, <1>4
<1> QED BY <1>5 DEF c, p

(* Four shifts of a high part with four clear bits, and of the rest. *)
LEMMA FourBitsXor ==
    ASSUME NEW a \in Word, NEW b \in Word, NEW k \in Nat, a = 16 * k
    PROVE  FourBits(b) \in Word /\ FourBits(a ^^ b) = k ^^ FourBits(b)
<1>1. /\ 8 * k \in Word /\ 4 * k \in Word /\ 2 * k \in Word /\ k \in Word
      /\ a % 2 = 0 /\ (8 * k) % 2 = 0 /\ (4 * k) % 2 = 0 /\ (2 * k) % 2 = 0
      /\ a \div 2 = 8 * k /\ (8 * k) \div 2 = 4 * k /\ (4 * k) \div 2 = 2 * k
      /\ (2 * k) \div 2 = k
  <2>1. a <= 65535
    BY WordRange
  <2> QED BY <2>1, WordRange, SMT
<1> DEFINE b1 == BitStep(b)
           b2 == BitStep(b1)
           b3 == BitStep(b2)
           b4 == BitStep(b3)
<1>2. b1 \in Word /\ b2 \in Word /\ b3 \in Word /\ b4 \in Word
  BY BitStepXor
<1>3. FourBits(b) = b4
  BY DEF FourBits
<1>4. BitStep(a ^^ b) = (8 * k) ^^ b1
  BY <1>1, BitStepXor
<1> HIDE DEF b4
<1>5. BitStep((8 * k) ^^ b1) = (4 * k) ^^ b2
  <2> HIDE DEF b1
  <2> QED BY <1>1, <1>2, BitStepXor DEF b2
<1>6. BitStep((4 * k) ^^ b2) = (2 * k) ^^ b3
  <2> HIDE DEF b2
  <2> QED BY <1>1, <1>2, BitStepXor DEF b3
<1>7. BitStep((2 * k) ^^ b3) = k ^^ b4
  <2> HIDE DEF b3
  <2> QED BY <1>1, <1>2, BitStepXor DEF b4
<1> HIDE DEF b1, b2, b3
<1> QED BY <1>2, <1>3, <1>4, <1>5, <1>6, <1>7 DEF FourBits

(* Eight shifts move the high byte to the low one and leave the table's entry of what
   was there: both routines take the same step. *)
LEMMA StepsAgree ==
    ASSUME NEW crc \in Word, NEW b \in Byte
    PROVE  CalcStep(crc, b) = TableStep(crc, b)
<1> DEFINE h == crc \div 256
           x == ByteXor(crc % 256, b)
           a == 256 * h
           s == crc ^^ b
<1>0. crc \in 0..65535
  BY DEF Word
<1>1. h \in Byte /\ crc % 256 \in Byte
  BY WordBytes
<1>2. x \in Byte /\ ByteXor(h, 0) = h
  BY <1>1, ByteCancel
<1>3. s = 256 * h + x
  <2>1. s = 256 * ByteXor(h, 0) + x
    BY WordBytes DEF ^^
  <2> QED BY <1>2, <2>1
<1> HIDE DEF x
<1>4. h \in Nat /\ x \in Nat /\ x \in Word /\ a \in Word /\ 16 * h \in Word /\ h \in Word
  BY <1>1, <1>2, ByteIff, WordRange, SMT
<1>5. a ^^ x = s
  <2>1. 0 \in Byte
    BY ByteIff, SMT
  <2>2. a \div 256 = h /\ a % 256 = 0 /\ x \div 256 = 0 /\ x % 256 = x
    <3>1. h <= 255 /\ x <= 255
      BY <1>1, <1>2, ByteIff
    <3> QED BY <1>4, <3>1, SMT
  <2>3. a ^^ x = 256 * ByteXor(h, 0) + ByteXor(0, x)
    BY <2>2, Zenon DEF ^^
  <2> HIDE DEF h
  <2>4. ByteXor(0, x) = x
    BY <1>2, ByteCancel
  <2> QED BY <1>2, <1>3, <2>3, <2>4
<1>6. /\ FourBits(x) \in Word /\ FourBits(a ^^ x) = (16 * h) ^^ FourBits(x)
  <2>1. 16 * h \in Nat /\ a = 16 * (16 * h)
    BY <1>4
  <2> HIDE DEF a, h
  <2> QED BY <1>4, <2>1, FourBitsXor
<1>7. FourBits((16 * h) ^^ FourBits(x)) = h ^^ FourBits(FourBits(x))
  <2> DEFINE c == 16 * h
             y == FourBits(x)
  <2>1. c \in Word /\ h \in Nat /\ c = 16 * h /\ y \in Word
    BY <1>4, <1>6
  <2> HIDE DEF c, y, h
  <2>2. FourBits(c ^^ y) = h ^^ FourBits(y)
    BY <2>1, FourBitsXor
  <2> QED BY <2>2 DEF c, y
<1>8. FourBits(FourBits(x)) = Entry(x)
  BY <1>2, RemainderAssumption, Zenon DEF Index, Byte
<1>9. TableStep(crc, b) = h ^^ Entry(s % 256)
  BY <1>0 DEF TableStep
<1>10. s % 256 = x
  <2> HIDE DEF h, s
  <2> QED BY <1>1, <1>2, <1>3, WordBytes
<1>11. CalcStep(crc, b) = FourBits(FourBits(s))
  BY <1>0 DEF CalcStep
<1> HIDE DEF a, s, h
<1> QED BY <1>5, <1>6, <1>7, <1>8, <1>9, <1>10, <1>11

(* The routine all frames are checked with and the one kept beside it compute the same
   checksum of every byte string (egw_crc_modbus_table, egw_crc_modbus_calc). *)
THEOREM RoutinesAgreeAlways ==
    ASSUME NEW data \in Seq(Byte)
    PROVE  egw_crc_modbus_table(data) = egw_crc_modbus_calc(data)
<1> DEFINE n == Len(data)
<1>1. PICK f \in [0..n -> Word] :
          /\ f[0] = \hFFFF
          /\ \A i \in 1..n : f[i] = TableStep(f[i - 1], data[i])
          /\ egw_crc_modbus_table(data) = f[n]
  BY CrcStates
<1>2. ASSUME NEW i \in 1..n PROVE f[i] = CalcStep(f[i - 1], data[i])
  <2>1. f[i - 1] \in Word /\ data[i] \in Byte
    BY <1>1
  <2> QED BY <1>1, <2>1, StepsAgree
<1> DEFINE of(b) == [c \in State |-> CalcStep(c, b)]
           Is(g) == g = [i \in 0..n |-> IF i = 0 THEN \hFFFF ELSE of(data[i])[g[i - 1]]]
           g == CHOOSE h : Is(h)
<1>9. \A i \in 1..n : of(data[i])[f[i - 1]] = CalcStep(f[i - 1], data[i])
  <2>1. ASSUME NEW c \in Word, NEW b PROVE of(b)[c] = CalcStep(c, b)
    BY StateIsWord
  <2> HIDE DEF of
  <2> QED BY <1>1, <2>1
<1>3. Is(f)
  <2> HIDE DEF of
  <2>1. \A i \in 0..n : f[i] = IF i = 0 THEN \hFFFF ELSE of(data[i])[f[i - 1]]
    BY <1>1, <1>2, <1>9
  <2> QED BY <1>1, <2>1
<1>4. Is(g)
  <2>1. \E h : Is(h)
    BY <1>3
  <2> HIDE DEF Is
  <2> QED BY <2>1, Zenon
<1>5. egw_crc_modbus_calc(data) = g[n]
  BY DEF egw_crc_modbus_calc
<1> HIDE DEF g, of
<1>6. g[0] = \hFFFF /\ \A i \in 1..n : g[i] = of(data[i])[g[i - 1]]
  BY <1>4
<1> DEFINE G == {i \in 0..n : f[i] = g[i]}
<1>7. 0 \in G /\ \A i \in 0..n : i \in G /\ i < n => i + 1 \in G
  BY <1>1, <1>2, <1>6, <1>9
<1>8. n \in G
  <2> HIDE DEF G
  <2>1. n \in Nat /\ 0 \in 0..n /\ n \in 0..n
    OBVIOUS
  <2>2. \A i \in 0..n : i \in G
    BY <1>7, <2>1, Climb
  <2> QED BY <2>1, <2>2
<1> QED BY <1>1, <1>5, <1>8

-------------------------------------------------------------------------------
(* One changed byte of a frame. *)

(* The checksum tells byte strings apart that differ in one byte. *)
DetectsOneByte ==
    \A s, t \in Seq(Byte) : \A k \in Nat : DifferAt(s, t, k) => Checksum(s) /= Checksum(t)

(* Of two frames with valid checksums that differ in one byte neither is possible when
   the checksum detects it. *)
LEMMA OneByteShows ==
    ASSUME DetectsOneByte, NEW f \in Seq(Byte), NEW w \in Seq(Byte), Len(f) >= 3,
           NEW k \in Nat, DifferAt(f, w, k), validate(f)
    PROVE  ~validate(w)
<1> DEFINE n == Len(f)
           s == SubSeq(f, 1, n - 2)
           t == SubSeq(w, 1, n - 2)
<1>1. /\ n \in Nat /\ n >= 3 /\ Len(w) = n /\ k \in 1..n
      /\ f[k] /= w[k] /\ \A i \in 1..n : i /= k => f[i] = w[i]
  BY DEF DifferAt
<1>2. /\ s \in Seq(Byte) /\ t \in Seq(Byte) /\ Len(s) = n - 2 /\ Len(t) = n - 2
      /\ \A i \in 1..n - 2 : s[i] = f[i] /\ t[i] = w[i]
  BY <1>1
<1>3. f[n - 1] = Low(Checksum(s)) /\ f[n] = High(Checksum(s))
  BY DEF validate
<1>4. SUFFICES ASSUME validate(w) PROVE FALSE
  OBVIOUS
<1>5. w[n - 1] = Low(Checksum(t)) /\ w[n] = High(Checksum(t))
  BY <1>1, <1>4 DEF validate
<1> HIDE DEF n, s, t
<1>6. CASE k <= n - 2
  <2>1. DifferAt(s, t, k)
    BY <1>1, <1>2, <1>6 DEF DifferAt
  <2>2. Checksum(s) /= Checksum(t)
    BY <1>2, <2>1 DEF DetectsOneByte
  <2>3. f[n - 1] = w[n - 1] /\ f[n] = w[n]
    BY <1>1, <1>6
  <2>4. Checksum(s) = Checksum(t)
    <3>1. Checksum(s) = BE(High(Checksum(s)), Low(Checksum(s)))
      BY ChecksumType, HighLow
    <3>2. Checksum(t) = BE(High(Checksum(t)), Low(Checksum(t)))
      BY ChecksumType, HighLow
    <3> QED BY <1>3, <1>5, <2>3, <3>1, <3>2
  <2> QED BY <2>2, <2>4
<1>7. CASE k > n - 2
  <2>1. \A i \in 1..n - 2 : s[i] = t[i]
    BY <1>1, <1>2, <1>7
  <2>2. s = t
    BY <1>2, <2>1, SeqEqual
  <2>3. f[n - 1] = w[n - 1] /\ f[n] = w[n]
    BY <1>3, <1>5, <2>2
  <2>4. k = n - 1 \/ k = n
    BY <1>1, <1>7
  <2> QED BY <1>1, <2>3, <2>4
<1> QED BY <1>1, <1>6, <1>7

(* What is unpacked is the inside of a prefix with a valid checksum, as long as the
   delimiter inferred. *)
LEMMA UnpackedInside ==
    ASSUME Transport = RTU, NEW b \in Seq(Byte), NEW e \in Int,
           e \in {NeedLength, BadLength} \/ e >= 5, Unpacked(b, Delimit(b, e)).ok
    PROVE  LET d == Unpacked(b, Delimit(b, e))
           IN  /\ e >= 5 /\ e <= Len(b) /\ validate(SubSeq(b, 1, e))
               /\ d.unit = b[1] /\ d.pdu \in Seq(Byte) /\ Len(d.pdu) = e - 3
               /\ \A i \in 1..e - 3 : d.pdu[i] = b[i + 1]
<1> DEFINE p == Delimit(b, e)
<1>1. Len(b) \in Nat
  OBVIOUS
<1>2. p.res = "FRAME_READY"
  BY DEF Unpacked
<1>3. e >= 5 /\ e <= Len(b) /\ validate(SubSeq(b, 1, e)) /\ p.len = e
  <2>1. CASE Len(b) < MIN_FRAME \/ e = NeedLength \/ (e >= 5 /\ Len(b) < e)
    <3>1. p = [res |-> "NEED_MORE", len |-> 0]
      BY <1>1, <2>1 DEF Delimit, MIN_FRAME, NeedLength, BadLength
    <3> QED BY <1>2, <3>1
  <2>2. CASE Len(b) >= MIN_FRAME /\ e = BadLength
    <3>1. p = [res |-> "FRAME_ERROR", len |-> 0]
      BY <1>1, <2>2 DEF Delimit, MIN_FRAME, NeedLength, BadLength
    <3> QED BY <1>2, <3>1
  <2>3. CASE e >= 5 /\ Len(b) >= e
    <3>1. p = IF validate(SubSeq(b, 1, e)) THEN [res |-> "FRAME_READY", len |-> e]
                                           ELSE [res |-> "FRAME_ERROR", len |-> 0]
      BY <1>1, <2>3 DEF Delimit, MIN_FRAME, NeedLength, BadLength
    <3>2. validate(SubSeq(b, 1, e))
      BY <1>2, <3>1
    <3> QED BY <2>3, <3>1, <3>2
  <2> QED BY <1>1, <2>1, <2>2, <2>3 DEF MIN_FRAME
<1> DEFINE f == SubSeq(b, 1, e)
<1>4. /\ f \in Seq(Byte) /\ Len(f) = e /\ f[1] = b[1] /\ Len(f) >= 4 /\ validate(f)
      /\ \A i \in 1..e : f[i] = b[i]
  BY <1>3
<1>5. Unpacked(b, p) = egw_modbus_decode(RTU, f)
  BY <1>2, <1>3 DEF Unpacked
<1> HIDE DEF f, p
<1>6. Unpacked(b, p) = [ok |-> TRUE, unit |-> f[1], pdu |-> SubSeq(f, 2, Len(f) - 2)]
  BY <1>4, <1>5 DEF egw_modbus_decode
<1>7. /\ SubSeq(f, 2, Len(f) - 2) \in Seq(Byte) /\ Len(SubSeq(f, 2, Len(f) - 2)) = e - 3
      /\ \A i \in 1..e - 3 : SubSeq(f, 2, Len(f) - 2)[i] = f[i + 1]
  BY <1>3, <1>4
<1>8. \A i \in 1..e - 3 : f[i + 1] = b[i + 1]
  BY <1>3, <1>4
<1> QED BY <1>3, <1>4, <1>6, <1>7, <1>8 DEF p

(* No more is unpacked than the bytes have room for, and nothing of what is refused. *)
LEMMA UnpackedLength ==
    ASSUME Transport = RTU, NEW b \in Seq(Byte), NEW e \in Int,
           e \in {NeedLength, BadLength} \/ e >= 5
    PROVE  LET d == Unpacked(b, Delimit(b, e))
           IN  IF d.ok THEN Len(d.pdu) \in Nat /\ Len(d.pdu) <= Len(b) - 3 ELSE Len(d.pdu) = 0
<1> DEFINE p == Delimit(b, e)
           d == Unpacked(b, p)
<1>1. CASE d.ok
  <2>1. e >= 5 /\ e <= Len(b) /\ Len(d.pdu) = e - 3
    BY <1>1, UnpackedInside
  <2>2. d.ok /\ Len(d.pdu) \in Nat /\ Len(d.pdu) <= Len(b) - 3
    <3> HIDE DEF d
    <3> QED BY <1>1, <2>1
  <2> QED BY <2>2, Zenon
<1>2. CASE ~d.ok
  <2>1. CASE p.res /= "FRAME_READY"
    <3>1. d.pdu = <<>>
      BY <2>1 DEF Unpacked
    <3>2. Len(d.pdu) = 0
      <4> HIDE DEF d
      <4> QED BY <3>1
    <3> QED BY <1>2, <3>2, Zenon
  <2>2. CASE p.res = "FRAME_READY"
    <3>1. d = egw_modbus_decode(RTU, SubSeq(b, 1, p.len))
      BY <2>2 DEF Unpacked
    <3>2. Len(d.pdu) = 0
      <4> HIDE DEF d, p
      <4>1. d.pdu = <<>>
        BY <1>2, <3>1 DEF egw_modbus_decode
      <4> QED BY <4>1
    <3> QED BY <1>2, <3>2, Zenon
  <2> QED BY <2>1, <2>2
<1> QED BY <1>1, <1>2

(* A whole frame with a valid checksum is unpacked. *)
LEMMA WholeUnpacked ==
    ASSUME Transport = RTU, NEW f \in Seq(Byte), Len(f) >= 5, validate(f)
    PROVE  Unpacked(f, Delimit(f, Len(f))).ok
<1> DEFINE n == Len(f)
           p == Delimit(f, n)
<1>1. n \in Nat /\ n >= 5 /\ SubSeq(f, 1, n) = f
  OBVIOUS
<1>2. p = [res |-> "FRAME_READY", len |-> n]
  <2>1. ~(n < MIN_FRAME) /\ n /= NeedLength /\ n /= BadLength /\ ~(n < n)
    BY <1>1 DEF MIN_FRAME, NeedLength, BadLength
  <2>2. validate(SubSeq(f, 1, n))
    BY <1>1
  <2> QED BY <2>1, <2>2, Zenon DEF Delimit
<1>3. Unpacked(f, p) = egw_modbus_decode(RTU, f)
  <2>1. p.res = "FRAME_READY" /\ p.len = n
    BY <1>2
  <2> HIDE DEF p
  <2> QED BY <1>1, <2>1 DEF Unpacked
<1> HIDE DEF p
<1>4. egw_modbus_decode(RTU, f) = [ok |-> TRUE, unit |-> f[1], pdu |-> SubSeq(f, 2, n - 2)]
  BY <1>1 DEF egw_modbus_decode
<1> QED BY <1>3, <1>4 DEF p

-------------------------------------------------------------------------------
(* Requests. *)

(* The PDU of a read or a single write. *)
LEMMA ShortPdu ==
    ASSUME NEW r \in Requests, r.funccode \in ReadCodes \cup WriteOne
    PROVE  LET pdu == RequestPdu(r)
           IN  /\ pdu \in Seq(Byte) /\ Len(pdu) = 5 /\ pdu[1] = r.funccode
               /\ pdu[2] = High(r.addr) /\ pdu[3] = Low(r.addr)
               /\ r.funccode \in ReadCodes => pdu[4] = High(r.count) /\ pdu[5] = Low(r.count)
               /\ r.funccode \in WriteOne => pdu[4] = r.data[1] /\ pdu[5] = r.data[2]
<1>1. /\ r.funccode \in Byte /\ r.addr \in Word /\ r.count \in Word /\ r.data \in Seq(Byte)
      /\ r.funccode \in WriteOne => Len(r.data) = 2
  BY ExchangeAssumption DEF ReadCodes, WriteOne, Byte
<1>2. /\ High(r.addr) \in Byte /\ Low(r.addr) \in Byte
      /\ High(r.count) \in Byte /\ Low(r.count) \in Byte
  BY <1>1, HighLow
<1> DEFINE head == <<r.funccode, High(r.addr), Low(r.addr)>>
<1>3. CASE r.funccode \in ReadCodes
  <2>1. r.funccode \notin WriteOne /\ r.funccode /= 15 /\ r.funccode /= 16
    BY <1>3 DEF ReadCodes, WriteOne
  <2>2. RequestPdu(r) = head \o <<High(r.count), Low(r.count)>>
    BY <1>3, <2>1 DEF RequestPdu
  <2> QED BY <1>1, <1>2, <2>1, <2>2
<1>4. CASE r.funccode \in WriteOne
  <2>1. r.funccode \notin ReadCodes /\ r.funccode /= 15 /\ r.funccode /= 16
    BY <1>4 DEF ReadCodes, WriteOne
  <2>2. r.data /= <<>> /\ SubSeq(r.data, 1, 2) = r.data
    <3>1. Len(r.data) = 2 /\ r.data \in Seq(Byte)
      BY <1>1, <1>4
    <3>2. SubSeq(r.data, 1, Len(r.data)) = r.data
      BY <3>1, SubSeqFull
    <3>3. SubSeq(r.data, 1, 2) = r.data
      BY <3>1, <3>2
    <3>4. r.data /= <<>>
      <4> DEFINE d == r.data
      <4>1. Len(d) = 2
        BY <3>1
      <4> HIDE DEF d
      <4>2. d /= <<>>
        BY <4>1
      <4> QED BY <4>2 DEF d
    <3> QED BY <3>3, <3>4
  <2>3. RequestPdu(r) = head \o r.data
    <3>1. (IF r.data = <<>> THEN <<0, 0>> ELSE SubSeq(r.data, 1, 2)) = r.data
      BY <2>2
    <3> QED BY <1>4, <2>1, <3>1, Zenon DEF RequestPdu
  <2>4. r.data \in Seq(Byte) /\ Len(r.data) = 2
    BY <1>1, <1>4
  <2> DEFINE s == head \o r.data
  <2>5. /\ s \in Seq(Byte) /\ Len(s) = 5 /\ s[1] = r.funccode /\ s[2] = High(r.addr)
        /\ s[3] = Low(r.addr) /\ s[4] = r.data[1] /\ s[5] = r.data[2]
    BY <1>1, <1>2, <2>4, FiveBytes
  <2> HIDE DEF s
  <2>6. RequestPdu(r) = s
    BY <2>3 DEF s
  <2> QED BY <1>4, <2>1, <2>5, <2>6
<1> QED BY <1>3, <1>4

(* Six bytes put together. *)
LEMMA SixBytes ==
    ASSUME NEW a \in Byte, NEW b \in Byte, NEW c \in Byte,
           NEW d \in Byte, NEW e \in Byte, NEW f \in Byte
    PROVE  LET s == <<a, b, c>> \o <<d, e>> \o <<f>>
           IN  s \in Seq(Byte) /\ Len(s) = 6 /\ s[1] = a /\ s[6] = f
OBVIOUS

(* The PDU of a write of several values: as long as announced, less one byte. *)
LEMMA LongPdu ==
    ASSUME NEW r \in Requests, r.funccode \in WriteMany
    PROVE  LET pdu == RequestPdu(r)
           IN  /\ pdu \in Seq(Byte) /\ Announced(r) \in Byte /\ Len(pdu) = 5 + Announced(r)
               /\ pdu[1] = r.funccode
               /\ Announced(r) >= 1 => pdu[6] = Announced(r)
<1> DEFINE bc == Announced(r)
           head == <<r.funccode, High(r.addr), Low(r.addr)>>
           qty == <<High(r.count), Low(r.count)>>
           all == head \o qty \o <<bc>> \o SubSeq(r.data, 1, bc)
<1>1. /\ r.funccode \in Byte /\ r.addr \in Word /\ r.count \in Word /\ r.data \in Seq(Byte)
      /\ Len(r.data) >= bc
  BY ExchangeAssumption DEF WriteMany, Byte
<1>2. /\ High(r.addr) \in Byte /\ Low(r.addr) \in Byte
      /\ High(r.count) \in Byte /\ Low(r.count) \in Byte
  BY <1>1, HighLow
<1>3. bc \in Byte
  <2>1. r.count \in Nat
    BY <1>1, WordIsNat
  <2>2. /\ ((r.count + 7) \div 8) % 256 \in Nat /\ ((r.count + 7) \div 8) % 256 <= 255
        /\ (r.count * 2) % 256 \in Nat /\ (r.count * 2) % 256 <= 255
    BY <2>1
  <2>3. r.funccode = 15 \/ r.funccode = 16
    BY DEF WriteMany
  <2> QED BY <2>2, <2>3, ByteIff DEF Announced
<1>4. RequestPdu(r) = SubSeq(all, 1, 5 + bc)
  <2>1. r.funccode \notin ReadCodes /\ r.funccode \notin WriteOne
    BY DEF ReadCodes, WriteOne, WriteMany
  <2>2. r.funccode = 15 \/ r.funccode = 16
    BY DEF WriteMany
  <2>3. CASE r.funccode = 15
    <3>1. bc = ((r.count + 7) \div 8) % 256
      BY <2>3 DEF Announced
    <3>2. ~(r.funccode = 16)
      BY <2>3
    <3> HIDE DEF bc
    <3> QED BY <2>1, <2>3, <3>1, <3>2, Zenon DEF RequestPdu
  <2>4. CASE r.funccode = 16
    <3>1. bc = (r.count * 2) % 256
      BY <2>4 DEF Announced
    <3>2. ~(r.funccode = 15)
      BY <2>4
    <3> HIDE DEF bc
    <3> QED BY <2>1, <2>4, <3>1, <3>2, Zenon DEF RequestPdu
  <2> QED BY <2>2, <2>3, <2>4
<1>5. bc \in Nat
  BY <1>3, ByteIff
<1> HIDE DEF bc
<1>6. /\ SubSeq(r.data, 1, bc) \in Seq(Byte) /\ Len(SubSeq(r.data, 1, bc)) = bc
  BY <1>1, <1>5
<1> DEFINE six == head \o qty \o <<bc>>
<1>8. six \in Seq(Byte) /\ Len(six) = 6 /\ six[1] = r.funccode /\ six[6] = bc
  BY <1>1, <1>2, <1>3, SixBytes
<1>9. all = six \o SubSeq(r.data, 1, bc)
  OBVIOUS
<1> HIDE DEF all, six
<1>10. /\ all \in Seq(Byte) /\ Len(all) = 6 + bc /\ all[1] = r.funccode /\ all[6] = bc
  <2> DEFINE tail == SubSeq(r.data, 1, bc)
  <2>1. tail \in Seq(Byte) /\ Len(tail) = bc /\ all = six \o tail
    BY <1>6, <1>9
  <2> HIDE DEF tail
  <2>2. /\ all \in Seq(Byte) /\ Len(all) = Len(six) + Len(tail)
        /\ \A i \in 1..Len(six) + Len(tail) :
              all[i] = IF i <= Len(six) THEN six[i] ELSE tail[i - Len(six)]
    BY <1>8, <2>1, ConcatProperties
  <2>3. Len(six) = 6 /\ Len(tail) = bc /\ 1 \in 1..6 + bc /\ 6 \in 1..6 + bc
    BY <1>5, <1>8, <2>1
  <2>4. all[1] = six[1] /\ all[6] = six[6]
    BY <2>2, <2>3
  <2> QED BY <1>8, <2>2, <2>3, <2>4
<1>11. /\ SubSeq(all, 1, 5 + bc) \in Seq(Byte) /\ Len(SubSeq(all, 1, 5 + bc)) = 5 + bc
       /\ SubSeq(all, 1, 5 + bc)[1] = r.funccode
       /\ bc >= 1 => SubSeq(all, 1, 5 + bc)[6] = bc
  BY <1>5, <1>10
<1> QED BY <1>3, <1>4, <1>11 DEF bc

(* The frame of a request. *)
LEMMA RequestFrame ==
    ASSUME NEW r \in Requests
    PROVE  LET f == EncodeRequest(RTU, r)
               pdu == RequestPdu(r)
           IN  /\ pdu \in Seq(Byte) /\ Len(pdu) >= 5 /\ pdu[1] = r.funccode
               /\ r.funccode \in ReadCodes \cup WriteOne => Len(pdu) = 5
               /\ f \in Seq(Byte) /\ Len(f) = Len(pdu) + 3 /\ validate(f)
               /\ f[1] = r.unit_id /\ \A i \in 1..Len(pdu) : f[i + 1] = pdu[i]
<1> DEFINE pdu == RequestPdu(r)
<1>1. r.funccode \in ReadCodes \cup WriteOne \cup WriteMany /\ r.unit_id \in Byte
  BY ExchangeAssumption
<1>4. /\ pdu \in Seq(Byte) /\ Len(pdu) >= 5 /\ pdu[1] = r.funccode
      /\ r.funccode \in ReadCodes \cup WriteOne => Len(pdu) = 5
  <2>1. CASE r.funccode \in ReadCodes \cup WriteOne
    <3>1. pdu \in Seq(Byte) /\ Len(pdu) = 5 /\ pdu[1] = r.funccode
      BY <2>1, ShortPdu
    <3> HIDE DEF pdu
    <3> QED BY <3>1
  <2>2. CASE r.funccode \in WriteMany
    <3>1. r.funccode \notin ReadCodes \cup WriteOne
      BY <2>2 DEF ReadCodes, WriteOne, WriteMany
    <3>2. Announced(r) \in Nat
      BY <2>2, LongPdu, ByteIff
    <3>3. pdu \in Seq(Byte) /\ Len(pdu) = 5 + Announced(r) /\ pdu[1] = r.funccode
      BY <2>2, LongPdu
    <3> HIDE DEF pdu
    <3> QED BY <3>1, <3>2, <3>3
  <2> QED BY <1>1, <2>1, <2>2
<1> HIDE DEF pdu
<1>5. pdu /= <<>>
  BY <1>4
<1>6. EncodeRequest(RTU, r) = Adu(RTU, 0, r.unit_id, pdu)
  BY <1>5 DEF EncodeRequest, pdu
<1> DEFINE f == Adu(RTU, 0, r.unit_id, pdu)
<1>7. /\ f \in Seq(Byte) /\ Len(f) = Len(pdu) + 3 /\ validate(f)
      /\ f[1] = r.unit_id /\ \A i \in 1..Len(pdu) : f[i + 1] = pdu[i]
  BY <1>1, <1>4, <1>5, AduShape
<1> QED BY <1>4, <1>6, <1>7 DEF pdu

(* The server unpacks a frame of eight bytes with a read or a single write. *)
LEMMA ShortFrameUnpacked ==
    ASSUME Transport = RTU, NEW f \in Seq(Byte), Len(f) = 8, validate(f),
           f[2] \in ReadCodes \cup WriteOne
    PROVE  LET d == Unpacked(f, parse_and_check(f))
           IN  /\ d.ok /\ d.unit = f[1] /\ d.pdu \in Seq(Byte) /\ Len(d.pdu) = 5
               /\ \A i \in 1..5 : d.pdu[i] = f[i + 1]
<1> DEFINE d == Unpacked(f, parse_and_check(f))
           e == Len(f)
<1>1. modbus_frame_len(f) = 8
  <2>1. Len(f) >= 7
    OBVIOUS
  <2> QED BY <2>1, FrameLenCases
<1>2. e = 8 /\ e \in Int /\ e >= 5 /\ parse_and_check(f) = Delimit(f, e)
  BY <1>1 DEF parse_and_check
<1>3. d = Unpacked(f, Delimit(f, e))
  BY <1>2
<1>4. Unpacked(f, Delimit(f, e)).ok
  BY <1>2, WholeUnpacked
<1> HIDE DEF e, d
<1>5. /\ d.unit = f[1] /\ d.pdu \in Seq(Byte) /\ Len(d.pdu) = e - 3
      /\ \A i \in 1..e - 3 : d.pdu[i] = f[i + 1]
  BY <1>2, <1>3, <1>4, UnpackedInside
<1> QED BY <1>2, <1>3, <1>4, <1>5 DEF d

(* A frame of eight bytes that does not check is not understood, whatever its function
   code: what the server would take for a shorter frame is an exception. *)
LEMMA ShortFrameRefused ==
    ASSUME Transport = RTU, NEW w \in Seq(Byte), Len(w) = 8, ~validate(w)
    PROVE  LET d == Unpacked(w, parse_and_check(w))
           IN  ~(d.ok /\ egw_modbus_parse_request(d.pdu, 0).ok)
<1> DEFINE e == modbus_frame_len(w)
           d == Unpacked(w, parse_and_check(w))
           q == egw_modbus_parse_request(d.pdu, 0)
<1>1. SUFFICES ASSUME d.ok, q.ok PROVE FALSE
  OBVIOUS
<1>2. w[2] \in Byte /\ w[7] \in Byte
  <2>1. 2 \in 1..Len(w) /\ 7 \in 1..Len(w)
    OBVIOUS
  <2> QED BY <2>1, ElementOfSeq
<1>3. e \in Int /\ (e \in {NeedLength, BadLength} \/ e >= 5)
  BY FrameLenRange
<1>4. d = Unpacked(w, Delimit(w, e))
  BY DEF parse_and_check
<1>5. Unpacked(w, Delimit(w, e)).ok
  BY <1>1, <1>4
<1> HIDE DEF e, d
<1>6. /\ e >= 5 /\ e <= Len(w) /\ validate(SubSeq(w, 1, e)) /\ d.pdu \in Seq(Byte)
      /\ Len(d.pdu) = e - 3 /\ \A i \in 1..e - 3 : d.pdu[i] = w[i + 1]
  BY <1>3, <1>4, <1>5, UnpackedInside
<1>7. e /= 8
  <2>1. SubSeq(w, 1, 8) = w
    BY SubSeqFull
  <2> QED BY <1>6, <2>1
<1>8. w[2] >= 128
  <2>1. w[2] \in Int /\ w[7] \in Int /\ w[7] >= 0
    BY <1>2, ByteRange
  <2>2. /\ w[2] \in ReadCodes \cup WriteOne => e = 8
        /\ w[2] \in WriteMany => e = 9 + w[7]
        /\ w[2] < 128 /\ w[2] \notin ReadCodes \cup WriteOne \cup WriteMany => e = BadLength
    <3>1. Len(w) >= 7
      OBVIOUS
    <3> QED BY <3>1, FrameLenCases DEF e
  <2>3. w[2] \notin WriteMany
    BY <1>6, <2>1, <2>2
  <2>4. e /= BadLength
    BY <1>6 DEF BadLength
  <2> QED BY <1>7, <2>1, <2>2, <2>3, <2>4
<1>9. q.fc \in ReadCodes \cup WriteOne \cup WriteMany
  <2>1. 0 \in Byte
    BY ByteIff
  <2> QED BY <1>1, <1>6, <2>1, ParseRequestType
<1>10. q.fc = ByteAt(d.pdu, 1, 0)
  <2> DEFINE fc == ByteAt(d.pdu, 1, 0)
             n == Len(d.pdu)
  <2>1. CASE fc \in ReadCodes /\ n >= 5
    BY <2>1 DEF egw_modbus_parse_request, ReadCodes, WriteOne, WriteMany
  <2>2. CASE fc \in WriteOne /\ n >= 5
    BY <2>2 DEF egw_modbus_parse_request, ReadCodes, WriteOne, WriteMany
  <2>3. CASE fc \in WriteMany /\ n >= 6
    BY <2>3 DEF egw_modbus_parse_request, ReadCodes, WriteOne, WriteMany
  <2>4. CASE /\ ~(fc \in ReadCodes /\ n >= 5) /\ ~(fc \in WriteOne /\ n >= 5)
             /\ ~(fc \in WriteMany /\ n >= 6)
    BY <2>4 DEF egw_modbus_parse_request
  <2> QED BY <2>1, <2>2, <2>3, <2>4
<1>11. ByteAt(d.pdu, 1, 0) = w[2]
  <2>1. 1 \in 1..e - 3 /\ 1 \in 1..Len(d.pdu)
    BY <1>3, <1>6
  <2>2. d.pdu[1] = w[2]
    BY <1>6, <2>1
  <2> QED BY <2>1, <2>2 DEF ByteAt
<1> QED BY <1>2, <1>8, <1>9, <1>10, <1>11, ByteRange DEF ReadCodes, WriteOne, WriteMany

(* A read or a single write that arrives as it was sent is understood as it was meant. *)
LEMMA RequestUnderstood ==
    ASSUME Transport = RTU, NEW r \in Requests, r.funccode \in ReadCodes \cup WriteOne
    PROVE  LET f == EncodeRequest(RTU, r)
               d == Unpacked(f, parse_and_check(f))
               q == egw_modbus_parse_request(d.pdu, 0)
           IN  /\ d.ok /\ d.unit = r.unit_id /\ d.pdu = RequestPdu(r)
               /\ q.ok /\ q.fc = r.funccode /\ q.addr = r.addr
               /\ r.funccode \in ReadCodes => q.count = r.count
               /\ r.funccode \in WriteOne => q.count = 1 /\ q.data = r.data
<1> DEFINE f == EncodeRequest(RTU, r)
           pdu == RequestPdu(r)
           d == Unpacked(f, parse_and_check(f))
           q == egw_modbus_parse_request(pdu, 0)
<1>1. pdu \in Seq(Byte) /\ Len(pdu) = 5 /\ pdu[1] = r.funccode
  BY ShortPdu
<1>2. pdu[1] \in ReadCodes \cup WriteOne
  BY <1>1
<1>3. pdu[2] = High(r.addr) /\ pdu[3] = Low(r.addr)
  BY ShortPdu
<1>4. r.funccode \in ReadCodes => pdu[4] = High(r.count) /\ pdu[5] = Low(r.count)
  BY ShortPdu
<1>5. r.funccode \in WriteOne => pdu[4] = r.data[1] /\ pdu[5] = r.data[2]
  BY ShortPdu
<1>6. /\ f \in Seq(Byte) /\ Len(f) = Len(pdu) + 3 /\ validate(f)
      /\ \A i \in 1..Len(pdu) : f[i + 1] = pdu[i]
  BY RequestFrame
<1>7. f[1] = r.unit_id
  BY RequestFrame
<1> HIDE DEF f, pdu
<1> DEFINE g == pdu
<1>8. Len(f) = 8 /\ \A i \in 1..5 : f[i + 1] = g[i]
  <2>1. Len(g) = 5 /\ \A i \in 1..Len(g) : f[i + 1] = g[i]
    BY <1>1, <1>6
  <2> QED BY <1>6, <2>1
<1>9. f[2] = g[1]
  BY <1>8
<1>10. /\ d.ok /\ d.unit = f[1] /\ d.pdu \in Seq(Byte) /\ Len(d.pdu) = 5
       /\ \A i \in 1..5 : d.pdu[i] = f[i + 1]
  BY <1>2, <1>6, <1>8, <1>9, ShortFrameUnpacked
<1> HIDE DEF d
<1>11. d.pdu = g
  <2>1. g \in Seq(Byte) /\ Len(g) = 5
    BY <1>1
  <2>2. \A i \in 1..5 : d.pdu[i] = g[i]
    BY <1>8, <1>10
  <2> HIDE DEF g
  <2> QED BY <1>10, <2>1, <2>2, SeqEqual
<1>12. /\ q.ok /\ q.fc = pdu[1] /\ q.addr = BE(pdu[2], pdu[3])
       /\ pdu[1] \in ReadCodes => q.count = BE(pdu[4], pdu[5])
       /\ pdu[1] \in WriteOne => q.count = 1 /\ q.data = SubSeq(pdu, 4, 5)
  <2>1. pdu \in Seq(Byte) /\ Len(pdu) = 5
    BY <1>1
  <2> QED BY <1>2, <2>1, ShortPduParsed
<1> HIDE DEF q
<1>13. q.addr = r.addr
  <2>1. r.addr \in Word
    BY ExchangeAssumption
  <2> QED BY <1>3, <1>12, <2>1, HighLow
<1>14. r.funccode \in ReadCodes => q.count = r.count
  <2>1. r.count \in Word
    BY ExchangeAssumption
  <2> QED BY <1>1, <1>4, <1>12, <2>1, HighLow
<1>15. r.funccode \in WriteOne => q.data = r.data
  <2> SUFFICES ASSUME r.funccode \in WriteOne PROVE SubSeq(pdu, 4, 5) = r.data
    BY <1>1, <1>12
  <2>1. r.data \in Seq(Byte) /\ Len(r.data) = 2
    BY ExchangeAssumption
  <2>2. g \in Seq(Byte) /\ Len(g) = 5
    BY <1>1
  <2>3. g[4] = r.data[1] /\ g[5] = r.data[2]
    BY <1>5
  <2> QED BY <2>1, <2>2, <2>3, LastTwo
<1>16. q = egw_modbus_parse_request(d.pdu, 0)
  BY <1>11 DEF q
<1> QED BY <1>1, <1>7, <1>10, <1>11, <1>12, <1>13, <1>14, <1>15, <1>16 DEF d, f, pdu

(* A read or a single write of which one byte was changed is not understood. *)
LEMMA RequestRefused ==
    ASSUME Transport = RTU, DetectsOneByte,
           NEW r \in Requests, r.funccode \in ReadCodes \cup WriteOne,
           NEW w \in Seq(Byte), NEW k \in Nat, DifferAt(EncodeRequest(RTU, r), w, k)
    PROVE  LET d == Unpacked(w, parse_and_check(w))
           IN  ~(d.ok /\ egw_modbus_parse_request(d.pdu, 0).ok)
<1> DEFINE f == EncodeRequest(RTU, r)
<1>1. Len(RequestPdu(r)) = 5
  BY RequestFrame
<1>2. f \in Seq(Byte) /\ Len(f) = Len(RequestPdu(r)) + 3 /\ validate(f)
  BY RequestFrame
<1> HIDE DEF f
<1>3. f \in Seq(Byte) /\ Len(f) = 8 /\ DifferAt(f, w, k)
  BY <1>1, <1>2 DEF f
<1>4. Len(w) = 8
  BY <1>3 DEF DifferAt
<1>5. ~validate(w)
  BY <1>2, <1>3, OneByteShows
<1> QED BY <1>4, <1>5, ShortFrameRefused

(* A write of several values never arrives: the server waits for a byte more than the
   frame has. *)
LEMMA LongRequestLost ==
    ASSUME Transport = RTU, NEW r \in Requests, r.funccode \in WriteMany
    PROVE  LET f == EncodeRequest(RTU, r) IN ~Unpacked(f, parse_and_check(f)).ok
<1> DEFINE f == EncodeRequest(RTU, r)
           pdu == RequestPdu(r)
           bc == Announced(r)
           e == modbus_frame_len(f)
<1>1. SUFFICES ASSUME Unpacked(f, parse_and_check(f)).ok PROVE FALSE
  OBVIOUS
<1>2. /\ pdu \in Seq(Byte) /\ Len(pdu) = 5 + bc /\ bc \in Nat /\ pdu[1] = r.funccode
      /\ bc >= 1 => pdu[6] = bc
  BY LongPdu, ByteIff
<1>3. f \in Seq(Byte) /\ Len(f) = Len(pdu) + 3 /\ \A i \in 1..Len(pdu) : f[i + 1] = pdu[i]
  BY RequestFrame
<1> HIDE DEF f, pdu, bc
<1>4. Len(f) = 8 + bc /\ f[2] = r.funccode /\ (bc >= 1 => f[7] = bc) /\ f[7] \in Byte
  <2>1. f[2] = r.funccode
    BY <1>2, <1>3
  <2>2. bc >= 1 => f[7] = bc
    BY <1>2, <1>3
  <2>3. Len(f) = 8 + bc /\ 7 \in 1..Len(f)
    BY <1>2, <1>3
  <2> QED BY <1>3, <2>1, <2>2, <2>3
<1>5. e = 9 + f[7]
  BY <1>2, <1>3, <1>4, FrameLenCases
<1>6. e > Len(f)
  <2>1. f[7] \in Nat
    BY <1>4, ByteIff
  <2> QED BY <1>2, <1>4, <1>5, <2>1
<1>7. e \in Int /\ (e \in {NeedLength, BadLength} \/ e >= 5)
  BY <1>3, FrameLenRange
<1>8. Unpacked(f, Delimit(f, e)).ok
  BY <1>1 DEF parse_and_check
<1> HIDE DEF e
<1>9. e <= Len(f)
  BY <1>3, <1>7, <1>8, UnpackedInside
<1> QED BY <1>2, <1>4, <1>6, <1>7, <1>9

-------------------------------------------------------------------------------
(* Responses. *)

(* The PDU of a read response has two bytes before its data. *)
LEMMA ReadPduLength ==
    ASSUME NEW fc, NEW data \in Seq(Byte)
    PROVE  LET pdu == egw_modbus_build_read_resp_pdu(fc, data)
           IN  Len(pdu) = 2 + ByteCount(data) /\ ByteCount(data) <= Len(data)
<1> DEFINE bc == ByteCount(data)
           tail == SubSeq(data, 1, bc)
<1>1. bc \in Nat /\ bc <= Len(data)
  <2>1. Len(data) \in Nat
    OBVIOUS
  <2> QED BY <2>1 DEF ByteCount
<1>2. egw_modbus_build_read_resp_pdu(fc, data) = <<fc, bc>> \o tail
  BY DEF egw_modbus_build_read_resp_pdu, ByteCount
<1> HIDE DEF bc
<1>3. tail \in Seq(Byte) /\ Len(tail) = bc
  BY <1>1
<1> HIDE DEF tail
<1>4. Len(<<fc, bc>> \o tail) = 2 + bc
  BY <1>1, <1>3
<1> QED BY <1>1, <1>2, <1>4 DEF bc

(* The answer to a lawful read fits the arrays of both sides. *)
LEMMA LawfulFits ==
    ASSUME NEW r \in Requests, r.funccode \in ReadCodes, Lawful(r),
           NEW rs \in Seq(Word), Len(rs) = Wanted(r.funccode, r.count)
    PROVE  /\ Len(rs) <= RegsRoom
           /\ Len(egw_modbus_build_read_resp_pdu(r.funccode, ReadBytes(r.funccode, rs))) <= MaxPdu
<1> DEFINE data == ReadBytes(r.funccode, rs)
<1>1. r.count \in Nat /\ MaxPdu \in Nat /\ MaxPdu >= 252
  BY ExchangeAssumption, WordIsNat
<1>2. data \in Seq(Byte) /\ Len(rs) <= 250 /\ Len(data) <= 250
  <2>1. CASE r.funccode \in {1, 2}
    <3>1. r.count <= 2000 /\ Len(rs) = (r.count + 7) \div 8
      BY <2>1 DEF Lawful, Wanted
    <3>2. data \in Seq(Byte) /\ Len(data) = Len(rs)
      BY <2>1, CoilBytes
    <3> HIDE DEF data
    <3> QED BY <1>1, <3>1, <3>2
  <2>2. CASE r.funccode \notin {1, 2}
    <3>1. r.count <= 125 /\ Len(rs) = r.count
      BY <2>2 DEF Lawful, Wanted
    <3>2. data \in Seq(Byte) /\ Len(data) = 2 * Len(rs)
      BY <2>2, RegisterBytes
    <3> HIDE DEF data
    <3> QED BY <1>1, <3>1, <3>2
  <2> QED BY <2>1, <2>2
<1> HIDE DEF data
<1>3. /\ Len(egw_modbus_build_read_resp_pdu(r.funccode, data)) = 2 + ByteCount(data)
      /\ ByteCount(data) <= Len(data)
  BY <1>2, ReadPduLength
<1>4. ByteCount(data) \in Int /\ Len(data) \in Nat /\ Len(rs) \in Nat
  BY <1>2 DEF ByteCount
<1> QED BY <1>1, <1>2, <1>3, <1>4 DEF RegsRoom, data

(* The response to a read, as it was sent or with one byte changed: what the client
   reports are the registers that were served. *)
LEMMA ResponseReported ==
    ASSUME Transport = RTU, NEW rs \in Seq(Word), NEW fc \in ReadCodes, NEW unit \in Byte,
           NEW f, f = ReadResponse(unit, fc, ReadBytes(fc, rs)),
           NEW w \in Seq(Byte),
           w = f \/ (DetectsOneByte /\ \E k \in Nat : DifferAt(f, w, k))
    PROVE  LET d == Unpacked(w, resp_parse(w))
               r == Parsed(d.pdu, fc)
               served == ServedOf(fc, rs)
           IN  d.ok /\ d.unit = unit /\ r.rc >= 0 =>
                     /\ Len(r.regs) <= Len(served)
                     /\ r.regs = SubSeq(served, 1, Len(r.regs))
                     /\ Len(served) <= 127 /\ w[3] = ByteCount(ReadBytes(fc, rs))
                           => r.regs = served
<1> DEFINE data == ReadBytes(fc, rs)
           bc == ByteCount(data)
           e == resp_frame_len(w)
           d == Unpacked(w, resp_parse(w))
           r == Parsed(d.pdu, fc)
<1>1. SUFFICES ASSUME d.ok, d.unit = unit, r.rc >= 0
               PROVE  /\ Len(r.regs) <= Len(ServedOf(fc, rs))
                      /\ r.regs = SubSeq(ServedOf(fc, rs), 1, Len(r.regs))
                      /\ Len(ServedOf(fc, rs)) <= 127 /\ w[3] = bc => r.regs = ServedOf(fc, rs)
  OBVIOUS
<1>2. data \in Seq(Byte)
  BY CoilBytes, RegisterBytes
<1>3. /\ f \in Seq(Byte) /\ Len(f) = 5 + bc /\ validate(f)
      /\ f[1] = unit /\ f[2] = fc /\ f[3] = bc
      /\ bc \in Nat /\ bc \in Byte /\ bc <= Len(data)
      /\ \A i \in 1..bc : f[3 + i] = data[i]
  <2> DEFINE g == ReadResponse(unit, fc, data)
  <2>1. f = g
    OBVIOUS
  <2> HIDE DEF data
  <2>2. /\ g \in Seq(Byte) /\ Len(g) = 5 + bc /\ validate(g)
        /\ g[1] = unit /\ g[2] = fc /\ g[3] = bc
        /\ bc \in Nat /\ bc \in Byte /\ bc <= Len(data)
        /\ \A i \in 1..bc : g[3 + i] = data[i]
    BY <1>2, ResponseFrame
  <2> HIDE DEF g
  <2> QED BY <2>1, <2>2, Zenon
<1>4. e \in Int /\ (e \in {NeedLength, BadLength} \/ e >= 5)
  BY RespLenRange
<1>5. d = Unpacked(w, Delimit(w, e))
  BY DEF resp_parse
<1>6. Unpacked(w, Delimit(w, e)).ok
  BY <1>1, <1>5
<1>7. Len(w) = 5 + bc
  BY <1>3 DEF DifferAt
<1> HIDE DEF e, d, data, bc
<1>8. /\ e >= 5 /\ e <= Len(w) /\ validate(SubSeq(w, 1, e)) /\ d.unit = w[1]
      /\ d.pdu \in Seq(Byte) /\ Len(d.pdu) = e - 3
      /\ \A i \in 1..e - 3 : d.pdu[i] = w[i + 1]
  BY <1>4, <1>5, <1>6, UnpackedInside
<1>9. d.pdu[1] = w[2] /\ d.pdu[2] = w[3]
  <2>1. 1 \in 1..e - 3 /\ 2 \in 1..e - 3
    BY <1>4, <1>8
  <2>2. d.pdu[1] = w[1 + 1] /\ d.pdu[2] = w[2 + 1]
    BY <1>8, <2>1
  <2> QED BY <2>2
<1>10. w[2] = fc
  <2>1. d.pdu[1] \in Byte /\ d.pdu[2] \in Byte
    <3>1. 1 \in 1..Len(d.pdu) /\ 2 \in 1..Len(d.pdu)
      BY <1>4, <1>8
    <3> QED BY <1>8, <3>1, ElementOfSeq
  <2>2. d.pdu[1] \in Int /\ d.pdu[2] \in Int /\ d.pdu[2] >= 0
    BY <2>1, ByteRange
  <2>3. CASE d.pdu[1] = fc
    BY <1>9, <2>3
  <2>4. CASE d.pdu[1] /= fc
    <3>1. ~(r.rc >= 0)
      BY <2>2, <2>4, NoResult
    <3> QED BY <1>1, <3>1
  <2> QED BY <2>3, <2>4
<1>11. w[3] \in Nat /\ e = 5 + w[3]
  <2>1. 3 \in 1..Len(w) /\ Len(w) >= 3
    BY <1>3, <1>7
  <2>2. w[3] \in Byte
    BY <2>1, ElementOfSeq
  <2>3. resp_frame_len(w) = 5 + w[3]
    BY <1>10, <2>1, ReadFrameLen
  <2> QED BY <2>2, <2>3, ByteIff DEF e
<1>12. w[3] <= bc
  BY <1>3, <1>7, <1>8, <1>11
<1>13. \A i \in 1..w[3] : w[3 + i] = data[i]
  <2>1. CASE w = f
    BY <1>3, <1>11, <1>12, <2>1
  <2>2. CASE DetectsOneByte /\ \E k \in Nat : DifferAt(f, w, k)
    <3>1. PICK k \in Nat : DifferAt(f, w, k)
      BY <2>2
    <3>2. ~validate(w)
      <4>1. Len(f) >= 3
        BY <1>3
      <4> QED BY <1>3, <2>2, <3>1, <4>1, OneByteShows
    <3>3. e /= Len(w)
      <4>1. SubSeq(w, 1, Len(w)) = w
        BY SubSeqFull
      <4> QED BY <1>8, <3>2, <4>1
    <3>4. w[3] /= f[3]
      BY <1>3, <1>7, <1>11, <3>3
    <3>5. /\ 3 \in 1..Len(f) /\ \A i \in 1..Len(f) : i /= k => f[i] = w[i]
      BY <1>3, <3>1 DEF DifferAt
    <3>6. k = 3
      BY <3>4, <3>5
    <3> SUFFICES ASSUME NEW i \in 1..w[3] PROVE w[3 + i] = data[i]
      OBVIOUS
    <3>7. 3 + i \in 1..Len(f) /\ 3 + i /= k /\ i \in 1..bc
      BY <1>3, <1>11, <1>12, <3>6
    <3> QED BY <1>3, <3>5, <3>7
  <2> QED BY <2>1, <2>2
<1>14. \A i \in 1..w[3] : d.pdu[2 + i] = data[i]
  <2> SUFFICES ASSUME NEW i \in 1..w[3] PROVE d.pdu[2 + i] = data[i]
    OBVIOUS
  <2>1. 2 + i \in 1..e - 3 /\ (2 + i) + 1 = 3 + i
    BY <1>11
  <2>2. d.pdu[2 + i] = w[3 + i]
    BY <1>8, <2>1
  <2> QED BY <1>13, <2>2
<1>15. Len(d.pdu) = 2 + w[3] /\ d.pdu[1] = fc /\ d.pdu[2] = w[3]
  BY <1>8, <1>9, <1>10, <1>11
<1>16. w[3] <= 255 /\ w[3] <= Len(data)
  <2>1. Len(data) \in Nat
    BY <1>2
  <2>2. bc <= 255
    BY <1>3, ByteIff
  <2> QED BY <1>3, <1>11, <1>12, <2>1, <2>2
<1>17. r.rc >= 0 =>
          /\ Len(r.regs) <= Len(ServedOf(fc, rs))
          /\ r.regs = SubSeq(ServedOf(fc, rs), 1, Len(r.regs))
          /\ Len(ServedOf(fc, rs)) <= 127 /\ w[3] = bc => r.regs = ServedOf(fc, rs)
  <2>1. Carries(d.pdu, fc, w[3], ReadBytes(fc, rs))
    BY <1>14, <1>15, <1>16 DEF Carries, data
  <2> QED BY <1>8, <1>11, <2>1, ReadReported, Zenon DEF data, bc
<1> QED BY <1>1, <1>17

(* As it was sent it is taken for a whole frame and is no error but of too many coils. *)
LEMMA ResponseAccepted ==
    ASSUME Transport = RTU, NEW rs \in Seq(Word), NEW fc \in ReadCodes, NEW unit \in Byte
    PROVE  LET f == ReadResponse(unit, fc, ReadBytes(fc, rs))
               d == Unpacked(f, resp_parse(f))
               r == Parsed(d.pdu, fc)
           IN  /\ d.ok /\ d.unit = unit
               /\ r.rc < 0 <=> fc \in {1, 2} /\ Len(rs) % 256 > 128
<1> DEFINE data == ReadBytes(fc, rs)
           bc == ByteCount(data)
           f == ReadResponse(unit, fc, data)
           e == Len(f)
           d == Unpacked(f, resp_parse(f))
           r == Parsed(d.pdu, fc)
<1>1. data \in Seq(Byte)
  BY CoilBytes, RegisterBytes
<1>2. /\ f \in Seq(Byte) /\ Len(f) = 5 + bc /\ validate(f)
      /\ f[1] = unit /\ f[2] = fc /\ f[3] = bc
      /\ bc \in Nat /\ bc \in Byte /\ bc <= Len(data)
      /\ \A i \in 1..bc : f[3 + i] = data[i]
  <2> HIDE DEF data
  <2> QED BY <1>1, ResponseFrame
<1> HIDE DEF f, data, bc
<1>3. e = 5 + bc /\ e \in Int /\ e >= 5 /\ resp_frame_len(f) = e
  <2>1. Len(f) >= 3 /\ f[2] \in ReadCodes
    BY <1>2
  <2> QED BY <1>2, <2>1, ReadFrameLen
<1>4. d = Unpacked(f, Delimit(f, e)) /\ d.ok
  <2>1. Unpacked(f, Delimit(f, Len(f))).ok
    BY <1>2, <1>3, WholeUnpacked
  <2> QED BY <1>3, <2>1 DEF resp_parse
<1> HIDE DEF e, d
<1>5. /\ d.unit = f[1] /\ d.pdu \in Seq(Byte) /\ Len(d.pdu) = e - 3
      /\ \A i \in 1..e - 3 : d.pdu[i] = f[i + 1]
  BY <1>2, <1>3, <1>4, UnpackedInside
<1>6. Len(d.pdu) = 2 + bc /\ d.pdu[1] = fc /\ d.pdu[2] = bc
  <2>1. 1 \in 1..e - 3 /\ 2 \in 1..e - 3
    BY <1>2, <1>3
  <2>2. d.pdu[1] = f[1 + 1] /\ d.pdu[2] = f[2 + 1]
    BY <1>5, <2>1
  <2> QED BY <1>2, <1>3, <1>5, <2>2
<1>7. \A i \in 1..bc : d.pdu[2 + i] = data[i]
  <2> SUFFICES ASSUME NEW i \in 1..bc PROVE d.pdu[2 + i] = data[i]
    OBVIOUS
  <2>1. 2 + i \in 1..e - 3 /\ (2 + i) + 1 = 3 + i
    BY <1>2, <1>3
  <2>2. d.pdu[2 + i] = f[3 + i]
    BY <1>5, <2>1
  <2> QED BY <1>2, <2>2
<1>8. r.rc < 0 <=> Refused(fc, bc)
  <2>1. bc <= 255
    BY <1>2, ByteIff
  <2>2. Carries(d.pdu, fc, bc, ReadBytes(fc, rs))
    BY <1>2, <1>6, <1>7, <2>1 DEF Carries, data
  <2> QED BY <1>2, <1>5, <2>2, ReadReported, Zenon
<1>9. fc \in {1, 2} => bc = Len(rs) % 256
  BY CoilBytes DEF data, bc, ByteCount
<1>10. fc \notin {1, 2} => bc % 2 = 0
  <2>1. Len(rs) \in Nat
    OBVIOUS
  <2>2. fc \notin {1, 2} => Len(data) = 2 * Len(rs)
    BY RegisterBytes DEF data
  <2>3. \A n \in Nat : ((2 * n) % 256) % 2 = 0
    OBVIOUS
  <2> QED BY <2>1, <2>2, <2>3 DEF bc, ByteCount
<1>11. r.rc < 0 <=> fc \in {1, 2} /\ Len(rs) % 256 > 128
  <2>1. ~(bc % 2 = 1) \/ fc \in {1, 2}
    BY <1>10
  <2> HIDE DEF r
  <2> QED BY <1>8, <1>9, <2>1 DEF Refused
<1> QED BY <1>2, <1>4, <1>5, <1>11 DEF d, f, data

-------------------------------------------------------------------------------
(* The inductive invariant. *)

(* An exchange about which something can be said for any checksum, or else for one that
   detects a changed byte, unless the request writes several values: such a frame is
   never complete for the server, and of a damaged one a prefix might be. *)
Trusted == ~damaged \/ (DetectsOneByte /\ req.funccode \notin WriteMany)

(* The bytes on the line are those of the frame f, but for one of them if damaged. *)
OnTheLine(f) ==
    wire \in Seq(Byte) /\ IF damaged THEN \E k \in Nat : DifferAt(f, wire, k) ELSE wire = f

(* What the server understood is what the client meant. *)
SeenAsMeant ==
    /\ seen.unit = req.unit_id /\ seen.fc = req.funccode /\ seen.addr = req.addr
    /\ req.funccode \in ReadCodes => seen.count = req.count
    /\ req.funccode \in WriteOne => seen.data = req.data
    /\ seen.pdu = RequestPdu(req)

(* Before the server has looked, once it has refused and once it has understood. *)
RequestUnderway == /\ phase \in {"encode", "request", "lost"} => seen = Nothing
                   /\ phase = "request" => OnTheLine(EncodeRequest(RTU, req))
                   /\ phase = "lost" => damaged \/ req.funccode \in WriteMany
RequestArrived == phase \in {"answer", "response", "done", "overrun"} =>
                      req.funccode \notin WriteMany /\ SeenAsMeant
ResponseUnderway ==
    /\ phase /= "done" => got = Nothing
    /\ phase = "answer" => ~damaged
    /\ phase = "response" =>
          /\ wire \in Seq(Byte) /\ Len(wire) <= MaxPdu + 3 /\ regs \in Seq(Word)
          /\ req.funccode \in ReadCodes =>
                OnTheLine(ReadResponse(req.unit_id, req.funccode, ReadBytes(req.funccode, regs)))
    /\ phase = "overrun" => req.funccode \in ReadCodes /\ ~Lawful(req)
ResponseArrived == phase = "done" => ClientReportsRegistersRead /\ UndamagedExchangeSucceeds

Phases == {"encode", "request", "lost", "answer", "response", "done", "overrun"}
TypeOK == phase \in Phases /\ req \in Requests /\ damaged \in BOOLEAN

IInv == /\ TypeOK
        /\ phase = "encode" => ~damaged
        /\ Trusted => /\ RequestUnderway /\ RequestArrived
                      /\ ResponseUnderway /\ ResponseArrived

(* One byte of the line takes another value. *)
LEMMA DamageDiffers ==
    ASSUME NEW s \in Seq(Byte), NEW i \in 1..Len(s), NEW b \in Byte, s[i] /= b
    PROVE  LET t == [s EXCEPT ![i] = b] IN t \in Seq(Byte) /\ i \in Nat /\ DifferAt(s, t, i)
<1> DEFINE t == [s EXCEPT ![i] = b]
<1>1. t \in Seq(Byte) /\ Len(t) = Len(s)
  OBVIOUS
<1>2. t[i] = b /\ \A j \in 1..Len(s) : j /= i => t[j] = s[j]
  OBVIOUS
<1> HIDE DEF t
<1>3. i \in Nat /\ DifferAt(s, t, i)
  BY <1>1, <1>2 DEF DifferAt
<1> QED BY <1>1, <1>3 DEF t

(* A request that is not encoded yet. *)
LEMMA InitIInv == Init => IInv
<1> SUFFICES ASSUME Init PROVE IInv
  OBVIOUS
<1> QED BY DEF Init, IInv, TypeOK, Phases, RequestUnderway, RequestArrived, ResponseUnderway,
               ResponseArrived

(* The encoded request is put on the line. *)
LEMMA EncodePreserves ==
    ASSUME Transport = RTU, IInv, ClientEncode PROVE IInv'
<1>1. TypeOK' /\ phase' = "request" /\ ~damaged' /\ req' = req
  BY DEF IInv, TypeOK, Phases, ClientEncode
<1>2. seen = Nothing /\ got = Nothing
  BY DEF IInv, ClientEncode, Trusted, RequestUnderway, ResponseUnderway
<1>3. RequestUnderway'
  <2>1. wire' = EncodeRequest(RTU, req) /\ seen' = Nothing
    BY <1>2 DEF ClientEncode
  <2>2. EncodeRequest(RTU, req) \in Seq(Byte)
    BY RequestFrame DEF IInv, TypeOK
  <2> QED BY <1>1, <2>1, <2>2 DEF RequestUnderway, OnTheLine
<1>4. RequestArrived' /\ ResponseArrived'
  BY <1>1 DEF RequestArrived, ResponseArrived
<1>5. ResponseUnderway'
  BY <1>1, <1>2 DEF ResponseUnderway, ClientEncode
<1> QED BY <1>1, <1>3, <1>4, <1>5 DEF IInv

(* Damage is to one byte. *)
LEMMA DamageChanges ==
    ASSUME Damage
    PROVE  \E i \in 1..Len(wire), b \in Byte : wire[i] /= b /\ wire' = [wire EXCEPT ![i] = b]
<1>1. PICK n \in Noise : /\ n[1] \in 1..Len(wire) /\ wire[n[1]] /= n[2]
                         /\ wire' = [wire EXCEPT ![n[1]] = n[2]]
  BY DEF Damage
<1>2. n[2] \in Byte
  BY ExchangeAssumption
<1> QED BY <1>1, <1>2, Zenon

(* The line differs in one byte from what it held. *)
LEMMA DamagePreserves ==
    ASSUME IInv, Damage PROVE IInv'
<1>1. /\ TypeOK' /\ phase' = phase /\ ~damaged /\ damaged' /\ req' = req /\ regs' = regs
      /\ seen' = seen /\ got' = got /\ phase \in {"request", "response"}
  BY DEF IInv, TypeOK, Damage
<1>2. /\ RequestUnderway /\ RequestArrived /\ ResponseUnderway
  BY <1>1 DEF IInv, Trusted
<1>3. ASSUME NEW f, OnTheLine(f) PROVE OnTheLine(f)'
  <2>1. wire = f /\ wire \in Seq(Byte)
    BY <1>1, <1>3 DEF OnTheLine
  <2>2. PICK i \in 1..Len(wire), b \in Byte : wire[i] /= b /\ wire' = [wire EXCEPT ![i] = b]
    BY DamageChanges
  <2>4. wire' \in Seq(Byte) /\ i \in Nat /\ DifferAt(wire, wire', i)
    BY <2>1, <2>2, DamageDiffers
  <2> QED BY <1>1, <2>1, <2>4 DEF OnTheLine
<1>4. RequestUnderway'
  BY <1>1, <1>2, <1>3 DEF RequestUnderway
<1>5. RequestArrived' /\ ResponseArrived'
  BY <1>1, <1>2 DEF RequestArrived, ResponseArrived, SeenAsMeant
<1>6. ResponseUnderway'
  <2>1. wire \in Seq(Byte) => wire' \in Seq(Byte) /\ Len(wire') = Len(wire)
    BY DamageChanges
  <2> QED BY <1>1, <1>2, <1>3, <2>1 DEF ResponseUnderway
<1> QED BY <1>1, <1>4, <1>5, <1>6 DEF IInv

(* A request that was not damaged is understood as it was meant; a damaged one is not
   understood. *)
LEMMA ParsePreserves ==
    ASSUME Transport = RTU, IInv, ServerParse PROVE IInv'
<1> DEFINE d == Unpacked(wire, parse_and_check(wire))
           q == egw_modbus_parse_request(d.pdu, 0)
<1>1. /\ req' = req /\ regs' = regs /\ wire' = wire /\ damaged' = damaged /\ got' = got
      /\ phase = "request" /\ req \in Requests /\ damaged \in BOOLEAN
  BY DEF IInv, TypeOK, ServerParse
<1>2. /\ seen' = IF d.ok /\ q.ok /\ Len(d.pdu) <= MaxPdu
                 THEN [ok |-> TRUE, unit |-> d.unit, fc |-> q.fc, addr |-> q.addr,
                       count |-> q.count, data |-> q.data, pdu |-> d.pdu]
                 ELSE Nothing
      /\ phase' = CASE Len(d.pdu) > MaxPdu -> "overrun"
                    [] seen'.ok -> "answer"
                    [] OTHER -> "lost"
  BY Zenon DEF ServerParse
<1>4. TypeOK'
  <2>1. phase' \in {"overrun", "answer", "lost"}
    BY <1>2, Zenon
  <2> QED BY <1>1, <2>1 DEF TypeOK, Phases
<1>5. SUFFICES ASSUME Trusted
               PROVE  (RequestUnderway /\ RequestArrived /\ ResponseUnderway /\ ResponseArrived)'
  BY <1>1, <1>2, <1>4 DEF IInv, Trusted
<1>6. OnTheLine(EncodeRequest(RTU, req)) /\ got = Nothing
  BY <1>1, <1>5 DEF IInv, RequestUnderway, ResponseUnderway
<1> HIDE DEF d, q
<1>3. ASSUME Len(d.pdu) \in Nat, Len(d.pdu) <= 5
      PROVE  phase' = IF d.ok /\ q.ok THEN "answer" ELSE "lost"
  <2>1. ~(Len(d.pdu) > MaxPdu) /\ Len(d.pdu) <= MaxPdu
    BY <1>3, ExchangeAssumption
  <2>2. CASE d.ok /\ q.ok
    <3>1. seen'.ok
      BY <1>2, <2>1, <2>2
    <3> QED BY <1>2, <2>1, <2>2, <3>1
  <2>3. CASE ~(d.ok /\ q.ok)
    <3>1. ~seen'.ok
      BY <1>2, <2>3 DEF Nothing
    <3> QED BY <1>2, <2>1, <2>3, <3>1
  <2> QED BY <2>2, <2>3
<1>10. ASSUME wire \in Seq(Byte)
       PROVE  IF d.ok THEN Len(d.pdu) \in Nat /\ Len(d.pdu) <= Len(wire) - 3 ELSE Len(d.pdu) = 0
  <2> DEFINE e == modbus_frame_len(wire)
  <2>1. e \in Int /\ (e \in {NeedLength, BadLength} \/ e >= 5)
    BY <1>10, FrameLenRange
  <2>2. d = Unpacked(wire, Delimit(wire, e))
    BY DEF parse_and_check, d
  <2> HIDE DEF e
  <2> QED BY <1>10, <2>1, <2>2, UnpackedLength
<1>7. CASE damaged
  <2>1. req.funccode \in ReadCodes \cup WriteOne
    BY <1>1, <1>5, <1>7, ExchangeAssumption DEF Trusted
  <2>2. wire \in Seq(Byte) /\ DetectsOneByte
    BY <1>5, <1>6, <1>7 DEF OnTheLine, Trusted
  <2>3. PICK k \in Nat : DifferAt(EncodeRequest(RTU, req), wire, k)
    BY <1>6, <1>7 DEF OnTheLine
  <2>4. ~(d.ok /\ q.ok)
    BY <1>1, <2>1, <2>2, <2>3, RequestRefused DEF d, q
  <2>6. Len(d.pdu) \in Nat /\ Len(d.pdu) <= 5
    <3>3. Len(RequestPdu(req)) = 5
      BY <1>1, <2>1, RequestFrame
    <3>1. Len(EncodeRequest(RTU, req)) = 8
      <4>1. Len(EncodeRequest(RTU, req)) = Len(RequestPdu(req)) + 3
        BY <1>1, RequestFrame
      <4> QED BY <3>3, <4>1
    <3>2. Len(wire) = 8
      BY <2>3, <3>1 DEF DifferAt
    <3> QED BY <1>10, <2>2, <3>2
  <2>5. phase' = "lost" /\ seen' = Nothing
    BY <1>2, <1>3, <2>4, <2>6
  <2> QED BY <1>1, <1>6, <1>7, <2>5
          DEF RequestUnderway, RequestArrived, ResponseUnderway, ResponseArrived
<1>8. CASE ~damaged /\ req.funccode \in WriteMany
  <2>1. wire = EncodeRequest(RTU, req)
    BY <1>6, <1>8 DEF OnTheLine
  <2>2. ~d.ok
    BY <1>1, <1>8, <2>1, LongRequestLost DEF d
  <2>4. wire \in Seq(Byte)
    BY <1>6 DEF OnTheLine
  <2>5. Len(d.pdu) = 0
    BY <1>10, <2>2, <2>4
  <2>3. phase' = "lost" /\ seen' = Nothing
    BY <1>2, <1>3, <2>2, <2>5
  <2> QED BY <1>1, <1>6, <1>8, <2>3
          DEF RequestUnderway, RequestArrived, ResponseUnderway, ResponseArrived
<1>9. CASE ~damaged /\ req.funccode \notin WriteMany
  <2>1. wire = EncodeRequest(RTU, req)
    BY <1>6, <1>9 DEF OnTheLine
  <2>2. req.funccode \in ReadCodes \cup WriteOne
    BY <1>1, <1>9, ExchangeAssumption
  <2>3. /\ d.ok /\ d.unit = req.unit_id /\ d.pdu = RequestPdu(req)
        /\ q.ok /\ q.fc = req.funccode /\ q.addr = req.addr
        /\ req.funccode \in ReadCodes => q.count = req.count
        /\ req.funccode \in WriteOne => q.count = 1 /\ q.data = req.data
    BY <1>1, <2>1, <2>2, RequestUnderstood DEF d, q
  <2>6. Len(d.pdu) = 5
    BY <1>1, <2>2, <2>3, RequestFrame
  <2>4. /\ phase' = "answer"
        /\ seen' = [ok |-> TRUE, unit |-> d.unit, fc |-> q.fc, addr |-> q.addr,
                    count |-> q.count, data |-> q.data, pdu |-> d.pdu]
    BY <1>2, <1>3, <2>3, <2>6, ExchangeAssumption
  <2>5. SeenAsMeant'
    BY <1>1, <2>3, <2>4 DEF SeenAsMeant
  <2> QED BY <1>1, <1>6, <1>9, <2>4, <2>5
          DEF RequestUnderway, RequestArrived, ResponseUnderway, ResponseArrived
<1> QED BY <1>1, <1>7, <1>8, <1>9

(* The registers of an answer. *)
LEMMA ServedRegisters == ASSUME ServerAnswer PROVE regs' \in Seq(Word)
<1>1. regs' \in IF seen.fc \in ReadCodes
                THEN {rs \in Registers : Len(rs) = Wanted(seen.fc, seen.count)}
                ELSE {<<>>}
  BY Zenon DEF ServerAnswer
<1>2. regs' \in Registers \/ regs' = <<>>
  BY <1>1
<1>3. Registers \subseteq Seq(Word)
  BY ExchangeAssumption
<1>4. <<>> \in Seq(Word)
  OBVIOUS
<1> QED BY <1>2, <1>3, <1>4, Zenon

(* The response is put on the line. *)
LEMMA AnswerPreserves ==
    ASSUME Transport = RTU, IInv, ServerAnswer PROVE IInv'
<1>1. /\ req' = req /\ damaged' = damaged /\ seen' = seen /\ got' = got
      /\ phase = "answer" /\ phase' \in {"response", "overrun"} /\ TypeOK'
  <2>1. /\ req' = req /\ damaged' = damaged /\ seen' = seen /\ got' = got
        /\ phase = "answer" /\ phase' \in {"response", "overrun"}
    BY Zenon DEF ServerAnswer
  <2> QED BY <2>1 DEF IInv, TypeOK, Phases
<1>2. SUFFICES ASSUME Trusted
               PROVE  (RequestUnderway /\ RequestArrived /\ ResponseUnderway /\ ResponseArrived)'
  BY <1>1 DEF IInv, Trusted
<1>3. ~damaged /\ got = Nothing /\ req.funccode \notin WriteMany /\ SeenAsMeant
  BY <1>1, <1>2 DEF IInv, ResponseUnderway, RequestArrived
<1>4. req \in Requests /\ req.unit_id \in Byte
  BY ExchangeAssumption DEF IInv, TypeOK
<1>5. /\ regs' \in Seq(Word)
      /\ regs' \in IF seen.fc \in ReadCodes
                   THEN {rs \in Registers : Len(rs) = Wanted(seen.fc, seen.count)}
                   ELSE {<<>>}
  <2>1. regs' \in IF seen.fc \in ReadCodes
                  THEN {rs \in Registers : Len(rs) = Wanted(seen.fc, seen.count)}
                  ELSE {<<>>}
    BY Zenon DEF ServerAnswer
  <2> QED BY <2>1, ServedRegisters
<1> DEFINE pdu == IF seen.fc \in ReadCodes
                  THEN egw_modbus_build_read_resp_pdu(seen.fc, ReadBytes(seen.fc, regs'))
                  ELSE seen.pdu
           fits == Len(regs') <= RegsRoom /\ Len(pdu) <= MaxPdu
<1>10. IF fits THEN wire' = Adu(RTU, 0, seen.unit, pdu) /\ phase' = "response"
       ELSE wire' = wire /\ phase' = "overrun"
  BY Zenon DEF ServerAnswer
<1>11. seen.fc = req.funccode /\ seen.unit = req.unit_id /\ seen.pdu = RequestPdu(req)
  BY <1>3 DEF SeenAsMeant
<1>12. fits \/ (req.funccode \in ReadCodes /\ ~Lawful(req))
  <2>1. CASE req.funccode \in ReadCodes /\ Lawful(req)
    <3>1. Len(regs') = Wanted(req.funccode, req.count)
      BY <1>3, <1>5, <1>11, <2>1 DEF SeenAsMeant
    <3>2. pdu = egw_modbus_build_read_resp_pdu(req.funccode, ReadBytes(req.funccode, regs'))
      BY <1>11, <2>1
    <3> HIDE DEF pdu
    <3> QED BY <1>4, <1>5, <2>1, <3>1, <3>2, LawfulFits
  <2>2. CASE req.funccode \notin ReadCodes
    <3>1. regs' = <<>> /\ pdu = RequestPdu(req)
      BY <1>5, <1>11, <2>2
    <3>2. req.funccode \in WriteOne
      BY <1>3, <1>4, <2>2, ExchangeAssumption
    <3>3. Len(RequestPdu(req)) = 5
      BY <1>4, <3>2, ShortPdu
    <3> HIDE DEF pdu
    <3> QED BY <3>1, <3>3, ExchangeAssumption DEF RegsRoom
  <2> QED BY <2>1, <2>2
<1> HIDE DEF fits
<1>13. CASE ~fits
  <2>1. phase' = "overrun" /\ req.funccode \in ReadCodes /\ ~Lawful(req)
    BY <1>10, <1>12, <1>13
  <2> QED BY <1>1, <1>3, <2>1 DEF RequestUnderway, RequestArrived, SeenAsMeant,
        ResponseUnderway, ResponseArrived, Lawful
<1>14. SUFFICES ASSUME fits
                PROVE  (RequestUnderway /\ RequestArrived /\ ResponseUnderway /\ ResponseArrived)'
  BY <1>13
<1>6. wire' = Adu(RTU, 0, seen.unit, pdu) /\ phase' = "response" /\ Len(pdu) <= MaxPdu
  BY <1>10, <1>14 DEF fits
<1>7. wire' \in Seq(Byte) /\ Len(wire') <= MaxPdu + 3
      /\ (req.funccode \in ReadCodes =>
             wire' = ReadResponse(req.unit_id, req.funccode, ReadBytes(req.funccode, regs')))
  <2>1. seen.fc = req.funccode /\ seen.unit = req.unit_id /\ seen.pdu = RequestPdu(req)
    BY <1>11
  <2>2. CASE req.funccode \in ReadCodes
    <3>1. wire' = ReadResponse(req.unit_id, req.funccode, ReadBytes(req.funccode, regs'))
      BY <1>6, <2>1, <2>2, Zenon DEF ReadResponse
    <3> DEFINE data == ReadBytes(req.funccode, regs')
    <3>2. data \in Seq(Byte)
      BY <1>5, CoilBytes, RegisterBytes
    <3>4. pdu = egw_modbus_build_read_resp_pdu(req.funccode, data)
      BY <2>1, <2>2, Zenon
    <3> HIDE DEF data, pdu
    <3>3. /\ ReadResponse(req.unit_id, req.funccode, data) \in Seq(Byte)
          /\ Len(ReadResponse(req.unit_id, req.funccode, data)) = 5 + ByteCount(data)
          /\ ByteCount(data) \in Nat
      BY <1>4, <2>2, <3>2, ResponseFrame
    <3>5. Len(pdu) = 2 + ByteCount(data)
      BY <3>2, <3>4, ReadPduLength
    <3> QED BY <1>6, <3>1, <3>3, <3>5, ExchangeAssumption DEF data
  <2>3. CASE req.funccode \notin ReadCodes
    <3>1. wire' = Adu(RTU, 0, req.unit_id, RequestPdu(req))
      BY <1>6, <2>1, <2>3, Zenon
    <3>2. RequestPdu(req) \in Seq(Byte) /\ Len(RequestPdu(req)) >= 5
      BY <1>4, RequestFrame
    <3>3. RequestPdu(req) /= <<>>
      BY <3>2
    <3>4. wire' \in Seq(Byte) /\ Len(wire') = Len(RequestPdu(req)) + 3
      BY <1>4, <3>1, <3>2, <3>3, AduShape
    <3>5. pdu = RequestPdu(req)
      BY <2>1, <2>3, Zenon
    <3> HIDE DEF pdu
    <3> QED BY <1>6, <2>3, <3>2, <3>4, <3>5, ExchangeAssumption
  <2> QED BY <2>2, <2>3
<1> HIDE DEF pdu
<1>8. ResponseUnderway'
  BY <1>1, <1>3, <1>5, <1>6, <1>7 DEF ResponseUnderway, OnTheLine
<1>9. (RequestUnderway /\ RequestArrived /\ ResponseArrived)'
  BY <1>1, <1>3, <1>6 DEF RequestUnderway, RequestArrived, ResponseArrived, SeenAsMeant
<1> QED BY <1>8, <1>9

(* What the client reports of it is what was served, or the beginning of it. *)
LEMMA ClientParsePreserves ==
    ASSUME Transport = RTU, IInv, ClientParse PROVE IInv'
<1> DEFINE d == Unpacked(wire, resp_parse(wire))
           r == Parsed(d.pdu, req.funccode)
           f == ReadResponse(req.unit_id, req.funccode, ReadBytes(req.funccode, regs))
<1>1. /\ req' = req /\ regs' = regs /\ wire' = wire /\ damaged' = damaged /\ seen' = seen
      /\ phase = "response" /\ phase' \in {"done", "overrun"} /\ TypeOK'
  <2>1. /\ req' = req /\ regs' = regs /\ wire' = wire /\ damaged' = damaged /\ seen' = seen
        /\ phase = "response" /\ phase' \in {"done", "overrun"}
    BY Zenon DEF ClientParse
  <2> QED BY <2>1 DEF IInv, TypeOK, Phases
<1>11. /\ got' = CASE ~d.ok \/ Len(d.pdu) > MaxPdu -> Nothing
                  [] d.ok /\ Len(d.pdu) <= MaxPdu /\ d.unit /= req.unit_id ->
                        [ok |-> TRUE, rc |-> -1, regs |-> <<>>]
                  [] OTHER -> [ok |-> TRUE, rc |-> r.rc, regs |-> r.regs]
       /\ phase' = IF Len(d.pdu) > MaxPdu THEN "overrun" ELSE "done"
  BY Zenon DEF ClientParse, Parsed
<1>3. SUFFICES ASSUME Trusted
               PROVE  (RequestUnderway /\ RequestArrived /\ ResponseUnderway /\ ResponseArrived)'
  BY <1>1 DEF IInv, Trusted
<1>4. /\ req.funccode \notin WriteMany /\ SeenAsMeant /\ wire \in Seq(Byte) /\ regs \in Seq(Word)
      /\ req.funccode \in ReadCodes => OnTheLine(f)
      /\ Len(wire) <= MaxPdu + 3
  BY <1>1, <1>3 DEF IInv, RequestArrived, ResponseUnderway
<1>5. req.unit_id \in Byte
  BY ExchangeAssumption DEF IInv, TypeOK
<1> HIDE DEF d, r, f
<1>12. ~(Len(d.pdu) > MaxPdu) /\ Len(d.pdu) <= MaxPdu
  <2> DEFINE e == resp_frame_len(wire)
  <2>1. e \in Int /\ (e \in {NeedLength, BadLength} \/ e >= 5)
    BY <1>4, RespLenRange
  <2>2. d = Unpacked(wire, Delimit(wire, e))
    BY DEF resp_parse, d
  <2> HIDE DEF e
  <2>3. IF d.ok THEN Len(d.pdu) \in Nat /\ Len(d.pdu) <= Len(wire) - 3 ELSE Len(d.pdu) = 0
    BY <1>4, <2>1, <2>2, UnpackedLength
  <2> QED BY <1>4, <2>3, ExchangeAssumption
<1>13. phase' = "done"
  BY <1>11, <1>12
<1>2. got' = IF ~d.ok THEN Nothing
             ELSE IF d.unit /= req.unit_id THEN [ok |-> TRUE, rc |-> -1, regs |-> <<>>]
             ELSE [ok |-> TRUE, rc |-> r.rc, regs |-> r.regs]
  <2>1. CASE ~d.ok
    BY <1>11, <2>1, Zenon
  <2>2. CASE d.ok /\ d.unit /= req.unit_id
    BY <1>11, <1>12, <2>2, Zenon
  <2>3. CASE d.ok /\ d.unit = req.unit_id
    BY <1>11, <1>12, <2>3, Zenon
  <2> QED BY <2>1, <2>2, <2>3
<1>6. got'.ok /\ got'.rc >= 0 =>
         d.ok /\ d.unit = req.unit_id /\ r.rc >= 0 /\ got'.regs = r.regs
  <2>1. CASE ~d.ok
    BY <1>2, <2>1 DEF Nothing
  <2>2. CASE d.ok /\ d.unit /= req.unit_id
    BY <1>2, <2>2
  <2>3. CASE d.ok /\ d.unit = req.unit_id
    <3>1. got' = [ok |-> TRUE, rc |-> r.rc, regs |-> r.regs]
      BY <1>2, <2>3
    <3> QED BY <2>3, <3>1
  <2> QED BY <2>1, <2>2, <2>3
<1>7. ClientReportsRegistersRead'
  <2>1. SUFFICES ASSUME got'.ok /\ got'.rc >= 0
                 PROVE  /\ Len(got'.regs) <= Len(Served')
                        /\ got'.regs = SubSeq(Served', 1, Len(got'.regs))
                        /\ Len(Served') <= 125 /\ CountIntact' => got'.regs = Served'
    BY DEF ClientReportsRegistersRead
  <2>2. Served' = ServedOf(req.funccode, regs)
    BY <1>1 DEF Served, ServedOf
  <2>3. CountIntact' <=> wire[3] = ByteCount(ReadBytes(req.funccode, regs))
    BY <1>1 DEF CountIntact, ByteCount
  <2>4. d.ok /\ d.unit = req.unit_id /\ r.rc >= 0 /\ got'.regs = r.regs
    BY <1>6, <2>1
  <2>5. CASE req.funccode \in ReadCodes
    <3>1. wire = f \/ (DetectsOneByte /\ \E k \in Nat : DifferAt(f, wire, k))
      BY <1>3, <1>4, <2>5 DEF OnTheLine, Trusted
    <3>2. /\ Len(r.regs) <= Len(ServedOf(req.funccode, regs))
          /\ r.regs = SubSeq(ServedOf(req.funccode, regs), 1, Len(r.regs))
          /\ Len(ServedOf(req.funccode, regs)) <= 127
                /\ wire[3] = ByteCount(ReadBytes(req.funccode, regs))
                => r.regs = ServedOf(req.funccode, regs)
      BY <1>4, <1>5, <2>4, <2>5, <3>1, ResponseReported, Zenon DEF f, d, r
    <3>3. Len(Served') <= 125 => Len(Served') <= 127
      <4>1. Len(Served') \in Nat
        BY <1>4, <2>2 DEF ServedOf
      <4> QED BY <4>1
    <3> QED BY <2>2, <2>3, <2>4, <3>2, <3>3, Zenon
  <2>6. CASE req.funccode \notin ReadCodes
    <3>1. d.pdu \in Seq(Byte) /\ Len(d.pdu) >= 2
      <4> DEFINE e == resp_frame_len(wire)
      <4>1. e \in Int /\ (e \in {NeedLength, BadLength} \/ e >= 5)
        BY <1>4, RespLenRange
      <4>2. d = Unpacked(wire, Delimit(wire, e))
        BY DEF resp_parse, d
      <4> HIDE DEF e
      <4>3. e >= 5 /\ d.pdu \in Seq(Byte) /\ Len(d.pdu) = e - 3
        BY <1>4, <2>4, <4>1, <4>2, UnpackedInside
      <4> QED BY <4>1, <4>3
    <3>2. d.pdu[1] \in Byte /\ d.pdu[2] \in Byte
      <4>1. 1 \in 1..Len(d.pdu) /\ 2 \in 1..Len(d.pdu)
        BY <3>1
      <4> QED BY <3>1, <4>1, ElementOfSeq
    <3>3. d.pdu[1] \in Int /\ d.pdu[2] \in Int /\ d.pdu[2] >= 0
      BY <3>2, ByteRange
    <3>4. ~(r.rc >= 0)
      BY <2>6, <3>3, NoResult DEF r, Parsed
    <3> QED BY <2>4, <3>4
  <2> QED BY <2>5, <2>6
<1>8. UndamagedExchangeSucceeds'
  <2>1. SUFFICES ASSUME ~damaged, req.funccode \in ReadCodes
                 PROVE  got'.ok /\ (got'.rc < 0 <=> req.funccode \in {1, 2} /\ Len(regs) % 256 > 128)
    BY <1>1, <1>13, Zenon DEF UndamagedExchangeSucceeds
  <2>2. wire = f
    BY <1>4, <2>1 DEF OnTheLine
  <2>3. /\ d.ok /\ d.unit = req.unit_id
        /\ r.rc < 0 <=> req.funccode \in {1, 2} /\ Len(regs) % 256 > 128
    BY <1>4, <1>5, <2>1, <2>2, ResponseAccepted DEF f, d, r
  <2>4. got' = [ok |-> TRUE, rc |-> r.rc, regs |-> r.regs]
    BY <1>2, <2>3
  <2> QED BY <2>3, <2>4
<1>9. ResponseArrived' /\ ResponseUnderway' /\ RequestUnderway'
  BY <1>1, <1>7, <1>8, <1>13 DEF ResponseArrived, ResponseUnderway, RequestUnderway
<1>10. RequestArrived'
  BY <1>1, <1>4, <1>13 DEF RequestArrived, SeenAsMeant
<1> QED BY <1>9, <1>10

(* The invariant is inductive. *)
LEMMA NextIInv == ASSUME Transport = RTU, IInv, [Next]_vars PROVE IInv'
<1>1. CASE ClientEncode
  BY <1>1, EncodePreserves
<1>2. CASE Damage
  BY <1>2, DamagePreserves
<1>3. CASE ServerParse
  BY <1>3, ParsePreserves
<1>4. CASE ServerAnswer
  BY <1>4, AnswerPreserves
<1>5. CASE ClientParse
  BY <1>5, ClientParsePreserves
<1>6. CASE UNCHANGED vars
  <2>1. /\ phase' = phase /\ req' = req /\ regs' = regs /\ wire' = wire /\ damaged' = damaged
        /\ seen' = seen /\ got' = got
    BY <1>6 DEF vars
  <2>2. TypeOK' = TypeOK /\ Trusted' = Trusted
    BY <2>1 DEF TypeOK, Trusted
  <2>3. ASSUME NEW f PROVE OnTheLine(f)' = OnTheLine(f)
    BY <2>1 DEF OnTheLine
  <2>4. RequestUnderway' <=> RequestUnderway
    BY <2>1, <2>3 DEF RequestUnderway
  <2>5. RequestArrived' <=> RequestArrived
    BY <2>1 DEF RequestArrived, SeenAsMeant
  <2>6. ResponseUnderway' <=> ResponseUnderway
    BY <2>1, <2>3 DEF ResponseUnderway, Lawful
  <2>7. ClientReportsRegistersRead' <=> ClientReportsRegistersRead
    BY <2>1, Zenon DEF ClientReportsRegistersRead, Served, CountIntact
  <2>8. UndamagedExchangeSucceeds' <=> UndamagedExchangeSucceeds
    <3>1. Lawful(req)' <=> Lawful(req)
      BY <2>1 DEF Lawful
    <3> QED BY <2>1, <3>1 DEF UndamagedExchangeSucceeds
  <2>9. ResponseArrived' <=> ResponseArrived
    BY <2>1, <2>7, <2>8 DEF ResponseArrived
  <2> QED BY <2>1, <2>2, <2>4, <2>5, <2>6, <2>9 DEF IInv
<1> QED BY <1>1, <1>2, <1>3, <1>4, <1>5, <1>6 DEF Next

(* The invariant always holds. *)
LEMMA Invariant == ASSUME Transport = RTU PROVE Spec => []IInv
<1>1. Init => IInv
  BY InitIInv
<1>2. IInv /\ [Next]_vars => IInv'
  BY NextIInv
<1> QED BY <1>1, <1>2, PTL DEF Spec

-------------------------------------------------------------------------------
(* Theorems. *)

(* Whatever the checksum routine, an exchange without damage on a serial line succeeds
   for every read and single write: it overruns no array if the read is lawful, and what
   the server sends the client takes, but for the coil reads it has no room for. *)
THEOREM ExchangeSucceeds ==
    ASSUME Transport = RTU PROVE Spec => []UndamagedExchangeSucceeds
<1>1. IInv => UndamagedExchangeSucceeds
  <2> SUFFICES ASSUME IInv, ~damaged PROVE UndamagedExchangeSucceeds
    BY DEF UndamagedExchangeSucceeds
  <2>1. Trusted
    BY DEF Trusted
  <2>2. phase = "lost" => req.funccode \in WriteMany
    BY <2>1 DEF IInv, RequestUnderway
  <2>3. phase = "done" => UndamagedExchangeSucceeds
    BY <2>1 DEF IInv, ResponseArrived
  <2>4. phase = "overrun" => req.funccode \in ReadCodes /\ ~Lawful(req)
    BY <2>1 DEF IInv, ResponseUnderway
  <2> QED BY <2>2, <2>3, <2>4 DEF UndamagedExchangeSucceeds
<1> QED BY <1>1, Invariant, PTL

(* In an exchange that can be trusted the server acts on what was sent and the client
   reports what was read. *)
LEMMA TrustedExchange ==
    ASSUME IInv, Trusted PROVE ServerActsOnWhatWasSent /\ ClientReportsRegistersRead
<1>1. ServerActsOnWhatWasSent
  <2> SUFFICES ASSUME seen.ok PROVE ServerActsOnWhatWasSent
    BY DEF ServerActsOnWhatWasSent
  <2>1. phase \in {"answer", "response", "done", "overrun"}
    <3>1. phase \notin {"encode", "request", "lost"}
      BY DEF IInv, RequestUnderway, Nothing
    <3> QED BY <3>1 DEF IInv, TypeOK, Phases
  <2>2. SeenAsMeant /\ req.funccode \notin WriteMany
    BY <2>1 DEF IInv, RequestArrived
  <2>3. req.funccode \in ReadCodes \cup WriteOne
    BY <2>2, ExchangeAssumption DEF IInv, TypeOK
  <2> QED BY <2>2, <2>3 DEF SeenAsMeant, ServerActsOnWhatWasSent
<1>2. ClientReportsRegistersRead
  <2>1. CASE phase = "done"
    BY <2>1 DEF IInv, ResponseArrived
  <2>2. CASE phase /= "done"
    BY <2>2 DEF IInv, ResponseUnderway, ClientReportsRegistersRead, Nothing
  <2> QED BY <2>1, <2>2
<1> QED BY <1>1, <1>2

(* Whatever the checksum routine, the two ends of an exchange without damage agree on
   the read or single write and, if no array is overrun, on the registers. *)
THEOREM UndamagedExchangeAgrees ==
    ASSUME Transport = RTU
    PROVE  Spec => [](~damaged => ServerActsOnWhatWasSent /\ ClientReportsRegistersRead)
<1>1. IInv => (~damaged => ServerActsOnWhatWasSent /\ ClientReportsRegistersRead)
  BY TrustedExchange DEF Trusted
<1> QED BY <1>1, Invariant, PTL

(* The frames are checked with the table routine. *)
RealChecksum == \A s \in Seq(Byte) : crc16(s) = egw_crc_modbus_table(s)

(* The table checksum detects one changed byte. *)
LEMMA RealChecksumDetects == ASSUME RealChecksum PROVE DetectsOneByte
<1> SUFFICES ASSUME NEW s \in Seq(Byte), NEW t \in Seq(Byte), NEW k \in Nat, DifferAt(s, t, k)
             PROVE  Checksum(s) /= Checksum(t)
  BY DEF DetectsOneByte
<1>1. crc16(s) = egw_crc_modbus_table(s) /\ crc16(t) = egw_crc_modbus_table(t)
  BY DEF RealChecksum
<1>2. /\ egw_crc_modbus_table(s) \in Word /\ egw_crc_modbus_table(t) \in Word
      /\ egw_crc_modbus_table(s) /= egw_crc_modbus_table(t)
  BY CrcDetectsOneByte
<1> QED BY <1>1, <1>2, Zenon DEF Checksum

(* With it every exchange can be trusted but for writes of several values. *)
LEMMA AlwaysTrusted == ASSUME RealChecksum PROVE req.funccode \notin WriteMany => Trusted
BY RealChecksumDetects DEF Trusted

(* With the table checksum no change of one byte, on either way, makes the server act on
   a read or a single write other than the one the client encoded, for every request and
   every value of the byte. *)
THEOREM ServerNeverDeceived ==
    ASSUME Transport = RTU, RealChecksum PROVE Spec => []ServerActsOnWhatWasSent
<1>1. IInv => ServerActsOnWhatWasSent
  BY AlwaysTrusted, TrustedExchange DEF ServerActsOnWhatWasSent
<1> QED BY <1>1, Invariant, PTL

(* Nor does it make the client report registers that were not served, whatever their
   number, or fewer than all of up to 125 unless it hits the byte count. *)
THEOREM ClientNeverDeceived ==
    ASSUME Transport = RTU, RealChecksum
    PROVE  Spec => [](req.funccode \notin WriteMany => ClientReportsRegistersRead)
<1>1. IInv => (req.funccode \notin WriteMany => ClientReportsRegistersRead)
  BY AlwaysTrusted, TrustedExchange
<1> QED BY <1>1, Invariant, PTL

(* On the line and behind it are bytes, on either transport. *)
BytesOnLine ==
    /\ req \in Requests /\ wire \in Seq(Byte)
    /\ phase = "answer" => seen.unit \in Byte /\ seen.fc \in Byte /\ seen.pdu \in Seq(Byte)

(* Every step puts bytes on the line. *)
LEMMA BytesStayOnLine ==
    ASSUME BytesOnLine, [Next]_vars PROVE BytesOnLine'
<1>1. req \in Requests /\ wire \in Seq(Byte)
  BY DEF BytesOnLine
<1>2. CASE ClientEncode
  <2>1. req' = req /\ phase' = "request" /\ wire' = EncodeRequest(Transport, req)
    BY <1>2 DEF ClientEncode
  <2>2. RequestPdu(req) \in Seq(Byte) /\ req.unit_id \in Byte
    BY <1>1, RequestFrame, ExchangeAssumption
  <2>3. EncodeRequest(Transport, req) \in Seq(Byte)
    <3>1. 0 \in Nat /\ <<>> \in Seq(Byte)
      OBVIOUS
    <3> QED BY <2>2, <3>1, AduType DEF EncodeRequest
  <2> QED BY <1>1, <2>1, <2>3 DEF BytesOnLine
<1>3. CASE Damage
  <2>1. PICK i \in 1..Len(wire), b \in Byte : wire[i] /= b /\ wire' = [wire EXCEPT ![i] = b]
    BY <1>3, DamageChanges
  <2>3. wire' \in Seq(Byte)
    BY <1>1, <2>1
  <2>4. req' = req /\ phase' = phase /\ seen' = seen
    BY <1>3 DEF Damage
  <2> QED BY <1>1, <2>3, <2>4 DEF BytesOnLine
<1>4. CASE ServerParse
  <2> DEFINE p == parse_and_check(wire)
             d == Unpacked(wire, p)
             q == egw_modbus_parse_request(d.pdu, 0)
  <2>1. d.unit \in Byte /\ d.pdu \in Seq(Byte)
    <3>1. CASE p.res /= "FRAME_READY"
      <4>1. d = [ok |-> FALSE, unit |-> 0, pdu |-> <<>>]
        BY <3>1, Zenon DEF Unpacked
      <4>2. 0 \in Byte
        BY ByteIff, SMT
      <4> HIDE DEF p, d
      <4> QED BY <4>1, <4>2
    <3>2. CASE p.res = "FRAME_READY"
      <4>1. p.len \in 5..Len(wire)
        BY <1>1, <3>2, DelimitOutcome
      <4>2. d = egw_modbus_decode(Transport, SubSeq(wire, 1, p.len))
        BY <3>2, Zenon DEF Unpacked
      <4> HIDE DEF p, d
      <4>3. SubSeq(wire, 1, p.len) \in Seq(Byte)
        BY <1>1, <4>1
      <4> QED BY <4>2, <4>3, DecodeType
    <3> QED BY <3>1, <3>2
  <2>2. q.fc \in Byte
    <3> HIDE DEF d
    <3>1. 0 \in Byte
      BY ByteIff, SMT
    <3> QED BY <2>1, <3>1, ParseRequestType
  <2>3. /\ req' = req /\ wire' = wire
        /\ seen' = IF d.ok /\ q.ok /\ Len(d.pdu) <= MaxPdu
                   THEN [ok |-> TRUE, unit |-> d.unit, fc |-> q.fc, addr |-> q.addr,
                         count |-> q.count, data |-> q.data, pdu |-> d.pdu]
                   ELSE Nothing
        /\ phase' = CASE Len(d.pdu) > MaxPdu -> "overrun"
                      [] seen'.ok -> "answer"
                      [] OTHER -> "lost"
    BY <1>4, Zenon DEF ServerParse
  <2> HIDE DEF p, d, q
  <2>4. CASE d.ok /\ q.ok /\ Len(d.pdu) <= MaxPdu
    <3>1. seen'.unit = d.unit /\ seen'.fc = q.fc /\ seen'.pdu = d.pdu
      BY <2>3, <2>4
    <3> QED BY <1>1, <2>1, <2>2, <2>3, <3>1 DEF BytesOnLine
  <2>5. CASE ~(d.ok /\ q.ok /\ Len(d.pdu) <= MaxPdu)
    <3>1. ~seen'.ok
      BY <2>3, <2>5 DEF Nothing
    <3>2. phase' \in {"lost", "overrun"}
      BY <2>3, <3>1, Zenon
    <3> QED BY <1>1, <2>3, <3>2 DEF BytesOnLine
  <2> QED BY <2>4, <2>5
<1>5. CASE ServerAnswer
  <2> DEFINE data == ReadBytes(seen.fc, regs')
             answer == egw_modbus_build_read_resp_pdu(seen.fc, data)
             pdu == IF seen.fc \in ReadCodes THEN answer ELSE seen.pdu
  <2>1. /\ phase' \in {"response", "overrun"} /\ req' = req
        /\ wire' = wire \/ wire' = Adu(Transport, 0, seen.unit, pdu)
    BY <1>5, Zenon DEF ServerAnswer
  <2>7. seen.unit \in Byte /\ seen.fc \in Byte /\ seen.pdu \in Seq(Byte)
    BY <1>5 DEF ServerAnswer, BytesOnLine
  <2>2. regs' \in Seq(Word)
    BY <1>5, ServedRegisters
  <2>3. data \in Seq(Byte)
    BY <2>2, CoilBytes, RegisterBytes
  <2> HIDE DEF data
  <2>4. answer \in Seq(Byte)
    <3>1. Len(data) \in Nat
      BY <2>3
    <3>2. Len(data) % 256 \in Nat /\ Len(data) % 256 <= 255 /\ Len(data) % 256 <= Len(data)
      BY <3>1, SMT
    <3>3. Len(data) % 256 \in Byte
      BY <3>2, ByteIff
    <3> QED BY <2>3, <2>7, <3>2, <3>3 DEF egw_modbus_build_read_resp_pdu
  <2> HIDE DEF answer
  <2>5. pdu \in Seq(Byte)
    BY <2>4, <2>7
  <2> HIDE DEF pdu
  <2>6. wire' \in Seq(Byte)
    <3>1. 0 \in Nat
      OBVIOUS
    <3>2. Adu(Transport, 0, seen.unit, pdu) \in Seq(Byte)
      BY <2>5, <2>7, <3>1, AduType
    <3> QED BY <1>1, <2>1, <3>2
  <2> QED BY <1>1, <2>1, <2>6 DEF BytesOnLine
<1>6. CASE ClientParse
  <2>1. phase' \in {"done", "overrun"} /\ req' = req /\ wire' = wire
    BY <1>6, Zenon DEF ClientParse
  <2> QED BY <1>1, <2>1 DEF BytesOnLine
<1>7. CASE UNCHANGED vars
  BY <1>7 DEF vars, BytesOnLine
<1> QED BY <1>2, <1>3, <1>4, <1>5, <1>6, <1>7 DEF Next

(* RoutinesAgree: on either transport both checksum routines agree on whatever is on the
   line, for any requests, registers and noise. *)
THEOREM RoutinesNeverDisagree == Spec => []RoutinesAgree
<1>1. Init => BytesOnLine
  BY DEF Init, BytesOnLine
<1>2. BytesOnLine /\ [Next]_vars => BytesOnLine'
  BY BytesStayOnLine
<1>3. BytesOnLine => RoutinesAgree
  BY RoutinesAgreeAlways DEF BytesOnLine, RoutinesAgree
<1> QED BY <1>1, <1>2, <1>3, PTL DEF Spec

===============================================================================
