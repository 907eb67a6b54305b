------------------------- MODULE ExtrinsicEraProofs -------------------------
(***************************************************************************)
(* Proofs about ExtrinsicEra.tla, for any block numbers, any periods asked  *)
(* for and any bytes read.                                                 *)
(***************************************************************************)
EXTENDS ExtrinsicEra, TLAPS

(* Arithmetic.                                                             *)

LEMMA MaxIs == \A a, b \in Int : Max({a, b}) = IF a >= b THEN a ELSE b
  BY DEF Max

LEMMA MinIs == \A a, b \in Int : Min({a, b}) = IF a <= b THEN a ELSE b
  BY DEF Min

LEMMA Times1 == \A p \in Nat, q, d \in Int : d < q => (d + 1) * p <= q * p
<1> SUFFICES ASSUME NEW p \in Nat, NEW q \in Int, NEW d \in Int, d < q
             PROVE  (d + 1) * p <= q * p
  OBVIOUS
<1>1. PICK x \in Nat : q = (d + 1) + x
  <2>1. q - (d + 1) \in Nat /\ q = (d + 1) + (q - (d + 1))
    OBVIOUS
  <2> QED
    BY <2>1
<1>2. q * p = (d + 1) * p + x * p /\ x * p \in Nat /\ (d + 1) * p \in Int
  BY <1>1
<1> QED
  BY <1>2

LEMMA DivTypes ==
  ASSUME NEW a \in Nat, NEW p \in Nat \ {0}
  PROVE  a \div p \in Nat /\ a % p \in 0 .. p - 1
  OBVIOUS

LEMMA RemainderIs ==
  ASSUME NEW a \in Nat, NEW p \in Nat \ {0}
  PROVE  a % p = a - p * (a \div p)
  OBVIOUS

(* Quotient and remainder.                                                 *)
LEMMA DivMod ==
  ASSUME NEW a \in Nat, NEW p \in Nat \ {0}
  PROVE  /\ a \div p \in Nat /\ a % p \in 0 .. p - 1 /\ a % p <= a
         /\ (a \div p) * p \in Nat /\ a = (a \div p) * p + (a % p)
<1> DEFINE x == a \div p
           r == a % p
<1>1. x \in Nat /\ r \in 0 .. p - 1
  BY DivTypes
<1>2. r = a - p * x
  BY RemainderIs
<1>3. p * x = x * p /\ x * p \in Nat
  BY <1>1
<1> HIDE DEF x, r
<1>4. r <= a /\ a = x * p + r
  BY <1>1, <1>2, <1>3
<1> QED
  BY <1>1, <1>3, <1>4 DEF x, r

(* No number has two quotients.                                            *)
LEMMA OneQuotient ==
  ASSUME NEW p \in Nat \ {0}, NEW q \in Nat, NEW r \in 0 .. p - 1,
         NEW d \in Nat, NEW m \in 0 .. p - 1, q * p + r = d * p + m
  PROVE  ~(q < d)
<1> SUFFICES ASSUME q < d PROVE FALSE
  OBVIOUS
<1> DEFINE x == q * p
           y == d * p
<1>1. x \in Nat /\ y \in Nat /\ x + r = y + m
  OBVIOUS
<1>2. (q + 1) * p <= y
  BY Times1
<1>3. (q + 1) * p = x + p
  OBVIOUS
<1> HIDE DEF x, y
<1> QED
  BY <1>1, <1>2, <1>3

LEMMA QuotientIs ==
  ASSUME NEW p \in Nat \ {0}, NEW q \in Nat, NEW r \in 0 .. p - 1
  PROVE  /\ q * p \in Nat /\ q * p + r \in Nat
         /\ (q * p + r) \div p = q /\ (q * p + r) % p = r
<1> DEFINE a == q * p + r
           d == a \div p
           m == a % p
<1>1. q * p \in Nat /\ a \in Nat
  OBVIOUS
<1>2. d \in Nat /\ m \in 0 .. p - 1 /\ a = d * p + m
  BY <1>1, DivMod
<1> HIDE DEF d, m
<1>3. ~(q < d) /\ ~(d < q)
  BY <1>2, OneQuotient
<1>4. d = q
  BY <1>2, <1>3
<1>5. m = r
  <2>1. d * p = q * p
    BY <1>4
  <2> QED
    BY <1>1, <1>2, <2>1
<1> QED
  BY <1>1, <1>4, <1>5 DEF d, m
-----------------------------------------------------------------------------
(* The periods in use.                                                     *)

LEMMA Exponents ==
  ASSUME NEW k \in 2 .. 16
  PROVE  \/ k = 2 \/ k = 3 \/ k = 4 \/ k = 5 \/ k = 6 \/ k = 7 \/ k = 8 \/ k = 9
         \/ k = 10 \/ k = 11 \/ k = 12 \/ k = 13 \/ k = 14 \/ k = 15 \/ k = 16
  OBVIOUS

LEMMA PowersAt ==
  ASSUME NEW k
  PROVE  /\ k = 2 => 2 ^ k = 2 ^ 2
         /\ k = 3 => 2 ^ k = 2 ^ 3
         /\ k = 4 => 2 ^ k = 2 ^ 4
         /\ k = 5 => 2 ^ k = 2 ^ 5
         /\ k = 6 => 2 ^ k = 2 ^ 6
         /\ k = 7 => 2 ^ k = 2 ^ 7
         /\ k = 8 => 2 ^ k = 2 ^ 8
         /\ k = 9 => 2 ^ k = 2 ^ 9
         /\ k = 10 => 2 ^ k = 2 ^ 10
         /\ k = 11 => 2 ^ k = 2 ^ 11
         /\ k = 12 => 2 ^ k = 2 ^ 12
         /\ k = 13 => 2 ^ k = 2 ^ 13
         /\ k = 14 => 2 ^ k = 2 ^ 14
         /\ k = 15 => 2 ^ k = 2 ^ 15
         /\ k = 16 => 2 ^ k = 2 ^ 16
  BY Zenon

LEMMA PeriodsAre ==
  PeriodsInUse = {4, 8, 16, 32, 64, 128, 256, 512, 1024, 2048, 4096, 8192, 16384, 32768, 65536}
<1>1. ASSUME NEW k \in 2 .. 16
      PROVE  2 ^ k \in {4, 8, 16, 32, 64, 128, 256, 512, 1024, 2048, 4096, 8192, 16384,
                        32768, 65536}
  BY Exponents, PowersAt
<1>2. \E k \in 2 .. 16 : 4 = 2 ^ k
  <2> WITNESS 2 \in 2 .. 16
  <2> QED
    OBVIOUS
<1>3. \E k \in 2 .. 16 : 8 = 2 ^ k
  <2> WITNESS 3 \in 2 .. 16
  <2> QED
    OBVIOUS
<1>4. \E k \in 2 .. 16 : 16 = 2 ^ k
  <2> WITNESS 4 \in 2 .. 16
  <2> QED
    OBVIOUS
<1>5. \E k \in 2 .. 16 : 32 = 2 ^ k
  <2> WITNESS 5 \in 2 .. 16
  <2> QED
    OBVIOUS
<1>6. \E k \in 2 .. 16 : 64 = 2 ^ k
  <2> WITNESS 6 \in 2 .. 16
  <2> QED
    OBVIOUS
<1>7. \E k \in 2 .. 16 : 128 = 2 ^ k
  <2> WITNESS 7 \in 2 .. 16
  <2> QED
    OBVIOUS
<1>8. \E k \in 2 .. 16 : 256 = 2 ^ k
  <2> WITNESS 8 \in 2 .. 16
  <2> QED
    OBVIOUS
<1>9. \E k \in 2 .. 16 : 512 = 2 ^ k
  <2> WITNESS 9 \in 2 .. 16
  <2> QED
    OBVIOUS
<1>10. \E k \in 2 .. 16 : 1024 = 2 ^ k
  <2> WITNESS 10 \in 2 .. 16
  <2> QED
    OBVIOUS
<1>11. \E k \in 2 .. 16 : 2048 = 2 ^ k
  <2> WITNESS 11 \in 2 .. 16
  <2> QED
    OBVIOUS
<1>12. \E k \in 2 .. 16 : 4096 = 2 ^ k
  <2> WITNESS 12 \in 2 .. 16
  <2> QED
    OBVIOUS
<1>13. \E k \in 2 .. 16 : 8192 = 2 ^ k
  <2> WITNESS 13 \in 2 .. 16
  <2> QED
    OBVIOUS
<1>14. \E k \in 2 .. 16 : 16384 = 2 ^ k
  <2> WITNESS 14 \in 2 .. 16
  <2> QED
    OBVIOUS
<1>15. \E k \in 2 .. 16 : 32768 = 2 ^ k
  <2> WITNESS 15 \in 2 .. 16
  <2> QED
    OBVIOUS
<1>16. \E k \in 2 .. 16 : 65536 = 2 ^ k
  <2> WITNESS 16 \in 2 .. 16
  <2> QED
    OBVIOUS
<1> QED
  BY <1>1, <1>2, <1>3, <1>4, <1>5, <1>6, <1>7, <1>8,
     <1>9, <1>10, <1>11, <1>12, <1>13, <1>14, <1>15, <1>16 DEF PeriodsInUse

(* A period is a power of two for one exponent only.                       *)
LEMMA ZerosOf ==
  ASSUME NEW k \in 2 .. 16
  PROVE  TrailingZeros(2 ^ k) = k
<1> DEFINE t == TrailingZeros(2 ^ k)
<1>1. t \in 0 .. 16 /\ 2 ^ t = 2 ^ k
  <2>1. k \in 0 .. 16
    OBVIOUS
  <2> QED
    BY <2>1, Zenon DEF TrailingZeros
<1> HIDE DEF t
<1>2. t \notin 0 .. 1
  <2>1. t = 0 => 2 ^ t = 2 ^ 0
    BY Zenon
  <2>2. t = 1 => 2 ^ t = 2 ^ 1
    BY Zenon
  <2> QED
    BY <1>1, <2>1, <2>2, Exponents, PowersAt
<1>3. t \in 2 .. 16
  BY <1>1, <1>2
<1>4. 2 ^ t \in Nat => t = k
  BY <1>1, <1>3, Exponents, PowersAt
<1>5. 2 ^ k \in Nat
  BY Exponents, PowersAt
<1> QED
  BY <1>1, <1>4, <1>5 DEF t

(* What the two divisions and the logarithm of the code make of a period.  *)
LEMMA PeriodFacts ==
  ASSUME NEW p \in PeriodsInUse
  PROVE  /\ p \in Nat \ {0} /\ 4 <= p /\ p <= 65536
         /\ Exponent(p) \in 1 .. 15 /\ 2 * 2 ^ Exponent(p) = p
         /\ Quantum(p) \in {1, 2, 4, 8, 16} /\ p <= 4096 * Quantum(p)
         /\ \E c \in Nat \ {0} : p = c * Quantum(p)
<1>1. PICK k \in 2 .. 16 : p = 2 ^ k
  BY DEF PeriodsInUse
<1>2. TrailingZeros(p) = k
  BY <1>1, ZerosOf
<1>3. Exponent(p) = k - 1
  BY <1>2, MaxIs, MinIs DEF Exponent
<1>4. p \in Nat \ {0} /\ 4 <= p /\ p <= 65536
  BY PeriodsAre
<1>5. 2 * 2 ^ (k - 1) = 2 ^ k
  <2> DEFINE j == k - 1
  <2>1. k = j + 1 /\ (j = 1 \/ j \in 2 .. 16)
    OBVIOUS
  <2>2. j = 1 => 2 ^ j = 2 ^ 1
    BY Zenon
  <2> HIDE DEF j
  <2>3. 2 * 2 ^ j = 2 ^ k
    BY <2>1, <2>2, Exponents, PowersAt
  <2> QED
    BY <2>3 DEF j
<1>6. Quantum(p) = IF p \div 4096 >= 1 THEN p \div 4096 ELSE 1
  <2> DEFINE d == p \div 4096
  <2>1. d \in Int
    BY <1>4
  <2> HIDE DEF d
  <2>2. Max({d, 1}) = IF d >= 1 THEN d ELSE 1
    BY <2>1, MaxIs
  <2> QED
    BY <2>2 DEF d, Quantum
<1>7. /\ Quantum(p) \in {1, 2, 4, 8, 16} /\ p <= 4096 * Quantum(p)
  BY <1>6, PeriodsAre
<1>8. \E c \in Nat \ {0} : p = c * Quantum(p)
  <2>1. CASE Quantum(p) = 1
    BY <2>1, <1>4
  <2>2. CASE Quantum(p) # 1
    <3>1. p = 4096 * Quantum(p)
      BY <2>2, <1>6, PeriodsAre
    <3> QED
      BY <3>1
  <2> QED
    BY <2>1, <2>2
<1> QED
  BY <1>1, <1>3, <1>4, <1>5, <1>7, <1>8

(* The least period in use that is as long as the one asked for: less than  *)
(* twice as long.                                                          *)
LEMMA PeriodForIs ==
  ASSUME NEW asks \in Nat \ {0}
  PROVE  /\ PeriodFor(asks) \in PeriodsInUse
         /\ asks <= 65536 => asks <= PeriodFor(asks)
         /\ PeriodFor(asks) = 4 \/ PeriodFor(asks) < 2 * asks
<1>1. CASE asks > 65536
  BY <1>1, PeriodsAre DEF PeriodFor
<1>2. CASE asks <= 65536
  <2> DEFINE S == {p \in PeriodsInUse : p >= asks}
  <2>1. \E x \in S : (\A y \in S : x <= y) /\ (x = 4 \/ x < 2 * asks)
    BY <1>2, PeriodsAre
  <2>2. Min(S) \in S /\ \A y \in S : Min(S) <= y
    BY <2>1 DEF Min
  <2>3. \A y \in S : y \in Nat
    BY PeriodsAre
  <2>4. Min(S) = 4 \/ Min(S) < 2 * asks
    BY <2>1, <2>2, <2>3
  <2>5. PeriodFor(asks) = Min(S)
    BY <1>2 DEF PeriodFor
  <2> QED
    BY <2>2, <2>4, <2>5
<1> QED
  BY <1>1, <1>2
-----------------------------------------------------------------------------
(* The bytes.                                                              *)

(* The bits of a number below w and those from w on, w a power of two.     *)
Low(n, w)  == n % w
High(n, w) == n \div w

(* Two bytes hold a number of sixteen bits.                                *)
LEMMA TwoBytes ==
  ASSUME NEW n \in Nat, n <= 65535
  PROVE  /\ Low(n, 256) \in 0 .. 255 /\ High(n, 256) \in 0 .. 255
         /\ Low(High(n, 256), 256) = High(n, 256)
         /\ Low(n, 256) + 256 * High(n, 256) = n
<1> DEFINE h == n \div 256
           l == n % 256
<1>1. n \in Nat /\ 256 \in Nat \ {0}
  OBVIOUS
<1>2. h \in Nat /\ l \in 0 .. 255 /\ n = h * 256 + l
  BY <1>1, DivMod
<1> HIDE DEF h, l
<1>3. h \in 0 .. 255
  BY <1>1, <1>2
<1>4. h % 256 = h
  BY <1>3
<1>5. l + 256 * h = n
  BY <1>2
<1> QED
  BY <1>2, <1>3, <1>4, <1>5 DEF h, l, Low, High

(* The low four bits of the number are its exponent.                       *)
LEMMA NoBitsNoExponent ==
  ASSUME NEW n \in Nat, Low(n, 256) = 0
  PROVE  Low(n, 16) = 0
<1> DEFINE h == n \div 256
           g == 16 * h
<1>1. h \in Nat /\ n = h * 256 + (n % 256)
  <2>1. 256 \in Nat \ {0}
    OBVIOUS
  <2> QED
    BY <2>1, DivMod
<1>2. n % 256 = 0
  BY DEF Low
<1> HIDE DEF h
<1>3. g \in Nat /\ n = g * 16 + 0
  BY <1>1, <1>2
<1> HIDE DEF g
<1>4. (g * 16 + 0) % 16 = 0
  <2>1. 16 \in Nat \ {0} /\ 0 \in 0 .. 16 - 1
    OBVIOUS
  <2> QED
    BY <1>3, <2>1, QuotientIs
<1> QED
  BY <1>3, <1>4 DEF Low

LEMMA NibblesBack ==
  ASSUME NEW n \in Nat, n <= 65535
  PROVE  /\ Low(n, 16) \in 0 .. 15 /\ High(n, 16) \in Nat /\ High(n, 16) <= 4095
         /\ n = Low(n, 16) + High(n, 16) * 16
<1> DEFINE h == n \div 16
           l == n % 16
<1>1. n \in Nat /\ 16 \in Nat \ {0}
  OBVIOUS
<1>2. h \in Nat /\ l \in 0 .. 15 /\ n = h * 16 + l
  BY <1>1, DivMod
<1> HIDE DEF h, l
<1>3. h <= 4095 /\ n = l + h * 16
  BY <1>1, <1>2
<1> QED
  BY <1>2, <1>3 DEF h, l, Low, High

(* What is encoded of a mortal era is decoded with its phase quantized.    *)
LEMMA RoundTrip ==
  ASSUME NEW p \in PeriodsInUse, NEW x \in 0 .. p - 1, NEW e,
         e = [period |-> p, phase |-> x]
  PROVE  /\ ToBytes(e) \in (1 .. 255) \X (0 .. 255)
         /\ FromMortalBytes(ToBytes(e)) = [period |-> p, phase |-> x - (x % Quantum(p))]
<1> DEFINE k == Exponent(p)
           Q == Quantum(p)
           y == x \div Q
           n == k + y * 16
           b == ToBytes(e)
<1>1. /\ p \in Nat \ {0} /\ p <= 65536
      /\ Q \in {1, 2, 4, 8, 16} /\ p <= 4096 * Q
  BY PeriodFacts
<1>2. k \in 1 .. 15
  BY PeriodFacts
<1>3. 2 * 2 ^ k = p
  BY PeriodFacts
<1>4. x \in Nat /\ x < p
  BY <1>1
<1>5. y \in Nat /\ y * Q \in Nat /\ x % Q \in 0 .. Q - 1 /\ x = y * Q + (x % Q)
  <2>1. Q \in Nat \ {0}
    BY <1>1
  <2> HIDE DEF Q
  <2> QED
    BY <1>4, <2>1, DivMod
<1>6. b = << Low(n, 256), Low(High(n, 256), 256) >>
  BY DEF ToBytes, Low, High
<1> HIDE DEF k, Q, y, b
<1>7. y \in Nat /\ y <= 4095
  BY <1>1, <1>4, <1>5
<1>8. n = k + y * 16 /\ n \in Nat /\ n <= 65535
  BY <1>2, <1>7
<1> HIDE DEF n
<1>9. Low(n, 16) = k /\ High(n, 16) = y
  <2>1. 16 \in Nat \ {0} /\ y \in Nat /\ k \in 0 .. 16 - 1
    BY <1>2, <1>7
  <2>2. (y * 16 + k) % 16 = k /\ (y * 16 + k) \div 16 = y
    BY <2>1, QuotientIs
  <2>3. n = y * 16 + k
    BY <1>8, <2>1
  <2> QED
    BY <2>2, <2>3 DEF Low, High
<1>10. Low(n, 256) # 0
  <2>1. Low(n, 16) # 0
    BY <1>2, <1>9
  <2>2. n \in Nat
    BY <1>8
  <2> QED
    BY <2>1, <2>2, NoBitsNoExponent
<1>11. b \in (1 .. 255) \X (0 .. 255) /\ b[1] + 256 * b[2] = n
  <2> DEFINE l == Low(n, 256)
             h == High(n, 256)
  <2>1. l \in 0 .. 255 /\ h \in 0 .. 255 /\ Low(h, 256) = h /\ l + 256 * h = n
    BY <1>8, TwoBytes
  <2>2. b = << l, h >> /\ l # 0
    BY <1>6, <1>10, <2>1
  <2> HIDE DEF l, h
  <2> QED
    BY <2>1, <2>2
<1>12. FromMortalBytes(b) = [period |-> 2 * 2 ^ Low(n, 16),
                             phase |-> High(n, 16) * Quantum(2 * 2 ^ Low(n, 16))]
  BY <1>11 DEF FromMortalBytes, Low, High
<1>13. FromMortalBytes(b) = [period |-> p, phase |-> y * Q]
  BY <1>3, <1>9, <1>12 DEF Q
<1>14. y * Q = x - (x % Q)
  BY <1>1, <1>4, <1>5
<1> QED
  BY <1>11, <1>13, <1>14 DEF b, Q
-----------------------------------------------------------------------------
(* The blocks of an era.                                                   *)

LEMMA BirthIs ==
  ASSUME NEW e, NEW c \in Nat, e.phase \in Nat
  PROVE  /\ e.phase <= c => Birth(e, c) = ((c - e.phase) \div e.period) * e.period + e.phase
         /\ c <= e.phase => Birth(e, c) = ((e.phase - e.phase) \div e.period) * e.period + e.phase
<1> DEFINE f == e.phase
<1>1. Max({c, f}) = IF c >= f THEN c ELSE f
  BY MaxIs
<1> QED
  BY <1>1 DEF Birth

(* The first block of the era, to the signer and to the reader, and how     *)
(* long the reader stays in it.                                            *)
LEMMA Lifetime ==
  ASSUME NEW p \in PeriodsInUse, NEW h \in Nat,
         NEW e, e = [period |-> p, phase |-> h % p],
         NEW r, r = [period |-> p, phase |-> (h % p) - ((h % p) % Quantum(p))]
  PROVE  /\ Birth(e, h) = h /\ Birth(r, h) = h - (h % Quantum(p))
         /\ \A c \in Nat :
              h <= c => /\ (c - h) + Quantum(p) <= p => Birth(r, c) = Birth(r, h)
                        /\ p <= c - h => Birth(r, c) # Birth(r, h)
<1> DEFINE q == h \div p
           m == h % p
           Q == Quantum(p)
           w == m \div Q
           v == m % Q
           f == m - v
<1>1. p \in Nat \ {0} /\ Q \in Nat \ {0}
  BY PeriodFacts
<1>2. PICK d \in Nat \ {0} : p = d * Q
  BY PeriodFacts
<1>3. Q <= p
  <2> HIDE DEF Q
  <2> QED
    BY <1>1, <1>2
<1>4. q \in Nat /\ m \in 0 .. p - 1 /\ q * p \in Nat /\ h = q * p + m /\ m <= h
  BY <1>1, DivMod
<1>5. e.period = p /\ e.phase = m /\ r.period = p /\ r.phase = f
  OBVIOUS
<1> HIDE DEF q, m, Q
<1>6. m \in Nat
  BY <1>1, <1>4
<1>7. w \in Nat /\ v \in 0 .. Q - 1 /\ w * Q \in Nat /\ m = w * Q + v /\ v <= m
  BY <1>1, <1>6, DivMod
<1> HIDE DEF w, v
<1>8. v \in Nat /\ v < Q /\ f \in Nat /\ f <= m /\ f <= h /\ h - f = q * p + v
  BY <1>1, <1>4, <1>6, <1>7
<1> HIDE DEF f
<1>9. h % Q = v
  <2> DEFINE g == q * d + w
  <2>1. g \in Nat
    BY <1>2, <1>4, <1>7
  <2>2. q * p = (q * d) * Q
    BY <1>1, <1>2, <1>4
  <2>3. g * Q = (q * d) * Q + w * Q
    BY <1>1, <1>2, <1>4, <1>7
  <2>4. (q * d) * Q \in Nat
    BY <1>4, <2>2
  <2> HIDE DEF g
  <2>5. h = g * Q + v
    BY <1>4, <1>7, <2>2, <2>3, <2>4
  <2>6. (g * Q + v) % Q = v
    BY <1>1, <1>7, <2>1, QuotientIs
  <2> QED
    BY <2>5, <2>6
<1>10. Birth(e, h) = h
  <2>1. (q * p + 0) \div p = q
    <3>1. 0 \in 0 .. p - 1
      BY <1>1
    <3> QED
      BY <1>1, <1>4, <3>1, QuotientIs
  <2>2. h - m = q * p + 0
    BY <1>4, <1>6
  <2>3. Birth(e, h) = q * p + m
    BY <1>4, <1>5, <1>6, <2>1, <2>2, BirthIs
  <2> QED
    BY <1>4, <2>3
<1>11. ASSUME NEW c \in Nat, h <= c, v + (c - h) < p
       PROVE  Birth(r, c) = q * p + f
  <2> DEFINE s == v + (c - h)
  <2>1. s \in 0 .. p - 1
    BY <1>1, <1>8, <1>11
  <2>2. c - f = q * p + s /\ f <= c
    BY <1>4, <1>8, <1>11
  <2>3. (q * p + s) \div p = q
    BY <1>1, <1>4, <2>1, QuotientIs
  <2> HIDE DEF s
  <2> QED
    BY <1>5, <1>8, <2>2, <2>3, BirthIs
<1>12. Birth(r, h) = q * p + f
  <2>1. h <= h /\ v + (h - h) < p
    BY <1>1, <1>3, <1>8
  <2> QED
    BY <1>11, <2>1
<1>13. q * p + f = h - v
  BY <1>4, <1>8
<1>14. ASSUME NEW c \in Nat, h <= c, p <= c - h
       PROVE  Birth(r, c) # q * p + f
  <2> DEFINE a == c - f
             x == a \div p
             y == a % p
  <2>1. a \in Nat /\ f <= c /\ q * p + p <= a
    BY <1>1, <1>4, <1>8, <1>14
  <2> HIDE DEF a
  <2>2. y \in 0 .. p - 1 /\ x * p \in Nat /\ a = x * p + y
    BY <1>1, <2>1, DivMod
  <2>3. Birth(r, c) = x * p + f
    BY <1>5, <1>8, <2>1, BirthIs DEF a
  <2> HIDE DEF x, y
  <2>4. q * p < x * p
    BY <1>1, <1>4, <2>1, <2>2
  <2> QED
    BY <1>4, <1>8, <2>2, <2>3, <2>4
<1>15. ASSUME NEW c \in Nat, h <= c, (c - h) + Q <= p
       PROVE  v + (c - h) < p
  BY <1>1, <1>8, <1>15
<1> QED
  BY <1>9, <1>10, <1>11, <1>12, <1>13, <1>14, <1>15 DEF Q

(* Every era is followed by the next.                                      *)
LEMMA Follows ==
  ASSUME NEW e, e.period \in Nat \ {0}, e.phase \in Nat, NEW c \in Nat
  PROVE  /\ c < Death(e, c) /\ Birth(e, Death(e, c)) = Death(e, c)
         /\ Birth(e, Death(e, c) - 1) = Birth(e, c)
<1> DEFINE p == e.period
           f == e.phase
<1>1. \E q \in Nat : Birth(e, c) = q * p + f /\ c < q * p + f + p
  <2>1. CASE f <= c
    <3> DEFINE a == c - f
               x == a \div p
               y == a % p
    <3>1. a \in Nat
      BY <2>1
    <3> HIDE DEF a
    <3>2. x \in Nat /\ y \in 0 .. p - 1 /\ x * p \in Nat /\ a = x * p + y
      BY <3>1, DivMod
    <3>3. Birth(e, c) = x * p + f
      BY <2>1, BirthIs DEF a
    <3> HIDE DEF x, y
    <3>4. c < x * p + f + p
      BY <2>1, <3>2 DEF a
    <3> QED
      BY <3>2, <3>3, <3>4
  <2>2. CASE c < f
    <3>1. 0 \in Nat /\ 0 \in 0 .. p - 1
      OBVIOUS
    <3>2. (0 * p + 0) \div p = 0
      BY <3>1, QuotientIs
    <3>3. f - f = 0 * p + 0 /\ c <= f
      BY <2>2
    <3>4. Birth(e, c) = 0 * p + f
      BY <3>2, <3>3, BirthIs
    <3>5. c < 0 * p + f + p
      BY <2>2
    <3> QED
      BY <3>4, <3>5
  <2> QED
    BY <2>1, <2>2
<1>2. PICK q \in Nat : Birth(e, c) = q * p + f /\ c < q * p + f + p
  BY <1>1
<1> DEFINE b == q * p
           g == q + 1
           d == b + f + p
<1>3. b \in Nat /\ g \in Nat /\ g * p = b + p
  OBVIOUS
<1>4. Birth(e, c) = b + f /\ c < d
  BY <1>2
<1>5. Death(e, c) = d
  BY <1>3, <1>4 DEF Death
<1>6. (g * p + 0) \div p = g /\ (b + (p - 1)) \div p = q
  <2>1. 0 \in 0 .. p - 1 /\ p - 1 \in 0 .. p - 1
    OBVIOUS
  <2> QED
    BY <1>3, <2>1, QuotientIs
<1> HIDE DEF b, g
<1>7. /\ d \in Nat /\ f <= d /\ d - f = g * p + 0
      /\ d - 1 \in Nat /\ f <= d - 1 /\ (d - 1) - f = b + (p - 1)
  BY <1>3
<1> HIDE DEF d
<1>8. Birth(e, d) = g * p + f
  BY <1>6, <1>7, BirthIs
<1>9. Birth(e, d - 1) = q * p + f
  BY <1>6, <1>7, BirthIs
<1>10. g * p + f = d /\ q * p + f = b + f
  BY <1>3 DEF d, b
<1> QED
  BY <1>4, <1>5, <1>8, <1>9, <1>10
-----------------------------------------------------------------------------
(* What is accepted of others.                                             *)

(* The period and the phase that two bytes stand for.                      *)
LEMMA Reads ==
  ASSUME NEW b \in (0 .. 255) \X (0 .. 255), b[1] # 0
  PROVE  LET e == FromMortalBytes(b)
         IN  /\ e \in [period : PeriodsInUse \cup {2}, phase : Phases]
             /\ Valid(e) /\ Asserts => e \in [period : PeriodsInUse, phase : Phases] /\ ToBytes(e) = b
<1> DEFINE n == b[1] + 256 * b[2]
           k == Low(n, 16)
           y == High(n, 16)
           p == 2 * 2 ^ k
           Q == Quantum(p)
           e == FromMortalBytes(b)
<1>1. b[1] \in 0 .. 255 /\ b[2] \in 0 .. 255 /\ b = << b[1], b[2] >>
  OBVIOUS
<1>2. n \in Nat /\ n <= 65535 /\ Low(n, 256) = b[1] /\ High(n, 256) = b[2]
  <2> DEFINE x == b[1]
             z == b[2]
  <2>1. 256 \in Nat \ {0} /\ z \in Nat /\ z <= 255 /\ x \in Nat /\ x \in 0 .. 256 - 1
    BY <1>1
  <2> HIDE DEF x, z
  <2>2. (z * 256 + x) % 256 = x /\ (z * 256 + x) \div 256 = z
    BY <2>1, QuotientIs
  <2>3. x + 256 * z = z * 256 + x /\ x + 256 * z \in Nat /\ x + 256 * z <= 65535
    BY <2>1
  <2>4. n = x + 256 * z
    BY DEF x, z
  <2> HIDE DEF n
  <2>5. n % 256 = x /\ n \div 256 = z
    BY <2>2, <2>3, <2>4
  <2>6. Low(n, 256) = x /\ High(n, 256) = z
    BY <2>5 DEF Low, High
  <2> QED
    BY <2>3, <2>4, <2>6 DEF x, z
<1>3. e = [period |-> p, phase |-> y * Q]
  BY DEF FromMortalBytes, Low, High
<1> HIDE DEF n, e
<1>4. k \in 0 .. 15 /\ y \in Nat /\ y <= 4095 /\ n = k + y * 16
  BY <1>2, NibblesBack
<1> HIDE DEF k, y
<1>5. CASE k = 0
  <2>1. p = 2
    <3>1. 2 ^ k = 2 ^ 0
      BY <1>5, Zenon
    <3> QED
      BY <3>1
  <2>2. Q = 1
    <3>1. Quantum(2) = 1
      BY MaxIs DEF Quantum
    <3> QED
      BY <2>1, <3>1
  <2> HIDE DEF Q, p
  <2>3. e.period = 2 /\ e = [period |-> 2, phase |-> y]
    BY <1>3, <1>4, <2>1, <2>2
  <2>4. y \in Phases
    BY <1>4 DEF Phases
  <2>5. ~(Valid(e) /\ Asserts)
    BY <2>3 DEF Valid
  <2> QED
    BY <2>3, <2>4, <2>5 DEF e
<1>6. CASE k # 0
  <2> DEFINE j == k + 1
  <2>1. j \in 2 .. 16 /\ k = j - 1 /\ (k = 1 \/ k \in 2 .. 16)
    BY <1>4, <1>6
  <2>2. p = 2 ^ j
    <3>1. k = 1 => 2 ^ k = 2 ^ 1
      BY Zenon
    <3> HIDE DEF j
    <3>2. k = j - 1 /\ j \in 2 .. 16 /\ (k = 1 \/ k \in 2 .. 16)
      BY <2>1
    <3> QED
      BY <3>1, <3>2, Exponents, PowersAt
  <2> HIDE DEF j
  <2>3. p \in PeriodsInUse
    BY <2>1, <2>2 DEF PeriodsInUse
  <2>4. TrailingZeros(p) = j
    BY <2>1, <2>2, ZerosOf, ZenonT(60)
  <2>5. Exponent(p) = k
    BY <2>1, <2>4, MaxIs, MinIs DEF Exponent
  <2> HIDE DEF p
  <2>6. p \in Nat \ {0} /\ p <= 65536 /\ Q \in {1, 2, 4, 8, 16}
    BY <2>3, PeriodFacts
  <2> HIDE DEF Q
  <2>7. y * Q \in Nat /\ y * Q <= 65520
    BY <1>4, <2>6
  <2>8. y * Q \in Phases
    BY <2>7 DEF Phases
  <2>9. e \in [period : PeriodsInUse, phase : Phases]
    BY <1>3, <2>3, <2>8
  <2>10. ToBytes(e) = b
    <3>1. (y * Q) \div Q = y
      <4>1. (y * Q + 0) \div Q = y
        <5>1. Q \in Nat \ {0} /\ 0 \in 0 .. Q - 1
          BY <2>6
        <5> QED
          BY <1>4, <5>1, QuotientIs
      <4>2. y * Q + 0 = y * Q
        BY <2>7
      <4> QED
        BY <4>1, <4>2
    <3>2. ToBytes(e) = << Low(n, 256), Low(High(n, 256), 256) >>
      <4>1. ToBytes(e) = LET m == Exponent(p) + ((y * Q) \div Q) * 16
                         IN  << m % 256, (m \div 256) % 256 >>
        BY <1>3 DEF ToBytes, Q
      <4>2. Exponent(p) + ((y * Q) \div Q) * 16 = n
        BY <1>4, <2>5, <3>1
      <4> QED
        BY <4>1, <4>2 DEF Low, High
    <3>3. Low(High(n, 256), 256) = High(n, 256)
      BY <1>2, TwoBytes
    <3> QED
      BY <1>1, <1>2, <3>2, <3>3
  <2> QED
    BY <2>9, <2>10 DEF e
<1> QED
  BY <1>5, <1>6
-----------------------------------------------------------------------------
(* The invariant: what is known of the signer's era and of what is read.    *)
EraInv ==
  /\ TypeOK
  /\ made <= height
  /\ asked > 0 => era = FromBlock(made, asked)
  /\ asked = 0 => era = Immortal
  /\ FromSigner => received = Decoded(Encoded(era))

LEMMA Numbers == TypeOK => height \in Nat /\ made \in Nat /\ asked \in Nat
  BY EraAssumption DEF TypeOK

(* What a signer makes, and what is read of it.                            *)
LEMMA SignedEra ==
  ASSUME NEW h \in Nat, NEW a \in Nat \ {0}, NEW p, p = PeriodFor(a), NEW e, e = FromBlock(h, a)
  PROVE  /\ p \in PeriodsInUse /\ e = [period |-> p, phase |-> h % p]
         /\ e \in Eras /\ e # Immortal
         /\ Encoded(e) \in (1 .. 255) \X (0 .. 255)
         /\ Decoded(Encoded(e)) = [period |-> p, phase |-> (h % p) - ((h % p) % Quantum(p))]
<1>1. p \in PeriodsInUse
  BY PeriodForIs
<1>2. p \in Nat \ {0} /\ p <= 65536
  BY <1>1, PeriodFacts
<1>3. e = [period |-> p, phase |-> h % p]
  BY DEF FromBlock
<1> DEFINE m == h % p
<1>4. m \in 0 .. p - 1 /\ m \in Nat
  BY <1>2
<1> HIDE DEF m
<1>5. m \in Phases
  BY <1>2, <1>4 DEF Phases
<1>6. e = [period |-> p, phase |-> m]
  BY <1>3 DEF m
<1>7. e \in Eras
  BY <1>1, <1>5, <1>6 DEF Eras
<1>8. e # Immortal
  <2>1. e.period # 0 /\ Immortal.period = 0
    BY <1>2, <1>6 DEF Immortal
  <2> QED
    BY <2>1
<1>9. /\ ToBytes(e) \in (1 .. 255) \X (0 .. 255)
      /\ FromMortalBytes(ToBytes(e)) = [period |-> p, phase |-> m - (m % Quantum(p))]
  BY <1>1, <1>4, <1>6, RoundTrip
<1>10. Encoded(e) = ToBytes(e)
  BY <1>8 DEF Encoded
<1>11. ToBytes(e)[1] # 0
  BY <1>9
<1>12. Decoded(Encoded(e)) = FromMortalBytes(ToBytes(e))
  BY <1>10, <1>11 DEF Decoded
<1> QED
  BY <1>1, <1>3, <1>7, <1>8, <1>9, <1>10, <1>12 DEF m

Wires == {<< >>, << 0 >>} \cup ((1 .. 255) \X (0 .. 255))

(* What a step that reads leaves behind.                                   *)
LEMMA ReadTypes ==
  ASSUME NEW b, b = << 0 >> \/ b \in (0 .. 255) \X (0 .. 255), Read(b)
  PROVE  wire' \in Wires \ {<< >>} /\ received' \in ErasRead /\ received' = Decoded(b)
<1>1. CASE b[1] = 0
  <2>1. received' = Immortal /\ wire' = << 0 >>
    BY <1>1 DEF Read, Decoded
  <2>2. received' \in ErasRead
    BY <2>1 DEF ErasRead, Eras
  <2>3. received' = Decoded(b)
    BY DEF Read
  <2>4. << 0 >> # << >>
    OBVIOUS
  <2> QED
    BY <2>1, <2>2, <2>3, <2>4 DEF Wires
<1>2. CASE b[1] # 0
  <2>1. b \in (0 .. 255) \X (0 .. 255) /\ b[1] \in 1 .. 255 /\ b \in (1 .. 255) \X (0 .. 255)
    BY <1>2
  <2>2. wire' = b /\ received' = FromMortalBytes(b) /\ Valid(FromMortalBytes(b))
    BY <1>2 DEF Read, Decoded
  <2>3. received' = Decoded(b)
    BY DEF Read
  <2>4. b # << >>
    BY <2>1
  <2> DEFINE e == FromMortalBytes(b)
  <2>5. /\ e \in [period : PeriodsInUse \cup {2}, phase : Phases]
        /\ Asserts => e \in [period : PeriodsInUse, phase : Phases]
    BY <1>2, <2>1, <2>2, Reads
  <2> HIDE DEF e
  <2>6. e \in ErasRead
    BY <2>5 DEF ErasRead, Eras
  <2> QED
    BY <2>1, <2>2, <2>3, <2>4, <2>6 DEF Wires, e
<1> QED
  BY <1>1, <1>2

LEMMA Starts == Init => EraInv
<1> SUFFICES ASSUME Init PROVE EraInv
  OBVIOUS
<1>1. Immortal \in Eras /\ Immortal \in ErasRead
  BY DEF Eras, ErasRead
<1>2. TypeOK
  BY <1>1 DEF Init, TypeOK
<1>3. height \in Nat
  BY <1>2, Numbers
<1> QED
  BY <1>2, <1>3 DEF Init, EraInv, FromSigner

LEMMA Continues == EraInv /\ [Next]_vars => EraInv'
<1> SUFFICES ASSUME EraInv, [Next]_vars PROVE EraInv'
  OBVIOUS
<1>1. TypeOK /\ height \in Nat /\ made \in Nat /\ asked \in Nat
  BY Numbers DEF EraInv
<1>2. Wires = {<< >>, << 0 >>} \cup ((1 .. 255) \X (0 .. 255)) /\ wire \in Wires
  BY <1>1 DEF TypeOK, Wires
<1>3. ASSUME NEW asks \in Periods, Sign(asks) PROVE EraInv'
  <2>1. asks \in Nat \ {0}
    BY EraAssumption
  <2>2. era' = FromBlock(height, asks) /\ made' = height /\ asked' = asks /\ height' = height
    BY <1>3 DEF Sign
  <2>3. era' \in Eras
    BY <1>1, <2>1, <2>2, SignedEra
  <2>4. wire = << >> /\ wire' = wire /\ received' = received
    BY <1>3 DEF Sign, Fresh
  <2>5. TypeOK'
    BY <1>1, <2>2, <2>3, <2>4 DEF TypeOK
  <2> QED
    BY <1>1, <2>1, <2>2, <2>4, <2>5 DEF EraInv, FromSigner
<1>4. CASE SignImmortal
  <2>1. Immortal \in Eras
    BY DEF Eras
  <2>2. TypeOK'
    BY <1>1, <1>4, <2>1 DEF TypeOK, SignImmortal, Fresh
  <2> QED
    BY <1>1, <1>4, <2>2 DEF EraInv, SignImmortal, Fresh, FromSigner
<1>5. CASE ReadSigned
  <2>1. Encoded(era) = << 0 >> \/ Encoded(era) \in (0 .. 255) \X (0 .. 255)
    <3>1. CASE asked = 0
      BY <3>1 DEF EraInv, Encoded
    <3>2. CASE asked # 0
      <4>1. asked \in Nat \ {0} /\ era = FromBlock(made, asked)
        BY <1>1, <3>2 DEF EraInv
      <4>2. Encoded(era) \in (1 .. 255) \X (0 .. 255)
        BY <1>1, <4>1, SignedEra
      <4> QED
        BY <4>2
    <3> QED
      BY <3>1, <3>2
  <2>2. Read(Encoded(era)) /\ era' = era /\ made' = made /\ asked' = asked /\ height' = height
    BY <1>5 DEF ReadSigned, Read
  <2>3. wire' \in Wires \ {<< >>} /\ received' \in ErasRead /\ received' = Decoded(Encoded(era))
    BY <2>1, <2>2, ReadTypes
  <2>4. TypeOK'
    BY <1>1, <1>2, <2>2, <2>3 DEF TypeOK, ErasRead
  <2> QED
    BY <2>2, <2>3, <2>4 DEF EraInv, FromSigner
<1>6. ASSUME NEW b \in Others, ReadOther(b) PROVE EraInv'
  <2>1. b \in (0 .. 255) \X (0 .. 255)
    BY EraAssumption
  <2>2. /\ Read(b) /\ era' = era /\ made' = height /\ asked' = asked /\ height' = height
        /\ asked = 0
    BY <1>6 DEF ReadOther, Read, Fresh
  <2>3. wire' \in Wires \ {<< >>} /\ received' \in ErasRead
    BY <2>1, <2>2, ReadTypes
  <2>4. TypeOK'
    BY <1>1, <1>2, <2>2, <2>3 DEF TypeOK, ErasRead
  <2> QED
    BY <1>1, <2>2, <2>4 DEF EraInv, FromSigner
<1>7. CASE NextBlocks
  <2>1. height' \in Heights /\ height' > height /\ era' = era /\ made' = made /\ asked' = asked
        /\ wire' = wire /\ received' = received
    BY <1>7 DEF NextBlocks
  <2>2. TypeOK'
    BY <1>1, <2>1 DEF TypeOK, ErasRead
  <2>3. height' \in Nat
    BY <2>1, EraAssumption
  <2> QED
    BY <1>1, <2>1, <2>2, <2>3 DEF EraInv, FromSigner
<1>8. CASE UNCHANGED vars
  BY <1>8 DEF vars, EraInv, TypeOK, ErasRead, FromSigner
<1> QED
  BY <1>3, <1>4, <1>5, <1>6, <1>7, <1>8 DEF Next

(* Every reachable state has the invariant.                                *)
THEOREM AlwaysInv == Spec => []EraInv
  BY Starts, Continues, PTL DEF Spec

(* Every field stays in its range: what is read is an era of one of the      *)
(* periods in use (or of 2 blocks, where no assert stops it) whose phase     *)
(* fits the sixteen bits it is kept in (ExtrinsicEra.dart:97-111).           *)
THEOREM EraTypes == Spec => []TypeOK
<1>1. EraInv => TypeOK
  BY DEF EraInv
<1> QED
  BY <1>1, AlwaysInv, PTL

LEMMA SignedFacts ==
  ASSUME EraInv, FromSigner
  PROVE  LET p == PeriodFor(asked)
         IN  /\ asked \in Nat \ {0} /\ made \in Nat /\ height \in Nat /\ p \in PeriodsInUse
             /\ era = [period |-> p, phase |-> made % p]
             /\ received = [period |-> p, phase |-> (made % p) - ((made % p) % Quantum(p))]
<1>1. asked \in Nat \ {0} /\ made \in Nat /\ height \in Nat
  BY Numbers DEF EraInv, FromSigner
<1>2. era = FromBlock(made, asked) /\ received = Decoded(Encoded(era))
  BY <1>1 DEF EraInv, FromSigner
<1> QED
  BY <1>1, <1>2, SignedEra

(* What is read of a transaction lives as long as it was signed for: no     *)
(* period of the sixteen is lost in the four bits it is written in           *)
(* (ExtrinsicEra.dart:159-170, 229-231).                                    *)
THEOREM TheSamePeriod == Spec => []MortalStaysMortal
<1>1. EraInv => MortalStaysMortal
  BY SignedFacts DEF MortalStaysMortal
<1> QED
  BY <1>1, AlwaysInv, PTL

(* For every block and every period asked for, the signer's era begins at    *)
(* the block it was made at and the reader's at the last multiple of the     *)
(* quantum before it (ExtrinsicEra.dart:86-93, 159-170, 175-182).            *)
THEOREM TheSameStart == Spec => []SameStart
<1>1. ASSUME EraInv, FromSigner
      PROVE  Birth(era, made) = made /\ Birth(received, made) = made - (made % Quantum(era.period))
  <2> DEFINE p == PeriodFor(asked)
  <2>1. /\ made \in Nat /\ p \in PeriodsInUse
        /\ era = [period |-> p, phase |-> made % p]
        /\ received = [period |-> p, phase |-> (made % p) - ((made % p) % Quantum(p))]
    BY <1>1, SignedFacts
  <2>2. era.period = p
    BY <2>1
  <2> HIDE DEF p
  <2>3. Birth(era, made) = made /\ Birth(received, made) = made - (made % Quantum(p))
    BY <2>1, Lifetime
  <2> QED
    BY <2>2, <2>3
<1>2. EraInv => SameStart
  BY <1>1 DEF SameStart
<1> QED
  BY <1>2, AlwaysInv, PTL

(* The reader finds the transaction in its era for as long as was asked for  *)
(* (less the quantum), and never after twice as long                         *)
(* (ExtrinsicEra.dart:86-88, 175-190).                                       *)
THEOREM AliveAsLongAsAsked == Spec => []LivesAsAsked
<1>1. ASSUME EraInv, FromSigner
      PROVE  /\ height - made + Quantum(received.period) <= asked /\ asked <= 65536 => InItsEra
             /\ height - made >= 2 * Max({asked, 4}) => ~InItsEra
  <2> DEFINE p == PeriodFor(asked)
             Q == Quantum(p)
  <2>1. /\ asked \in Nat \ {0} /\ made \in Nat /\ height \in Nat /\ p \in PeriodsInUse
        /\ era = [period |-> p, phase |-> made % p]
        /\ received = [period |-> p, phase |-> (made % p) - ((made % p) % Q)]
    BY <1>1, SignedFacts
  <2>2. received.period = p /\ made <= height
    BY <1>1, <2>1 DEF EraInv
  <2>3. (asked <= 65536 => asked <= p) /\ (p = 4 \/ p < 2 * asked)
    BY <2>1, PeriodForIs
  <2>4. p \in Nat \ {0} /\ Q \in Nat
    BY <2>1, PeriodFacts
  <2>5. Max({asked, 4}) = IF asked >= 4 THEN asked ELSE 4
    BY <2>1, MaxIs
  <2> HIDE DEF p
  <2>6. /\ (height - made) + Q <= p => Birth(received, height) = Birth(received, made)
        /\ p <= height - made => Birth(received, height) # Birth(received, made)
    BY <2>1, <2>2, Lifetime
  <2>7. Quantum(received.period) = Q
    BY <2>2
  <2> HIDE DEF Q
  <2>8. ASSUME (height - made) + Q <= asked, asked <= 65536
        PROVE  InItsEra
    <3>1. (height - made) + Q <= p
      BY <2>1, <2>3, <2>4, <2>8
    <3> QED
      BY <2>6, <3>1 DEF InItsEra
  <2>9. ASSUME height - made >= 2 * Max({asked, 4})
        PROVE  ~InItsEra
    <3>1. p <= height - made
      BY <2>1, <2>3, <2>4, <2>5, <2>9
    <3> QED
      BY <2>6, <3>1 DEF InItsEra
  <2> QED
    BY <2>7, <2>8, <2>9
<1>2. EraInv => LivesAsAsked
  BY <1>1 DEF LivesAsAsked
<1> QED
  BY <1>2, AlwaysInv, PTL

(* The eras of whatever was read follow each other without a gap or an       *)
(* overlap (ExtrinsicEra.dart:175-190).                                      *)
THEOREM ErasFollow == Spec => []NextEra
<1>1. ASSUME EraInv, Mortal
      PROVE  LET death == Death(received, height)
             IN  /\ height < death /\ Birth(received, death) = death
                 /\ Birth(received, death - 1) = Birth(received, height)
  <2>1. received \in [period : PeriodsInUse \cup {2}, phase : Phases]
    BY <1>1 DEF EraInv, TypeOK, ErasRead, Eras, Mortal
  <2>2. received.phase \in Nat
    <3>1. \A x \in Phases : x \in Nat
      BY DEF Phases
    <3>2. received.phase \in Phases
      BY <2>1
    <3> QED
      BY <3>1, <3>2
  <2>3. received.period \in Nat \ {0}
    BY <2>1, PeriodFacts
  <2>4. height \in Nat
    BY <1>1, Numbers DEF EraInv
  <2> QED
    BY <2>2, <2>3, <2>4, Follows
<1>2. EraInv => NextEra
  BY <1>1 DEF NextEra
<1> QED
  BY <1>2, AlwaysInv, PTL

(* Where asserts are checked, no two bytes are accepted but those that the   *)
(* era would be encoded as (ExtrinsicEra.dart:110, 159-170).                 *)
LEMMA ReadBack ==
  ASSUME Asserts, NEW b, b = << 0 >> \/ b \in (0 .. 255) \X (0 .. 255), Read(b)
  PROVE  Canonical'
<1>1. CASE b[1] = 0
  <2>1. received' = Immortal /\ wire' = << 0 >>
    BY <1>1 DEF Read, Decoded
  <2> QED
    BY <2>1 DEF Canonical, Encoded
<1>2. CASE b[1] # 0
  <2>1. b \in (0 .. 255) \X (0 .. 255)
    BY <1>2
  <2>2. wire' = b /\ received' = FromMortalBytes(b) /\ Valid(FromMortalBytes(b))
    BY <1>2 DEF Read, Decoded
  <2>3. /\ FromMortalBytes(b) \in [period : PeriodsInUse, phase : Phases]
        /\ ToBytes(FromMortalBytes(b)) = b
    BY <1>2, <2>1, <2>2, Reads
  <2>4. received'.period # 0 /\ Immortal.period = 0
    BY <2>2, <2>3, PeriodFacts DEF Immortal
  <2>5. received' # Immortal
    BY <2>4
  <2> QED
    BY <2>2, <2>3, <2>5 DEF Canonical, Encoded
<1> QED
  BY <1>1, <1>2

(* Where asserts are checked, bytes that are read as a mortal era are the    *)
(* bytes that era is encoded in: no era has two encodings                   *)
(* (ExtrinsicEra.dart:98-113, 159-170).                                     *)
THEOREM AcceptedAsEncoded ==
  ASSUME Asserts
  PROVE  Spec => []Canonical
<1>1. Init => Canonical
  BY DEF Init, Canonical
<1>2. EraInv /\ Canonical /\ [Next]_vars => Canonical'
  <2> SUFFICES ASSUME EraInv, Canonical, [Next]_vars PROVE Canonical'
    OBVIOUS
  <2>1. CASE ReadSigned
    <3>1. asked \in Nat /\ made \in Nat
      BY Numbers DEF EraInv
    <3>2. Encoded(era) = << 0 >> \/ Encoded(era) \in (0 .. 255) \X (0 .. 255)
      <4>1. CASE asked = 0
        BY <4>1 DEF EraInv, Encoded
      <4>2. CASE asked # 0
        <5>1. asked \in Nat \ {0} /\ era = FromBlock(made, asked)
          BY <3>1, <4>2 DEF EraInv
        <5>2. Encoded(era) \in (1 .. 255) \X (0 .. 255)
          BY <3>1, <5>1, SignedEra
        <5> QED
          BY <5>2
      <4> QED
        BY <4>1, <4>2
    <3> QED
      BY <2>1, <3>2, ReadBack DEF ReadSigned
  <2>2. ASSUME NEW b \in Others, ReadOther(b) PROVE Canonical'
    <3>1. b \in (0 .. 255) \X (0 .. 255)
      BY EraAssumption
    <3> QED
      BY <2>2, <3>1, ReadBack DEF ReadOther
  <2>3. CASE UNCHANGED << wire, received >>
    BY <2>3 DEF Canonical
  <2>4. SignImmortal \/ NextBlocks \/ (\E asks \in Periods : Sign(asks)) \/ UNCHANGED vars
        => UNCHANGED << wire, received >>
    BY DEF SignImmortal, NextBlocks, Sign, vars
  <2> QED
    BY <2>1, <2>2, <2>3, <2>4 DEF Next
<1> QED
  BY <1>1, <1>2, AlwaysInv, PTL DEF Spec
=============================================================================
