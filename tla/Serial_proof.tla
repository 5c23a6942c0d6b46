----------------------------- MODULE Serial_proof -----------------------------
(***************************************************************************)
(* The proofs about the serial lines of Peripherals: the transmitter of    *)
(* the UART and the SPI, for any width of a byte and any speed.            *)
(***************************************************************************)
EXTENDS Peripherals_proof

-----------------------------------------------------------------------------
(* Quotients and bits                                                      *)

(* A quotient and a remainder are the only ones.                           *)
LEMMA Quotient ==
  ASSUME NEW p \in Nat \ {0}, NEW a \in Nat, NEW r \in 0 .. p - 1
  PROVE  (a * p + r) \div p = a /\ (a * p + r) % p = r
BY SMT

(* Every number has them.                                                  *)
LEMMA Divided ==
  ASSUME NEW p \in Nat \ {0}, NEW x \in Nat
  PROVE  /\ x \div p \in Nat /\ x % p \in 0 .. p - 1
         /\ x = p * (x \div p) + (x % p)
<1>1. x % p \in 0 .. p - 1
  BY SMT
<1>2. x = p * (x \div p) + (x % p)
  BY SMT
<1>3. x \div p \in Nat
  BY SMT
<1>4. QED
  BY <1>1, <1>2, <1>3

(* A quotient is not larger than the number.                               *)
LEMMA NotLarger ==
  ASSUME NEW p \in Nat \ {0}, NEW x \in Nat
  PROVE  x \div p \in Nat /\ x \div p <= x
<1> DEFINE q == x \div p
           r == x % p
<1>1. q \in Nat /\ r \in Nat /\ x = p * q + r
  BY Divided
<1> HIDE DEF q, r
<1>2. q <= p * q
  BY <1>1, SMT
<1>3. QED
  BY <1>1, <1>2 DEF q

(* Counting on by one.                                                     *)
LEMMA CountOn ==
  ASSUME NEW p \in Nat \ {0}, NEW x \in Nat
  PROVE  IF x % p = p - 1
           THEN (x + 1) \div p = (x \div p) + 1 /\ (x + 1) % p = 0
           ELSE (x + 1) \div p = x \div p /\ (x + 1) % p = (x % p) + 1
BY SMT

(* The digit between 2^i and 2^(i + 1).                                    *)
LEMMA HalfDigit ==
  ASSUME NEW p \in Nat \ {0}, NEW x \in Nat
  PROVE  /\ (x \div p) % 2 \in {0, 1}
         /\ x \div p = 2 * (x \div (2 * p)) + ((x \div p) % 2)
         /\ x % (2 * p) = (x % p) + ((x \div p) % 2) * p
<1> DEFINE q == x \div p
           r == x % p
           h == q \div 2
           b == q % 2
<1>1. q \in Nat /\ r \in 0 .. p - 1 /\ x = p * q + r
  BY Divided
<1> HIDE DEF q, r
<1>2. h \in Nat /\ b \in {0, 1} /\ q = 2 * h + b
  BY <1>1, SMT
<1> HIDE DEF h, b
<1>3. p * q = h * (2 * p) + b * p
  BY <1>1, <1>2, SMT
<1>4. b * p + r \in 0 .. 2 * p - 1
  BY <1>1, <1>2, SMT
<1>5. x = h * (2 * p) + (b * p + r)
  BY <1>1, <1>2, <1>3, SMT
<1>6. x \div (2 * p) = h /\ x % (2 * p) = b * p + r
  BY <1>1, <1>2, <1>4, <1>5, Quotient
<1>7. QED
  BY <1>1, <1>2, <1>6, SMT DEF q, r, b

(* A number below p has no quotient by p.                                  *)
LEMMA Below ==
  ASSUME NEW p \in Nat \ {0}, NEW x \in 0 .. p - 1
  PROVE  x \div p = 0
BY SMT

(* and is its own remainder.                                               *)
LEMMA Unchanged ==
  ASSUME NEW p \in Nat \ {0}, NEW x \in 0 .. p - 1
  PROVE  x % p = x
BY SMT

(* Setting the digit between p and 2 p of a number below m, of which 2 p   *)
(* is a divisor.                                                           *)
LEMMA SetDigit ==
  ASSUME NEW p \in Nat \ {0}, NEW m \in Nat, m % (2 * p) = 0,
         NEW x \in 0 .. m - 1, NEW b \in {0, 1}
  PROVE  LET y == x - ((x \div p) % 2) * p + b * p
         IN  /\ y \in 0 .. m - 1
             /\ y \div p = 2 * (x \div (2 * p)) + b
             /\ y % (2 * p) = (x % p) + b * p
<1> DEFINE q == x \div (2 * p)
           r == x % p
           d == (x \div p) % 2
           k == m \div (2 * p)
           y == x - d * p + b * p
<1>1. x \in Nat /\ 2 * p \in Nat \ {0} /\ x < m
  BY SMT
<1>2. q \in Nat /\ k \in Nat /\ m = (2 * p) * k
  <2>1. q \in Nat
    BY <1>1, Divided
  <2>2. k \in Nat /\ m = (2 * p) * k + (m % (2 * p))
    BY <1>1, Divided
  <2> HIDE DEF k
  <2>3. (2 * p) * k \in Nat
    BY <1>1, <2>2, SMT
  <2>4. QED
    BY <2>1, <2>2, <2>3
<1>3. r \in 0 .. p - 1 /\ d \in {0, 1}
  BY <1>1, Divided, HalfDigit
<1>4. x = (2 * p) * q + (r + d * p)
  <2>1. x = (2 * p) * q + (x % (2 * p))
    BY <1>1, Divided
  <2>2. x % (2 * p) = r + d * p
    BY <1>1, HalfDigit
  <2>3. QED
    BY <2>1, <2>2
<1> HIDE DEF q, r, d, k
<1>5. y = q * (2 * p) + (r + b * p) /\ y = (2 * q + b) * p + r
  BY <1>1, <1>2, <1>3, <1>4, SMT
<1> HIDE DEF y
<1>6. r + b * p \in 0 .. 2 * p - 1 /\ 2 * q + b \in Nat
  BY <1>2, <1>3, SMT
<1>7. y \div p = 2 * q + b
  BY <1>3, <1>5, <1>6, Quotient
<1>8. y % (2 * p) = r + b * p
  BY <1>1, <1>2, <1>5, <1>6, Quotient
<1>9. y \in 0 .. m - 1
  <2>1. (2 * p) * q < (2 * p) * k
    BY <1>1, <1>2, <1>3, <1>4, SMT
  <2>2. q < k
    BY <1>1, <1>2, <2>1, SMT
  <2>3. (2 * p) * q + 2 * p <= (2 * p) * k
    BY <1>1, <1>2, <2>2, SMT
  <2>4. QED
    BY <1>1, <1>2, <1>5, <1>6, <2>3, SMT
<1>10. QED
  BY <1>7, <1>8, <1>9 DEF q, r, d, y

-----------------------------------------------------------------------------
(* The SPI                                                                 *)

SpiRegisters ==
  [ctrl : CtrlWord, tx : SpiWord, rx : SpiWord, busy : {0, 1}, state : 0 .. 3,
   bit : 0 .. SpiBits - 1, count : 0 .. 255, sck : {0, 1}, mosi : {0, 1}, cs : 0 .. NoChip]

(* What both ends have of each other's byte: the bits above the current    *)
(* one, and in the end all of it.                                          *)
Exchanging ==
  /\ spi.state = 1 =>
       \/ spi.sck = 0 /\ spi.bit = SpiBits - 1 /\ chip.pos = spi.bit
       \/ spi.sck = 1 /\ chip.pos = spi.bit + 1
  /\ spi.state = 2 =>
       spi.sck = 0 /\ chip.pos = spi.bit /\ spi.mosi = SpiBit(spi.tx, spi.bit)
  /\ spi.state \in {1, 2} =>
       /\ chip.in = spi.tx \div 2^(spi.bit + 1)
       /\ spi.rx \div 2^(spi.bit + 1) = chip.out \div 2^(spi.bit + 1)
  /\ spi.state = 3 => spi.sck = 1 /\ chip.in = spi.tx /\ spi.rx = chip.out

SpiInv ==
  /\ spi \in SpiRegisters
  /\ chip \in [out : SpiWord, in : SpiWord, pos : 0 .. SpiBits - 1]
  /\ spi.busy = 0 => spi.state = 0 /\ spi.sck = 0 /\ spi.cs = NoChip
  /\ spi.busy = 1 => spi.state \in 1 .. 3
  /\ ChipSelected => Exchanging

(* One more bit of a byte, from above.                                     *)
LEMMA NextDigit ==
  ASSUME NEW x \in SpiWord, NEW i \in 0 .. SpiBits - 1
  PROVE  /\ SpiBit(x, i) \in {0, 1}
         /\ x \div 2^i = 2 * (x \div 2^(i + 1)) + SpiBit(x, i)
         /\ x \div 2^i \in SpiWord
<1>1. x \in Nat /\ x < 2^SpiBits /\ 2^i \in Nat \ {0} /\ 2^(i + 1) = 2 * 2^i
  BY SpiAssumption DEF SpiWord
<1>2. /\ (x \div 2^i) % 2 \in {0, 1}
      /\ x \div 2^i = 2 * (x \div (2 * 2^i)) + ((x \div 2^i) % 2)
  BY <1>1, HalfDigit
<1>3. x \div 2^i \in Nat /\ x \div 2^i <= x
  BY <1>1, NotLarger
<1>4. x \div 2^i \in SpiWord
  <2> DEFINE q == x \div 2^i
  <2>1. q \in Nat /\ q <= x /\ x \in Nat /\ x < 2^SpiBits /\ 2^SpiBits \in Nat
    BY <1>1, <1>3, SpiAssumption
  <2> HIDE DEF q
  <2>2. q \in 0 .. 2^SpiBits - 1
    BY <2>1
  <2>3. QED
    BY <2>2 DEF SpiWord, q
<1>5. QED
  BY <1>1, <1>2, <1>4 DEF SpiBit

(* Chip selects are four bits, and NoChip is none of them.                 *)
LEMMA ChipSelects ==
  /\ ChipSelect(0) # NoChip
  /\ \A c \in Nat : ChipSelect((c \div 4) % 16) \in 0 .. NoChip
<1>1. 2^0 = 1 /\ 2^1 = 2 /\ 2^2 = 4 /\ 2^3 = 8
  BY SMT
<1>2. ChipSelect(0) = 14
  BY <1>1 DEF ChipSelect, NoChip
<1>3. \A n \in Nat : n < 4 => n = 0 \/ n = 1 \/ n = 2 \/ n = 3
  BY SMT
<1>4. \A n \in Nat : ChipSelect(n) \in 0 .. NoChip
  <2> TAKE n \in Nat
  <2>1. CASE n < 4
    <3>1. /\ n = 0 => 2^n = 1
          /\ n = 1 => 2^n = 2
          /\ n = 2 => 2^n = 4
          /\ n = 3 => 2^n = 8
      BY <1>1, Zenon
    <3>2. 2^n \in 1 .. 8
      BY <1>3, <2>1, <3>1
    <3>3. QED
      BY <2>1, <3>2 DEF ChipSelect, NoChip
  <2>2. CASE ~(n < 4)
    BY <2>2 DEF ChipSelect, NoChip
  <2>3. QED
    BY <2>1, <2>2
<1>5. \A c \in Nat : (c \div 4) % 16 \in Nat
  BY SMT
<1>6. QED
  BY <1>2, <1>4, <1>5 DEF NoChip

(* The divider is a byte of the control word.                              *)
LEMMA Dividers == \A c \in CtrlWord : c \in Nat /\ Divider(c) \in 0 .. 255
<1>1. 2^16 \in Nat
  BY SMT
<1>2. \A c \in Nat : (c \div 256) % 256 \in 0 .. 255
  BY SMT
<1>3. QED
  BY <1>1, <1>2 DEF CtrlWord, Divider

(* One register after the other.                                           *)
LEMMA SpiField ==
  ASSUME NEW r \in SpiRegisters
  PROVE  /\ {0, 1, 2} \subseteq 0 .. 3 /\ NoChip \in 0 .. NoChip
         /\ \A v \in {0, 1} : /\ [r EXCEPT !.busy = v] \in SpiRegisters
                              /\ [r EXCEPT !.sck = v]  \in SpiRegisters
                              /\ [r EXCEPT !.mosi = v] \in SpiRegisters
         /\ \A v \in SpiWord : /\ [r EXCEPT !.tx = v] \in SpiRegisters
                               /\ [r EXCEPT !.rx = v] \in SpiRegisters
         /\ \A v \in 0 .. 3           : [r EXCEPT !.state = v] \in SpiRegisters
         /\ \A v \in 0 .. SpiBits - 1 : [r EXCEPT !.bit = v]   \in SpiRegisters
         /\ \A v \in 0 .. 255         : [r EXCEPT !.count = v] \in SpiRegisters
         /\ \A v \in 0 .. NoChip      : [r EXCEPT !.cs = v]    \in SpiRegisters
         /\ \A v \in CtrlWord         : [r EXCEPT !.ctrl = v]  \in SpiRegisters
<1>1. ASSUME NEW v \in {0, 1} PROVE [r EXCEPT !.busy = v] \in SpiRegisters
  BY DEF SpiRegisters
<1>2. ASSUME NEW v \in {0, 1} PROVE [r EXCEPT !.sck = v] \in SpiRegisters
  BY DEF SpiRegisters
<1>3. ASSUME NEW v \in {0, 1} PROVE [r EXCEPT !.mosi = v] \in SpiRegisters
  BY DEF SpiRegisters
<1>4. ASSUME NEW v \in SpiWord PROVE [r EXCEPT !.tx = v] \in SpiRegisters
  BY DEF SpiRegisters
<1>5. ASSUME NEW v \in SpiWord PROVE [r EXCEPT !.rx = v] \in SpiRegisters
  BY DEF SpiRegisters
<1>6. ASSUME NEW v \in 0 .. 3 PROVE [r EXCEPT !.state = v] \in SpiRegisters
  BY DEF SpiRegisters
<1>7. ASSUME NEW v \in 0 .. SpiBits - 1 PROVE [r EXCEPT !.bit = v] \in SpiRegisters
  BY DEF SpiRegisters
<1>8. ASSUME NEW v \in 0 .. 255 PROVE [r EXCEPT !.count = v] \in SpiRegisters
  BY DEF SpiRegisters
<1>9. ASSUME NEW v \in 0 .. NoChip PROVE [r EXCEPT !.cs = v] \in SpiRegisters
  BY DEF SpiRegisters
<1>10. ASSUME NEW v \in CtrlWord PROVE [r EXCEPT !.ctrl = v] \in SpiRegisters
  BY DEF SpiRegisters
<1>11. {0, 1, 2} \subseteq 0 .. 3 /\ NoChip \in 0 .. NoChip
  BY DEF NoChip
<1>12. QED
  BY <1>11, <1>1, <1>2, <1>3, <1>4, <1>5, <1>6, <1>7, <1>8, <1>9, <1>10

(* What an idle SPI makes of a store.                                      *)
LEMMA SpiIdle ==
  ASSUME SpiInv, spi.busy = 0, NEW a \in Nat, NEW v \in CtrlWord
  PROVE  /\ Written(a, v) \in SpiRegisters
         /\ \/ /\ Written(a, v).busy = 0 /\ Written(a, v).state = 0
               /\ Written(a, v).sck = 0 /\ Written(a, v).cs = NoChip
            \/ /\ Written(a, v).busy = 1 /\ Written(a, v).state = 1
               /\ Written(a, v).sck = 0 /\ Written(a, v).bit = SpiBits - 1
<1> DEFINE w == v % 2^SpiBits
           s == ChipSelect(Select(spi.ctrl))
           n == Divider(spi.ctrl)
           f == SpiBits - 1
<1>1. /\ spi \in SpiRegisters /\ spi.state = 0 /\ spi.sck = 0 /\ spi.cs = NoChip
  BY DEF SpiInv
<1>2. w \in SpiWord /\ f \in 0 .. SpiBits - 1
  BY SpiAssumption, SMT DEF SpiWord, CtrlWord
<1>3. n \in 0 .. 255
  BY <1>1, Dividers DEF SpiRegisters
<1>4. s \in 0 .. NoChip
  BY <1>1, ChipSelects, Dividers DEF SpiRegisters, Select
<1> HIDE DEF w, s, n, f
<1>5. CASE a % 256 = 0
  <2>1. Written(a, v) = [spi EXCEPT !.ctrl = v]
    BY <1>5, SMT DEF Written
  <2>2. QED
    BY <1>1, <2>1 DEF SpiRegisters
<1>6. CASE a % 256 = 4 /\ ~Enabled(spi.ctrl)
  <2>1. Written(a, v) = [spi EXCEPT !.tx = w]
    BY <1>6, SMT DEF Written, w
  <2>2. QED
    BY <1>1, <1>2, <2>1 DEF SpiRegisters
<1>7. CASE a % 256 = 4 /\ Enabled(spi.ctrl)
  <2> DEFINE r == [spi EXCEPT !.tx = w, !.busy = 1, !.state = 1, !.bit = f,
                              !.count = n, !.cs = s]
  <2>1. Written(a, v) = r
    BY <1>7, SMT DEF Written, w, f, n, s
  <2>2. r \in SpiRegisters
    <3> DEFINE r1 == [spi EXCEPT !.tx = w]
               r2 == [r1 EXCEPT !.busy = 1]
               r3 == [r2 EXCEPT !.state = 1]
               r4 == [r3 EXCEPT !.bit = f]
               r5 == [r4 EXCEPT !.count = n]
               r6 == [r5 EXCEPT !.cs = s]
    <3>1. r = r6
      OBVIOUS
    <3> HIDE DEF r6, r5, r4, r3, r2, r1
    <3>2. r1 \in SpiRegisters
      BY <1>1, <1>2, SpiField DEF r1
    <3>3. r2 \in SpiRegisters
      BY <3>2, SpiField DEF r2
    <3>4. r3 \in SpiRegisters
      BY <3>3, SpiField DEF r3
    <3>5. r4 \in SpiRegisters
      BY <1>2, <3>4, SpiField DEF r4
    <3>6. r5 \in SpiRegisters
      BY <1>3, <3>5, SpiField DEF r5
    <3>7. QED
      BY <1>4, <3>1, <3>6, SpiField DEF r6
  <2>3. r.busy = 1 /\ r.state = 1 /\ r.sck = 0 /\ r.bit = f
    BY <1>1 DEF SpiRegisters
  <2> HIDE DEF r
  <2>4. QED
    BY <2>1, <2>2, <2>3 DEF f
<1>8. CASE a % 256 # 0 /\ a % 256 # 4
  <2>1. Written(a, v) = spi
    BY <1>8 DEF Written
  <2>2. QED
    BY <1>1, <2>1
<1>9. QED
  BY <1>5, <1>6, <1>7, <1>8

(* What half a bit of a transfer makes of the registers.                   *)
AfterHalfBit(r, miso) ==
  /\ spi.state = 1 =>
       /\ r.busy = 1 /\ r.cs = spi.cs /\ r.tx = spi.tx
       /\ r.sck = 0 /\ r.state = 2 /\ r.bit = spi.bit /\ r.rx = spi.rx
       /\ r.mosi = SpiBit(spi.tx, spi.bit)
  /\ spi.state = 2 =>
       /\ r.busy = 1 /\ r.cs = spi.cs /\ r.tx = spi.tx
       /\ r.sck = 1
       /\ r.rx \div 2^spi.bit = 2 * (spi.rx \div 2^(spi.bit + 1)) + miso
       /\ IF spi.bit = 0 THEN r.state = 3 ELSE r.state = 1 /\ r.bit = spi.bit - 1
  /\ spi.state = 3 =>
       r.busy = 0 /\ r.state = 0 /\ r.sck = 0 /\ r.cs = NoChip

LEMMA SpiHalfBit ==
  ASSUME SpiInv, spi.busy = 1, NEW miso \in {0, 1}, NEW n \in 0 .. 255
  PROVE  LET r == [HalfBit(miso) EXCEPT !.count = n]
         IN  r \in SpiRegisters /\ AfterHalfBit(r, miso)
<1> DEFINE r == [HalfBit(miso) EXCEPT !.count = n]
<1>1. /\ spi \in SpiRegisters /\ spi.state \in 1 .. 3
      /\ spi.tx \in SpiWord /\ spi.rx \in SpiWord /\ spi.bit \in 0 .. SpiBits - 1
  BY DEF SpiInv, SpiRegisters
<1>2. CASE spi.state = 1
  <2> DEFINE m == SpiBit(spi.tx, spi.bit)
  <2>1. m \in {0, 1}
    BY <1>1, NextDigit
  <2> HIDE DEF m
  <2>2. HalfBit(miso) = [spi EXCEPT !.sck = 0, !.mosi = m, !.state = 2]
    BY <1>2 DEF HalfBit, m
  <2>3. r \in SpiRegisters
    <3> DEFINE r1 == [spi EXCEPT !.sck = 0]
               r2 == [r1 EXCEPT !.mosi = m]
               r3 == [r2 EXCEPT !.state = 2]
    <3>1. HalfBit(miso) = r3
      BY <2>2
    <3> HIDE DEF r3, r2, r1
    <3>2. r1 \in SpiRegisters
      BY <1>1, SpiField DEF r1
    <3>3. r2 \in SpiRegisters
      BY <2>1, <3>2, SpiField DEF r2
    <3>4. r3 \in SpiRegisters
      BY <3>3, SpiField DEF r3
    <3>5. QED
      BY <3>1, <3>4, SpiField
  <2>4. /\ r.busy = 1 /\ r.cs = spi.cs /\ r.tx = spi.tx
        /\ r.sck = 0 /\ r.state = 2 /\ r.bit = spi.bit /\ r.rx = spi.rx /\ r.mosi = m
    BY <1>1, <2>2 DEF SpiRegisters
  <2>5. QED
    BY <1>2, <2>3, <2>4 DEF m, AfterHalfBit
<1>3. CASE spi.state = 2
  <2> DEFINE p == 2^spi.bit
             x == spi.rx - SpiBit(spi.rx, spi.bit) * p + miso * p
             s == IF spi.bit = 0 THEN 3 ELSE 1
             b == IF spi.bit = 0 THEN 0 ELSE spi.bit - 1
  <2>1. x \in SpiWord /\ x \div p = 2 * (spi.rx \div 2^(spi.bit + 1)) + miso
    <3>1. /\ p \in Nat \ {0} /\ 2^SpiBits \in Nat /\ 2^SpiBits % (2 * p) = 0
          /\ 2^(spi.bit + 1) = 2 * p
      BY <1>1, SpiAssumption
    <3>2. spi.rx \in 0 .. 2^SpiBits - 1
      BY <1>1 DEF SpiWord
    <3> HIDE DEF p
    <3>3. LET y == spi.rx - ((spi.rx \div p) % 2) * p + miso * p
          IN  y \in 0 .. 2^SpiBits - 1 /\ y \div p = 2 * (spi.rx \div (2 * p)) + miso
      BY <3>1, <3>2, SetDigit
    <3>4. SpiBit(spi.rx, spi.bit) = (spi.rx \div p) % 2
      BY DEF SpiBit, p
    <3>5. QED
      BY <3>1, <3>3, <3>4 DEF SpiWord
  <2>2. s \in 0 .. 3 /\ b \in 0 .. SpiBits - 1
    BY <1>1, SpiAssumption, SMT
  <2>3. HalfBit(miso) = [spi EXCEPT !.sck = 1, !.rx = x, !.state = s, !.bit = b]
    BY <1>1, <1>3 DEF HalfBit, SpiRegisters
  <2> HIDE DEF x, s, b
  <2>4. r \in SpiRegisters
    <3> DEFINE r1 == [spi EXCEPT !.sck = 1]
               r2 == [r1 EXCEPT !.rx = x]
               r3 == [r2 EXCEPT !.state = s]
               r4 == [r3 EXCEPT !.bit = b]
    <3>1. HalfBit(miso) = r4
      BY <2>3
    <3> HIDE DEF r4, r3, r2, r1
    <3>2. r1 \in SpiRegisters
      BY <1>1, SpiField DEF r1
    <3>3. r2 \in SpiRegisters
      BY <2>1, <3>2, SpiField DEF r2, x
    <3>4. r3 \in SpiRegisters
      BY <2>2, <3>3, SpiField DEF r3
    <3>5. r4 \in SpiRegisters
      BY <2>2, <3>4, SpiField DEF r4
    <3>6. QED
      BY <3>1, <3>5, SpiField
  <2>5. /\ r.busy = 1 /\ r.cs = spi.cs /\ r.tx = spi.tx
        /\ r.sck = 1 /\ r.state = s /\ r.bit = b /\ r.rx = x
    BY <1>1, <2>3 DEF SpiRegisters
  <2> HIDE DEF r
  <2>6. /\ r.rx \div 2^spi.bit = 2 * (spi.rx \div 2^(spi.bit + 1)) + miso
        /\ IF spi.bit = 0 THEN r.state = 3 ELSE r.state = 1 /\ r.bit = spi.bit - 1
    BY <2>1, <2>5 DEF s, b, x
  <2>7. QED
    BY <1>3, <2>4, <2>5, <2>6 DEF r, AfterHalfBit
<1>4. CASE spi.state = 3
  <2>1. HalfBit(miso) = [spi EXCEPT !.sck = 0, !.cs = NoChip, !.busy = 0, !.state = 0]
    BY <1>4 DEF HalfBit
  <2>2. r \in SpiRegisters
    <3> DEFINE r1 == [spi EXCEPT !.sck = 0]
               r2 == [r1 EXCEPT !.cs = NoChip]
               r3 == [r2 EXCEPT !.busy = 0]
               r4 == [r3 EXCEPT !.state = 0]
    <3>1. HalfBit(miso) = r4
      BY <2>1
    <3> HIDE DEF r4, r3, r2, r1
    <3>2. r1 \in SpiRegisters
      BY <1>1, SpiField DEF r1
    <3>3. r2 \in SpiRegisters
      BY <3>2, SpiField DEF r2, NoChip
    <3>4. r3 \in SpiRegisters
      BY <3>3, SpiField DEF r3
    <3>5. r4 \in SpiRegisters
      BY <3>4, SpiField DEF r4
    <3>6. QED
      BY <3>1, <3>5, SpiField
  <2>3. r.busy = 0 /\ r.state = 0 /\ r.sck = 0 /\ r.cs = NoChip
    BY <1>1, <2>1 DEF SpiRegisters
  <2>4. QED
    BY <1>4, <2>2, <2>3 DEF AfterHalfBit
<1>5. QED
  BY <1>1, <1>2, <1>3, <1>4

(* What a clock edge makes of a chip that is selected.                     *)
LEMMA ChipStep ==
  ASSUME chip \in [out : SpiWord, in : SpiWord, pos : 0 .. SpiBits - 1],
         ChipSelected, ChipEdge
  PROVE  chip' = [out |-> chip.out,
                  in  |-> IF spi.sck = 0 /\ spi'.sck = 1
                            THEN (2 * chip.in + spi.mosi) % 2^SpiBits ELSE chip.in,
                  pos |-> IF spi.sck = 1 /\ spi'.sck = 0 /\ chip.pos > 0
                            THEN chip.pos - 1 ELSE chip.pos]
BY DEF ChipEdge

(* A cycle in the life of a transfer, at both ends.                        *)
LEMMA SpiStep ==
  ASSUME CoresInv, SpiInv, NEW g \in Cores, Cycle(g)
  PROVE  /\ SpiInv'
         /\ spi.busy = 1 /\ spi'.busy = 0 /\ ChipSelected =>
              chip.in = spi.tx /\ spi.rx = chip.out
<1> DEFINE a == Offset(g, "spi")
           v == req[g].data
           takes == Writes(g, "spi") /\ SpiTakesWrite(a)
           n == Divider(spi.ctrl)
<1>1. /\ spi \in SpiRegisters /\ spi.busy \in {0, 1} /\ spi.count \in 0 .. 255
      /\ spi.bit \in 0 .. SpiBits - 1 /\ spi.tx \in SpiWord /\ spi.rx \in SpiWord
      /\ chip \in [out : SpiWord, in : SpiWord, pos : 0 .. SpiBits - 1]
      /\ n \in 0 .. 255
  BY Dividers DEF SpiInv, SpiRegisters
<1>2. takes => a \in Nat /\ v \in CtrlWord
  <2>1. CASE takes
    <3>1. Bus!Requesting(g) /\ InWindow("spi", req[g].byte)
      BY <2>1 DEF Writes, Selected, Bus!Requesting
    <3>2. req[g].op = "write" /\ req[g].byte \in Nat
      BY <2>1, <3>1, RequestOf, Instruction DEF Writes
    <3>3. a \in Nat
      BY <3>1, <3>2, SMT DEF Offset, InWindow, Base, WindowSize
    <3>4. QED
      BY <3>1, <3>2, <3>3, Instruction
  <2>2. QED
    BY <2>1
<1> HIDE DEF a, v
<1>3. CASE UNCHANGED <<spi, spiPort, chip>>
  <2>1. SpiInv'
    BY <1>3 DEF SpiInv, ChipSelected, Exchanging
  <2>2. QED
    BY <1>3, <2>1
<1>4. CASE /\ spi' = Transferred(IF takes THEN Written(a, v) ELSE spi, Miso)
           /\ ChipEdge
  <2>1. CASE spi.busy = 0
    <3>1. /\ ~ChipSelected /\ spi.sck = 0 /\ spi.cs = NoChip /\ spi.state = 0
          /\ NoChip # ChipSelect(0)
      BY <2>1, ChipSelects DEF SpiInv, ChipSelected
    <3>2. spi' = spi \/ (takes /\ spi' = Written(a, v))
      BY <1>4, <2>1 DEF Transferred
    <3>3. /\ spi' \in SpiRegisters
          /\ \/ /\ spi'.busy = 0 /\ spi'.state = 0 /\ spi'.sck = 0 /\ spi'.cs = NoChip
             \/ spi'.busy = 1 /\ spi'.state = 1 /\ spi'.sck = 0 /\ spi'.bit = SpiBits - 1
      <4>1. CASE spi' = spi
        BY <1>1, <2>1, <3>1, <4>1
      <4>2. CASE takes /\ spi' = Written(a, v)
        BY <1>2, <2>1, <4>2, SpiIdle
      <4>3. QED
        BY <3>2, <4>1, <4>2
    <3>4. CASE spi'.cs # ChipSelect(0)
      <4>1. chip' = chip
        BY <1>4, <3>1, <3>4 DEF ChipEdge
      <4>2. ~ChipSelected'
        BY <3>4 DEF ChipSelected
      <4>3. SpiInv'
        BY <1>1, <3>3, <4>1, <4>2 DEF SpiInv
      <4>4. QED
        BY <2>1, <4>3
    <3>5. CASE spi'.cs = ChipSelect(0)
      <4>1. PICK w \in Sent : chip' = [out |-> w, in |-> 0, pos |-> SpiBits - 1]
        BY <1>4, <3>1, <3>5 DEF ChipEdge
      <4>2. /\ w \in SpiWord /\ 0 \in SpiWord /\ SpiBits - 1 \in 0 .. SpiBits - 1
            /\ 2^SpiBits \in Nat \ {0}
        BY SentAssumption, SpiAssumption DEF SpiWord
      <4>3. /\ spi'.busy = 1 /\ spi'.state = 1 /\ spi'.sck = 0 /\ spi'.bit = SpiBits - 1
            /\ spi'.tx \in SpiWord /\ spi'.rx \in SpiWord
        BY <3>1, <3>3, <3>5 DEF SpiRegisters
      <4>4. \A x \in SpiWord : x \div 2^SpiBits = 0
        BY <4>2, Below DEF SpiWord
      <4>5. spi'.bit + 1 = SpiBits
        BY <4>3, SpiAssumption
      <4>6. Exchanging'
        BY <4>1, <4>2, <4>3, <4>4, <4>5 DEF Exchanging
      <4>7. SpiInv'
        BY <3>3, <4>1, <4>2, <4>3, <4>6 DEF SpiInv
      <4>8. QED
        BY <2>1, <4>7
    <3>6. QED
      BY <3>4, <3>5
  <2>2. CASE spi.busy = 1 /\ spi.count # 0
    <3>1. spi' = [spi EXCEPT !.count = spi.count - 1]
      BY <1>4, <2>2 DEF Transferred, SpiTakesWrite
    <3>2. spi' \in SpiRegisters
      <4>1. spi.count - 1 \in 0 .. 255
        BY <1>1, <2>2
      <4>2. QED
        BY <1>1, <3>1, <4>1, SpiField
    <3>3. /\ spi'.busy = 1 /\ spi'.state = spi.state /\ spi'.sck = spi.sck
          /\ spi'.bit = spi.bit /\ spi'.tx = spi.tx /\ spi'.rx = spi.rx
          /\ spi'.mosi = spi.mosi /\ spi'.cs = spi.cs
      BY <1>1, <2>2, <3>1 DEF SpiRegisters
    <3>4. chip' = chip
      <4>1. CASE ~ChipSelected
        BY <1>4, <3>3, <4>1 DEF ChipEdge, ChipSelected
      <4>2. CASE ChipSelected
        <5>1. chip' = [out |-> chip.out, in |-> chip.in, pos |-> chip.pos]
          BY <1>1, <1>4, <3>3, <4>2, ChipStep
        <5>2. QED
          BY <1>1, <5>1
      <4>3. QED
        BY <4>1, <4>2
    <3>5. SpiInv'
      BY <2>2, <3>2, <3>3, <3>4 DEF SpiInv, ChipSelected, Exchanging
    <3>6. QED
      BY <3>3, <3>5
  <2>3. CASE spi.busy = 1 /\ spi.count = 0
    <3> DEFINE m == Miso
               r == [HalfBit(m) EXCEPT !.count = n]
    <3>1. m \in {0, 1}
      <4>1. chip.out \in SpiWord /\ chip.pos \in 0 .. SpiBits - 1
        BY <1>1
      <4>2. QED
        BY <4>1, NextDigit DEF Miso
    <3>2. spi' = r
      BY <1>4, <2>3 DEF Transferred, SpiTakesWrite
    <3> HIDE DEF r, m, n
    <3>3. r \in SpiRegisters /\ AfterHalfBit(r, m)
      BY <1>1, <2>3, <3>1, SpiHalfBit DEF r
    <3>4. spi.state \in 1 .. 3
      BY <2>3 DEF SpiInv
    <3>5. CASE spi.state = 1
      <4>1. /\ spi'.busy = 1 /\ spi'.cs = spi.cs /\ spi'.tx = spi.tx
            /\ spi'.sck = 0 /\ spi'.state = 2 /\ spi'.bit = spi.bit /\ spi'.rx = spi.rx
            /\ spi'.mosi = SpiBit(spi.tx, spi.bit)
        BY <3>2, <3>3, <3>5 DEF AfterHalfBit
      <4>2. CASE ~ChipSelected
        <5>1. ~ChipSelected' /\ chip' = chip
          BY <1>4, <4>1, <4>2 DEF ChipEdge, ChipSelected
        <5>2. QED
          BY <1>1, <3>2, <3>3, <4>1, <4>2, <5>1 DEF SpiInv
      <4>3. CASE ChipSelected
        <5>1. /\ chip.in = spi.tx \div 2^(spi.bit + 1)
              /\ spi.rx \div 2^(spi.bit + 1) = chip.out \div 2^(spi.bit + 1)
              /\ \/ spi.sck = 0 /\ chip.pos = spi.bit
                 \/ spi.sck = 1 /\ chip.pos = spi.bit + 1
          BY <3>5, <4>3 DEF SpiInv, Exchanging
        <5>2. chip'.in = chip.in /\ chip'.out = chip.out /\ chip'.pos = spi.bit
              /\ chip' \in [out : SpiWord, in : SpiWord, pos : 0 .. SpiBits - 1]
          <6>1. CASE spi.sck = 0 /\ chip.pos = spi.bit
            <7>1. chip' = [out |-> chip.out, in |-> chip.in, pos |-> chip.pos]
              BY <1>1, <1>4, <4>1, <4>3, <6>1, ChipStep
            <7>2. QED
              BY <1>1, <6>1, <7>1
          <6>2. CASE spi.sck = 1 /\ chip.pos = spi.bit + 1
            <7>1. chip' = [out |-> chip.out, in |-> chip.in,
                           pos |-> IF chip.pos > 0 THEN chip.pos - 1 ELSE chip.pos]
              BY <1>1, <1>4, <4>1, <4>3, <6>2, ChipStep
            <7>2. (IF chip.pos > 0 THEN chip.pos - 1 ELSE chip.pos) = spi.bit
              BY <1>1, <6>2
            <7>3. QED
              BY <1>1, <7>1, <7>2
          <6>3. QED
            BY <5>1, <6>1, <6>2
        <5>3. Exchanging'
          BY <4>1, <5>1, <5>2 DEF Exchanging
        <5>4. QED
          BY <3>2, <3>3, <4>1, <5>2, <5>3 DEF SpiInv
      <4>4. QED
        BY <4>2, <4>3
    <3>6. CASE spi.state = 2
      <4>1. /\ spi'.busy = 1 /\ spi'.cs = spi.cs /\ spi'.tx = spi.tx /\ spi'.sck = 1
            /\ spi'.rx \div 2^spi.bit = 2 * (spi.rx \div 2^(spi.bit + 1)) + m
            /\ IF spi.bit = 0 THEN spi'.state = 3
                              ELSE spi'.state = 1 /\ spi'.bit = spi.bit - 1
        BY <3>2, <3>3, <3>6 DEF AfterHalfBit
      <4>2. CASE ~ChipSelected
        <5>1. ~ChipSelected' /\ chip' = chip
          BY <1>4, <4>1, <4>2 DEF ChipEdge, ChipSelected
        <5>2. spi'.state \in 1 .. 3
          BY <4>1
        <5>3. QED
          BY <1>1, <3>2, <3>3, <4>1, <4>2, <5>1, <5>2 DEF SpiInv
      <4>3. CASE ChipSelected
        <5> DEFINE t == spi.tx \div 2^(spi.bit + 1)
                   o == chip.out \div 2^(spi.bit + 1)
        <5>1. /\ chip.in = t /\ spi.rx \div 2^(spi.bit + 1) = o
              /\ spi.sck = 0 /\ chip.pos = spi.bit /\ spi.mosi = SpiBit(spi.tx, spi.bit)
          BY <3>6, <4>3 DEF SpiInv, Exchanging
        <5>2. m = SpiBit(chip.out, spi.bit)
          BY <4>3, <5>1 DEF m, Miso
        <5>3. /\ spi.tx \div 2^spi.bit = 2 * t + spi.mosi
              /\ spi.tx \div 2^spi.bit \in SpiWord
          BY <1>1, <5>1, NextDigit
        <5>4. chip.out \div 2^spi.bit = 2 * o + m
          BY <1>1, <5>2, NextDigit
        <5>5. spi'.rx \div 2^spi.bit = chip.out \div 2^spi.bit
          BY <4>1, <5>1, <5>4
        <5>6. \A x \in SpiWord : x % 2^SpiBits = x
          BY SpiAssumption, Unchanged DEF SpiWord
        <5>7. chip' = [out |-> chip.out, in |-> spi.tx \div 2^spi.bit, pos |-> spi.bit]
          <6>1. chip' = [out |-> chip.out, in |-> (2 * chip.in + spi.mosi) % 2^SpiBits,
                         pos |-> chip.pos]
            BY <1>1, <1>4, <4>1, <4>3, <5>1, ChipStep
          <6>2. QED
            BY <5>1, <5>3, <5>6, <6>1
        <5>8. chip' \in [out : SpiWord, in : SpiWord, pos : 0 .. SpiBits - 1]
          BY <1>1, <5>3, <5>7
        <5>9. Exchanging'
          <6>1. CASE spi.bit = 0
            <7>1. 2^spi.bit = 1
              BY <6>1, SpiAssumption, Zenon
            <7>2. \A x \in SpiWord : x \div 1 = x
              BY SpiAssumption, SMT DEF SpiWord
            <7>3. spi'.rx \in SpiWord
              BY <3>2, <3>3 DEF SpiRegisters
            <7>4. spi'.rx = chip.out /\ spi.tx \div 2^spi.bit = spi.tx
              BY <1>1, <5>5, <7>1, <7>2, <7>3
            <7>5. QED
              BY <4>1, <5>7, <6>1, <7>4 DEF Exchanging
          <6>2. CASE spi.bit # 0
            <7>1. spi'.bit + 1 = spi.bit
              BY <1>1, <4>1, <6>2
            <7>2. QED
              BY <4>1, <5>5, <5>7, <6>2, <7>1 DEF Exchanging
          <6>3. QED
            BY <6>1, <6>2
        <5>10. spi'.state \in 1 .. 3
          BY <4>1
        <5>11. QED
          BY <3>2, <3>3, <4>1, <5>8, <5>9, <5>10 DEF SpiInv
      <4>4. QED
        BY <4>2, <4>3
    <3>7. CASE spi.state = 3
      <4>1. spi'.busy = 0 /\ spi'.state = 0 /\ spi'.sck = 0 /\ spi'.cs = NoChip
        BY <3>2, <3>3, <3>7 DEF AfterHalfBit
      <4>2. ~ChipSelected' /\ spi'.cs # ChipSelect(0)
        BY <4>1, ChipSelects DEF ChipSelected
      <4>3. CASE ~ChipSelected
        <5>1. chip' = chip
          BY <1>4, <4>2, <4>3 DEF ChipEdge
        <5>2. QED
          BY <1>1, <3>2, <3>3, <4>1, <4>2, <4>3, <5>1 DEF SpiInv
      <4>4. CASE ChipSelected
        <5>1. spi.sck = 1 /\ chip.in = spi.tx /\ spi.rx = chip.out
          BY <3>7, <4>4 DEF SpiInv, Exchanging
        <5>2. chip' = [out |-> chip.out, in |-> chip.in,
                       pos |-> IF chip.pos > 0 THEN chip.pos - 1 ELSE chip.pos]
          BY <1>1, <1>4, <4>1, <4>4, <5>1, ChipStep
        <5>3. (IF chip.pos > 0 THEN chip.pos - 1 ELSE chip.pos) \in 0 .. SpiBits - 1
          BY <1>1, SpiAssumption
        <5>4. chip' \in [out : SpiWord, in : SpiWord, pos : 0 .. SpiBits - 1]
          BY <1>1, <5>2, <5>3
        <5>5. QED
          BY <3>2, <3>3, <4>1, <4>2, <5>1, <5>4 DEF SpiInv
      <4>5. QED
        BY <4>3, <4>4
    <3>8. QED
      BY <3>4, <3>5, <3>6, <3>7
  <2>4. QED
    BY <1>1, <2>1, <2>2, <2>3
<1>5. SpiCycle(g)
  BY DEF Cycle
<1>6. CASE ~Used("spi")
  BY <1>3, <1>5, <1>6 DEF SpiCycle
<1>7. CASE Used("spi")
  <2>1. SpiEdge(Writes(g, "spi"), Reads(g, "spi"), a, v, Miso) /\ ChipEdge
    BY <1>5, <1>7 DEF SpiCycle, a, v
  <2>2. QED
    BY <1>4, <2>1 DEF SpiEdge
<1>8. QED
  BY <1>6, <1>7

(* Both ends are idle at reset.                                           *)
LEMMA SpiInitInv == Init => SpiInv
<1> SUFFICES ASSUME Init PROVE SpiInv
  OBVIOUS
<1>1. /\ spi = [ctrl |-> 0, tx |-> 0, rx |-> 0, busy |-> 0, state |-> 0, bit |-> 0,
                count |-> 0, sck |-> 0, mosi |-> 0, cs |-> NoChip]
      /\ chip = [out |-> 0, in |-> 0, pos |-> 0]
  BY DEF Init, SpiInit
<1>2. 2^16 \in Nat \ {0}
  BY SMT
<1>3. /\ 0 \in CtrlWord /\ 0 \in SpiWord /\ 0 \in 0 .. SpiBits - 1 /\ 0 \in 0 .. 3
      /\ 0 \in 0 .. 255 /\ NoChip \in 0 .. NoChip
  BY <1>2, SpiAssumption DEF CtrlWord, SpiWord, NoChip
<1>4. spi \in SpiRegisters
  BY <1>1, <1>3 DEF SpiRegisters
<1>5. ~ChipSelected
  BY <1>1, ChipSelects DEF ChipSelected
<1>6. QED
  BY <1>1, <1>3, <1>4, <1>5 DEF SpiInv

(* Every transfer exchanges the two bytes, for any width, any divider and  *)
(* whatever is stored meanwhile.                                           *)
THEOREM WholeTransfers == Spec => WholeExchange
<1>1. ASSUME PInv, SpiInv, [Next]_vars
      PROVE  /\ SpiInv'
             /\ [spi.busy = 1 /\ spi'.busy = 0 /\ ChipSelected =>
                   chip.in = spi.tx /\ spi.rx = chip.out]_vars
  <2>1. CASE Next
    <3>1. PICK g \in Cores : Cycle(g)
      BY <2>1 DEF Next
    <3>2. QED
      BY <1>1, <3>1, SpiStep DEF PInv
  <2>2. CASE UNCHANGED vars
    BY <1>1, <2>2 DEF vars, deviceVars, outside, SpiInv, ChipSelected, Exchanging
  <2>3. QED
    BY <1>1, <2>1, <2>2
<1>2. QED
  BY PortInvariance, SpiInitInv, <1>1, PTL DEF Spec, WholeExchange

-----------------------------------------------------------------------------
(* The transmitter of the UART                                             *)

(* Which bit of its frame the transmitter is in, and how many cycles into  *)
(* the frame it is.                                                        *)
FrameBit ==
  CASE tx.state = "START"     -> 0
    [] tx.state = "DATA_BITS" -> tx.bit + 1
    [] tx.state = "STOP"      -> DataBits + 1
    [] tx.state = "IDLE"      -> FrameBits

FrameTime == FrameBit * CLKS_PER_BIT + tx.count

LevelOf(k) == IF k = 0 THEN 0 ELSE IF k <= DataBits THEN Bit(tx.shift, k - 1) ELSE 1

TxRegisters ==
  [state : FrameState, count : 0 .. CLKS_PER_BIT - 1,
   bit : 0 .. DataBits - 1, shift : Byte, line : {0, 1}]

(* The line is a register: it shows the cycle before.                      *)
TxFrame ==
  /\ tx \in TxRegisters
  /\ tx.state = "START" => tx.bit = 0
  /\ tx.state = "IDLE" => tx.count = 0
  /\ tx.line = IF FrameTime = 0 THEN 1 ELSE LevelOf((FrameTime - 1) \div CLKS_PER_BIT)

LastMiddle == Middle(pace, DataBits + 1)

(* How many bits the listener has sampled before cycle m of a frame.       *)
Known(m) ==
  LET k == m \div pace
  IN  IF k = 0 THEN 0 ELSE IF m % pace <= pace \div 2 THEN k - 1 ELSE k

(* The listener is in the same cycle of the frame as the transmitter, and  *)
(* has the low bits of its byte; it is done before the frame ends.         *)
EarInv ==
  /\ ear \in [n : Nat, byte : Byte]
  /\ ear.n = 0 => FrameTime <= 1 \/ FrameTime >= (DataBits + 1) * CLKS_PER_BIT + 2
  /\ ear.n > 0 =>
       /\ ear.n >= 2 /\ ear.n = FrameTime /\ ear.n - 1 <= LastMiddle
       /\ ear.byte = tx.shift % 2^Known(ear.n - 1)

(* The byte of core c is taken, but c is not told so yet.                  *)
Taken(c) == Stores(c, Base.uart + TX_DATA) /\ landed[c]

(* What is due is the byte in the frame, until it has been heard.          *)
DueInv ==
  /\ due = IF ear.n > 0 \/ FrameTime = 1 \/ (FrameTime = 0 /\ ~\E c \in Cores : Taken(c))
             THEN <<tx.shift>> ELSE <<>>
  /\ \A c \in Cores : Taken(c) =>
       /\ FrameTime = 0 /\ serving /\ c = current /\ uartPort.ready
       /\ req[c].data % 2^DataBits = tx.shift

TxInv ==
  /\ TxFrame /\ EarInv /\ DueInv
  /\ IF Used("uart") THEN pace \in Paces ELSE tx.state = "IDLE" /\ ear.n = 0

(* One more bit of a byte, from below.                                     *)
LEMMA NextLowDigit ==
  ASSUME NEW x \in Byte, NEW i \in 0 .. DataBits - 1
  PROVE  /\ Bit(x, i) \in {0, 1}
         /\ x % 2^i \in Nat
         /\ WithBit(x % 2^i, i, Bit(x, i)) = x % 2^(i + 1)
<1> DEFINE p == 2^i
           r == x % p
<1>1. x \in Nat /\ p \in Nat \ {0} /\ 2^(i + 1) = 2 * p
  BY UartAssumption DEF Byte
<1>2. /\ (x \div p) % 2 \in {0, 1}
      /\ x % (2 * p) = (x % p) + ((x \div p) % 2) * p
  BY <1>1, HalfDigit
<1>3. r \in 0 .. p - 1
  BY <1>1, Divided
<1>4. (r \div p) % 2 = 0
  <2>1. r \div p = 0
    BY <1>1, <1>3, Below
  <2>2. QED
    BY <2>1
<1>5. r - ((r \div p) % 2) * p + ((x \div p) % 2) * p = x % (2 * p)
  <2> DEFINE b == (x \div p) % 2
             z == (r \div p) % 2
  <2>1. r \in Nat /\ p \in Nat /\ b \in Nat /\ z = 0 /\ x % (2 * p) = r + b * p
    BY <1>1, <1>2, <1>3, <1>4
  <2> HIDE DEF b, z, r, p
  <2>2. r - z * p + b * p = r + b * p
    BY <2>1, SMT
  <2>3. QED
    BY <2>1, <2>2 DEF b, z
<1>6. r \in Nat
  BY <1>1, <1>3
<1>7. Bit(x, i) = (x \div p) % 2 /\ Bit(r, i) = (r \div p) % 2
  BY DEF Bit
<1>8. WithBit(r, i, Bit(x, i)) = r - Bit(r, i) * p + Bit(x, i) * p
  BY DEF WithBit
<1>9. QED
  BY <1>1, <1>2, <1>5, <1>6, <1>7, <1>8, Zenon

(* Where in the frame the time is.                                         *)
LEMMA InFrame ==
  ASSUME TxFrame
  PROVE  /\ FrameBit \in 0 .. FrameBits /\ FrameTime \in Nat
         /\ FrameBit = FrameBits <=> tx.state = "IDLE"
         /\ FrameTime \div CLKS_PER_BIT = FrameBit
         /\ tx.state = "IDLE" => FrameTime = FrameBits * CLKS_PER_BIT
         /\ tx.state # "IDLE" => FrameTime < FrameBits * CLKS_PER_BIT
         /\ FrameTime < CLKS_PER_BIT => tx.state = "START" /\ FrameTime = tx.count
<1> DEFINE i == FrameBit
           C == CLKS_PER_BIT
<1>1. /\ C \in Nat /\ C >= 2 /\ DataBits \in Nat \ {0}
      /\ tx.state \in FrameState /\ tx.count \in 0 .. C - 1 /\ tx.bit \in 0 .. DataBits - 1
  BY UartAssumption DEF TxFrame, TxRegisters
<1>2. /\ i \in 0 .. FrameBits
      /\ i = FrameBits <=> tx.state = "IDLE"
      /\ i = 0 <=> tx.state = "START"
  BY <1>1 DEF FrameBit, FrameState, FrameBits
<1>3. FrameTime = i * C + tx.count
  BY DEF FrameTime
<1>4. FrameBits \in Nat
  BY <1>1 DEF FrameBits
<1> HIDE DEF i, C
<1>5. FrameTime \in Nat /\ FrameTime \div C = i
  <2>1. i * C + tx.count \in Nat
    BY <1>1, <1>2, SMT
  <2>2. (i * C + tx.count) \div C = i
    <3>1. C \in Nat \ {0} /\ i \in Nat
      BY <1>1, <1>2, <1>4
    <3>2. QED
      BY <1>1, <3>1, Quotient
  <2>3. QED
    BY <1>3, <2>1, <2>2
<1>6. tx.state = "IDLE" => FrameTime = FrameBits * C
  <2>1. tx.state = "IDLE" => tx.count = 0
    BY DEF TxFrame
  <2>2. QED
    BY <1>1, <1>2, <1>3, <1>4, <2>1, SMT
<1>7. tx.state # "IDLE" => FrameTime < FrameBits * C
  <2>1. CASE i + 1 <= FrameBits
    <3>1. (i + 1) * C <= FrameBits * C
      BY <1>1, <1>2, <1>4, <2>1, SMT
    <3>2. (i + 1) * C = i * C + C
      BY <1>1, <1>2, SMT
    <3>3. i * C \in Nat /\ FrameBits * C \in Nat
      BY <1>1, <1>2, <1>4, SMT
    <3>4. QED
      BY <1>1, <1>3, <3>1, <3>2, <3>3
  <2>2. QED
    BY <1>2, <1>4, <2>1
<1>8. FrameTime < C => tx.state = "START" /\ FrameTime = tx.count
  <2>1. CASE i >= 1
    <3>1. i * C >= C /\ i * C \in Nat
      BY <1>1, <1>2, <2>1, SMT
    <3>2. QED
      BY <1>1, <1>3, <3>1
  <2>2. CASE i = 0
    <3>1. FrameTime = tx.count
      BY <1>1, <1>3, <2>2
    <3>2. QED
      BY <1>2, <2>2, <3>1
  <2>3. QED
    BY <1>2, <2>1, <2>2
<1>9. QED
  BY <1>2, <1>5, <1>6, <1>7, <1>8 DEF i, C

(* One register after the other.                                           *)
LEMMA TxField ==
  ASSUME NEW r \in TxRegisters
  PROVE  /\ \A v \in 0 .. CLKS_PER_BIT - 1 : [r EXCEPT !.count = v] \in TxRegisters
         /\ \A v \in 0 .. DataBits - 1     : [r EXCEPT !.bit = v]   \in TxRegisters
         /\ \A v \in FrameState            : [r EXCEPT !.state = v] \in TxRegisters
         /\ \A v \in {0, 1}                : [r EXCEPT !.line = v]  \in TxRegisters
         /\ \A v \in Byte                  : [r EXCEPT !.shift = v] \in TxRegisters
<1>1. ASSUME NEW v \in 0 .. CLKS_PER_BIT - 1 PROVE [r EXCEPT !.count = v] \in TxRegisters
  BY DEF TxRegisters
<1>2. ASSUME NEW v \in 0 .. DataBits - 1 PROVE [r EXCEPT !.bit = v] \in TxRegisters
  BY DEF TxRegisters
<1>3. ASSUME NEW v \in FrameState PROVE [r EXCEPT !.state = v] \in TxRegisters
  BY DEF TxRegisters
<1>4. ASSUME NEW v \in {0, 1} PROVE [r EXCEPT !.line = v] \in TxRegisters
  BY DEF TxRegisters
<1>5. ASSUME NEW v \in Byte PROVE [r EXCEPT !.shift = v] \in TxRegisters
  BY DEF TxRegisters
<1>6. QED
  BY <1>1, <1>2, <1>3, <1>4, <1>5

(* The frame of a busy transmitter goes on by one cycle.                   *)
LEMMA FrameGoesOn ==
  ASSUME TxFrame, tx.state # "IDLE", NEW v \in {0, 1},
         tx' = [Tick(tx) EXCEPT !.line = v]
  PROVE  /\ tx' \in TxRegisters /\ tx'.shift = tx.shift /\ tx'.line = v
         /\ tx'.state = "START" => tx'.bit = 0
         /\ tx'.state = "IDLE" => tx'.count = 0
         /\ FrameTime' = FrameTime + 1
<1> DEFINE C == CLKS_PER_BIT
<1>1. /\ C \in Nat /\ C >= 2 /\ DataBits \in Nat \ {0} /\ tx \in TxRegisters
      /\ tx.state \in {"START", "DATA_BITS", "STOP"} /\ tx.count \in 0 .. C - 1
      /\ tx.bit \in 0 .. DataBits - 1 /\ 0 \in 0 .. C - 1
  BY UartAssumption DEF TxFrame, TxRegisters, FrameState
<1>2. tx.state = "START" => tx.bit = 0
  BY DEF TxFrame
<1>3. CASE tx.count < C - 1
  <2>1. tx' = [tx EXCEPT !.count = tx.count + 1, !.line = v]
    BY <1>3 DEF Tick
  <2>2. tx.count + 1 \in 0 .. C - 1
    BY <1>1, <1>3
  <2>3. tx' \in TxRegisters
    <3> DEFINE r == [tx EXCEPT !.count = tx.count + 1]
    <3>1. tx' = [r EXCEPT !.line = v]
      BY <2>1
    <3> HIDE DEF r
    <3>2. r \in TxRegisters
      BY <1>1, <2>2, TxField DEF r
    <3>3. QED
      BY <3>1, <3>2, TxField
  <2>4. /\ tx'.shift = tx.shift /\ tx'.line = v /\ tx'.state = tx.state
        /\ tx'.bit = tx.bit /\ tx'.count = tx.count + 1
    BY <1>1, <2>1 DEF TxRegisters
  <2>5. FrameBit' = FrameBit /\ FrameBit * C \in Nat
    <3>1. FrameBit' = FrameBit
      BY <2>4 DEF FrameBit
    <3>2. FrameBit \in Nat
      BY InFrame, <1>1 DEF FrameBits
    <3>3. FrameBit * C \in Nat
      BY <1>1, <3>2, SMT
    <3>4. QED
      BY <3>1, <3>3
  <2>6. FrameTime' = FrameTime + 1
    <3> DEFINE x == FrameBit * C
    <3>1. FrameTime' = x + (tx.count + 1) /\ FrameTime = x + tx.count /\ x \in Nat
      BY <2>4, <2>5 DEF FrameTime
    <3> HIDE DEF x
    <3>2. QED
      BY <1>1, <3>1
  <2>7. QED
    BY <1>1, <1>2, <2>3, <2>4, <2>6
<1>4. CASE tx.count = C - 1
  <2> DEFINE next == NextBit(tx)
             zero == [tx EXCEPT !.count = 0]
  <2>1. tx' = [next EXCEPT !.line = v]
    BY <1>1, <1>4 DEF Tick
  <2>2. zero \in TxRegisters /\ zero.state = tx.state /\ zero.bit = tx.bit
        /\ zero.count = 0 /\ zero.shift = tx.shift
    BY <1>1, TxField DEF TxRegisters
  <2>3. ASSUME NEW s \in FrameState, NEW b \in 0 .. DataBits - 1,
               \/ next = [zero EXCEPT !.state = s] /\ b = tx.bit
               \/ next = [zero EXCEPT !.bit = b] /\ s = tx.state
        PROVE  tx' \in TxRegisters /\ tx'.state = s /\ tx'.bit = b /\ tx'.count = 0
               /\ tx'.shift = tx.shift /\ tx'.line = v
    <3> HIDE DEF zero, next
    <3>1. next \in TxRegisters /\ next.state = s /\ next.bit = b /\ next.count = 0
          /\ next.shift = tx.shift
      <4>1. CASE next = [zero EXCEPT !.state = s] /\ b = tx.bit
        <5>1. next \in TxRegisters
          BY <2>2, <4>1, TxField
        <5>2. QED
          BY <2>2, <4>1, <5>1 DEF TxRegisters
      <4>2. CASE next = [zero EXCEPT !.bit = b] /\ s = tx.state
        <5>1. next \in TxRegisters
          BY <2>2, <4>2, TxField
        <5>2. QED
          BY <2>2, <4>2, <5>1 DEF TxRegisters
      <4>3. QED
        BY <2>3, <4>1, <4>2
    <3>2. tx' \in TxRegisters
      BY <2>1, <3>1, TxField
    <3>3. QED
      BY <2>1, <3>1, <3>2 DEF TxRegisters
  <2>4. ASSUME tx'.count = 0, FrameBit' = FrameBit + 1
        PROVE  FrameTime' = FrameTime + 1
    <3> DEFINE i == FrameBit
    <3>1. i \in Nat
      BY InFrame, <1>1 DEF FrameBits
    <3>2. FrameTime = i * C + (C - 1) /\ FrameTime' = (i + 1) * C + 0
      BY <1>4, <2>4 DEF FrameTime
    <3> HIDE DEF i
    <3>3. (i + 1) * C = i * C + C /\ i * C \in Nat
      BY <1>1, <3>1, SMT
    <3>4. QED
      BY <1>1, <3>2, <3>3
  <2>5. CASE tx.state = "START"
    <3>1. next = [zero EXCEPT !.state = "DATA_BITS"]
      BY <2>5 DEF NextBit
    <3>2. /\ tx' \in TxRegisters /\ tx'.state = "DATA_BITS" /\ tx'.bit = tx.bit
          /\ tx'.count = 0 /\ tx'.shift = tx.shift /\ tx'.line = v
      BY <1>1, <2>3, <3>1 DEF FrameState
    <3>3. FrameBit' = FrameBit + 1
      BY <1>1, <1>2, <2>5, <3>2 DEF FrameBit
    <3>4. QED
      BY <2>4, <3>2, <3>3
  <2>6. CASE tx.state = "DATA_BITS" /\ tx.bit < DataBits - 1
    <3>1. next = [zero EXCEPT !.bit = tx.bit + 1]
      BY <1>1, <2>6 DEF NextBit, TxRegisters
    <3>2. tx.bit + 1 \in 0 .. DataBits - 1
      BY <1>1, <2>6
    <3>3. /\ tx' \in TxRegisters /\ tx'.state = "DATA_BITS" /\ tx'.bit = tx.bit + 1
          /\ tx'.count = 0 /\ tx'.shift = tx.shift /\ tx'.line = v
      BY <1>1, <2>3, <2>6, <3>1, <3>2 DEF FrameState
    <3>4. FrameBit' = FrameBit + 1
      BY <1>1, <2>6, <3>3 DEF FrameBit
    <3>5. QED
      BY <2>4, <3>3, <3>4
  <2>7. CASE tx.state = "DATA_BITS" /\ tx.bit = DataBits - 1
    <3>1. next = [zero EXCEPT !.state = "STOP"]
      <4>1. tx.bit = DataBits - 1 /\ ~(tx.bit < DataBits - 1)
        BY <1>1, <2>7
      <4>2. tx.state = "DATA_BITS" /\ "DATA_BITS" # "START" /\ "DATA_BITS" # "STOP"
        BY <2>7
      <4>3. NextBit(tx) = [tx EXCEPT !.count = 0, !.state = "STOP"]
        BY <4>1, <4>2 DEF NextBit
      <4>4. QED
        BY <4>3
    <3>2. /\ tx' \in TxRegisters /\ tx'.state = "STOP" /\ tx'.bit = tx.bit
          /\ tx'.count = 0 /\ tx'.shift = tx.shift /\ tx'.line = v
      BY <1>1, <2>3, <3>1 DEF FrameState
    <3>3. FrameBit' = FrameBit + 1
      BY <1>1, <2>7, <3>2 DEF FrameBit
    <3>4. QED
      BY <2>4, <3>2, <3>3
  <2>8. CASE tx.state = "STOP"
    <3>1. next = [zero EXCEPT !.state = "IDLE"]
      BY <2>8 DEF NextBit
    <3>2. /\ tx' \in TxRegisters /\ tx'.state = "IDLE" /\ tx'.bit = tx.bit
          /\ tx'.count = 0 /\ tx'.shift = tx.shift /\ tx'.line = v
      BY <1>1, <2>3, <3>1 DEF FrameState
    <3>3. FrameBit' = FrameBit + 1
      BY <1>1, <2>8, <3>2 DEF FrameBit, FrameBits
    <3>4. QED
      BY <2>4, <3>2, <3>3
  <2>9. QED
    BY <1>1, <2>5, <2>6, <2>7, <2>8
<1>5. QED
  BY <1>1, <1>3, <1>4

(* What the transmitter does in a cycle.                                   *)
LEMMA FrameStep ==
  ASSUME TxFrame, NEW w \in BOOLEAN, NEW b \in Byte, TransmitterEdge(w, b)
  PROVE  /\ TxFrame'
         /\ IF tx.state # "IDLE"
              THEN tx'.shift = tx.shift /\ FrameTime' = FrameTime + 1
              ELSE IF w THEN tx'.shift = b /\ FrameTime' = 0
              ELSE tx'.shift = tx.shift /\ FrameTime' = FrameTime /\ tx'.state = "IDLE"
<1> DEFINE C == CLKS_PER_BIT
<1>1. /\ C \in Nat /\ C >= 2 /\ DataBits \in Nat \ {0} /\ tx \in TxRegisters
      /\ tx.state \in FrameState /\ tx.bit \in 0 .. DataBits - 1 /\ tx.shift \in Byte
      /\ FrameTime \in Nat /\ FrameTime \div C = FrameBit
  BY UartAssumption, InFrame DEF TxFrame, TxRegisters
<1>2. CASE tx.state # "IDLE"
  <2> DEFINE v == CASE tx.state = "START"     -> 0
                    [] tx.state = "DATA_BITS" -> Bit(tx.shift, tx.bit)
                    [] tx.state = "STOP"      -> 1
  <2>1. v = LevelOf(FrameBit) /\ v \in {0, 1}
    <3>1. CASE tx.state = "START"
      BY <3>1 DEF FrameBit, LevelOf
    <3>2. CASE tx.state = "DATA_BITS"
      <4>1. FrameBit = tx.bit + 1 /\ v = Bit(tx.shift, tx.bit)
        BY <3>2 DEF FrameBit
      <4>2. LevelOf(FrameBit) = Bit(tx.shift, tx.bit)
        BY <1>1, <4>1 DEF LevelOf
      <4>3. QED
        BY <1>1, <4>1, <4>2, NextLowDigit
    <3>3. CASE tx.state = "STOP"
      BY <1>1, <3>3 DEF FrameBit, LevelOf
    <3>4. QED
      BY <1>1, <1>2, <3>1, <3>2, <3>3 DEF FrameState
  <2>2. tx' = [Tick(tx) EXCEPT !.line = v]
    BY <1>2 DEF TransmitterEdge
  <2> HIDE DEF v
  <2>3. /\ tx' \in TxRegisters /\ tx'.shift = tx.shift /\ tx'.line = v
        /\ tx'.state = "START" => tx'.bit = 0
        /\ tx'.state = "IDLE" => tx'.count = 0
        /\ FrameTime' = FrameTime + 1
    BY <1>2, <2>1, <2>2, FrameGoesOn
  <2>4. FrameTime' # 0 /\ FrameTime' - 1 = FrameTime
    BY <1>1, <2>3
  <2>5. LevelOf((FrameTime - 1) \div C)' = v
    <3>1. (FrameTime' - 1) \div C = FrameBit
      BY <1>1, <2>4
    <3>2. QED
      BY <2>1, <2>3, <3>1 DEF LevelOf, Bit
  <2>6. TxFrame'
    BY <2>3, <2>4, <2>5 DEF TxFrame
  <2>7. QED
    BY <1>2, <2>3, <2>6
<1>3. CASE tx.state = "IDLE"
  <2> DEFINE s == IF w THEN "START" ELSE "IDLE"
             x == IF w THEN b ELSE tx.shift
             r1 == [tx EXCEPT !.line = 1]
             r2 == [r1 EXCEPT !.count = 0]
             r3 == [r2 EXCEPT !.bit = 0]
             r4 == [r3 EXCEPT !.state = s]
             r5 == [r4 EXCEPT !.shift = x]
  <2>1. tx' = r5
    BY <1>1, <1>3 DEF TransmitterEdge, TxRegisters
  <2>2. 0 \in 0 .. C - 1 /\ 0 \in 0 .. DataBits - 1 /\ s \in FrameState /\ x \in Byte
    BY <1>1 DEF FrameState
  <2>3. tx' \in TxRegisters
    <3> HIDE DEF r5, r4, r3, r2, r1, s, x
    <3>1. r1 \in TxRegisters
      BY <1>1, TxField DEF r1
    <3>2. r2 \in TxRegisters
      BY <2>2, <3>1, TxField DEF r2
    <3>3. r3 \in TxRegisters
      BY <2>2, <3>2, TxField DEF r3
    <3>4. r4 \in TxRegisters
      BY <2>2, <3>3, TxField DEF r4
    <3>5. r5 \in TxRegisters
      BY <2>2, <3>4, TxField DEF r5
    <3>6. QED
      BY <2>1, <3>5
  <2>4. /\ tx'.state = s /\ tx'.shift = x /\ tx'.bit = 0 /\ tx'.count = 0 /\ tx'.line = 1
    BY <1>1, <2>1 DEF TxRegisters
  <2>5. FrameTime' = IF w THEN 0 ELSE FrameTime
    <3>1. CASE w
      <4>1. FrameTime' = 0 * C + 0
        BY <2>4, <3>1 DEF FrameTime, FrameBit
      <4>2. QED
        BY <1>1, <3>1, <4>1
    <3>2. CASE ~w
      <4>1. tx.count = 0
        BY <1>3 DEF TxFrame
      <4>2. QED
        BY <1>3, <2>4, <3>2, <4>1 DEF FrameTime, FrameBit
    <3>3. QED
      BY <3>1, <3>2
  <2>6. tx'.line = (IF FrameTime = 0 THEN 1 ELSE LevelOf((FrameTime - 1) \div C))'
    <3>1. CASE w
      BY <2>4, <2>5, <3>1
    <3>2. CASE ~w
      <4>1. FrameTime = FrameBits * C /\ FrameBits = (DataBits + 1) + 1
        BY <1>1, <1>3, InFrame DEF FrameBits
      <4>2. FrameTime - 1 = (DataBits + 1) * C + (C - 1)
        <5>1. ((DataBits + 1) + 1) * C = (DataBits + 1) * C + C /\ (DataBits + 1) * C \in Nat
          BY <1>1, SMT
        <5>2. QED
          BY <1>1, <4>1, <5>1
      <4>3. (FrameTime - 1) \div C = DataBits + 1
        <5>1. C \in Nat \ {0} /\ DataBits + 1 \in Nat /\ C - 1 \in 0 .. C - 1
          BY <1>1
        <5>2. QED
          BY <4>2, <5>1, Quotient
      <4>4. LevelOf((FrameTime - 1) \div C)' = 1
        BY <1>1, <2>5, <3>2, <4>3 DEF LevelOf
      <4>5. QED
        BY <2>4, <4>4
    <3>3. QED
      BY <3>1, <3>2
  <2>7. TxFrame'
    BY <2>3, <2>4, <2>6 DEF TxFrame
  <2>8. QED
    BY <1>3, <2>4, <2>5, <2>7
<1>4. QED
  BY <1>2, <1>3

(* The listener knows one bit more after the middle of it.                 *)
LEMMA KnownStep ==
  ASSUME pace \in Nat, pace >= 2, NEW m \in Nat
  PROVE  /\ Known(1) = 0
         /\ Known(m + 1) = IF m % pace = pace \div 2 THEN m \div pace ELSE Known(m)
         /\ m % pace = pace \div 2 /\ m \div pace > 0 => Known(m) = (m \div pace) - 1
<1> DEFINE k == m \div pace
           r == m % pace
           h == pace \div 2
           k1 == (m + 1) \div pace
           r1 == (m + 1) % pace
<1>1. pace \in Nat \ {0}
  OBVIOUS
<1>2. k \in Nat /\ r \in 0 .. pace - 1
  BY <1>1, Divided
<1>3. h \in Nat /\ h >= 1 /\ h < pace
  BY SMT
<1>4. IF r = pace - 1 THEN k1 = k + 1 /\ r1 = 0 ELSE k1 = k /\ r1 = r + 1
  BY <1>1, CountOn
<1>5. 1 \div pace = 0
  <2>1. pace \in Nat \ {0} /\ 1 \in 0 .. pace - 1
    OBVIOUS
  <2>2. QED
    BY <2>1, Below
<1>6. /\ Known(m) = IF k = 0 THEN 0 ELSE IF r <= h THEN k - 1 ELSE k
      /\ Known(m + 1) = IF k1 = 0 THEN 0 ELSE IF r1 <= h THEN k1 - 1 ELSE k1
      /\ Known(1) = 0
  BY <1>5 DEF Known
<1> HIDE DEF k, r, h, k1, r1
<1>7. /\ Known(m + 1) = IF r = h THEN k ELSE Known(m)
      /\ r = h /\ k > 0 => Known(m) = k - 1
  BY <1>2, <1>3, <1>4, <1>6
<1>8. QED
  BY <1>6, <1>7 DEF k, r, h

(* The listener is done while the transmitter is in the stop bit.          *)
LEMMA LastInFrame ==
  ASSUME pace \in Paces
  PROVE  /\ pace \in Nat /\ pace >= 2 /\ LastMiddle \in Nat
         /\ LastMiddle >= (DataBits + 1) * CLKS_PER_BIT
         /\ LastMiddle < FrameBits * CLKS_PER_BIT
         /\ LastMiddle % pace = pace \div 2 /\ LastMiddle \div pace = DataBits + 1
<1> DEFINE C == CLKS_PER_BIT
           h == pace \div 2
           l == LastMiddle
           k == DataBits + 1
<1>1. /\ pace \in Nat \ {0} /\ pace >= 2 /\ C \in Nat \ {0} /\ k \in Nat
      /\ FrameBits = k + 1
  BY PacesAssumption, UartAssumption DEF FrameBits
<1>2. h \in 0 .. pace - 1
  BY <1>1, SMT
<1>3. l = k * pace + h /\ l \div C = k
  <2>1. k \in 0 .. DataBits + 1
    BY <1>1
  <2>2. QED
    BY <2>1, PacesAssumption DEF LastMiddle, Middle
<1> HIDE DEF h, l, k, C
<1>4. l \in Nat
  BY <1>1, <1>2, <1>3, SMT
<1>5. l \div pace = k /\ l % pace = h
  BY <1>1, <1>2, <1>3, Quotient
<1>6. l = C * k + (l % C) /\ l % C \in 0 .. C - 1
  BY <1>1, <1>3, <1>4, Divided
<1>7. C * k = k * C /\ (k + 1) * C = k * C + C /\ k * C \in Nat
  BY <1>1, SMT
<1>8. l >= k * C /\ l < (k + 1) * C
  <2> DEFINE r == l % C
             x == k * C
  <2>1. l = x + r /\ r \in 0 .. C - 1 /\ x \in Nat /\ (k + 1) * C = x + C
    BY <1>6, <1>7
  <2> HIDE DEF r, x
  <2>2. QED
    BY <1>1, <2>1 DEF x
<1>9. QED
  BY <1>1, <1>4, <1>5, <1>8 DEF h, l, k, C

(* It knows all of them in the end.                                        *)
LEMMA KnownRange ==
  ASSUME pace \in Paces, NEW m \in Nat, m <= LastMiddle
  PROVE  m \div pace <= DataBits + 1 /\ Known(m) \in 0 .. DataBits
<1> DEFINE k == m \div pace
           r == m % pace
           h == pace \div 2
           x == (DataBits + 1) * pace
<1>1. /\ pace \in Nat \ {0} /\ pace >= 2 /\ DataBits \in Nat \ {0}
  BY LastInFrame, UartAssumption
<1>2. k \in Nat /\ r \in 0 .. pace - 1 /\ m = pace * k + r
  BY <1>1, Divided
<1>3. h \in Nat /\ h < pace
  BY <1>1, SMT
<1>4. m <= x + h /\ x \in Nat
  <2>1. x \in Nat
    BY <1>1, SMT
  <2>2. QED
    BY <2>1 DEF LastMiddle, Middle
<1> HIDE DEF k, r, h
<1>5. k <= DataBits + 1
  <2>1. CASE k >= DataBits + 2
    <3>1. pace * k >= pace * (DataBits + 2)
      BY <1>1, <1>2, <2>1, SMT
    <3>2. pace * (DataBits + 2) = x + pace /\ pace * k \in Nat
      BY <1>1, <1>2, SMT
    <3> DEFINE y == pace * k
    <3>3. y >= x + pace /\ y \in Nat /\ m = y + r
      BY <1>2, <3>1, <3>2
    <3> HIDE DEF x, y
    <3>4. FALSE
      BY <1>1, <1>2, <1>3, <1>4, <3>3
    <3>5. QED
      BY <3>4
  <2>2. QED
    BY <1>1, <1>2, <2>1
<1>6. k = DataBits + 1 => r <= h
  <2>1. k = DataBits + 1 => m = x + r
    <3>1. pace * (DataBits + 1) = x
      BY <1>1, SMT
    <3>2. QED
      BY <1>2, <3>1
  <2> HIDE DEF x
  <2>2. QED
    BY <1>1, <1>2, <1>3, <1>4, <2>1
<1>7. Known(m) = IF k = 0 THEN 0 ELSE IF r <= h THEN k - 1 ELSE k
  BY DEF Known, k, r, h
<1>8. Known(m) \in 0 .. DataBits
  BY <1>1, <1>2, <1>5, <1>6, <1>7
<1>9. QED
  BY <1>5, <1>8 DEF k

(* The low bits of a byte.                                                 *)
LEMMA LowBits ==
  ASSUME NEW x \in Byte, NEW d \in 0 .. DataBits
  PROVE  x % 2^d \in Byte
<1>1. DataBits \in Nat \ {0} /\ 2^DataBits \in Nat \ {0}
  BY UartAssumption
<1>2. CASE d = DataBits
  BY <1>1, <1>2, Unchanged DEF Byte
<1>3. CASE d # DataBits
  <2>1. d \in 0 .. DataBits - 1
    BY <1>1, <1>3
  <2>2. 2^d \in Nat \ {0} /\ x \in Nat
    BY <2>1, UartAssumption DEF Byte
  <2> DEFINE p == 2^d
             q == x \div p
             r == x % p
             m == 2^DataBits
  <2>3. q \in Nat /\ r \in 0 .. p - 1 /\ x = p * q + r
    BY <2>2, Divided
  <2>4. p \in Nat \ {0} /\ m \in Nat /\ x < m
    BY <1>1, <2>2 DEF Byte
  <2> HIDE DEF p, q, r, m
  <2>5. p * q \in Nat
    BY <2>3, <2>4, SMT
  <2>6. r \in 0 .. m - 1
    BY <2>2, <2>3, <2>4, <2>5
  <2>7. QED
    BY <2>6 DEF Byte, r, p, m
<1>4. QED
  BY <1>2, <1>3

(* What the listener makes of the line.                                    *)
LEMMA Listened ==
  ASSUME TxFrame, EarInv, pace \in Paces, ear.n > 0
  PROVE  LET m == ear.n - 1
         IN  /\ m \in Nat /\ m < FrameBits * CLKS_PER_BIT
             /\ Heard <=> m = LastMiddle
             /\ Heard => tx.line = 1 /\ ear.byte = tx.shift
             /\ ~Heard => /\ m + 1 <= LastMiddle
                          /\ (IF InMiddle /\ HeardBit \in 1 .. DataBits
                                THEN WithBit(ear.byte, HeardBit - 1, tx.line) ELSE ear.byte)
                              = tx.shift % 2^Known(m + 1)
<1> DEFINE m == ear.n - 1
           k == m \div pace
           C == CLKS_PER_BIT
<1>1. /\ pace \in Nat \ {0} /\ pace >= 2 /\ C \in Nat /\ C >= 2 /\ DataBits \in Nat \ {0}
      /\ m \in Nat /\ m + 1 = ear.n /\ m <= LastMiddle /\ LastMiddle \in Nat
      /\ ear.n = FrameTime /\ ear.n >= 2 /\ ear.byte = tx.shift % 2^Known(m)
      /\ tx.shift \in Byte
  BY LastInFrame, UartAssumption DEF EarInv, TxFrame, TxRegisters
<1>2. tx.line = LevelOf(m \div C)
  <2>1. FrameTime - 1 = m /\ FrameTime # 0
    BY <1>1
  <2>2. QED
    BY <2>1 DEF TxFrame
<1>3. k \in Nat /\ m = pace * k + (m % pace)
  BY <1>1, Divided
<1>4. InMiddle <=> m % pace = pace \div 2
  BY DEF InMiddle
<1>5. HeardBit = k
  BY DEF HeardBit
<1>6. InMiddle /\ k \in 0 .. DataBits + 1 => m \div C = k
  <2>1. SUFFICES ASSUME InMiddle, k \in 0 .. DataBits + 1 PROVE m \div C = k
    OBVIOUS
  <2>2. m = k * pace + (pace \div 2)
    <3>1. m = pace * k + (pace \div 2)
      BY <1>3, <1>4, <2>1
    <3> HIDE DEF m, k
    <3>2. pace * k = k * pace
      BY <1>1, <1>3, SMT
    <3>3. QED
      BY <3>1, <3>2
  <2> HIDE DEF k, m
  <2>3. (k * pace + (pace \div 2)) \div C = k
    BY <2>1, PacesAssumption DEF Middle
  <2>4. QED
    BY <2>2, <2>3
<1>7. Heard <=> m = LastMiddle
  <2>1. CASE m = LastMiddle
    <3>1. m % pace = pace \div 2 /\ k = FrameBits - 1
      BY <1>1, <2>1, LastInFrame DEF FrameBits
    <3>2. QED
      BY <1>4, <1>5, <2>1, <3>1 DEF Heard
  <2>2. CASE Heard
    <3>1. k = DataBits + 1 /\ m % pace = pace \div 2
      BY <1>1, <1>4, <1>5, <2>2 DEF Heard, FrameBits
    <3>2. m = pace * (DataBits + 1) + (pace \div 2)
      BY <1>3, <3>1
    <3>3. pace * (DataBits + 1) = (DataBits + 1) * pace
      BY <1>1, SMT
    <3>4. QED
      BY <2>2, <3>2, <3>3 DEF LastMiddle, Middle
  <2>3. QED
    BY <2>1, <2>2
<1>8. ASSUME Heard PROVE tx.line = 1 /\ ear.byte = tx.shift
  <2>1. InMiddle /\ k = DataBits + 1 /\ k \in 0 .. DataBits + 1
    BY <1>1, <1>5, <1>8 DEF Heard, FrameBits
  <2>2. tx.line = 1
    <3>1. m \div C = DataBits + 1
      BY <1>6, <2>1
    <3>2. QED
      BY <1>1, <1>2, <3>1 DEF LevelOf
  <2>3. Known(m) = DataBits
    <3>1. k > 0 /\ m % pace = pace \div 2
      BY <1>1, <1>4, <2>1
    <3>2. Known(m) = k - 1
      BY <1>1, <3>1, KnownStep
    <3>3. QED
      BY <1>1, <2>1, <3>2
  <2>4. tx.shift % 2^DataBits = tx.shift
    BY <1>1, UartAssumption, Unchanged DEF Byte
  <2>5. QED
    BY <1>1, <2>2, <2>3, <2>4
<1>9. ASSUME ~Heard
      PROVE  /\ m + 1 <= LastMiddle
             /\ (IF InMiddle /\ HeardBit \in 1 .. DataBits
                   THEN WithBit(ear.byte, HeardBit - 1, tx.line) ELSE ear.byte)
                 = tx.shift % 2^Known(m + 1)
  <2>1. m + 1 <= LastMiddle
    BY <1>1, <1>7, <1>9
  <2>2. k <= DataBits + 1
    BY <1>1, KnownRange
  <2>3. CASE InMiddle /\ k \in 1 .. DataBits
    <3>1. Known(m) = k - 1 /\ Known(m + 1) = k
      <4>1. m % pace = pace \div 2 /\ k > 0
        BY <1>1, <1>4, <2>3
      <4>2. QED
        BY <1>1, <4>1, KnownStep
    <3>2. tx.line = Bit(tx.shift, k - 1)
      <4>1. m \div C = k
        BY <1>1, <1>6, <2>3
      <4>2. QED
        BY <1>1, <1>2, <2>3, <4>1 DEF LevelOf
    <3>3. WithBit(tx.shift % 2^(k - 1), k - 1, Bit(tx.shift, k - 1)) = tx.shift % 2^k
      <4>1. k - 1 \in 0 .. DataBits - 1 /\ (k - 1) + 1 = k
        BY <1>1, <2>3
      <4>2. QED
        BY <1>1, <4>1, NextLowDigit
    <3>4. QED
      BY <1>1, <1>5, <2>1, <2>3, <3>1, <3>2, <3>3
  <2>4. CASE ~(InMiddle /\ k \in 1 .. DataBits)
    <3>1. Known(m + 1) = Known(m)
      <4>1. CASE ~InMiddle
        BY <1>1, <1>4, <4>1, KnownStep
      <4>2. CASE InMiddle
        <5>1. k = 0
          <6>1. k # DataBits + 1
            BY <1>1, <1>5, <1>9, <4>2 DEF Heard, FrameBits
          <6>2. QED
            BY <1>1, <1>3, <2>2, <2>4, <4>2, <6>1
        <5>2. Known(m + 1) = 0
          BY <1>1, <1>4, <4>2, <5>1, KnownStep
        <5>3. Known(m) = 0
          BY <5>1 DEF Known
        <5>4. QED
          BY <5>2, <5>3
      <4>3. QED
        BY <4>1, <4>2
    <3>2. QED
      BY <1>1, <1>5, <2>1, <2>4, <3>1
  <2>5. QED
    BY <2>3, <2>4
<1>10. m < FrameBits * C
  <2>1. FrameBits * C \in Nat /\ LastMiddle < FrameBits * C
    <3>1. FrameBits * C \in Nat
      BY <1>1, SMT DEF FrameBits
    <3>2. QED
      BY <3>1, LastInFrame
  <2>2. QED
    BY <1>1, <2>1
<1>11. QED
  BY <1>1, <1>7, <1>8, <1>9, <1>10

(* What the listener does in a cycle.                                      *)
LEMMA EarStep ==
  ASSUME TxFrame, EarInv, pace \in Paces, pace' = pace,
         NEW w \in BOOLEAN, NEW b \in Byte, TransmitterEdge(w, b), EarEdge
  PROVE  /\ EarInv'
         /\ ear'.n = IF ear.n = 0 THEN IF FrameTime = 1 THEN 2 ELSE 0
                     ELSE IF Heard THEN 0 ELSE FrameTime + 1
         /\ ear.n > 0 /\ ~Heard => tx.state # "IDLE"
<1> DEFINE C == CLKS_PER_BIT
           x == (DataBits + 1) * C
           e == FrameBits * C
<1>1. /\ C \in Nat \ {0} /\ C >= 2 /\ DataBits \in Nat \ {0} /\ tx.shift \in Byte
      /\ x \in Nat /\ x >= C /\ e = x + C
  <2>1. C \in Nat \ {0} /\ C >= 2 /\ DataBits \in Nat \ {0} /\ tx.shift \in Byte
    BY UartAssumption DEF TxFrame, TxRegisters
  <2>2. x \in Nat /\ x >= C /\ (DataBits + 2) * C = x + C
    BY <2>1, SMT
  <2>3. QED
    BY <2>1, <2>2 DEF FrameBits
<1>2. /\ LastMiddle \in Nat /\ LastMiddle >= x /\ LastMiddle < e
  BY LastInFrame
<1>3. /\ FrameTime \in Nat
      /\ tx.state = "IDLE" => FrameTime = e
      /\ tx.state # "IDLE" => FrameTime < e
      /\ IF tx.state # "IDLE" THEN tx'.shift = tx.shift /\ FrameTime' = FrameTime + 1
         ELSE FrameTime' = 0 \/ FrameTime' = FrameTime
  BY FrameStep, InFrame
<1>4. CASE ear.n = 0
  <2>1. ear' = [n |-> IF tx.line = 0 THEN 2 ELSE 0, byte |-> 0]
    BY <1>4 DEF EarEdge
  <2>2. 0 \in Byte
    BY UartAssumption DEF Byte
  <2>3. tx.line = IF FrameTime = 0 THEN 1 ELSE LevelOf((FrameTime - 1) \div C)
    BY DEF TxFrame
  <2>4. CASE FrameTime = 1
    <3>1. 0 \div C = 0
      BY <1>1, Below
    <3>2. FrameTime - 1 = 0
      BY <2>4
    <3>3. tx.line = 0
      BY <2>3, <2>4, <3>1, <3>2 DEF LevelOf
    <3> HIDE DEF x, e
    <3>4. tx.state # "IDLE" /\ FrameTime' = 2 /\ tx'.shift = tx.shift
      BY <1>1, <1>3, <2>4
    <3>5. Known(1) = 0
      BY LastInFrame, KnownStep
    <3>6. tx.shift % 2^0 = 0
      <4>1. 2^0 = 1
        BY UartAssumption
      <4>2. \A n \in Nat : n % 1 = 0
        BY SMT
      <4>3. tx.shift \in Nat
        BY <1>1, UartAssumption DEF Byte
      <4>4. QED
        BY <4>1, <4>2, <4>3, Zenon
    <3>7. ear' = [n |-> 2, byte |-> 0]
      BY <2>1, <3>3
    <3>8. (ear.byte = tx.shift % 2^Known(ear.n - 1))'
      <4>1. ear'.n - 1 = 1 /\ Known(1)' = 0
        BY <3>5, <3>7 DEF Known
      <4>2. Known(ear.n - 1)' = 0
        BY <4>1 DEF Known
      <4>3. ear'.byte = 0 /\ tx'.shift = tx.shift
        BY <3>4, <3>7
      <4>4. QED
        BY <3>6, <4>2, <4>3, Zenon
    <3>9. (ear.n - 1 <= LastMiddle)'
      BY <1>1, <1>2, <3>7 DEF LastMiddle, Middle
    <3>10. EarInv'
      BY <2>2, <3>4, <3>7, <3>8, <3>9 DEF EarInv
    <3>11. QED
      BY <1>4, <2>4, <3>7, <3>10
  <2>5. CASE FrameTime # 1
    <3>1. tx.line = 1
      <4>1. CASE FrameTime = 0
        BY <2>3, <4>1
      <4>2. CASE FrameTime # 0
        <5>1. FrameTime >= x + 2
          BY <1>3, <1>4, <2>5, <4>2 DEF EarInv
        <5>2. FrameTime <= e
          BY <1>1, <1>3
        <5> DEFINE r == FrameTime - 1 - x
        <5>3. r \in 0 .. C - 1 /\ FrameTime - 1 = x + r
          <6> HIDE DEF x, e
          <6>1. QED
            BY <1>1, <1>3, <5>1, <5>2
        <5> HIDE DEF r
        <5>4. DataBits + 1 \in Nat
          BY <1>1
        <5>5. (FrameTime - 1) \div C = DataBits + 1
          BY <1>1, <5>3, <5>4, Quotient
        <5>6. QED
          BY <1>1, <2>3, <4>2, <5>5 DEF LevelOf
      <4>3. QED
        BY <4>1, <4>2
    <3>2. ear' = [n |-> 0, byte |-> 0]
      BY <2>1, <3>1
    <3>3. FrameTime' <= 1 \/ FrameTime' >= x + 2
      <4>1. FrameTime = 0 \/ FrameTime >= x + 2
        BY <1>3, <1>4, <2>5 DEF EarInv
      <4> HIDE DEF x, e
      <4>2. QED
        BY <1>1, <1>3, <4>1
    <3>4. EarInv'
      BY <2>2, <3>2, <3>3 DEF EarInv
    <3>5. QED
      BY <1>4, <2>5, <3>2, <3>4
  <2>6. QED
    BY <2>4, <2>5
<1>5. CASE ear.n > 0 /\ Heard
  <2>1. ear' = [n |-> 0, byte |-> 0] /\ 0 \in Byte
    BY <1>5, UartAssumption DEF EarEdge, Byte
  <2>2. ear.n - 1 = LastMiddle /\ ear.n = FrameTime
    BY <1>5, Listened DEF EarInv
  <2>3. FrameTime' <= 1 \/ FrameTime' >= x + 2
    <3> HIDE DEF x, e
    <3>1. QED
      BY <1>1, <1>2, <1>3, <2>2
  <2>4. EarInv'
    BY <2>1, <2>3 DEF EarInv
  <2>5. QED
    BY <1>5, <2>1, <2>4 DEF EarInv
<1>6. CASE ear.n > 0 /\ ~Heard
  <2> DEFINE m == ear.n - 1
             y == IF InMiddle /\ HeardBit \in 1 .. DataBits
                    THEN WithBit(ear.byte, HeardBit - 1, tx.line) ELSE ear.byte
             z == tx.shift % 2^Known(m + 1)
  <2>1. ear' = [n |-> ear.n + 1, byte |-> y]
    BY <1>6 DEF EarEdge
  <2>2. m \in Nat /\ m + 1 <= LastMiddle /\ m + 1 = ear.n /\ y = z /\ ear.n = FrameTime /\ ear.n >= 2
    <3>1. ear.n \in Nat /\ ear.n = FrameTime /\ ear.n >= 2
      BY <1>6 DEF EarInv
    <3>2. m \in Nat /\ m + 1 <= LastMiddle /\ y = z
      BY <1>6, Listened
    <3>3. QED
      BY <3>1, <3>2
  <2>3. z \in Byte
    <3>1. m + 1 \in Nat
      BY <2>2
    <3>2. QED
      BY <1>1, <2>2, <3>1, KnownRange, LowBits
  <2> HIDE DEF m, y
  <2>4. tx.state # "IDLE"
    <3> HIDE DEF x, e
    <3>1. QED
      BY <1>1, <1>2, <1>3, <2>2
  <2>5. FrameTime' = FrameTime + 1 /\ tx'.shift = tx.shift
    BY <1>3, <2>4
  <2>6. ear' = [n |-> FrameTime + 1, byte |-> z]
    BY <2>1, <2>2
  <2>7. (tx.shift % 2^Known(ear.n - 1))' = z
    <3>1. ear'.n - 1 = m + 1
      BY <1>3, <2>2, <2>6
    <3>2. Known(ear.n - 1)' = Known(m + 1)
      BY <3>1 DEF Known
    <3>3. QED
      BY <2>5, <3>2
  <2> HIDE DEF z
  <2>8. (ear.n - 1 <= LastMiddle)'
    <3>1. LastMiddle' = LastMiddle
      BY DEF LastMiddle, Middle
    <3>2. QED
      BY <1>3, <2>2, <2>6, <3>1
  <2>9. EarInv'
    BY <1>3, <2>2, <2>3, <2>5, <2>6, <2>7, <2>8 DEF EarInv
  <2>10. QED
    BY <1>3, <1>6, <2>4, <2>6, <2>9
<1>7. ear.n \in Nat
  BY DEF EarInv
<1>8. QED
  BY <1>4, <1>5, <1>6, <1>7

(* A store to TX_DATA on its way.                                          *)
LEMMA TxAccess ==
  ASSUME CoresInv, NEW g \in Cores, Stores(g, Base.uart + TX_DATA)
  PROVE  /\ Used("uart") /\ req[g].data % 2^DataBits \in Byte
         /\ Writes(g, "uart") /\ Offset(g, "uart") = TX_DATA
         /\ Lands(g) <=> tx.state = "IDLE"
         /\ CoreReady(g, g) <=> uartPort.ready
         /\ SlaveReady(g) <=> uartPort.ready
<1>1. /\ req[g].op = "write" /\ req[g].byte = Base.uart + TX_DATA /\ req[g].byte \in Nat
      /\ "uart" \in Devices
  BY Instruction DEF Stores, Devices, Base
<1>2. InWindow("uart", req[g].byte) /\ \A d \in Devices : InWindow(d, req[g].byte) => d = "uart"
  <2>1. InWindow("uart", req[g].byte)
    BY <1>1 DEF InWindow, Base, WindowSize, TX_DATA
  <2>2. QED
    BY <1>1, <2>1, WindowsApart
<1>3. Bus!L1Request(g).op = "write"
  BY <1>1 DEF CoresInv, Bus!L1Request, Bus!Downstream, State
<1>4. AddrValid
  BY <1>3 DEF AddrValid, Bus!Requesting
<1>5. Selected(g, "uart") /\ \A d \in Devices : Selected(g, d) => d = "uart"
  BY <1>2, <1>4 DEF Selected
<1>6. Writes(g, "uart") /\ Offset(g, "uart") = TX_DATA
  BY <1>1, <1>3, <1>5 DEF Writes, Offset, Base, TX_DATA
<1>7. Lands(g) <=> tx.state = "IDLE"
  <2>1. {"spi", "clint", "gpio"} \subseteq Devices
    BY DEF Devices, Base
  <2>2. Lands(g) <=> UartTakesWrite(TX_DATA)
    BY <1>5, <1>6, <2>1 DEF Lands, Writes
  <2>3. QED
    BY <2>2 DEF UartTakesWrite, TxReady
<1>8. SlaveReady(g) <=> uartPort.ready
  BY <1>1, <1>5 DEF SlaveReady, Port
<1>9. CoreReady(g, g) <=> uartPort.ready
  BY <1>1, <1>8 DEF CoreReady, Ready, BusReady
<1>10. Used("uart") /\ req[g].data % 2^DataBits \in Byte
  <2>1. Used("uart") /\ req[g].data \in Nat
    BY <1>1, <1>2, Instruction
  <2>2. \A n \in Nat, m \in Nat \ {0} : n % m \in 0 .. m - 1
    BY SMT
  <2>3. QED
    BY <2>1, <2>2, UartAssumption DEF Byte
<1>11. QED
  BY <1>6, <1>7, <1>8, <1>9, <1>10

(* When the transmitter is handed a byte: only by such a store.            *)
LEMMA TxWrite ==
  ASSUME CoresInv, NEW g \in Cores
  PROVE  Writes(g, "uart") /\ Offset(g, "uart") = TX_DATA <=> Stores(g, Base.uart + TX_DATA)
<1>1. ASSUME Writes(g, "uart"), Offset(g, "uart") = TX_DATA
      PROVE  Stores(g, Base.uart + TX_DATA)
  <2>1. Bus!Requesting(g)
    BY <1>1 DEF Writes, Bus!Requesting
  <2>2. req[g].op = "write" /\ req[g].byte \in Nat
    BY <1>1, <2>1, RequestOf, Instruction DEF Writes
  <2>3. QED
    BY <1>1, <2>2 DEF Stores, Offset, Base, TX_DATA
<1>2. QED
  BY <1>1, TxAccess

(* When a byte is taken, and its core not told so yet, after a cycle.      *)
LEMMA TakenNext ==
  ASSUME CoresInv, NEW g \in Cores, Cycle(g), NEW c \in Cores
  PROVE  Taken(c)' <=>
           /\ ~CoreReady(g, c)
           /\ Taken(c) \/ (c = g /\ Stores(g, Base.uart + TX_DATA) /\ Lands(g))
<1>1. landed'[c] <=> ~CoreReady(g, c) /\ (landed[c] \/ (c = g /\ Lands(g)))
  BY DEF Cycle, GhostEdge
<1>2. ~CoreReady(g, c) => req'[c] = req[c]
  BY DEF Cycle, CoreEdge
<1>3. QED
  BY <1>1, <1>2 DEF Taken, Stores

(* A cycle of the transmitter, of the line, and of the cores that use it.  *)
LEMMA TxStep ==
  ASSUME CoresInv, TxInv, NEW g \in Cores, Cycle(g)
  PROVE  TxInv'
<1> DEFINE handed == Stores(g, Base.uart + TX_DATA)
           v == req[g].data % 2^DataBits
           C == CLKS_PER_BIT
<1>1. /\ UartCycle(g) /\ Bus!Granted(g) /\ program' = program /\ pace' = pace
      /\ due' = LET left == IF HeardDue THEN Tail(due) ELSE due
                IN  IF TxHanded(g) THEN Append(left, v) ELSE left
  BY DEF Cycle, GhostEdge
<1>2. /\ Used("uart")' <=> Used("uart")
      /\ FrameTime \in Nat
      /\ tx.state = "IDLE" => FrameTime = FrameBits * C
      /\ FrameBits * C \in Nat /\ FrameBits * C >= 2
  <2>1. C \in Nat /\ C >= 2 /\ FrameBits \in Nat /\ FrameBits >= 1
    BY UartAssumption DEF FrameBits
  <2>2. FrameBits * C \in Nat /\ FrameBits * C >= C
    BY <2>1, SMT
  <2>3. FrameBits * C >= 2
    <3> DEFINE e == FrameBits * C
    <3>1. e \in Nat /\ e >= C
      BY <2>2
    <3> HIDE DEF e
    <3>2. e >= 2
      BY <2>1, <3>1
    <3>3. QED
      BY <3>2 DEF e
  <2>4. Used("uart")' <=> Used("uart")
    BY <1>1 DEF Used
  <2>5. QED
    BY <2>2, <2>3, <2>4, InFrame DEF TxInv
<1>3. ear.n \in Nat
  BY DEF TxInv, EarInv
<1>4. Heard => ear.n > 0
  BY DEF Heard, InMiddle
<1>5. /\ \A c \in Cores : Taken(c)' <=>
           ~CoreReady(g, c) /\ (Taken(c) \/ (c = g /\ handed /\ Lands(g)))
      /\ TxHanded(g) <=> handed /\ CoreReady(g, g) /\ (Taken(g) \/ Lands(g))
  <2>1. TxHanded(g) <=> handed /\ CoreReady(g, g) /\ (Taken(g) \/ Lands(g))
    BY DEF TxHanded, Taken
  <2>2. QED
    BY <2>1, TakenNext
<1> HIDE DEF v
<1>6. CASE ~Used("uart")
  <2>1. tx' = tx /\ ear' = ear /\ tx.state = "IDLE" /\ ear.n = 0
    BY <1>1, <1>6 DEF UartCycle, TxInv
  <2>2. \A c \in Cores : ~Stores(c, Base.uart + TX_DATA)
    BY <1>6, TxAccess
  <2>3. ~TxHanded(g) /\ ~HeardDue /\ \A c \in Cores : ~Taken(c) /\ ~Taken(c)'
    BY <1>4, <1>5, <2>1, <2>2 DEF HeardDue, Taken
  <2>4. due' = due
    BY <1>1, <2>3
  <2>5. TxFrame' /\ FrameTime' = FrameTime
    BY <2>1 DEF TxInv, TxFrame, FrameTime, FrameBit, LevelOf
  <2>6. EarInv'
    BY <2>1, <2>5 DEF TxInv, EarInv
  <2>7. DueInv'
    BY <2>1, <2>3, <2>4, <2>5 DEF TxInv, DueInv
  <2>8. QED
    BY <1>2, <1>6, <2>1, <2>5, <2>6, <2>7 DEF TxInv
<1>7. CASE Used("uart")
  <2> DEFINE b == req[g].data % 2^DataBits
             w == Writes(g, "uart") /\ Offset(g, "uart") = TX_DATA
  <2>1. pace \in Paces /\ TxFrame /\ EarInv /\ DueInv
    BY <1>7 DEF TxInv
  <2>2. /\ TransmitterEdge(w, b) /\ EarEdge
        /\ uartPort'.ready <=> \/ Reads(g, "uart")
                               \/ Writes(g, "uart") /\ UartTakesWrite(Offset(g, "uart"))
    <3>1. /\ EarEdge
          /\ UartEdge(Writes(g, "uart"), Reads(g, "uart"), Offset(g, "uart"),
                      req[g].data, RxLine)
      BY <1>1, <1>7 DEF UartCycle
    <3>2. TransmitterEdge(w, b)
      BY <3>1 DEF UartEdge
    <3>3. uartPort'.ready <=> \/ Reads(g, "uart")
                              \/ Writes(g, "uart") /\ UartTakesWrite(Offset(g, "uart"))
      <4> HIDE DEF b, w
      <4>1. QED
        BY <3>1 DEF UartEdge
    <3>4. QED
      BY <3>1, <3>2, <3>3
  <2>3. w <=> handed
    BY TxWrite
  <2>4. /\ TxFrame'
        /\ IF tx.state # "IDLE"
             THEN tx'.shift = tx.shift /\ FrameTime' = FrameTime + 1
             ELSE IF handed THEN tx'.shift = v /\ FrameTime' = 0
             ELSE tx'.shift = tx.shift /\ FrameTime' = FrameTime
    <3>1. CASE handed
      <4>1. b \in Byte /\ b = v
        BY <3>1, TxAccess DEF v
      <4> HIDE DEF w, b
      <4>2. TransmitterEdge(TRUE, v)
        BY <2>2, <2>3, <3>1, <4>1 DEF TransmitterEdge
      <4>3. QED
        BY <2>1, <3>1, <4>1, <4>2, FrameStep
    <3>2. CASE ~handed
      <4> HIDE DEF w, b
      <4>1. TransmitterEdge(FALSE, 0)
        BY <2>2, <2>3, <3>2 DEF TransmitterEdge
      <4>2. 0 \in Byte
        BY UartAssumption DEF Byte
      <4>3. QED
        BY <2>1, <3>2, <4>1, <4>2, FrameStep
    <3>3. QED
      BY <3>1, <3>2
  <2>5. /\ EarInv'
        /\ ear'.n = IF ear.n = 0 THEN IF FrameTime = 1 THEN 2 ELSE 0
                    ELSE IF Heard THEN 0 ELSE FrameTime + 1
        /\ ear.n > 0 /\ ~Heard => tx.state # "IDLE"
    <3>1. CASE handed
      <4>1. b \in Byte
        BY <3>1, TxAccess
      <4> HIDE DEF b, w
      <4>2. TransmitterEdge(TRUE, b)
        BY <2>2, <2>3, <3>1 DEF TransmitterEdge
      <4>3. QED
        BY <1>1, <2>1, <2>2, <4>1, <4>2, EarStep
    <3>2. CASE ~handed
      <4> HIDE DEF b, w
      <4>1. TransmitterEdge(FALSE, 0)
        BY <2>2, <2>3, <3>2 DEF TransmitterEdge
      <4>2. 0 \in Byte
        BY UartAssumption DEF Byte
      <4>3. QED
        BY <1>1, <2>1, <2>2, <4>1, <4>2, EarStep
    <3>3. QED
      BY <3>1, <3>2
  <2> HIDE DEF b, w
  <2>6. Heard => tx.line = 1 /\ ear.byte = tx.shift
    BY <1>4, <2>1, Listened
  <2>7. \A c \in Cores : Taken(c) =>
          /\ FrameTime = 0 /\ serving /\ c = current /\ uartPort.ready
          /\ req[c].data % 2^DataBits = tx.shift
    BY <2>1 DEF DueInv
  <2>8. due = IF ear.n > 0 \/ FrameTime = 1 \/ (FrameTime = 0 /\ ~\E c \in Cores : Taken(c))
                THEN <<tx.shift>> ELSE <<>>
    BY <2>1 DEF DueInv
  <2>9. Heard => HeardDue
    BY <1>4, <2>6, <2>8 DEF HeardDue
  <2>10. HeardDue => Heard
    BY DEF HeardDue
  <2>11. ear.n > 0 => FrameTime >= 2
    BY <2>1 DEF EarInv
  <2>12. handed => (Lands(g) <=> tx.state = "IDLE") /\ (CoreReady(g, g) <=> uartPort.ready)
                   /\ (SlaveReady(g) <=> uartPort.ready)
    BY TxAccess
  <2>13. (\A c \in Cores : ~Taken(c)') /\
         due' = (IF ear'.n > 0 \/ FrameTime' = 1 \/ FrameTime' = 0 THEN <<tx'.shift>> ELSE <<>>)
         => DueInv'
    <3> SUFFICES ASSUME \A c \in Cores : ~Taken(c)',
                        due' = (IF ear'.n > 0 \/ FrameTime' = 1 \/ FrameTime' = 0
                                  THEN <<tx'.shift>> ELSE <<>>)
                 PROVE  DueInv'
      OBVIOUS
    <3>1. QED
      BY DEF DueInv
  <2>14. CASE tx.state # "IDLE"
    <3>1. /\ FrameTime' = FrameTime + 1 /\ tx'.shift = tx.shift
          /\ handed => ~Lands(g)
      BY <2>4, <2>12, <2>14
    <3>2. CASE \E c \in Cores : Taken(c)
      <4>1. Taken(g) /\ FrameTime = 0 /\ uartPort.ready /\ v = tx.shift
            /\ \A c \in Cores : Taken(c) => c = g
        <5>1. PICK c \in Cores : Taken(c)
          BY <3>2
        <5>2. c = current /\ serving
          BY <2>7, <5>1
        <5>3. g = current
          BY <1>1, <5>2 DEF Bus!Granted
        <5>4. QED
          BY <2>7, <5>1, <5>2, <5>3 DEF v
      <4>2. handed /\ CoreReady(g, g)
        BY <2>12, <4>1 DEF Taken
      <4>3. \A c \in Cores : ~Taken(c)'
        BY <1>5, <4>1, <4>2
      <4>4. ear.n = 0 /\ ~HeardDue /\ due = <<>>
        BY <1>3, <1>4, <2>8, <2>10, <2>11, <3>2, <4>1
      <4>5. due' = <<tx'.shift>>
        BY <1>1, <1>5, <3>1, <4>1, <4>2, <4>4
      <4>6. FrameTime' = 1
        BY <3>1, <4>1
      <4>7. QED
        BY <1>2, <1>7, <2>1, <1>1, <2>4, <2>5, <2>13, <4>3, <4>5, <4>6 DEF TxInv
    <3>3. CASE ~\E c \in Cores : Taken(c)
      <4>1. (\A c \in Cores : ~Taken(c)') /\ ~TxHanded(g)
        BY <1>5, <3>1, <3>3
      <4>2. due' = IF HeardDue THEN Tail(due) ELSE due
        BY <1>1, <4>1
      <4>3. due' = IF ear'.n > 0 \/ FrameTime' = 1 \/ FrameTime' = 0
                     THEN <<tx'.shift>> ELSE <<>>
        <5>1. CASE ear.n = 0
          <6>1. due' = due
            BY <1>4, <2>10, <4>2, <5>1
          <6>2. due = IF FrameTime = 1 \/ FrameTime = 0 THEN <<tx.shift>> ELSE <<>>
            BY <2>8, <3>3, <5>1
          <6>3. (ear'.n > 0 \/ FrameTime' = 1 \/ FrameTime' = 0) <=> (FrameTime = 1 \/ FrameTime = 0)
            BY <1>2, <2>5, <3>1, <5>1
          <6>4. QED
            BY <3>1, <6>1, <6>2, <6>3
        <5>2. CASE ear.n > 0 /\ Heard
          <6>1. due' = Tail(<<tx.shift>>)
            BY <2>8, <2>9, <4>2, <5>2
          <6>2. due' = <<>>
            BY <6>1
          <6>3. ear'.n = 0 /\ FrameTime' # 1 /\ FrameTime' # 0
            BY <1>2, <2>5, <2>11, <3>1, <5>2
          <6>4. QED
            BY <6>2, <6>3
        <5>3. CASE ear.n > 0 /\ ~Heard
          <6>1. due' = <<tx.shift>>
            BY <2>8, <2>10, <4>2, <5>3
          <6>2. ear'.n > 0
            BY <1>2, <2>5, <5>3
          <6>3. QED
            BY <3>1, <6>1, <6>2
        <5>4. QED
          BY <1>3, <5>1, <5>2, <5>3
      <4>4. QED
        BY <1>1, <1>2, <1>7, <2>1, <2>4, <2>5, <2>13, <4>1, <4>3 DEF TxInv
    <3>4. QED
      BY <3>2, <3>3
  <2>15. CASE tx.state = "IDLE"
    <3>1. FrameTime >= 2 /\ FrameTime # 0 /\ FrameTime # 1
      BY <1>2, <2>15
    <3>2. \A c \in Cores : ~Taken(c)
      BY <2>7, <3>1
    <3>3. ear'.n = 0
      BY <1>3, <2>5, <2>15, <3>1
    <3>4. (IF HeardDue THEN Tail(due) ELSE due) = <<>>
      <4>1. CASE ear.n = 0
        <5>1. due = <<>> /\ ~HeardDue
          BY <1>4, <2>8, <2>10, <3>1, <4>1
        <5>2. QED
          BY <5>1
      <4>2. CASE ear.n > 0
        <5>1. HeardDue /\ due = <<tx.shift>>
          BY <2>5, <2>8, <2>9, <2>15, <4>2
        <5>2. QED
          BY <5>1
      <4>3. QED
        BY <1>3, <4>1, <4>2
    <3>5. CASE ~handed
      <4>1. (\A c \in Cores : ~Taken(c)') /\ ~TxHanded(g)
        BY <1>5, <3>2, <3>5
      <4>2. due' = <<>>
        BY <1>1, <3>4, <4>1
      <4>3. FrameTime' # 1 /\ FrameTime' # 0
        BY <2>4, <2>15, <3>1, <3>5
      <4>4. ~(ear'.n > 0)
        BY <3>3
      <4>5. DueInv'
        BY <2>13, <4>1, <4>2, <4>3, <4>4
      <4>6. QED
        BY <1>1, <1>2, <1>7, <2>1, <2>4, <2>5, <4>5 DEF TxInv
    <3>6. CASE handed /\ uartPort.ready
      <4>1. Lands(g) /\ CoreReady(g, g)
        BY <2>12, <2>15, <3>6
      <4>2. (\A c \in Cores : ~Taken(c)') /\ TxHanded(g)
        BY <1>5, <3>2, <3>6, <4>1
      <4>3. due' = <<v>>
        <5>1. due' = Append(<<>>, v)
          BY <1>1, <3>4, <4>2
        <5>2. QED
          BY <5>1
      <4>4. FrameTime' = 0 /\ tx'.shift = v
        BY <2>4, <2>15, <3>6
      <4>5. QED
        BY <1>1, <1>2, <1>7, <2>1, <2>4, <2>5, <2>13, <4>2, <4>3, <4>4 DEF TxInv
    <3>7. CASE handed /\ ~uartPort.ready
      <4>1. Lands(g) /\ ~CoreReady(g, g) /\ ~SlaveReady(g)
        BY <2>12, <2>15, <3>7
      <4>2. Taken(g)' /\ ~TxHanded(g) /\ \A c \in Cores : Taken(c)' => c = g
        BY <1>5, <3>2, <3>7, <4>1
      <4>3. due' = <<>>
        BY <1>1, <3>4, <4>2
      <4>4. FrameTime' = 0 /\ tx'.shift = v
        BY <2>4, <2>15, <3>7
      <4>5. serving' /\ current' = g
        <5>1. Bus!Requesting(g)
          BY <3>7, TxAccess DEF Writes, Bus!Requesting
        <5>2. BusEdge(g)
          BY DEF Cycle
        <5>3. QED
          BY <1>1, <4>1, <5>1, <5>2 DEF BusEdge, Bus!Granted
      <4>6. uartPort'.ready
        BY <2>2, <2>15, <3>7, TxAccess DEF UartTakesWrite, TxReady
      <4>7. req'[g] = req[g]
        BY <4>1 DEF Cycle, CoreEdge
      <4>8. DueInv'
        <5>1. \A c \in Cores : Taken(c)' =>
                /\ FrameTime' = 0 /\ serving' /\ c = current' /\ uartPort'.ready
                /\ req'[c].data % 2^DataBits = tx'.shift
          BY <4>2, <4>4, <4>5, <4>6, <4>7 DEF v
        <5>2. due' = IF ear'.n > 0 \/ FrameTime' = 1
                          \/ (FrameTime' = 0 /\ ~\E c \in Cores : Taken(c)')
                       THEN <<tx'.shift>> ELSE <<>>
          BY <3>3, <4>2, <4>3, <4>4
        <5>3. QED
          BY <5>1, <5>2 DEF DueInv
      <4>9. QED
        BY <1>1, <1>2, <1>7, <2>1, <2>4, <2>5, <4>8 DEF TxInv
    <3>8. QED
      BY <3>5, <3>6, <3>7
  <2>16. QED
    BY <2>14, <2>15
<1>8. QED
  BY <1>6, <1>7

(* The line is idle at reset.                                              *)
LEMMA TxInitInv == Init => TxInv
<1> SUFFICES ASSUME Init PROVE TxInv
  OBVIOUS
<1> DEFINE C == CLKS_PER_BIT
<1>1. /\ tx = [state |-> "IDLE", count |-> 0, bit |-> 0, shift |-> 0, line |-> 1]
      /\ ear = [n |-> 0, byte |-> 0] /\ due = <<>>
      /\ \A c \in Cores : ~landed[c]
      /\ Used("uart") => pace \in Paces
  BY DEF Init, UartInit
<1>2. C \in Nat /\ C >= 2 /\ DataBits \in Nat \ {0} /\ 0 \in Byte
  BY UartAssumption DEF Byte
<1>3. FrameTime = (DataBits + 2) * C
  BY <1>1, <1>2 DEF FrameTime, FrameBit, FrameBits
<1> DEFINE x == (DataBits + 1) * C
<1>4. x \in Nat /\ x >= C /\ FrameTime = x + C
  <2>1. x \in Nat /\ x >= C /\ (DataBits + 2) * C = x + C
    BY <1>2, SMT
  <2>2. QED
    BY <1>3, <2>1
<1>5. (FrameTime - 1) \div C = DataBits + 1
  <2>1. C \in Nat \ {0} /\ DataBits + 1 \in Nat /\ C - 1 \in 0 .. C - 1
    BY <1>2
  <2>2. FrameTime - 1 = x + (C - 1)
    <3> HIDE DEF x
    <3>1. QED
      BY <1>2, <1>4
  <2>3. QED
    BY <2>1, <2>2, Quotient
<1>6. TxFrame
  <2>1. tx \in TxRegisters
    BY <1>1, <1>2 DEF TxRegisters, FrameState
  <2>2. LevelOf((FrameTime - 1) \div C) = 1
    BY <1>2, <1>5 DEF LevelOf
  <2>3. QED
    BY <1>1, <2>1, <2>2 DEF TxFrame
<1> HIDE DEF x
<1>7. FrameTime >= x + 2 /\ FrameTime >= 2
  BY <1>2, <1>4
<1>8. EarInv
  BY <1>1, <1>2, <1>7 DEF EarInv, x
<1>9. DueInv
  BY <1>1, <1>4, <1>7 DEF DueInv, Taken
<1>10. QED
  BY <1>1, <1>6, <1>8, <1>9 DEF TxInv

(* The invariant of the line.                                              *)
THEOREM TxInvariance == Spec => []TxInv
<1>1. ASSUME PInv, TxInv, [Next]_vars
      PROVE  TxInv'
  <2>1. CASE Next
    BY <1>1, <2>1, TxStep DEF Next, PInv
  <2>2. CASE UNCHANGED vars
    <3>1. /\ tx' = tx /\ ear' = ear /\ due' = due /\ pace' = pace /\ program' = program
          /\ serving' = serving /\ current' = current /\ uartPort' = uartPort
          /\ req' = req /\ landed' = landed
      BY <2>2 DEF vars, coreVars, busVars, deviceVars, outside, ghosts
    <3>2. FrameTime' = FrameTime /\ TxFrame'
      BY <1>1, <3>1 DEF TxInv, TxFrame, FrameTime, FrameBit, LevelOf
    <3>3. EarInv'
      BY <1>1, <3>1, <3>2 DEF TxInv, EarInv, LastMiddle, Known
    <3>4. DueInv'
      BY <1>1, <3>1, <3>2 DEF TxInv, DueInv, Taken, Stores
    <3>5. QED
      BY <1>1, <3>1, <3>2, <3>3, <3>4 DEF TxInv, Used
  <2>3. QED
    BY <1>1, <2>1, <2>2
<1>2. QED
  BY PortInvariance, TxInitInv, <1>1, PTL DEF Spec

(* Every byte that a core was told is sent is heard, once, in order and    *)
(* whole, whatever the cores store meanwhile.                              *)
THEOREM BytesInOrder == Spec => HeardInOrder
<1>1. ASSUME TxInv PROVE Heard => HeardDue
  <2>1. SUFFICES ASSUME Heard PROVE HeardDue
    OBVIOUS
  <2>2. ear.n > 0
    BY <2>1 DEF Heard, InMiddle
  <2>3. pace \in Paces /\ TxFrame /\ EarInv /\ due = <<tx.shift>>
    BY <1>1, <2>2 DEF TxInv, DueInv
  <2>4. tx.line = 1 /\ ear.byte = tx.shift
    BY <2>1, <2>2, <2>3, Listened
  <2>5. QED
    BY <2>1, <2>3, <2>4 DEF HeardDue
<1>2. QED
  BY TxInvariance, <1>1, PTL DEF HeardInOrder

-----------------------------------------------------------------------------
(* The receiver of the UART                                                *)

RxRegisters ==
  [state : FrameState, count : 0 .. CLKS_PER_BIT - 1, bit : 0 .. DataBits - 1,
   shift : Byte, data : Byte, valid : {0, 1}]

PeerRegisters ==
  [n : 0 .. FrameBits * pace, byte : Byte, unread : BOOLEAN, glitch : BOOLEAN]

(* How many cycles into a frame the receiver takes itself to be.           *)
RxTime ==
  CASE rx.state = "START"     -> rx.count + 1
    [] rx.state = "DATA_BITS" -> Middle(CLKS_PER_BIT, rx.bit) + 1 + rx.count
    [] rx.state = "STOP"      -> Middle(CLKS_PER_BIT, DataBits) + 1 + rx.count
    [] rx.state = "IDLE"      -> 0

(* A receiver that noise has started is early for a frame that begins      *)
(* before the middle of that false start bit.                              *)
Early == IF pace = CLKS_PER_BIT THEN CLKS_PER_BIT \div 2 ELSE 0

(* The receiver is in the frame that is on the line, with the low bits of  *)
(* its byte, in a false start, or over with a frame before it ends.        *)
FrameAligned ==
  /\ pace \in Paces \cup {CLKS_PER_BIT} /\ (Listening => pace \in Paces)
  /\ rx \in RxRegisters /\ peer \in PeerRegisters
  /\ rx.state = "START" => rx.bit = 0 /\ rx.count < CLKS_PER_BIT \div 2
  /\ rx.state = "DATA_BITS" => peer.n > 0 /\ rx.shift % 2^rx.bit = peer.byte % 2^rx.bit
  /\ rx.state = "STOP" => rx.shift = peer.byte /\ (peer.n = 0 => pace # CLKS_PER_BIT)
  /\ peer.glitch => peer.n = 0 /\ rx.state = "IDLE"
  /\ peer.n > 0 /\ rx.state # "IDLE" => RxTime - (peer.n - 1) \in 0 .. Early
  /\ peer.n > 1 /\ rx.state = "IDLE" => peer.n - 1 >= (DataBits + 1) * pace
  /\ ~Listening => peer.n = 0 /\ ~peer.glitch /\ rx.state = "IDLE"

(* One register after the other.                                           *)
LEMMA RxField ==
  ASSUME NEW r \in RxRegisters
  PROVE  /\ \A v \in 0 .. CLKS_PER_BIT - 1 : [r EXCEPT !.count = v] \in RxRegisters
         /\ \A v \in 0 .. DataBits - 1     : [r EXCEPT !.bit = v]   \in RxRegisters
         /\ \A v \in FrameState            : [r EXCEPT !.state = v] \in RxRegisters
         /\ \A v \in Byte : /\ [r EXCEPT !.shift = v] \in RxRegisters
                            /\ [r EXCEPT !.data = v]  \in RxRegisters
         /\ \A v \in {0, 1} : [r EXCEPT !.valid = v] \in RxRegisters
<1>1. ASSUME NEW v \in 0 .. CLKS_PER_BIT - 1 PROVE [r EXCEPT !.count = v] \in RxRegisters
  BY DEF RxRegisters
<1>2. ASSUME NEW v \in 0 .. DataBits - 1 PROVE [r EXCEPT !.bit = v] \in RxRegisters
  BY DEF RxRegisters
<1>3. ASSUME NEW v \in FrameState PROVE [r EXCEPT !.state = v] \in RxRegisters
  BY DEF RxRegisters
<1>4. ASSUME NEW v \in Byte PROVE [r EXCEPT !.shift = v] \in RxRegisters
  BY DEF RxRegisters
<1>5. ASSUME NEW v \in Byte PROVE [r EXCEPT !.data = v] \in RxRegisters
  BY DEF RxRegisters
<1>6. ASSUME NEW v \in {0, 1} PROVE [r EXCEPT !.valid = v] \in RxRegisters
  BY DEF RxRegisters
<1>7. QED
  BY <1>1, <1>2, <1>3, <1>4, <1>5, <1>6

(* A bit that is sampled goes on top of those sampled before.              *)
LEMMA SampledBit ==
  ASSUME NEW x \in Byte, NEW i \in 0 .. DataBits - 1, NEW b \in {0, 1}
  PROVE  /\ WithBit(x, i, b) \in Byte
         /\ \A y \in Byte : x % 2^i = y % 2^i /\ b = Bit(y, i) =>
              WithBit(x, i, b) % 2^(i + 1) = y % 2^(i + 1)
<1> DEFINE p == 2^i
           m == 2^DataBits
           z == x - ((x \div p) % 2) * p + b * p
<1>1. /\ p \in Nat \ {0} /\ 2^(i + 1) = 2 * p /\ m \in Nat /\ m % (2 * p) = 0
      /\ x \in 0 .. m - 1
  BY UartAssumption DEF Byte
<1>2. WithBit(x, i, b) = z
  BY DEF WithBit, Bit
<1>3. z \in 0 .. m - 1 /\ z % (2 * p) = (x % p) + b * p
  BY <1>1, SetDigit
<1>4. ASSUME NEW y \in Byte, x % p = y % p, b = Bit(y, i)
      PROVE  z % (2 * p) = y % (2 * p)
  <2>1. y \in Nat
    BY <1>1 DEF Byte
  <2>2. y % (2 * p) = (y % p) + ((y \div p) % 2) * p
    BY <1>1, <2>1, HalfDigit
  <2>3. b = (y \div p) % 2
    BY <1>4 DEF Bit
  <2> HIDE DEF z, p
  <2>4. QED
    BY <1>3, <1>4, <2>2, <2>3
<1>5. z \in Byte
  BY <1>3 DEF Byte
<1> HIDE DEF z
<1>6. QED
  BY <1>1, <1>2, <1>4, <1>5, Zenon

(* What the receiver sees of a frame.                                      *)
LEMMA OnTheLine ==
  ASSUME peer \in PeerRegisters, pace \in Nat, pace >= 2
  PROVE  LET u == peer.n - 1
         IN  /\ RxLine \in {0, 1}
             /\ peer.glitch => RxLine = 0
             /\ ~peer.glitch /\ peer.n = 0 => RxLine = 1
             /\ ~peer.glitch /\ peer.n > 0 /\ u \div pace = 0 => RxLine = 0
             /\ \A k \in 1 .. DataBits :
                  ~peer.glitch /\ peer.n > 0 /\ u \div pace = k => RxLine = Bit(peer.byte, k - 1)
             /\ ~peer.glitch /\ peer.n > 0 /\ u >= (DataBits + 1) * pace => RxLine = 1
<1> DEFINE u == peer.n - 1
           k == u \div pace
<1>1. /\ peer.n \in Nat /\ peer.byte \in Byte /\ DataBits \in Nat \ {0}
      /\ pace \in Nat \ {0}
  <2>1. DataBits \in Nat \ {0} /\ FrameBits \in Nat
    BY UartAssumption DEF FrameBits
  <2>2. FrameBits * pace \in Nat
    BY <2>1, SMT
  <2>3. QED
    BY <2>1, <2>2 DEF PeerRegisters
<1>2. RxLine = IF peer.glitch THEN 0
               ELSE IF peer.n = 0 \/ k > DataBits THEN 1
               ELSE IF k = 0 THEN 0 ELSE Bit(peer.byte, k - 1)
  BY DEF RxLine, LineLevel
<1>3. peer.n > 0 => u \in Nat /\ k \in Nat /\ u = pace * k + (u % pace) /\ u % pace \in 0 .. pace - 1
  <2>1. peer.n > 0 => u \in Nat
    BY <1>1
  <2> HIDE DEF u
  <2>2. QED
    BY <1>1, <2>1, Divided
<1>4. peer.n > 0 /\ u >= (DataBits + 1) * pace => k > DataBits
  <2>1. SUFFICES ASSUME peer.n > 0, u >= (DataBits + 1) * pace, k <= DataBits PROVE FALSE
    BY <1>1, <1>3
  <2> DEFINE x == pace * k
             y == pace * DataBits
             r == u % pace
  <2>2. x <= y /\ x \in Nat /\ y \in Nat /\ (DataBits + 1) * pace = y + pace
    <3> HIDE DEF k
    <3>1. QED
      BY <1>1, <1>3, <2>1, SMT
  <2>3. u = x + r /\ r \in 0 .. pace - 1 /\ u \in Nat /\ u >= y + pace
    BY <1>3, <2>1, <2>2
  <2> HIDE DEF x, y, r, u, k
  <2>4. QED
    BY <1>1, <2>2, <2>3
<1>5. \A j \in 0 .. DataBits - 1 : Bit(peer.byte, j) \in {0, 1}
  BY <1>1, NextLowDigit
<1>6. RxLine \in {0, 1}
  <2>1. CASE ~peer.glitch /\ peer.n > 0 /\ k \in 1 .. DataBits
    <3>1. k - 1 \in 0 .. DataBits - 1
      BY <1>1, <2>1
    <3>2. RxLine = Bit(peer.byte, k - 1)
      BY <1>1, <1>2, <2>1
    <3>3. QED
      BY <1>5, <3>1, <3>2
  <2>2. CASE ~(~peer.glitch /\ peer.n > 0 /\ k \in 1 .. DataBits)
    <3> HIDE DEF k
    <3>1. peer.glitch \/ peer.n = 0 \/ k = 0 \/ k > DataBits
      BY <1>1, <1>3, <2>2
    <3>2. QED
      BY <1>1, <1>2, <3>1
  <2>3. QED
    BY <2>1, <2>2
<1>7. ~peer.glitch /\ peer.n > 0 /\ k = 0 => RxLine = 0
  BY <1>1, <1>2
<1>8. \A j \in 1 .. DataBits :
        ~peer.glitch /\ peer.n > 0 /\ k = j => RxLine = Bit(peer.byte, j - 1)
  BY <1>1, <1>2
<1>9. ~peer.glitch /\ peer.n > 0 /\ u >= (DataBits + 1) * pace => RxLine = 1
  BY <1>2, <1>4
<1>10. QED
  BY <1>2, <1>6, <1>7, <1>8, <1>9

(* What a cycle makes of the registers, but for rx_valid.                  *)
AfterSample(r, line) ==
  /\ rx.state = "IDLE" =>
       /\ r.count = 0 /\ r.bit = 0
       /\ r.state = IF line = 0 THEN "START" ELSE "IDLE"
  /\ rx.state = "START" =>
       IF rx.count < (CLKS_PER_BIT \div 2) - 1
         THEN r.state = "START" /\ r.count = rx.count + 1 /\ r.bit = 0
       ELSE IF line = 0 THEN r.state = "DATA_BITS" /\ r.count = 0 /\ r.bit = 0
       ELSE r.state = "IDLE"
  /\ rx.state = "DATA_BITS" =>
       IF rx.count < CLKS_PER_BIT - 1
         THEN r.state = "DATA_BITS" /\ r.count = rx.count + 1 /\ r.bit = rx.bit /\ r.shift = rx.shift
         ELSE /\ r.count = 0 /\ r.shift = WithBit(rx.shift, rx.bit, line)
              /\ IF rx.bit < DataBits - 1
                   THEN r.state = "DATA_BITS" /\ r.bit = rx.bit + 1 ELSE r.state = "STOP"
  /\ rx.state = "STOP" =>
       IF rx.count < CLKS_PER_BIT - 1
         THEN r.state = "STOP" /\ r.count = rx.count + 1 /\ r.shift = rx.shift
         ELSE r.state = "IDLE"
  /\ r.data = IF rx.state = "STOP" /\ rx.count = CLKS_PER_BIT - 1 THEN rx.shift ELSE rx.data

(* The registers stay in their ranges, and a byte is valid once a frame is *)
(* over.                                                                   *)
LEMMA NextSample ==
  ASSUME rx \in RxRegisters, rx.state = "START" => rx.bit = 0 /\ rx.count < CLKS_PER_BIT \div 2,
         NEW line \in {0, 1}
  PROVE  LET r == ReceiverNext(line)
         IN  /\ r \in RxRegisters /\ AfterSample(r, line)
             /\ r.valid = IF rx.state = "STOP" /\ rx.count = CLKS_PER_BIT - 1 THEN 1 ELSE rx.valid
<1> DEFINE r == ReceiverNext(line)
           C == CLKS_PER_BIT
           v == IF rx.state = "STOP" /\ rx.count = C - 1 THEN 1 ELSE rx.valid
           zero == [rx EXCEPT !.count = 0]
           on == [rx EXCEPT !.count = rx.count + 1]
<1>1. /\ C \in Nat /\ C >= 2 /\ DataBits \in Nat \ {0} /\ rx \in RxRegisters
      /\ rx.state \in FrameState /\ rx.count \in 0 .. C - 1 /\ rx.bit \in 0 .. DataBits - 1
      /\ rx.shift \in Byte /\ 0 \in 0 .. C - 1 /\ 0 \in 0 .. DataBits - 1
      /\ FrameState = {"IDLE", "START", "DATA_BITS", "STOP"}
  BY UartAssumption DEF RxRegisters, FrameState
<1>2. /\ zero \in RxRegisters /\ zero.count = 0 /\ zero.state = rx.state /\ zero.bit = rx.bit
      /\ zero.shift = rx.shift /\ zero.data = rx.data /\ zero.valid = rx.valid
  BY <1>1, RxField DEF RxRegisters
<1>3. rx.count < C - 1 =>
        /\ on \in RxRegisters /\ on.count = rx.count + 1 /\ on.state = rx.state
        /\ on.bit = rx.bit /\ on.shift = rx.shift /\ on.data = rx.data /\ on.valid = rx.valid
  <2>1. SUFFICES ASSUME rx.count < C - 1
                 PROVE  /\ on \in RxRegisters /\ on.count = rx.count + 1 /\ on.state = rx.state
                        /\ on.bit = rx.bit /\ on.shift = rx.shift /\ on.data = rx.data
                        /\ on.valid = rx.valid
    OBVIOUS
  <2>2. rx.count + 1 \in 0 .. C - 1
    BY <1>1, <2>1
  <2>3. on \in RxRegisters
    BY <1>1, <2>2, RxField
  <2>4. QED
    BY <1>1, <2>3 DEF RxRegisters
<1>4. CASE rx.state = "IDLE"
  <2> DEFINE s == IF line = 0 THEN "START" ELSE "IDLE"
             r1 == [zero EXCEPT !.bit = 0]
             r2 == [r1 EXCEPT !.state = s]
  <2>1. r = r2
    BY <1>1, <1>4 DEF ReceiverNext, RxRegisters
  <2>2. s \in FrameState
    BY <1>1
  <2>3. r1 \in RxRegisters
    <3> HIDE DEF zero
    <3>1. QED
      BY <1>1, <1>2, RxField
  <2>4. r2 \in RxRegisters
    <3> HIDE DEF r1, s
    <3>1. QED
      BY <2>2, <2>3, RxField
  <2>5. r2.state = s /\ r2.bit = 0 /\ r2.count = 0 /\ r2.data = rx.data /\ r2.valid = rx.valid
    BY <1>1 DEF RxRegisters
  <2> HIDE DEF r2, r
  <2>6. QED
    BY <1>4, <2>1, <2>4, <2>5 DEF AfterSample, r
<1>5. CASE rx.state = "START"
  <2>1. rx.bit = 0 /\ rx.count < C \div 2 /\ C \div 2 \in Nat /\ C \div 2 <= C - 1
    BY <1>1, <1>5, SMT
  <2>2. CASE rx.count < (C \div 2) - 1
    <3>1. r = on
      BY <1>5, <2>2 DEF ReceiverNext
    <3>2. rx.count < C - 1
      BY <1>1, <2>1, <2>2
    <3> HIDE DEF on, r
    <3>3. QED
      BY <1>3, <1>5, <2>1, <2>2, <3>1, <3>2 DEF AfterSample, r
  <2>3. CASE ~(rx.count < (C \div 2) - 1) /\ line = 0
    <3>1. r = [zero EXCEPT !.state = "DATA_BITS"]
      BY <1>5, <2>3 DEF ReceiverNext, NextBit
    <3>2. r \in RxRegisters
      <4> HIDE DEF zero, r
      <4>1. QED
        BY <1>1, <1>2, <3>1, RxField
    <3>3. /\ r.state = "DATA_BITS" /\ r.count = 0 /\ r.bit = 0 /\ r.data = rx.data
          /\ r.valid = rx.valid
      BY <1>1, <2>1, <3>1 DEF RxRegisters
    <3> HIDE DEF r
    <3>4. QED
      BY <1>5, <2>3, <3>2, <3>3 DEF AfterSample, r
  <2>4. CASE ~(rx.count < (C \div 2) - 1) /\ line # 0
    <3>1. r = [rx EXCEPT !.state = "IDLE"]
      BY <1>5, <2>4 DEF ReceiverNext
    <3>2. r \in RxRegisters
      BY <1>1, <3>1, RxField
    <3>3. r.state = "IDLE" /\ r.data = rx.data /\ r.valid = rx.valid
      BY <1>1, <3>1 DEF RxRegisters
    <3> HIDE DEF r
    <3>4. QED
      BY <1>5, <2>4, <3>2, <3>3 DEF AfterSample, r
  <2>5. QED
    BY <2>2, <2>3, <2>4
<1>6. CASE rx.state \in {"DATA_BITS", "STOP"} /\ rx.count < C - 1
  <2>1. r = on
    BY <1>6 DEF ReceiverNext, Tick
  <2>2. rx.count # C - 1
    BY <1>1, <1>6
  <2> HIDE DEF on, r
  <2>3. QED
    BY <1>3, <1>6, <2>1, <2>2 DEF AfterSample, r
<1>7. CASE rx.state = "DATA_BITS" /\ ~(rx.count < C - 1)
  <2> DEFINE x == WithBit(rx.shift, rx.bit, line)
  <2>1. x \in Byte
    BY <1>1, SampledBit
  <2>2. r = [NextBit(rx) EXCEPT !.shift = x]
    <3>1. r = [NextBit(rx) EXCEPT !.shift = WithBit(@, rx.bit, line)]
      BY <1>7 DEF ReceiverNext, Tick
    <3>2. NextBit(rx).shift = rx.shift
      <4>1. CASE rx.bit < DataBits - 1
        <5>1. NextBit(rx) = [rx EXCEPT !.count = 0, !.bit = rx.bit + 1]
          BY <1>1, <1>7, <4>1 DEF NextBit, RxRegisters
        <5>2. QED
          BY <1>1, <5>1 DEF RxRegisters
      <4>2. CASE rx.bit = DataBits - 1
        <5>1. ~(rx.bit < DataBits - 1)
          BY <1>1, <4>2
        <5>2. NextBit(rx) = [rx EXCEPT !.count = 0, !.state = "STOP"]
          BY <1>7, <4>2, <5>1 DEF NextBit
        <5>3. QED
          BY <1>1, <5>2 DEF RxRegisters
      <4>3. QED
        BY <1>1, <4>1, <4>2
    <3>3. QED
      BY <3>1, <3>2
  <2>3. CASE rx.bit < DataBits - 1
    <3> DEFINE f == [zero EXCEPT !.bit = rx.bit + 1]
    <3>1. NextBit(rx) = f
      BY <1>1, <1>7, <2>3 DEF NextBit, RxRegisters
    <3>2. rx.bit + 1 \in 0 .. DataBits - 1
      BY <1>1, <2>3
    <3>3. f \in RxRegisters
      <4> HIDE DEF zero
      <4>1. QED
        BY <1>2, <3>2, RxField
    <3>4. /\ f.state = "DATA_BITS" /\ f.count = 0 /\ f.bit = rx.bit + 1 /\ f.data = rx.data
          /\ f.valid = rx.valid
      BY <1>1, <1>7 DEF RxRegisters
    <3> HIDE DEF f, x
    <3>5. r \in RxRegisters
      BY <2>1, <2>2, <3>1, <3>3, RxField
    <3>6. /\ r.state = "DATA_BITS" /\ r.count = 0 /\ r.bit = rx.bit + 1 /\ r.data = rx.data
          /\ r.valid = rx.valid /\ r.shift = x
      BY <2>2, <3>1, <3>3, <3>4 DEF RxRegisters
    <3> HIDE DEF r
    <3>7. QED
      BY <1>7, <2>3, <3>5, <3>6 DEF AfterSample, r, x
  <2>4. CASE rx.bit = DataBits - 1
    <3> DEFINE f == [zero EXCEPT !.state = "STOP"]
    <3>1. NextBit(rx) = f
      <4>1. ~(rx.bit < DataBits - 1)
        BY <1>1, <2>4
      <4>2. NextBit(rx) = [rx EXCEPT !.count = 0, !.state = "STOP"]
        BY <1>7, <2>4, <4>1 DEF NextBit
      <4>3. QED
        BY <4>2
    <3>2. f \in RxRegisters
      <4> HIDE DEF zero
      <4>1. QED
        BY <1>1, <1>2, RxField
    <3>3. f.state = "STOP" /\ f.count = 0 /\ f.data = rx.data /\ f.valid = rx.valid
      BY <1>1 DEF RxRegisters
    <3> HIDE DEF f, x
    <3>4. r \in RxRegisters
      BY <2>1, <2>2, <3>1, <3>2, RxField
    <3>5. r.state = "STOP" /\ r.count = 0 /\ r.data = rx.data /\ r.valid = rx.valid /\ r.shift = x
      BY <2>2, <3>1, <3>2, <3>3 DEF RxRegisters
    <3>6. ~(rx.bit < DataBits - 1)
      BY <1>1, <2>4
    <3> HIDE DEF r
    <3>7. QED
      BY <1>7, <3>4, <3>5, <3>6 DEF AfterSample, r, x
  <2>5. QED
    BY <1>1, <2>3, <2>4
<1>8. CASE rx.state = "STOP" /\ ~(rx.count < C - 1)
  <2> DEFINE f == [zero EXCEPT !.state = "IDLE"]
             f1 == [f EXCEPT !.data = rx.shift]
             f2 == [f1 EXCEPT !.valid = 1]
  <2>1. NextBit(rx) = f
    BY <1>8 DEF NextBit
  <2>2. r = f2
    <3>1. r = [NextBit(rx) EXCEPT !.data = rx.shift, !.valid = 1]
      BY <1>8 DEF ReceiverNext, Tick
    <3>2. QED
      BY <2>1, <3>1
  <2>3. f2 \in RxRegisters
    <3>1. f \in RxRegisters
      <4> HIDE DEF zero
      <4>1. QED
        BY <1>1, <1>2, RxField
    <3>2. f1 \in RxRegisters
      <4> HIDE DEF f
      <4>1. QED
        BY <1>1, <3>1, RxField
    <3>3. QED
      <4> HIDE DEF f1
      <4>1. QED
        BY <3>2, RxField
  <2>4. f2.state = "IDLE" /\ f2.data = rx.shift /\ f2.valid = 1
    BY <1>1 DEF RxRegisters
  <2>5. rx.count = C - 1
    BY <1>1, <1>8
  <2> HIDE DEF f2, r
  <2>6. QED
    BY <1>8, <2>2, <2>3, <2>4, <2>5 DEF AfterSample, r
<1>9. QED
  BY <1>1, <1>4, <1>5, <1>6, <1>7, <1>8

(* and so with a read of RX_DATA in the same cycle.                        *)
LEMMA ReceiverStep ==
  ASSUME rx \in RxRegisters, rx.state = "START" => rx.bit = 0 /\ rx.count < CLKS_PER_BIT \div 2,
         NEW line \in {0, 1}, NEW read \in BOOLEAN, ReceiverEdge(line, read)
  PROVE  /\ rx' \in RxRegisters /\ AfterSample(rx', line)
         /\ rx'.valid = IF rx.state = "STOP" /\ rx.count = CLKS_PER_BIT - 1 THEN 1
                        ELSE IF read THEN 0 ELSE rx.valid
<1> DEFINE r == ReceiverNext(line)
           ends == rx.state = "STOP" /\ r.state = "IDLE"
<1>1. /\ r \in RxRegisters /\ AfterSample(r, line)
      /\ r.valid = IF rx.state = "STOP" /\ rx.count = CLKS_PER_BIT - 1 THEN 1 ELSE rx.valid
  BY NextSample
<1>2. rx' = IF read /\ ~ends THEN [r EXCEPT !.valid = 0] ELSE r
  BY DEF ReceiverEdge
<1>3. ends <=> rx.state = "STOP" /\ rx.count = CLKS_PER_BIT - 1
  <2>1. rx.count \in 0 .. CLKS_PER_BIT - 1 /\ CLKS_PER_BIT \in Nat
    BY UartAssumption DEF RxRegisters
  <2> HIDE DEF r
  <2>2. QED
    BY <1>1, <2>1 DEF AfterSample
<1> HIDE DEF r, ends
<1>4. CASE read /\ ~ends
  <2>1. rx' = [r EXCEPT !.valid = 0]
    BY <1>2, <1>4
  <2>2. rx' \in RxRegisters
    BY <1>1, <2>1, RxField
  <2>3. /\ rx'.state = r.state /\ rx'.count = r.count /\ rx'.bit = r.bit
        /\ rx'.shift = r.shift /\ rx'.data = r.data /\ rx'.valid = 0
    BY <1>1, <2>1 DEF RxRegisters
  <2>4. AfterSample(rx', line)
    BY <1>1, <2>3 DEF AfterSample
  <2>5. QED
    BY <1>3, <1>4, <2>2, <2>3, <2>4
<1>5. CASE ~(read /\ ~ends)
  BY <1>1, <1>2, <1>3, <1>5
<1>6. QED
  BY <1>4, <1>5

(* What the sender at the other end does in a cycle.                       *)
LEMMA PeerStep ==
  ASSUME peer \in PeerRegisters, pace \in Nat, pace >= 2, pace' = pace,
         NEW t \in BOOLEAN, PeerEdge(t)
  PROVE  /\ peer' \in PeerRegisters'
         /\ peer.n = 0 =>
              \/ /\ peer'.n = 0 /\ peer'.byte = peer.byte /\ peer'.unread = (peer.unread /\ ~t)
                 /\ peer'.glitch => rx.state = "IDLE" /\ ~peer.glitch /\ Listening
              \/ /\ peer'.n = 1 /\ peer'.unread /\ ~peer'.glitch /\ ~(peer.unread /\ ~t) /\ Listening
                 /\ (~peer.glitch /\ rx.state = "IDLE") \/ pace = CLKS_PER_BIT
         /\ peer.n > 0 =>
              /\ peer'.n = IF peer.n = FrameBits * pace THEN 0 ELSE peer.n + 1
              /\ peer'.byte = peer.byte /\ peer'.unread = (peer.unread /\ ~t)
              /\ peer'.glitch = peer.glitch
         /\ FrameBits * pace >= 4
<1> DEFINE e == FrameBits * pace
           u == peer.unread /\ ~t
<1>1. e \in Nat /\ e >= 4
  <2>1. FrameBits \in Nat /\ FrameBits >= 2
    BY UartAssumption DEF FrameBits
  <2>2. e \in Nat /\ e >= FrameBits * 2
    BY <2>1, SMT
  <2> HIDE DEF e
  <2>3. QED
    BY <2>1, <2>2
<1>2. peer \in [n : 0 .. e, byte : Byte, unread : BOOLEAN, glitch : BOOLEAN]
  BY DEF PeerRegisters
<1>3. PeerRegisters' = PeerRegisters
  BY DEF PeerRegisters, FrameBits
<1>4. u \in BOOLEAN
  BY <1>2
<1>5. CASE /\ peer.n = 0
           /\ \E noise \in BOOLEAN :
                /\ noise => rx.state = "IDLE" /\ ~peer.glitch /\ Listening
                /\ peer' = [peer EXCEPT !.glitch = noise, !.unread = u]
  <2>1. PICK noise \in BOOLEAN :
          /\ noise => rx.state = "IDLE" /\ ~peer.glitch /\ Listening
          /\ peer' = [peer EXCEPT !.glitch = noise, !.unread = u]
    BY <1>5
  <2> HIDE DEF u, e
  <2>2. /\ peer' \in [n : 0 .. e, byte : Byte, unread : BOOLEAN, glitch : BOOLEAN]
        /\ peer'.n = 0 /\ peer'.byte = peer.byte /\ peer'.unread = u /\ peer'.glitch = noise
    BY <1>2, <1>4, <1>5, <2>1
  <2>3. QED
    BY <1>1, <1>3, <1>5, <2>1, <2>2 DEF PeerRegisters, e, u
<1>6. CASE /\ peer.n = 0 /\ ~u /\ Listening
           /\ (~peer.glitch /\ rx.state = "IDLE") \/ pace = CLKS_PER_BIT
           /\ \E b \in Sent : peer' = [n |-> 1, byte |-> b, unread |-> TRUE, glitch |-> FALSE]
  <2>1. PICK b \in Sent : peer' = [n |-> 1, byte |-> b, unread |-> TRUE, glitch |-> FALSE]
    BY <1>6
  <2>2. b \in Byte
    BY SentAssumption
  <2> HIDE DEF u, e
  <2>3. /\ peer' \in [n : 0 .. e, byte : Byte, unread : BOOLEAN, glitch : BOOLEAN]
        /\ peer'.n = 1 /\ peer'.unread /\ ~peer'.glitch
    BY <1>1, <2>1, <2>2
  <2>4. QED
    BY <1>1, <1>3, <1>6, <2>3 DEF PeerRegisters, e, u
<1>7. CASE peer.n > 0 /\ peer' = [peer EXCEPT !.n = (@ + 1) % (e + 1), !.unread = u]
  <2> DEFINE x == (peer.n + 1) % (e + 1)
  <2>1. peer' = [peer EXCEPT !.n = x, !.unread = u]
    BY <1>2, <1>7
  <2>2. x = IF peer.n = e THEN 0 ELSE peer.n + 1
    <3> HIDE DEF e
    <3>1. CASE peer.n = e
      <4>1. (e + 1) % (e + 1) = 0
        BY <1>1, SMT
      <4>2. QED
        BY <3>1, <4>1
    <3>2. CASE peer.n # e
      <4>1. e + 1 \in Nat \ {0} /\ peer.n + 1 \in 0 .. (e + 1) - 1
        BY <1>1, <1>2, <3>2
      <4>2. QED
        BY <3>2, <4>1, Unchanged
    <3>3. QED
      BY <3>1, <3>2
  <2> HIDE DEF u, e, x
  <2>3. x \in 0 .. e
    BY <1>1, <1>2, <2>2
  <2>4. /\ peer' \in [n : 0 .. e, byte : Byte, unread : BOOLEAN, glitch : BOOLEAN]
        /\ peer'.n = x /\ peer'.byte = peer.byte /\ peer'.unread = u /\ peer'.glitch = peer.glitch
    BY <1>2, <1>4, <2>1, <2>3
  <2>5. QED
    BY <1>1, <1>3, <1>7, <2>2, <2>4 DEF PeerRegisters, e, u
<1>8. QED
  BY <1>5, <1>6, <1>7 DEF PeerEdge

(* When the receiver samples.                                              *)
LEMMA RxTimes ==
  ASSUME rx \in RxRegisters, rx.state = "START" => rx.bit = 0 /\ rx.count < CLKS_PER_BIT \div 2
  PROVE  LET C == CLKS_PER_BIT IN
         /\ rx.state = "START" =>
              /\ RxTime \in 1 .. Middle(C, 0)
              /\ RxTime = Middle(C, 0) <=> ~(rx.count < (C \div 2) - 1)
         /\ rx.state = "DATA_BITS" =>
              /\ RxTime \in Nat /\ RxTime <= Middle(C, rx.bit + 1) /\ RxTime >= 1
              /\ RxTime = Middle(C, rx.bit + 1) <=> ~(rx.count < C - 1)
         /\ rx.state = "STOP" =>
              /\ RxTime \in Nat /\ RxTime <= Middle(C, DataBits + 1) /\ RxTime >= 1
              /\ RxTime = Middle(C, DataBits + 1) <=> ~(rx.count < C - 1)
<1> DEFINE C == CLKS_PER_BIT
           h == C \div 2
<1>1. /\ C \in Nat /\ C >= 2 /\ DataBits \in Nat \ {0} /\ rx.count \in 0 .. C - 1
      /\ rx.bit \in 0 .. DataBits - 1
  BY UartAssumption DEF RxRegisters
<1>2. h \in Nat /\ h >= 1 /\ h < C
  BY <1>1, SMT
<1>3. Middle(C, 0) = h
  BY <1>1, <1>2 DEF Middle
<1>4. \A k \in Nat : Middle(C, k) \in Nat /\ Middle(C, k + 1) = Middle(C, k) + C
  <2> TAKE k \in Nat
  <2>1. k * C \in Nat /\ (k + 1) * C = k * C + C
    BY <1>1, SMT
  <2> HIDE DEF h
  <2>2. k * C + h \in Nat /\ (k + 1) * C + h = (k * C + h) + C
    <3> DEFINE x == k * C
               y == (k + 1) * C
    <3>1. x \in Nat /\ y = x + C
      BY <2>1
    <3> HIDE DEF x, y
    <3>2. x + h \in Nat /\ y + h = (x + h) + C
      BY <1>1, <1>2, <3>1
    <3>3. QED
      BY <3>2 DEF x, y
  <2>3. QED
    BY <2>2 DEF Middle, h
<1> HIDE DEF C, h
<1>5. CASE rx.state = "START"
  <2>1. RxTime = rx.count + 1
    BY <1>5 DEF RxTime
  <2>2. rx.count < h
    BY <1>5 DEF h, C
  <2>3. QED
    BY <1>1, <1>2, <1>3, <1>5, <2>1, <2>2 DEF h, C
<1>6. CASE rx.state = "DATA_BITS"
  <2> DEFINE m == Middle(C, rx.bit)
  <2>1. RxTime = m + 1 + rx.count
    BY <1>6 DEF RxTime, C
  <2>2. m \in Nat /\ Middle(C, rx.bit + 1) = m + C
    BY <1>1, <1>4
  <2> HIDE DEF m
  <2>3. QED
    BY <1>1, <1>6, <2>1, <2>2 DEF C
<1>7. CASE rx.state = "STOP"
  <2> DEFINE m == Middle(C, DataBits)
  <2>1. RxTime = m + 1 + rx.count
    BY <1>7 DEF RxTime, C
  <2>2. m \in Nat /\ Middle(C, DataBits + 1) = m + C
    BY <1>1, <1>4
  <2> HIDE DEF m
  <2>3. QED
    BY <1>1, <1>7, <2>1, <2>2 DEF C
<1>8. QED
  BY <1>5, <1>6, <1>7

(* Where the sender is when the receiver samples.                          *)
LEMMA InTheBit ==
  ASSUME pace \in Paces, NEW d \in 0 .. Early
  PROVE  LET C == CLKS_PER_BIT IN
         /\ Middle(C, 0) >= Early
         /\ \A k \in 0 .. DataBits :
              /\ Middle(C, k) - d \in Nat /\ (Middle(C, k) - d) \div pace = k
              /\ Middle(C, k) - d < (DataBits + 1) * pace
         /\ (Middle(C, DataBits + 1) - d) >= (DataBits + 1) * pace
         /\ pace = C => Middle(C, DataBits + 1) - d < FrameBits * pace
<1> DEFINE C == CLKS_PER_BIT
           h == C \div 2
           e == (DataBits + 1) * pace
<1>1. /\ C \in Nat \ {0} /\ C >= 2 /\ DataBits \in Nat \ {0}
      /\ pace \in Nat \ {0} /\ pace >= 2 /\ FrameBits = (DataBits + 1) + 1
  BY UartAssumption, PacesAssumption DEF FrameBits
<1>2. h \in Nat /\ h >= 1 /\ h < C
  BY <1>1, SMT
<1>3. e \in Nat /\ FrameBits * pace = e + pace
  BY <1>1, SMT
<1>4. Middle(C, 0) = h /\ d \in 0 .. h /\ Early \in {0, h}
  BY <1>1, <1>2 DEF Middle, Early
<1>5. \A k \in Nat : Middle(C, k) \in Nat /\ Middle(C, k) = k * C + h /\ k * C \in Nat
  <2> TAKE k \in Nat
  <2>1. k * C \in Nat
    BY <1>1, SMT
  <2>2. QED
    BY <1>2, <2>1 DEF Middle
<1>6. \A k \in 0 .. DataBits : Middle(C, k) - d \in Nat /\ (Middle(C, k) - d) \div pace = k
  <2> TAKE k \in 0 .. DataBits
  <2>1. k \in Nat /\ Middle(C, k) = k * C + h /\ k * C \in Nat
    BY <1>1, <1>5
  <2>2. Middle(C, k) - d = k * C + (h - d) /\ h - d \in 0 .. C - 1
    <3> DEFINE x == k * C
    <3>1. x \in Nat /\ Middle(C, k) = x + h
      BY <2>1
    <3> HIDE DEF x, h
    <3>2. Middle(C, k) - d = x + (h - d) /\ h - d \in 0 .. C - 1
      BY <1>1, <1>2, <1>4, <3>1
    <3>3. QED
      BY <3>2 DEF x
  <2> HIDE DEF h
  <2>3. Middle(C, k) - d \in Nat
    BY <2>1, <2>2
  <2>4. CASE pace = C
    <3>1. (k * C + (h - d)) \div C = k
      BY <1>1, <2>1, <2>2, Quotient
    <3>2. QED
      BY <2>2, <2>3, <2>4, <3>1
  <2>5. CASE pace # C
    <3>1. d = 0
      BY <2>5 DEF Early
    <3>2. Middle(C, k) - d = Middle(C, k)
      BY <1>5, <2>1, <3>1
    <3>3. QED
      BY <2>3, <3>2, PacesAssumption
  <2>6. QED
    BY <2>3, <2>4, <2>5
<1>7. \A k \in 0 .. DataBits : Middle(C, k) - d < e
  <2> TAKE k \in 0 .. DataBits
  <2> DEFINE x == Middle(C, k) - d
             r == x % pace
  <2>1. x \in Nat /\ x \div pace = k
    BY <1>6
  <2> HIDE DEF x
  <2>2. x = pace * k + r /\ r \in 0 .. pace - 1
    BY <1>1, <2>1, Divided
  <2> HIDE DEF r
  <2>3. pace * k <= pace * DataBits /\ pace * DataBits + pace = e /\ pace * k \in Nat
        /\ pace * DataBits \in Nat
    BY <1>1, SMT
  <2> DEFINE y == pace * k
             z == pace * DataBits
  <2>4. x = y + r /\ y <= z /\ z + pace = e /\ y \in Nat /\ z \in Nat
    BY <2>2, <2>3
  <2> HIDE DEF y, z, e
  <2>5. x < e
    BY <1>1, <2>2, <2>4
  <2>6. QED
    BY <2>5 DEF x
<1>8. (Middle(C, DataBits + 1) - d) >= e
  <2> DEFINE m == Middle(C, DataBits + 1)
  <2>1. m \in Nat /\ m = (DataBits + 1) * C + h /\ (DataBits + 1) * C \in Nat
    BY <1>1, <1>5
  <2>2. CASE pace = C
    <3> DEFINE x == (DataBits + 1) * C
    <3>1. x = e /\ x \in Nat /\ m = x + h
      BY <2>1, <2>2
    <3> HIDE DEF x, e, h, m
    <3>2. m - d >= e
      BY <1>2, <1>4, <3>1
    <3>3. QED
      BY <3>2 DEF m
  <2>3. CASE pace # C
    <3> DEFINE q == m \div pace
               r == m % pace
    <3>1. q >= DataBits + 1
      BY <2>3, PacesAssumption
    <3>2. m = pace * q + r /\ r \in 0 .. pace - 1 /\ q \in Nat
      <4> HIDE DEF m
      <4>1. QED
        BY <1>1, <2>1, Divided
    <3> HIDE DEF q, r
    <3>3. pace * q >= e /\ pace * q \in Nat
      BY <1>1, <3>1, <3>2, SMT
    <3>4. d = 0
      BY <2>3 DEF Early
    <3> DEFINE y == pace * q
    <3>5. y >= e /\ y \in Nat /\ m = y + r
      BY <3>2, <3>3
    <3> HIDE DEF m, y, e
    <3>6. m - d >= e
      BY <1>1, <1>3, <3>2, <3>4, <3>5
    <3>7. QED
      BY <3>6 DEF m
  <2>4. QED
    BY <2>2, <2>3
<1>9. pace = C => Middle(C, DataBits + 1) - d < FrameBits * pace
  <2> DEFINE m == Middle(C, DataBits + 1)
             x == (DataBits + 1) * C
  <2>1. m \in Nat /\ m = x + h /\ x \in Nat
    BY <1>1, <1>5
  <2>2. pace = C => e = x
    OBVIOUS
  <2> HIDE DEF m, x, e, h
  <2>3. pace = C => m - d < e + pace
    BY <1>1, <1>2, <1>4, <2>1, <2>2
  <2>4. QED
    BY <1>3, <2>3 DEF m
<1> HIDE DEF h, e
<1>10. Middle(C, 0) >= Early
  BY <1>2, <1>4
<1>11. QED
  BY <1>6, <1>7, <1>8, <1>9, <1>10 DEF e

(* A cycle of the receiver and of the line.                                *)
LEMMA AlignedStep ==
  ASSUME FrameAligned, program' = program, pace' = pace,
         NEW t \in BOOLEAN, PeerEdge(t), NEW read \in BOOLEAN, ReceiverEdge(RxLine, read)
  PROVE  FrameAligned'
<1> DEFINE C == CLKS_PER_BIT
           u == peer.n - 1
           d == RxTime - u
           e == FrameBits * pace
           x == (DataBits + 1) * pace
<1>1. /\ C \in Nat /\ C >= 2 /\ DataBits \in Nat \ {0} /\ rx \in RxRegisters
      /\ pace \in Nat /\ pace >= 2 /\ peer \in PeerRegisters
      /\ rx.state \in FrameState /\ rx.count \in 0 .. C - 1 /\ rx.bit \in 0 .. DataBits - 1
      /\ rx.shift \in Byte /\ peer.byte \in Byte /\ peer.glitch \in BOOLEAN
      /\ FrameState = {"IDLE", "START", "DATA_BITS", "STOP"}
      /\ rx.state = "START" => rx.bit = 0 /\ rx.count < C \div 2
      /\ peer.glitch => peer.n = 0 /\ rx.state = "IDLE"
  BY UartAssumption, PacesAssumption DEF FrameAligned, RxRegisters, PeerRegisters, FrameState
<1>2. peer.n \in Nat /\ peer.n <= e /\ e \in Nat /\ e = x + pace /\ x \in Nat
  <2>1. x \in Nat /\ (DataBits + 2) * pace = x + pace
    BY <1>1, SMT
  <2>2. e = x + pace /\ FrameBits = DataBits + 2
    BY <2>1 DEF FrameBits
  <2> HIDE DEF x
  <2>3. QED
    BY <1>1, <2>1, <2>2 DEF PeerRegisters
<1>3. RxLine \in {0, 1}
  BY <1>1, OnTheLine
<1>4. /\ rx' \in RxRegisters /\ AfterSample(rx', RxLine)
  BY <1>1, <1>3, ReceiverStep
<1>5. /\ peer' \in PeerRegisters'
      /\ peer.n = 0 =>
           \/ /\ peer'.n = 0 /\ peer'.byte = peer.byte
              /\ peer'.glitch => rx.state = "IDLE" /\ ~peer.glitch /\ Listening
           \/ /\ peer'.n = 1 /\ ~peer'.glitch /\ Listening
              /\ (~peer.glitch /\ rx.state = "IDLE") \/ pace = C
      /\ peer.n > 0 =>
           /\ peer'.n = IF peer.n = e THEN 0 ELSE peer.n + 1
           /\ peer'.byte = peer.byte /\ peer'.glitch = peer.glitch
      /\ e >= 4
  BY <1>1, PeerStep
<1>6. /\ Listening' <=> Listening
      /\ (pace \in Paces \cup {C})' /\ (Listening => pace \in Paces)'
  BY DEF Listening, FrameAligned
<1>7. /\ ~peer.glitch /\ peer.n = 0 => RxLine = 1
      /\ peer.glitch => RxLine = 0
      /\ ~peer.glitch /\ peer.n > 0 /\ u \div pace = 0 => RxLine = 0
      /\ \A k \in 1 .. DataBits :
           ~peer.glitch /\ peer.n > 0 /\ u \div pace = k => RxLine = Bit(peer.byte, k - 1)
      /\ ~peer.glitch /\ peer.n > 0 /\ u >= x => RxLine = 1
  BY <1>1, OnTheLine
<1>8. Early' = Early /\ Early \in Nat
  <2>1. C \div 2 \in Nat
    BY <1>1, SMT
  <2>2. QED
    BY <2>1 DEF Early
<1>9. CASE ~Listening
  <2>1. peer.n = 0 /\ ~peer.glitch /\ rx.state = "IDLE"
    BY <1>9 DEF FrameAligned
  <2>2. peer'.n = 0 /\ ~peer'.glitch
    BY <1>5, <1>9, <2>1
  <2>3. rx'.state = "IDLE"
    BY <1>4, <1>7, <2>1 DEF AfterSample
  <2>4. QED
    BY <1>4, <1>5, <1>6, <2>2, <2>3 DEF FrameAligned
<1>10. CASE Listening /\ rx.state = "IDLE" /\ peer.n = 0
  <2>1. CASE ~peer.glitch
    <3>1. rx'.state = "IDLE"
      BY <1>4, <1>7, <1>10, <2>1 DEF AfterSample
    <3>2. peer'.n \in {0, 1} /\ (peer'.glitch => peer'.n = 0)
      BY <1>5, <1>10
    <3>3. QED
      BY <1>4, <1>5, <1>6, <1>10, <3>1, <3>2 DEF FrameAligned
  <2>2. CASE peer.glitch
    <3>1. rx'.state = "START" /\ rx'.count = 0 /\ rx'.bit = 0
      BY <1>4, <1>7, <1>10, <2>2 DEF AfterSample
    <3>2. /\ ~peer'.glitch
          /\ peer'.n = 0 \/ (peer'.n = 1 /\ pace = C)
      BY <1>5, <1>10, <2>2
    <3>3. 0 < C \div 2
      BY <1>1, SMT
    <3>4. peer'.n = 1 => (RxTime - (peer.n - 1) \in 0 .. Early)'
      <4>1. RxTime' = 1
        BY <3>1 DEF RxTime
      <4>2. peer'.n = 1 => Early' >= 1
        BY <1>1, <1>8, <3>2, <3>3 DEF Early
      <4>3. QED
        BY <1>8, <4>1, <4>2
    <3>5. QED
      BY <1>4, <1>5, <1>6, <1>10, <3>1, <3>2, <3>3, <3>4 DEF FrameAligned
  <2>3. QED
    BY <2>1, <2>2
<1>11. CASE Listening /\ rx.state = "IDLE" /\ peer.n = 1
  <2>1. u = 0 /\ 0 \div pace = 0
    BY <1>1, <1>11, Below
  <2>2. ~peer.glitch /\ RxLine = 0
    BY <1>1, <1>7, <1>11, <2>1
  <2>3. rx'.state = "START" /\ rx'.count = 0 /\ rx'.bit = 0
    BY <1>4, <1>11, <2>2 DEF AfterSample
  <2>4. peer'.n = 2 /\ ~peer'.glitch
    <3> HIDE DEF e
    <3>1. QED
      BY <1>2, <1>5, <1>11, <2>2
  <2>5. 0 < C \div 2
    BY <1>1, SMT
  <2>6. (RxTime - (peer.n - 1) \in 0 .. Early)'
    <3>1. RxTime' = 1
      BY <2>3 DEF RxTime
    <3>2. QED
      BY <1>8, <2>4, <3>1
  <2>7. QED
    BY <1>4, <1>5, <1>6, <1>11, <2>3, <2>4, <2>5, <2>6 DEF FrameAligned
<1>12. CASE Listening /\ rx.state = "IDLE" /\ peer.n > 1
  <2>1. u >= x /\ ~peer.glitch
    BY <1>1, <1>12 DEF FrameAligned
  <2>2. RxLine = 1
    <3>1. peer.n > 0
      BY <1>2, <1>12
    <3> HIDE DEF x, u
    <3>2. QED
      BY <1>7, <2>1, <3>1
  <2>3. rx'.state = "IDLE"
    BY <1>4, <1>12, <2>2 DEF AfterSample
  <2>4. ~peer'.glitch /\ (peer'.n = 0 \/ peer'.n - 1 >= x)
    <3> HIDE DEF e, x
    <3>1. QED
      BY <1>2, <1>5, <1>12, <2>1
  <2>5. x' = x
    OBVIOUS
  <2>6. QED
    BY <1>4, <1>5, <1>6, <1>12, <2>3, <2>4 DEF FrameAligned
<1>13. CASE rx.state = "START" /\ peer.n = 0
  <2>1. ~peer.glitch /\ RxLine = 1
    BY <1>1, <1>7, <1>13
  <2>2. /\ ~peer'.glitch
        /\ peer'.n = 0 \/ (peer'.n = 1 /\ pace = C)
    BY <1>5, <1>13
  <2>3. CASE rx.count < (C \div 2) - 1
    <3>1. rx'.state = "START" /\ rx'.count = rx.count + 1 /\ rx'.bit = 0
      BY <1>4, <1>13, <2>3 DEF AfterSample
    <3>2. rx'.count < C \div 2 /\ rx'.count + 1 <= C \div 2 /\ C \div 2 \in Nat
      BY <1>1, <2>3, <3>1, SMT
    <3>3. peer'.n = 1 => (RxTime - (peer.n - 1) \in 0 .. Early)'
      <4>1. RxTime' = rx.count + 2
        BY <1>1, <3>1 DEF RxTime
      <4>2. peer'.n = 1 => Early' = C \div 2
        BY <1>8, <2>2 DEF Early
      <4>3. QED
        BY <1>1, <3>1, <3>2, <4>1, <4>2
    <3>4. QED
      BY <1>4, <1>5, <1>6, <1>13, <2>2, <3>1, <3>2, <3>3 DEF FrameAligned
  <2>4. CASE ~(rx.count < (C \div 2) - 1)
    <3>1. rx'.state = "IDLE"
      BY <1>4, <1>13, <2>1, <2>4 DEF AfterSample
    <3>2. QED
      BY <1>4, <1>5, <1>6, <1>13, <2>2, <3>1 DEF FrameAligned
  <2>5. QED
    BY <2>3, <2>4
<1>14. CASE rx.state = "STOP" /\ peer.n = 0
  <2>1. pace # C /\ rx.shift = peer.byte
    BY <1>14 DEF FrameAligned
  <2>2. peer'.n = 0 /\ ~peer'.glitch /\ peer'.byte = peer.byte
    BY <1>5, <1>14, <2>1
  <2>3. rx'.state = "IDLE" \/ (rx'.state = "STOP" /\ rx'.shift = rx.shift)
    BY <1>4, <1>14 DEF AfterSample
  <2>4. QED
    BY <1>4, <1>5, <1>6, <2>1, <2>2, <2>3, <1>14 DEF FrameAligned
<1>15. ASSUME rx.state # "IDLE", peer.n > 0
       PROVE  /\ Listening /\ ~peer.glitch /\ u \in Nat /\ RxTime \in Nat
              /\ d \in 0 .. Early /\ u = RxTime - d /\ pace \in Paces
  <2>1. Listening /\ ~peer.glitch /\ u \in Nat /\ d \in 0 .. Early
    BY <1>1, <1>2, <1>15 DEF FrameAligned
  <2>2. pace \in Paces
    BY <2>1 DEF FrameAligned
  <2>3. RxTime \in Nat
    BY <1>1, <1>15, RxTimes
  <2>4. QED
    BY <1>8, <2>1, <2>2, <2>3
<1>16. ASSUME rx.state # "IDLE", peer.n > 0, peer.n # e,
              rx'.state # "IDLE" => RxTime' = RxTime + 1
       PROVE  /\ peer'.n = peer.n + 1 /\ ~peer'.glitch /\ peer'.byte = peer.byte
              /\ rx'.state # "IDLE" => (RxTime - (peer.n - 1) \in 0 .. Early)'
  <2>1. peer'.n = peer.n + 1 /\ peer'.byte = peer.byte /\ ~peer'.glitch
    BY <1>5, <1>15, <1>16
  <2>2. ASSUME rx'.state # "IDLE" PROVE (RxTime - (peer.n - 1) \in 0 .. Early)'
    <3>1. RxTime' = RxTime + 1 /\ d \in 0 .. Early /\ RxTime \in Nat
      BY <1>15, <1>16, <2>2
    <3>2. (RxTime - (peer.n - 1))' = d
      BY <1>2, <2>1, <3>1
    <3> HIDE DEF d
    <3>3. QED
      BY <1>8, <3>1, <3>2
  <2>3. QED
    BY <2>1, <2>2
<1>17. ASSUME rx.state # "IDLE", peer.n > 0, NEW k \in 0 .. DataBits, RxTime <= Middle(C, k)
       PROVE  peer.n # e /\ (RxTime = Middle(C, k) => u \div pace = k)
  <2> DEFINE m == Middle(C, k)
  <2>1. m - d \in Nat /\ (m - d) \div pace = k /\ m - d < x
    <3>1. d \in 0 .. Early /\ pace \in Paces
      BY <1>15, <1>17
    <3> HIDE DEF d
    <3>2. QED
      BY <3>1, InTheBit
  <2>2. RxTime \in Nat /\ u = RxTime - d /\ d \in Nat
    BY <1>8, <1>15, <1>17
  <2>3. RxTime = m => u \div pace = k
    BY <2>1, <2>2
  <2>4. m \in Nat
    BY <1>1, <1>17, SMT DEF Middle
  <2>5. u < x
    <3> HIDE DEF x, m, u, d
    <3>1. RxTime <= m
      BY <1>17 DEF m
    <3>2. QED
      BY <1>2, <2>1, <2>2, <2>4, <3>1
  <2>6. peer.n # e
    <3> HIDE DEF x, e
    <3>1. QED
      BY <1>1, <1>2, <2>5
  <2>7. QED
    BY <2>3, <2>6
<1>18. CASE rx.state = "START" /\ peer.n > 0
  <2>1. RxTime <= Middle(C, 0) /\ (RxTime = Middle(C, 0) <=> ~(rx.count < (C \div 2) - 1))
    BY <1>1, <1>18, RxTimes
  <2>2. 0 \in 0 .. DataBits
    BY <1>1
  <2>3. peer.n # e /\ (RxTime = Middle(C, 0) => u \div pace = 0)
    BY <1>17, <1>18, <2>1, <2>2
  <2>4. RxTime = rx.count + 1
    BY <1>18 DEF RxTime
  <2>5. CASE rx.count < (C \div 2) - 1
    <3>1. rx'.state = "START" /\ rx'.count = rx.count + 1 /\ rx'.bit = 0
      BY <1>4, <1>18, <2>5 DEF AfterSample
    <3>2. rx'.count < C \div 2
      BY <1>1, <2>5, <3>1, SMT
    <3>3. RxTime' = RxTime + 1
      BY <1>1, <2>4, <3>1 DEF RxTime
    <3>4. peer'.n = peer.n + 1 /\ ~peer'.glitch /\ (RxTime - (peer.n - 1) \in 0 .. Early)'
      BY <1>16, <1>18, <2>3, <3>1, <3>3
    <3>5. QED
      BY <1>4, <1>5, <1>6, <1>15, <1>18, <3>1, <3>2, <3>4 DEF FrameAligned
  <2>6. CASE ~(rx.count < (C \div 2) - 1)
    <3>1. RxLine = 0
      BY <1>7, <1>15, <1>18, <2>1, <2>3, <2>6
    <3>2. rx'.state = "DATA_BITS" /\ rx'.count = 0 /\ rx'.bit = 0
      BY <1>4, <1>18, <2>6, <3>1 DEF AfterSample
    <3>3. RxTime' = RxTime + 1
      <4>1. RxTime = Middle(C, 0) /\ RxTime \in Nat
        BY <1>15, <1>18, <2>1, <2>6
      <4>2. RxTime' = Middle(C, 0) + 1 + 0
        BY <3>2 DEF RxTime
      <4>3. QED
        BY <4>1, <4>2
    <3>4. /\ peer'.n = peer.n + 1 /\ ~peer'.glitch /\ peer'.byte = peer.byte
          /\ (RxTime - (peer.n - 1) \in 0 .. Early)'
      BY <1>16, <1>18, <2>3, <3>2, <3>3
    <3>5. (rx.shift % 2^rx.bit = peer.byte % 2^rx.bit)'
      <4>1. \A n \in Nat : n % 1 = 0
        BY SMT
      <4>2. rx'.shift \in Nat /\ peer'.byte \in Nat
        BY <1>1, <1>4, <3>4, UartAssumption DEF RxRegisters, Byte
      <4>3. 2^0 = 1
        BY UartAssumption
      <4>4. QED
        BY <3>2, <4>1, <4>2, <4>3, Zenon
    <3>6. peer'.n > 0
      BY <1>2, <3>4
    <3>7. QED
      BY <1>4, <1>5, <1>6, <1>15, <1>18, <3>2, <3>4, <3>5, <3>6 DEF FrameAligned
  <2>7. QED
    BY <2>5, <2>6
<1>19. CASE rx.state = "DATA_BITS"
  <2> DEFINE k == rx.bit + 1
  <2>1. peer.n > 0 /\ rx.shift % 2^rx.bit = peer.byte % 2^rx.bit
    BY <1>19 DEF FrameAligned
  <2>2. RxTime <= Middle(C, k) /\ (RxTime = Middle(C, k) <=> ~(rx.count < C - 1))
    BY <1>1, <1>19, RxTimes
  <2>3. k \in 0 .. DataBits /\ k \in 1 .. DataBits /\ k - 1 = rx.bit
    BY <1>1
  <2>4. peer.n # e /\ (RxTime = Middle(C, k) => u \div pace = k)
    <3> HIDE DEF k
    <3>1. QED
      BY <1>17, <1>19, <2>1, <2>2, <2>3
  <2>5. RxTime = Middle(C, rx.bit) + 1 + rx.count
    BY <1>19 DEF RxTime
  <2>6. CASE rx.count < C - 1
    <3>1. /\ rx'.state = "DATA_BITS" /\ rx'.count = rx.count + 1 /\ rx'.bit = rx.bit
          /\ rx'.shift = rx.shift
      BY <1>4, <1>19, <2>6 DEF AfterSample
    <3>2. RxTime' = RxTime + 1
      <4> DEFINE m == Middle(C, rx.bit)
      <4>1. RxTime' = m + 1 + (rx.count + 1) /\ RxTime = m + 1 + rx.count
        BY <2>5, <3>1 DEF RxTime
      <4>2. m \in Nat
        BY <1>1, SMT DEF Middle
      <4> HIDE DEF m
      <4>3. QED
        BY <1>1, <4>1, <4>2
    <3>3. /\ peer'.n = peer.n + 1 /\ ~peer'.glitch /\ peer'.byte = peer.byte
          /\ (RxTime - (peer.n - 1) \in 0 .. Early)'
      BY <1>16, <1>19, <2>1, <2>4, <3>1, <3>2
    <3>4. peer'.n > 0 /\ (rx.shift % 2^rx.bit = peer.byte % 2^rx.bit)'
      BY <1>2, <2>1, <3>1, <3>3
    <3>5. QED
      BY <1>4, <1>5, <1>6, <1>15, <1>19, <2>1, <3>1, <3>3, <3>4 DEF FrameAligned
  <2>7. CASE ~(rx.count < C - 1)
    <3> DEFINE y == WithBit(rx.shift, rx.bit, RxLine)
    <3>1. RxTime = Middle(C, k) /\ RxLine = Bit(peer.byte, rx.bit)
      <4>1. RxTime = Middle(C, k) /\ u \div pace = k
        BY <2>2, <2>4, <2>7
      <4>2. RxLine = Bit(peer.byte, k - 1)
        <5> HIDE DEF k
        <5>1. QED
          BY <1>7, <1>15, <1>19, <2>1, <2>3, <4>1
      <4>3. QED
        BY <2>3, <4>1, <4>2
    <3>2. y % 2^k = peer.byte % 2^k /\ y \in Byte
      BY <1>1, <1>3, <2>1, <3>1, SampledBit
    <3>3. /\ rx'.count = 0 /\ rx'.shift = y
          /\ IF rx.bit < DataBits - 1 THEN rx'.state = "DATA_BITS" /\ rx'.bit = k
                                      ELSE rx'.state = "STOP"
      BY <1>4, <1>19, <2>7 DEF AfterSample
    <3> HIDE DEF y
    <3>4. rx'.state # "IDLE" /\ RxTime' = RxTime + 1
      <4>1. RxTime \in Nat
        BY <1>15, <1>19, <2>1
      <4>2. CASE rx.bit < DataBits - 1
        <5>1. RxTime' = Middle(C, k) + 1 + 0 /\ rx'.state # "IDLE"
          BY <3>3, <4>2 DEF RxTime
        <5>2. QED
          BY <3>1, <4>1, <5>1
      <4>3. CASE ~(rx.bit < DataBits - 1)
        <5>1. RxTime' = Middle(C, DataBits) + 1 + 0 /\ rx'.state # "IDLE" /\ k = DataBits
          BY <1>1, <3>3, <4>3 DEF RxTime
        <5>2. QED
          BY <3>1, <4>1, <5>1
      <4>4. QED
        BY <4>2, <4>3
    <3>5. /\ peer'.n = peer.n + 1 /\ ~peer'.glitch /\ peer'.byte = peer.byte
          /\ (RxTime - (peer.n - 1) \in 0 .. Early)'
      BY <1>16, <1>19, <2>1, <2>4, <3>4
    <3>6. peer'.n > 0
      BY <1>2, <3>5
    <3>7. CASE rx.bit < DataBits - 1
      <4>1. (rx.shift % 2^rx.bit = peer.byte % 2^rx.bit)'
        BY <3>2, <3>3, <3>5, <3>7
      <4>2. QED
        BY <1>4, <1>5, <1>6, <1>15, <1>19, <2>1, <3>3, <3>5, <3>6, <3>7, <4>1 DEF FrameAligned
    <3>8. CASE ~(rx.bit < DataBits - 1)
      <4>1. k = DataBits
        BY <1>1, <3>8
      <4>2. y = peer.byte
        <5>1. \A z \in Byte : z % 2^DataBits = z
          BY UartAssumption, Unchanged DEF Byte
        <5>2. y % 2^DataBits = peer.byte % 2^DataBits /\ y \in Byte
          BY <3>2, <4>1
        <5>3. QED
          BY <1>1, <5>1, <5>2
      <4>3. rx'.shift = peer'.byte
        BY <3>3, <3>5, <4>2
      <4>4. QED
        BY <1>4, <1>5, <1>6, <1>15, <1>19, <2>1, <3>3, <3>5, <3>6, <3>8, <4>3 DEF FrameAligned
    <3>9. QED
      BY <3>7, <3>8
  <2>8. QED
    BY <2>6, <2>7
<1>20. CASE rx.state = "STOP" /\ peer.n > 0
  <2> DEFINE m == Middle(C, DataBits + 1)
  <2>1. rx.shift = peer.byte
    BY <1>20 DEF FrameAligned
  <2>2. RxTime \in Nat /\ RxTime <= m /\ (RxTime = m <=> ~(rx.count < C - 1))
    BY <1>1, <1>20, RxTimes
  <2>3. u \in Nat /\ d \in Nat /\ u = RxTime - d /\ Listening /\ ~peer.glitch
    BY <1>8, <1>15, <1>20
  <2>4. m - d >= x /\ (pace = C => m - d < e)
    <3>1. d \in 0 .. Early /\ pace \in Paces
      BY <1>15, <1>20
    <3> HIDE DEF d
    <3>2. QED
      BY <3>1, InTheBit
  <2>5. m \in Nat
    BY <1>1, SMT DEF Middle
  <2>6. CASE rx.count < C - 1
    <3>1. rx'.state = "STOP" /\ rx'.count = rx.count + 1 /\ rx'.shift = rx.shift
      BY <1>4, <1>20, <2>6 DEF AfterSample
    <3>2. CASE peer.n # e
      <4>1. RxTime' = RxTime + 1
        <5> DEFINE z == Middle(C, DataBits)
        <5>1. RxTime' = z + 1 + (rx.count + 1) /\ RxTime = z + 1 + rx.count
          BY <1>20, <3>1 DEF RxTime
        <5>2. z \in Nat
          BY <1>1, SMT DEF Middle
        <5> HIDE DEF z
        <5>3. QED
          BY <1>1, <5>1, <5>2
      <4>2. /\ peer'.n = peer.n + 1 /\ ~peer'.glitch /\ peer'.byte = peer.byte
            /\ (RxTime - (peer.n - 1) \in 0 .. Early)'
        BY <1>16, <1>20, <3>1, <3>2, <4>1
      <4>3. rx'.shift = peer'.byte /\ peer'.n > 0
        BY <1>2, <2>1, <3>1, <4>2
      <4>4. QED
        BY <1>4, <1>5, <1>6, <2>3, <3>1, <4>2, <4>3 DEF FrameAligned
    <3>3. CASE peer.n = e
      <4>1. pace # C
        <5>1. RxTime <= m - 1
          <6> HIDE DEF m
          <6>1. QED
            BY <2>2, <2>5, <2>6
        <5>2. pace = C => u < e - 1
          <6> HIDE DEF m, u, d, e
          <6>1. QED
            BY <1>2, <2>2, <2>3, <2>4, <2>5, <5>1
        <5>3. u = e - 1
          BY <3>3
        <5> HIDE DEF u, e
        <5>4. QED
          BY <1>2, <5>2, <5>3
      <4>2. peer'.n = 0 /\ peer'.byte = peer.byte /\ ~peer'.glitch
        BY <1>5, <1>20, <2>3, <3>3
      <4>3. rx'.shift = peer'.byte
        BY <2>1, <3>1, <4>2
      <4>4. QED
        BY <1>4, <1>5, <1>6, <2>3, <3>1, <4>1, <4>2, <4>3 DEF FrameAligned
    <3>4. QED
      BY <3>2, <3>3
  <2>7. CASE ~(rx.count < C - 1)
    <3>1. rx'.state = "IDLE"
      BY <1>4, <1>20, <2>7 DEF AfterSample
    <3>2. u >= x
      BY <2>2, <2>3, <2>4, <2>7
    <3>3. ~peer'.glitch /\ (peer'.n = 0 \/ peer'.n - 1 >= x)
      <4> HIDE DEF e, x
      <4>1. QED
        BY <1>2, <1>5, <1>20, <2>3, <3>2
    <3>4. QED
      BY <1>4, <1>5, <1>6, <2>3, <3>1, <3>3 DEF FrameAligned
  <2>8. QED
    BY <2>6, <2>7
<1>21. QED
  BY <1>1, <1>2, <1>9, <1>10, <1>11, <1>12, <1>13, <1>14, <1>18, <1>19, <1>20

(* A frame is on its way to the receiver.                                  *)
InFlight == peer.n = 1 \/ (peer.n > 1 /\ rx.state # "IDLE") \/ rx.state = "STOP"

(* The byte sent is in a frame, or it is valid, or being read.             *)
ByteInv ==
  /\ InFlight => peer.unread
  /\ peer.unread => Listening
  /\ rx.valid = 1 => peer.unread /\ ~InFlight
  /\ peer.unread /\ ~InFlight =>
       /\ rx.data = peer.byte
       /\ rx.valid = 1 \/ \E c \in Cores : Loads(c, Base.uart + RX_DATA)
  /\ polled => peer.unread /\ ~InFlight

(* The driver loads RX_DATA only when it was told of a byte, past its L1,  *)
(* and the port's answer is to this load and is the byte.                  *)
DriverInv ==
  /\ \A c \in Cores : Loads(c, Base.uart + RX_DATA) =>
       /\ polled /\ (l1st[c] = "IDLE" => ~Hit(l1[c], req[c].addr))
       /\ l1st[c] = "FETCH" /\ uartPort.ready => c \in asked
       /\ c \in asked => uartPort.data = peer.byte
  /\ \A c \in asked : Loads(c, Base.uart + STATUS) /\ uartPort.data >= 2 => rx.valid = 1

RxInv == FrameAligned /\ ByteInv /\ DriverInv

(* A start bit that a sender has begun is not taken for noise, and the     *)
(* frame is not over by then.                                              *)
LEMMA StartSeen ==
  ASSUME FrameAligned, rx.state = "START", peer.n > 0
  PROVE  /\ AfterSample(rx', RxLine) => rx'.state # "IDLE"
         /\ peer.n # FrameBits * pace
<1> DEFINE C == CLKS_PER_BIT
           u == peer.n - 1
           d == RxTime - u
           m == Middle(C, 0)
           x == (DataBits + 1) * pace
<1>1. /\ pace \in Paces /\ pace \in Nat /\ pace >= 2 /\ ~peer.glitch /\ d \in 0 .. Early
      /\ peer \in PeerRegisters
  BY PacesAssumption DEF FrameAligned
<1>2. /\ RxTime \in Nat /\ RxTime <= m
      /\ RxTime = m <=> ~(rx.count < (C \div 2) - 1)
  <2>1. /\ RxTime \in 1 .. m
        /\ RxTime = m <=> ~(rx.count < (C \div 2) - 1)
    BY RxTimes DEF FrameAligned
  <2>2. m \in Nat
    BY UartAssumption, SMT DEF Middle
  <2> HIDE DEF m
  <2>3. QED
    BY <2>1, <2>2
<1>3. (m - d) \div pace = 0 /\ m - d < x
  <2>1. 0 \in 0 .. DataBits
    BY UartAssumption
  <2> HIDE DEF d
  <2>2. QED
    BY <1>1, <2>1, InTheBit
<1>4. u \in Nat /\ peer.n = u + 1 /\ x \in Nat /\ FrameBits * pace = x + pace
  <2>1. FrameBits * pace \in Nat /\ x \in Nat /\ (DataBits + 2) * pace = x + pace
    BY <1>1, UartAssumption, SMT DEF FrameBits
  <2>2. u \in Nat /\ peer.n = u + 1
    BY <1>1, <2>1 DEF PeerRegisters
  <2>3. QED
    BY <2>1, <2>2 DEF FrameBits
<1>5. ASSUME AfterSample(rx', RxLine) PROVE rx'.state # "IDLE"
  <2>1. SUFFICES ASSUME ~(rx.count < (C \div 2) - 1) PROVE RxLine = 0
    BY <1>5 DEF AfterSample
  <2>2. m - d = u
    <3> HIDE DEF m, u
    <3>1. QED
      BY <1>2, <1>4, <2>1
  <2>3. QED
    BY <1>1, <1>3, <2>2, OnTheLine
<1>6. peer.n # FrameBits * pace
  <2>1. m \in Nat
    BY UartAssumption, SMT DEF Middle
  <2>2. u < x
    <3>1. d \in Nat /\ u = RxTime - d
      <4>1. Early \in Nat
        BY UartAssumption, SMT DEF Early
      <4>2. u = RxTime - d
        <5> HIDE DEF u
        <5>1. QED
          BY <1>2, <1>4
      <4> HIDE DEF d
      <4>3. QED
        BY <1>1, <4>1, <4>2
    <3> HIDE DEF m, u, x, d
    <3>2. QED
      BY <1>2, <1>3, <1>4, <2>1, <3>1
  <2> HIDE DEF u, x
  <2>3. QED
    BY <1>1, <1>4, <2>2
<1>7. QED
  BY <1>5, <1>6

(* A frame on its way goes on, or it is over and its byte is valid; none   *)
(* comes up but from the sender.                                           *)
LEMMA FlightStep ==
  ASSUME FrameAligned, program' = program, pace' = pace,
         NEW t \in BOOLEAN, PeerEdge(t), NEW read \in BOOLEAN, ReceiverEdge(RxLine, read)
  PROVE  /\ peer'.n # 1 => peer'.byte = peer.byte /\ peer'.unread = (peer.unread /\ ~t)
         /\ peer'.n = 1 => peer'.unread /\ Listening /\ ~(peer.unread /\ ~t)
         /\ ~InFlight => /\ InFlight' => peer'.n = 1
                         /\ rx'.data = rx.data
                         /\ rx'.valid = IF read THEN 0 ELSE rx.valid
         /\ InFlight => /\ peer'.n # 1
                        /\ \/ InFlight' /\ rx'.valid = IF read THEN 0 ELSE rx.valid
                           \/ ~InFlight' /\ rx'.valid = 1 /\ rx'.data = peer.byte
<1> DEFINE C == CLKS_PER_BIT
           e == FrameBits * pace
           x == (DataBits + 1) * pace
           ends == rx.state = "STOP" /\ rx.count = C - 1
<1>1. /\ C \in Nat /\ DataBits \in Nat \ {0} /\ rx \in RxRegisters /\ rx.count \in 0 .. C - 1
      /\ pace \in Nat /\ pace >= 2 /\ peer \in PeerRegisters
      /\ rx.state \in {"IDLE", "START", "DATA_BITS", "STOP"}
      /\ rx.state = "START" => rx.bit = 0 /\ rx.count < C \div 2
      /\ rx.state = "DATA_BITS" => peer.n > 0
      /\ rx.state = "STOP" => rx.shift = peer.byte /\ (peer.n = 0 => pace # C)
  BY UartAssumption, PacesAssumption DEF FrameAligned, RxRegisters, FrameState
<1>2. /\ x \in Nat /\ x >= 2 /\ e \in Nat /\ peer.n \in Nat
  <2>1. x \in Nat /\ x >= pace /\ e \in Nat
    BY <1>1, SMT DEF FrameBits
  <2> HIDE DEF x, e
  <2>2. peer.n \in 0 .. e
    BY <1>1 DEF PeerRegisters, e
  <2>3. QED
    BY <1>1, <2>1, <2>2
<1>3. RxLine \in {0, 1} /\ (~peer.glitch /\ peer.n = 0 => RxLine = 1)
  BY <1>1, OnTheLine
<1>4. /\ AfterSample(rx', RxLine)
      /\ rx'.valid = IF ends THEN 1 ELSE IF read THEN 0 ELSE rx.valid
  BY <1>1, <1>3, ReceiverStep
<1>5. /\ peer.n = 0 =>
           \/ peer'.n = 0 /\ peer'.byte = peer.byte /\ peer'.unread = (peer.unread /\ ~t)
           \/ /\ peer'.n = 1 /\ peer'.unread /\ ~(peer.unread /\ ~t) /\ Listening
              /\ (~peer.glitch /\ rx.state = "IDLE") \/ pace = C
      /\ peer.n > 0 =>
           /\ peer'.n = IF peer.n = e THEN 0 ELSE peer.n + 1
           /\ peer'.byte = peer.byte /\ peer'.unread = (peer.unread /\ ~t)
      /\ e >= 4
  BY <1>1, PeerStep
<1>6. FrameAligned'
  BY AlignedStep
<1>7. /\ peer'.n # 1 => peer'.byte = peer.byte /\ peer'.unread = (peer.unread /\ ~t)
      /\ peer'.n = 1 => peer'.unread /\ Listening /\ ~(peer.unread /\ ~t)
      /\ peer'.n = 1 => peer.n = 0
  <2> HIDE DEF e, x
  <2>1. QED
    BY <1>2, <1>5
<1>8. rx'.data = IF ends THEN rx.shift ELSE rx.data
  BY <1>4 DEF AfterSample
<1>9. ASSUME ~InFlight PROVE InFlight' => peer'.n = 1
  <2>1. /\ peer.n = 0 \/ (peer.n > 1 /\ rx.state = "IDLE")
        /\ rx.state \in {"IDLE", "START"}
    <3> HIDE DEF e, x
    <3>1. QED
      BY <1>1, <1>2, <1>9 DEF InFlight
  <2>2. rx'.state # "STOP"
    BY <1>1, <1>4, <2>1 DEF AfterSample
  <2>3. CASE peer.n = 0
    <3>1. peer'.n \in {0, 1}
      BY <1>5, <2>3
    <3>2. QED
      BY <2>2, <3>1 DEF InFlight
  <2>4. CASE peer.n > 1 /\ rx.state = "IDLE"
    <3>1. peer.n - 1 >= x /\ ~peer.glitch
      BY <2>4 DEF FrameAligned
    <3>2. RxLine = 1
      <4>1. peer.n > 0
        BY <1>2, <2>4
      <4> HIDE DEF x
      <4>2. QED
        BY <1>1, <3>1, <4>1, OnTheLine DEF x
    <3>3. rx'.state = "IDLE"
      BY <2>4, <1>4, <3>2 DEF AfterSample
    <3>4. QED
      BY <2>2, <3>3 DEF InFlight
  <2>5. QED
    BY <2>1, <2>3, <2>4
<1>10. ASSUME InFlight
       PROVE  /\ peer'.n # 1
              /\ IF ends THEN ~InFlight' ELSE InFlight'
  <2>1. peer'.n # 1
    BY <1>1, <1>5, <1>7, <1>10 DEF InFlight
  <2>2. CASE ends
    <3>1. rx'.state = "IDLE"
      BY <1>1, <1>4, <2>2 DEF AfterSample
    <3>2. QED
      BY <2>1, <2>2, <3>1 DEF InFlight
  <2>3. CASE rx.state = "STOP" /\ ~ends
    <3>1. rx'.state = "STOP"
      BY <1>1, <1>4, <2>3 DEF AfterSample
    <3>2. QED
      BY <2>1, <2>3, <3>1 DEF InFlight
  <2>4. CASE rx.state = "DATA_BITS"
    <3>1. rx'.state \in {"DATA_BITS", "STOP"}
      BY <1>1, <1>4, <2>4 DEF AfterSample
    <3>2. rx'.state = "DATA_BITS" => peer'.n > 1
      <4>1. rx'.state = "DATA_BITS" => peer'.n > 0
        BY <1>6 DEF FrameAligned
      <4> HIDE DEF e
      <4>2. QED
        BY <1>1, <1>2, <1>5, <2>4, <4>1
    <3>3. QED
      BY <2>1, <2>4, <3>1, <3>2 DEF InFlight
  <2>5. CASE rx.state \in {"IDLE", "START"}
    <3>1. peer.n = 1 \/ (peer.n > 1 /\ rx.state = "START")
      BY <1>10, <2>5 DEF InFlight
    <3>2. rx.state = "IDLE" => rx'.state # "IDLE"
      <4>1. SUFFICES ASSUME rx.state = "IDLE" PROVE rx'.state # "IDLE"
        OBVIOUS
      <4>2. peer.n = 1
        BY <3>1, <4>1
      <4>3. ~peer.glitch
        BY <4>2 DEF FrameAligned
      <4>4. 0 \div pace = 0 /\ peer.n - 1 = 0 /\ peer.n > 0
        BY <1>1, <4>2, Below
      <4>5. RxLine = 0
        BY <1>1, <4>3, <4>4, OnTheLine
      <4>6. QED
        BY <1>4, <4>1, <4>5 DEF AfterSample
    <3>3. rx.state = "START" => rx'.state # "IDLE"
      <4>1. peer.n > 0
        BY <1>2, <3>1
      <4>2. QED
        BY <1>4, <4>1, StartSeen
    <3>4. peer'.n > 1
      <4>1. rx.state = "START" => peer.n # e
        BY <1>2, <3>1, StartSeen
      <4> HIDE DEF e
      <4>2. QED
        BY <1>2, <1>5, <2>5, <3>1, <4>1
    <3>5. rx'.state # "IDLE"
      BY <2>5, <3>2, <3>3
    <3>6. ~ends
      BY <2>5
    <3>7. QED
      BY <2>1, <3>4, <3>5, <3>6 DEF InFlight
  <2>6. QED
    BY <1>1, <2>2, <2>3, <2>4, <2>5
<1>11. ends => InFlight /\ rx.shift = peer.byte
  BY <1>1 DEF InFlight
<1> HIDE DEF ends
<1>12. QED
  BY <1>4, <1>7, <1>8, <1>9, <1>10, <1>11

(* A load of RX_DATA or of STATUS on its way.                              *)
LEMMA RxAccess ==
  ASSUME CoresInv, NEW c \in Cores, NEW r \in {RX_DATA, STATUS}, Loads(c, Base.uart + r)
  PROVE  /\ InWindow("uart", req[c].byte) /\ req[c].byte \in Nat /\ "uart" \in Devices
         /\ Used("uart") /\ req[c].op # "none" /\ req[c] \in Code(c)
         /\ req[c].addr = (Base.uart + r) \div 8
         /\ r = RX_DATA => Listening
<1>1. /\ req[c].op = "read" /\ req[c].byte = Base.uart + r /\ "uart" \in Devices
      /\ r \in {4, 8}
  BY DEF Loads, Devices, Base, RX_DATA, STATUS
<1>2. InWindow("uart", req[c].byte) /\ req[c].byte \in Nat
  BY <1>1 DEF InWindow, Base, WindowSize
<1>3. /\ Used("uart") /\ req[c] \in Code(c) /\ req[c] = Load(Base.uart + r)
  BY <1>1, <1>2, Instruction
<1>4. req[c].addr = (Base.uart + r) \div 8
  BY <1>3 DEF Load
<1>5. r = RX_DATA => Listening
  BY <1>3 DEF CoresInv, Code, Listening, Listeners, Running
<1>6. QED
  BY <1>1, <1>2, <1>3, <1>4, <1>5

(* A program that listens is one that uses the UART, from one core.        *)
LEMMA OneDriver ==
  ASSUME CoresInv, Listening
  PROVE  /\ Used("uart")
         /\ \A c, d \in Cores :
              /\ req[c].op # "none" /\ InWindow("uart", req[c].byte)
              /\ req[d].op # "none" /\ InWindow("uart", req[d].byte)
              => c = d
<1>1. PICK c \in Cores : Load(Base.uart + RX_DATA) \in Programs[program][c]
  BY DEF Listening, Listeners, Running
<1>2. Used("uart")
  <2>1. /\ Load(Base.uart + RX_DATA).op # "none" /\ "uart" \in Devices
        /\ InWindow("uart", Load(Base.uart + RX_DATA).byte)
    BY DEF Load, InWindow, Base, WindowSize, RX_DATA, Devices
  <2>2. program \in DOMAIN Programs
    BY DEF CoresInv
  <2>3. QED
    BY <1>1, <2>1, <2>2 DEF Used, Accesses
<1>3. ASSUME NEW a \in Cores, NEW b \in Cores,
             req[a].op # "none", InWindow("uart", req[a].byte),
             req[b].op # "none", InWindow("uart", req[b].byte)
      PROVE  a = b
  <2>1. /\ req[a] \in Programs[program][a] /\ req[b] \in Programs[program][b]
    BY <1>3, Instruction DEF Code
  <2>2. QED
    BY <1>3, <2>1, DriverAssumption DEF Listening
<1>4. QED
  BY <1>2, <1>3

(* Who reads or writes the UART is a core whose access is to it.           *)
LEMMA UartUser ==
  ASSUME CoresInv, NEW g \in Cores, Reads(g, "uart") \/ Writes(g, "uart")
  PROVE  /\ Bus!Requesting(g) /\ req[g].op # "none" /\ InWindow("uart", req[g].byte)
         /\ Reads(g, "uart") /\ Offset(g, "uart") = RX_DATA => Loads(g, Base.uart + RX_DATA)
<1>1. Bus!Requesting(g) /\ InWindow("uart", req[g].byte)
  BY DEF Reads, Writes, Selected, Bus!Requesting
<1>2. Bus!L1Request(g).op = req[g].op /\ req[g].op # "none" /\ req[g].byte \in Nat
  BY <1>1, RequestOf, Instruction
<1>3. Reads(g, "uart") /\ Offset(g, "uart") = RX_DATA => Loads(g, Base.uart + RX_DATA)
  BY <1>2 DEF Reads, Offset, Loads, Base, RX_DATA
<1>4. QED
  BY <1>1, <1>2, <1>3

(* A load of RX_DATA that ends is answered, and the UART sees it as a      *)
(* read.                                                                   *)
LEMMA RxAnswered ==
  ASSUME CoresInv, DriverInv, NEW g \in Cores, NEW c \in Cores, Loads(c, Base.uart + RX_DATA)
  PROVE  /\ CoreReady(g, c) => c = g /\ RxTaken(g) /\ uartPort.ready /\ l1st[g] = "FETCH"
         /\ l1st[c] = "FETCH" => c \in Cores /\ Bus!Requesting(c) /\ Reads(c, "uart") /\ Offset(c, "uart") = RX_DATA
<1>1. /\ req[c].op = "read" /\ req[c].byte = Base.uart + RX_DATA
      /\ l1st[c] = "IDLE" => ~Hit(l1[c], req[c].addr)
      /\ l1st[c] = "FETCH" /\ uartPort.ready => c \in asked
      /\ l1st[c] \in {"IDLE", "FETCH"}
  BY DEF Loads, DriverInv, CoresInv, State
<1>2. /\ InWindow("uart", req[c].byte) /\ "uart" \in Devices
      /\ \A d \in Devices : InWindow(d, req[c].byte) => d = "uart"
  BY RxAccess, WindowsApart
<1>3. ASSUME l1st[c] = "FETCH"
      PROVE  Bus!Requesting(c) /\ Selected(c, "uart") /\ Reads(c, "uart") /\ Offset(c, "uart") = RX_DATA
  <2>1. Bus!L1Request(c).op = "read"
    BY <1>3 DEF Bus!L1Request, Bus!Downstream
  <2>2. Bus!Requesting(c) /\ Selected(c, "uart")
    BY <1>2, <2>1 DEF Bus!Requesting, Selected, AddrValid
  <2>3. QED
    BY <1>1, <2>1, <2>2 DEF Reads, Offset, Base, RX_DATA
<1>4. ASSUME CoreReady(g, c)
      PROVE  c = g /\ RxTaken(g) /\ uartPort.ready /\ l1st[g] = "FETCH"
  <2>1. l1st[c] = "FETCH"
    BY <1>1, <1>4 DEF CoreReady, Ready
  <2>2. c = g /\ SlaveReady(g)
    BY <1>4, <2>1 DEF CoreReady, Ready, BusReady
  <2>3. Bus!Requesting(g) /\ Selected(g, "uart")
    BY <1>3, <2>1, <2>2
  <2>4. uartPort.ready
    BY <1>2, <2>2, <2>3 DEF SlaveReady, Port
  <2>5. ~LeftOver(g)
    BY <1>1, <2>1, <2>2, <2>4 DEF LeftOver
  <2>6. QED
    BY <1>4, <2>1, <2>2, <2>3, <2>4, <2>5 DEF RxTaken, Answered
<1>5. QED
  BY <1>3, <1>4

(* What a cycle makes of the receiver, in a program that uses the UART.    *)
LEMMA RxCycle ==
  ASSUME FrameAligned, NEW g \in Cores, Cycle(g), Used("uart")
  PROVE  LET read == Reads(g, "uart") /\ Offset(g, "uart") = RX_DATA
         IN  /\ ReceiverEdge(RxLine, read) /\ PeerEdge(RxTaken(g))
             /\ program' = program /\ pace' = pace
             /\ uartPort'.ready => Reads(g, "uart") \/ Writes(g, "uart")
             /\ rx.valid = 1 /\ ~read => rx'.valid = 1
<1> DEFINE read == Reads(g, "uart") /\ Offset(g, "uart") = RX_DATA
<1>1. /\ UartEdge(Writes(g, "uart"), Reads(g, "uart"), Offset(g, "uart"), req[g].data, RxLine)
      /\ PeerEdge(RxTaken(g)) /\ program' = program /\ pace' = pace
  BY DEF Cycle, UartCycle
<1>2. ReceiverEdge(RxLine, read)
  BY <1>1 DEF UartEdge
<1>3. uartPort'.ready => Reads(g, "uart") \/ Writes(g, "uart")
  BY <1>1 DEF UartEdge
<1>4. rx.valid = 1 /\ ~read => rx'.valid = 1
  <2>1. RxLine \in {0, 1}
    BY PacesAssumption, UartAssumption, OnTheLine DEF FrameAligned
  <2>2. read \in BOOLEAN
    OBVIOUS
  <2> HIDE DEF read
  <2>3. QED
    BY <1>2, <2>1, <2>2, ReceiverStep DEF FrameAligned
<1>5. QED
  BY <1>1, <1>2, <1>3, <1>4

(* The driver is told of a byte only when one waits to be read.            *)
LEMMA Told ==
  ASSUME PInv, ByteInv, DriverInv, NEW g \in Cores, Cycle(g), polled'
  PROVE  ~RxTaken(g) /\ peer.unread /\ ~InFlight
<1>1. polled' = IF RxTaken(g) THEN FALSE ELSE IF Polls(g) THEN Loaded(g, g) >= 2 ELSE polled
  BY DEF Cycle, GhostEdge
<1>2. CASE ~Polls(g)
  BY <1>1, <1>2 DEF ByteInv
<1>3. CASE Polls(g)
  <2>1. Loads(g, Base.uart + STATUS) /\ Answered(g, g) /\ req[g].op = "read" /\ CoresInv
    BY <1>3 DEF Polls, Loads, PInv
  <2>2. g \in asked /\ l1st[g] = "FETCH"
    BY <2>1, AnswerOf DEF PInv, CoresInv, State
  <2>3. Loaded(g, g) = uartPort.data
    <3>1. PICK d \in Devices : InWindow(d, req[g].byte) /\ SlaveData(g) = Port[d].data
      BY <2>1, AnswerOf
    <3>2. d = "uart"
      BY <2>1, <3>1, RxAccess, WindowsApart
    <3>3. QED
      BY <2>2, <3>1, <3>2 DEF Loaded, ReadData, Port
  <2>4. rx.valid = 1
    BY <1>1, <1>3, <2>1, <2>2, <2>3 DEF DriverInv
  <2>5. QED
    BY <1>1, <2>4 DEF ByteInv
<1>4. QED
  BY <1>2, <1>3

(* A byte that waits for the driver stays the one the sender sent.         *)
LEMMA WaitingByte ==
  ASSUME FrameAligned, ByteInv, NEW g \in Cores, Cycle(g), Used("uart"),
         peer.unread, ~RxTaken(g), ~InFlight
  PROVE  /\ peer'.byte = peer.byte /\ peer'.unread /\ ~InFlight'
         /\ rx'.data = peer.byte /\ rx.data = peer.byte
<1> DEFINE t == RxTaken(g)
           read == Reads(g, "uart") /\ Offset(g, "uart") = RX_DATA
<1>1. /\ ReceiverEdge(RxLine, read) /\ PeerEdge(t) /\ program' = program /\ pace' = pace
      /\ t \in BOOLEAN /\ read \in BOOLEAN
  <2>1. t \in BOOLEAN /\ read \in BOOLEAN
    BY DEF RxTaken
  <2>2. QED
    BY <2>1, RxCycle
<1>2. ~t /\ rx.data = peer.byte
  BY DEF ByteInv
<1> HIDE DEF t, read
<1>3. QED
  BY <1>1, <1>2, FlightStep

(* A cycle of the byte that was sent.                                      *)
LEMMA ByteStep ==
  ASSUME PInv, FrameAligned, ByteInv, DriverInv, NEW g \in Cores, Cycle(g), Used("uart")
  PROVE  FrameAligned' /\ ByteInv'
<1> DEFINE t == RxTaken(g)
           read == Reads(g, "uart") /\ Offset(g, "uart") = RX_DATA
           u == peer.unread /\ ~t
<1>1. /\ ReceiverEdge(RxLine, read) /\ PeerEdge(t) /\ program' = program /\ pace' = pace
      /\ t \in BOOLEAN /\ read \in BOOLEAN
  <2>1. t \in BOOLEAN /\ read \in BOOLEAN
    BY DEF RxTaken
  <2>2. QED
    BY <2>1, RxCycle
<1>2. CoresInv /\ (Listening' <=> Listening)
  BY <1>1 DEF PInv, Listening
<1>3. t => peer.unread /\ ~InFlight /\ read
  <2>1. SUFFICES ASSUME t PROVE peer.unread /\ ~InFlight /\ read
    OBVIOUS
  <2>2. Loads(g, Base.uart + RX_DATA) /\ CoreReady(g, g)
    BY <2>1 DEF RxTaken, Answered
  <2>3. polled /\ l1st[g] = "FETCH"
    BY <1>2, <2>2, RxAnswered DEF DriverInv
  <2>4. QED
    BY <1>2, <2>2, <2>3, RxAnswered DEF ByteInv
<1>4. \A c \in Cores : Loads(c, Base.uart + RX_DATA) /\ ~t => Loads(c, Base.uart + RX_DATA)'
  <2>1. SUFFICES ASSUME NEW c \in Cores, Loads(c, Base.uart + RX_DATA), ~t
                 PROVE  Loads(c, Base.uart + RX_DATA)'
    OBVIOUS
  <2>2. ~CoreReady(g, c)
    BY <1>2, <2>1, RxAnswered
  <2>3. req'[c] = req[c]
    BY <2>2 DEF Cycle, CoreEdge
  <2>4. QED
    BY <2>1, <2>3 DEF Loads
<1>5. read => Loads(g, Base.uart + RX_DATA)
  BY <1>2, UartUser
<1>6. polled' => ~t /\ peer.unread /\ ~InFlight
  BY Told
<1>7. rx.valid \in {0, 1}
  BY DEF FrameAligned, RxRegisters
<1> HIDE DEF t, read
<1>8. FrameAligned'
  BY <1>1, AlignedStep
<1>9. /\ peer'.n # 1 => peer'.byte = peer.byte /\ peer'.unread = u
      /\ peer'.n = 1 => peer'.unread /\ Listening /\ ~u
      /\ ~InFlight => /\ InFlight' => peer'.n = 1
                      /\ rx'.data = rx.data /\ rx'.valid = IF read THEN 0 ELSE rx.valid
      /\ InFlight => /\ peer'.n # 1
                     /\ \/ InFlight' /\ rx'.valid = IF read THEN 0 ELSE rx.valid
                        \/ ~InFlight' /\ rx'.valid = 1 /\ rx'.data = peer.byte
      /\ peer'.n = 1 => InFlight'
  <2>1. peer'.n = 1 => InFlight'
    BY DEF InFlight
  <2>2. QED
    BY <1>1, <2>1, FlightStep
<1>10. CASE InFlight
  <2>1. peer.unread /\ ~t /\ Listening /\ rx.valid = 0 /\ ~polled'
    BY <1>3, <1>6, <1>7, <1>10 DEF ByteInv
  <2>2. peer'.byte = peer.byte /\ peer'.unread
    BY <1>9, <1>10, <2>1
  <2>3. CASE InFlight'
    <3>1. rx'.valid = 0
      BY <1>9, <1>10, <2>1, <2>3
    <3>2. QED
      BY <1>2, <1>8, <2>1, <2>2, <2>3, <3>1 DEF ByteInv
  <2>4. CASE ~InFlight'
    <3>1. rx'.valid = 1 /\ rx'.data = peer'.byte
      BY <1>9, <1>10, <2>2, <2>4
    <3>2. QED
      BY <1>2, <1>8, <2>1, <2>2, <2>4, <3>1 DEF ByteInv
  <2>5. QED
    BY <2>3, <2>4
<1>11. CASE ~InFlight /\ u
  <2>1. peer.unread /\ ~t /\ Listening /\ rx.data = peer.byte
    BY <1>11 DEF ByteInv
  <2>2. peer'.n # 1 /\ ~InFlight' /\ peer'.unread /\ peer'.byte = peer.byte /\ rx'.data = peer.byte
    BY <1>9, <1>11, <2>1
  <2>3. rx'.valid = 1 \/ \E c \in Cores : Loads(c, Base.uart + RX_DATA)'
    <3>1. CASE rx.valid = 1 /\ ~read
      BY <1>9, <1>11, <3>1
    <3>2. CASE read
      BY <1>4, <1>5, <2>1, <3>2
    <3>3. CASE rx.valid # 1
      BY <1>4, <1>11, <2>1, <3>3 DEF ByteInv
    <3>4. QED
      BY <3>1, <3>2, <3>3
  <2>4. QED
    BY <1>2, <1>8, <2>1, <2>2, <2>3 DEF ByteInv
<1>12. CASE ~InFlight /\ ~u
  <2>1. rx'.valid = 0 /\ ~polled'
    <3>1. CASE t
      BY <1>3, <1>6, <1>9, <1>12, <3>1
    <3>2. CASE ~t
      BY <1>6, <1>7, <1>9, <1>12, <3>2 DEF ByteInv
    <3>3. QED
      BY <3>1, <3>2
  <2>2. CASE peer'.n = 1
    BY <1>2, <1>8, <1>9, <2>1, <2>2 DEF ByteInv
  <2>3. CASE peer'.n # 1
    <3>1. ~InFlight' /\ ~peer'.unread
      BY <1>9, <1>12, <2>3
    <3>2. QED
      BY <1>8, <2>1, <3>1 DEF ByteInv
  <2>4. QED
    BY <2>2, <2>3
<1>13. QED
  BY <1>10, <1>11, <1>12

(* A cycle of the driver.                                                  *)
LEMMA DriverStep ==
  ASSUME PInv, FrameAligned, ByteInv, DriverInv, NEW g \in Cores, Cycle(g), Used("uart")
  PROVE  DriverInv'
<1> DEFINE a == Base.uart + RX_DATA
           s == Base.uart + STATUS
<1>1. /\ CoresInv /\ program' = program
      /\ uartPort'.ready => Reads(g, "uart") \/ Writes(g, "uart")
      /\ RX_DATA \in {RX_DATA, STATUS} /\ STATUS \in {RX_DATA, STATUS}
      /\ a = 268435460 /\ s = 268435464
  BY RxCycle DEF PInv, Base, RX_DATA, STATUS
<1>2. /\ asked' = IF Bus!Requesting(g) /\ ~CoreReady(g, g) THEN {g} ELSE {}
      /\ polled' = IF RxTaken(g) THEN FALSE ELSE IF Polls(g) THEN Loaded(g, g) >= 2 ELSE polled
      /\ CoreEdge(g)
  BY DEF Cycle, GhostEdge
<1>3. \A c \in Cores : /\ ~CoreReady(g, c) => req'[c] = req[c]
                       /\ CoreReady(g, c) => req'[c] \in Code(c) /\ Follows(c, req'[c])
                       /\ l1st'[c] = NextState(l1st[c], l1[c], req[c], BusReady(g, c))
  BY <1>2 DEF CoreEdge
<1>4. ASSUME NEW c \in Cores, Loads(c, a), ~CoreReady(g, c),
             req[g].op # "none", InWindow("uart", req[g].byte)
      PROVE  c = g
  BY <1>1, <1>4, RxAccess, OneDriver
<1>5. ASSUME NEW c \in asked'
      PROVE  /\ c = g /\ Bus!Requesting(g) /\ ~CoreReady(g, g) /\ req'[g] = req[g]
  BY <1>2, <1>3, <1>5
<1>6. ASSUME NEW c \in asked', NEW r \in {RX_DATA, STATUS}, Loads(c, Base.uart + r)
      PROVE  uartPort'.data = UartRead(r)
  <2>1. c = g /\ Bus!Requesting(g) /\ ~CoreReady(g, g)
    BY <1>5, <1>6
  <2>2. InWindow("uart", req[g].byte) /\ "uart" \in Devices /\ req[g].byte = Base.uart + r /\ req[g].op = "read"
    BY <1>1, <1>6, <2>1, RxAccess DEF Loads
  <2>3. Port["uart"].data' = RegisterValue(Base.uart + r)
    BY <1>1, <2>1, <2>2, PortStep
  <2>4. RegisterValue(Base.uart + r) = UartRead(r)
    <3>1. Base.uart + r \in Nat /\ (Base.uart + r) - Base.uart = r
      BY DEF Base, RX_DATA, STATUS
    <3>2. QED
      BY <2>2, <3>1, RegisterOf
  <2>5. QED
    BY <2>3, <2>4 DEF Port
<1>7. ASSUME NEW c \in Cores, Loads(c, a)', CoreReady(g, c)
      PROVE  /\ polled' /\ (l1st[c] = "IDLE" => ~Hit(l1[c], req[c].addr))'
             /\ l1st'[c] # "FETCH" /\ c \notin asked'
  <2>1. req'[c] \in Programs[program][c] /\ program \in DOMAIN Programs
    BY <1>1, <1>3, <1>7 DEF CoresInv, Code
  <2>2. req'[c].op = "read" /\ req'[c].byte = a
    BY <1>7 DEF Loads
  <2>3. req'[c] = Load(a)
    <3>1. req'[c] \in {Load(req'[c].byte), Store(req'[c].byte, req'[c].data), Other(req'[c].byte)}
      BY <2>1, ProgramsAssumption
    <3>2. QED
      BY <2>2, <3>1 DEF Load, Store, Other
  <2>4. Listening
    BY <2>1, <2>3 DEF Listening, Listeners, Running
  <2>5. InWindow("uart", req'[c].byte)
    BY <1>1, <2>2 DEF InWindow, Base, WindowSize
  <2>6. a = IF Hit(l1'[c], Wanted \div 8) THEN Evictor(Wanted) ELSE Wanted
    BY <1>3, <1>7, <2>2, <2>4, <2>5 DEF Follows
  <2>7. Wanted = IF polled' THEN a ELSE s
    BY DEF Wanted
  <2>8. polled' /\ ~Hit(l1'[c], a \div 8)
    BY <1>1, <2>6, <2>7 DEF Evictor
  <2>9. req'[c].addr = a \div 8
    BY <2>3 DEF Load
  <2>10. l1st'[c] # "FETCH"
    BY <1>1, <1>3, <1>7 DEF CoresInv, CoreReady, Ready, NextState, State
  <2>11. c \notin asked'
    BY <1>5, <1>7
  <2>12. QED
    BY <2>8, <2>9, <2>10, <2>11 DEF Hit
<1>8. ASSUME NEW c \in Cores, Loads(c, a)', ~CoreReady(g, c)
      PROVE  /\ Loads(c, a) /\ polled' /\ l1st'[c] = "FETCH" /\ ~RxTaken(g)
             /\ uartPort'.ready => c \in asked'
             /\ c \in asked' => uartPort'.data = peer'.byte
  <2>1. Loads(c, a)
    BY <1>3, <1>8 DEF Loads
  <2>2. polled /\ (l1st[c] = "IDLE" => ~Hit(l1[c], req[c].addr)) /\ Listening
    BY <1>1, <2>1, RxAccess DEF DriverInv
  <2>3. ~RxTaken(g) /\ ~Polls(g)
    <3>1. ASSUME NEW r \in {RX_DATA, STATUS}, Loads(g, Base.uart + r), Answered(g, g) PROVE FALSE
      <4>1. c = g
        BY <1>1, <1>4, <1>8, <2>1, <3>1, RxAccess
      <4>2. QED
        BY <1>8, <3>1, <4>1 DEF Answered
    <3>2. QED
      BY <3>1 DEF RxTaken, Polls
  <2>4. polled'
    BY <1>2, <2>2, <2>3
  <2>5. l1st'[c] = "FETCH"
    BY <1>1, <1>3, <1>8, <2>1, <2>2 DEF CoresInv, CoreReady, Ready, NextState, State, Loads
  <2>6. uartPort'.ready => c \in asked'
    <3>1. SUFFICES ASSUME uartPort'.ready PROVE c \in asked'
      OBVIOUS
    <3>2. Bus!Requesting(g) /\ req[g].op # "none" /\ InWindow("uart", req[g].byte)
      BY <1>1, <3>1, UartUser
    <3>3. c = g
      BY <1>4, <1>8, <2>1, <3>2
    <3>4. QED
      BY <1>2, <1>8, <3>2, <3>3
  <2>7. c \in asked' => uartPort'.data = peer'.byte
    <3>1. SUFFICES ASSUME c \in asked' PROVE uartPort'.data = peer'.byte
      OBVIOUS
    <3>2. uartPort'.data = rx.data
      BY <1>1, <1>6, <2>1, <3>1 DEF UartRead
    <3>3. rx.data = peer.byte /\ peer'.byte = peer.byte
      BY <2>2, <2>3, WaitingByte DEF ByteInv
    <3>4. QED
      BY <3>2, <3>3
  <2>8. QED
    BY <2>1, <2>3, <2>4, <2>5, <2>6, <2>7
<1>9. ASSUME NEW c \in asked', Loads(c, s)', uartPort'.data >= 2
      PROVE  rx'.valid = 1
  <2>1. Loads(c, s) /\ c = g
    BY <1>5, <1>9 DEF Loads
  <2>2. uartPort'.data = 2 * rx.valid + TxReady
    BY <1>1, <1>6, <1>9, <2>1 DEF UartRead, RX_DATA, STATUS
  <2>3. rx.valid = 1
    BY <1>9, <2>2 DEF FrameAligned, RxRegisters, TxReady
  <2>4. ~(Reads(g, "uart") /\ Offset(g, "uart") = RX_DATA)
    BY <1>1, <2>1, UartUser DEF Loads
  <2>5. QED
    BY <2>3, <2>4, RxCycle
<1> HIDE DEF a, s
<1>10. QED
  BY <1>7, <1>8, <1>9 DEF DriverInv, a, s

(* A cycle of a program that does not use the UART.                        *)
LEMMA NoUart ==
  ASSUME CoresInv, RxInv, NEW g \in Cores, Cycle(g), ~Used("uart")
  PROVE  RxInv'
<1>1. ~Listening /\ \A c \in Cores, r \in {RX_DATA, STATUS} : ~Loads(c, Base.uart + r)
  BY OneDriver, RxAccess
<1>2. /\ rx' = rx /\ pace' = pace /\ program' = program /\ PeerEdge(RxTaken(g))
      /\ ~Listening'
  BY <1>1 DEF Cycle, UartCycle, Listening
<1>3. ~RxTaken(g) /\ ~Polls(g)
  BY <1>1 DEF RxTaken, Polls
<1>4. /\ FrameAligned /\ peer.n = 0 /\ ~peer.glitch /\ rx.state = "IDLE" /\ peer \in PeerRegisters
      /\ ~peer.unread /\ rx.valid # 1 /\ ~polled
  BY <1>1 DEF RxInv, FrameAligned, ByteInv
<1>5. peer' = [peer EXCEPT !.glitch = FALSE, !.unread = FALSE]
  <2> DEFINE waiting == peer.unread /\ ~RxTaken(g)
  <2>1. PICK noise \in BOOLEAN :
          /\ noise => rx.state = "IDLE" /\ ~peer.glitch /\ Listening
          /\ peer' = [peer EXCEPT !.glitch = noise, !.unread = waiting]
    <3>1. ~(peer.n > 0)
      BY <1>4
    <3>2. QED
      BY <1>1, <1>2, <3>1, Zenon DEF PeerEdge
  <2>2. noise = FALSE /\ (peer.unread /\ ~RxTaken(g)) = FALSE
    BY <1>1, <1>4, <2>1
  <2>3. QED
    BY <2>1, <2>2
<1>6. peer' \in PeerRegisters' /\ peer'.n = 0 /\ ~peer'.glitch /\ ~peer'.unread
  BY <1>2, <1>4, <1>5 DEF PeerRegisters, FrameBits
<1>7. ~polled'
  BY <1>3, <1>4 DEF Cycle, GhostEdge
<1>8. FrameAligned'
  BY <1>2, <1>4, <1>6 DEF FrameAligned
<1>9. ByteInv'
  BY <1>2, <1>4, <1>6, <1>7 DEF ByteInv, InFlight
<1>10. \A c \in Cores, r \in {RX_DATA, STATUS} : ~Loads(c, Base.uart + r)'
  <2>1. CoresInv'
    BY CoresStep
  <2>2. ~Used("uart")'
    BY <1>2 DEF Used
  <2>3. ASSUME NEW c \in Cores, NEW r \in {RX_DATA, STATUS}, Loads(c, Base.uart + r)'
        PROVE  FALSE
    <3>1. req'[c].op = "read" /\ InWindow("uart", req'[c].byte) /\ "uart" \in Devices
      BY <2>3 DEF Loads, InWindow, Base, WindowSize, RX_DATA, STATUS, Devices
    <3>2. req'[c] \in Programs[program][c] /\ program \in DOMAIN Programs
      BY <1>2, <2>1, <3>1 DEF CoresInv, Code, Other
    <3>3. QED
      BY <1>2, <2>2, <3>1, <3>2 DEF Used, Accesses
  <2>4. QED
    BY <2>3
<1>11. asked' \subseteq Cores
  BY DEF Cycle, GhostEdge
<1>12. DriverInv'
  <2>1. RX_DATA \in {RX_DATA, STATUS} /\ STATUS \in {RX_DATA, STATUS}
    OBVIOUS
  <2>2. QED
    BY <1>10, <1>11, <2>1 DEF DriverInv
<1>13. QED
  BY <1>8, <1>9, <1>12 DEF RxInv

(* At reset nobody has sent or asked for anything.                         *)
LEMMA RxInitInv == Init => RxInv
<1> SUFFICES ASSUME Init PROVE RxInv
  OBVIOUS
<1>1. /\ rx = [state |-> "IDLE", count |-> 0, bit |-> 0, shift |-> 0, data |-> 0, valid |-> 0]
      /\ peer = [n |-> 0, byte |-> 0, unread |-> FALSE, glitch |-> FALSE]
      /\ asked = {} /\ polled = FALSE /\ \A c \in Cores : req[c].op = "none"
      /\ pace \in IF Used("uart") THEN Paces ELSE {CLKS_PER_BIT}
  BY DEF Init, UartInit, Other
<1>2. pace \in Paces \cup {CLKS_PER_BIT} /\ (Listening => pace \in Paces)
  BY <1>1, InitInv, OneDriver DEF PInv
<1>3. pace \in Nat /\ pace >= 2 /\ CLKS_PER_BIT \in Nat /\ CLKS_PER_BIT >= 2 /\ DataBits \in Nat \ {0}
  BY <1>2, PacesAssumption, UartAssumption
<1>4. 0 \in Byte
  BY UartAssumption DEF Byte
<1>5. peer \in PeerRegisters
  <2>1. 0 \in 0 .. FrameBits * pace
    BY <1>3, SMT DEF FrameBits
  <2>2. QED
    BY <1>1, <1>4, <2>1 DEF PeerRegisters
<1>6. rx \in RxRegisters
  BY <1>1, <1>3, <1>4 DEF RxRegisters, FrameState
<1>7. FrameAligned
  BY <1>1, <1>2, <1>5, <1>6 DEF FrameAligned
<1>8. ByteInv
  BY <1>1 DEF ByteInv, InFlight
<1>9. DriverInv
  BY <1>1 DEF DriverInv, Loads
<1>10. QED
  BY <1>7, <1>8, <1>9 DEF RxInv

(* The invariant of the receiver, of its sender and of its driver.         *)
THEOREM RxInvariance == Spec => []RxInv
<1>1. ASSUME PInv, RxInv, [Next]_vars
      PROVE  RxInv'
  <2>1. CASE Next
    <3>1. PICK g \in Cores : Cycle(g)
      BY <2>1 DEF Next
    <3>2. CASE Used("uart")
      BY <1>1, <3>1, <3>2, ByteStep, DriverStep DEF RxInv
    <3>3. CASE ~Used("uart")
      BY <1>1, <3>1, <3>3, NoUart DEF PInv
    <3>4. QED
      BY <3>2, <3>3
  <2>2. CASE UNCHANGED vars
    <3>1. /\ rx' = rx /\ peer' = peer /\ pace' = pace /\ program' = program
          /\ req' = req /\ l1st' = l1st /\ l1' = l1 /\ uartPort' = uartPort
          /\ asked' = asked /\ polled' = polled
      BY <2>2 DEF vars, coreVars, busVars, deviceVars, outside, ghosts
    <3>2. FrameAligned'
      BY <1>1, <3>1 DEF RxInv, FrameAligned, RxTime, Early, Listening, PeerRegisters
    <3>3. ByteInv'
      BY <1>1, <3>1 DEF RxInv, ByteInv, InFlight, Listening, Loads
    <3>4. DriverInv'
      BY <1>1, <3>1 DEF RxInv, DriverInv, Loads
    <3>5. QED
      BY <3>2, <3>3, <3>4 DEF RxInv
  <2>3. QED
    BY <1>1, <2>1, <2>2
<1>2. QED
  BY PortInvariance, RxInitInv, <1>1, PTL DEF Spec

(* A byte sent is not lost before it is read, whatever noise came before   *)
(* it and however far apart the two clocks are within PacesAssumption.     *)
THEOREM BytesWait == Spec => []ByteWaits
<1>1. RxInv => ByteWaits
  BY DEF RxInv, ByteInv, InFlight, ByteWaits
<1>2. QED
  BY RxInvariance, <1>1, PTL

(* A load of RX_DATA that is answered gets the byte sent, and only a byte  *)
(* that was not read before.                                               *)
THEOREM BytesReadOnce == Spec => ByteReadOnce
<1>1. ASSUME PInv, RxInv
      PROVE  \A g \in Cores : Bus!Granted(g) /\ RxTaken(g) =>
               peer.unread /\ Loaded(g, g) = peer.byte
  <2>1. SUFFICES ASSUME NEW g \in Cores, RxTaken(g)
                 PROVE  peer.unread /\ Loaded(g, g) = peer.byte
    OBVIOUS
  <2>2. /\ Loads(g, Base.uart + RX_DATA) /\ Answered(g, g) /\ CoreReady(g, g)
        /\ req[g].op = "read" /\ CoresInv /\ ByteInv /\ DriverInv
    BY <1>1, <2>1 DEF RxTaken, Answered, Loads, PInv, RxInv
  <2>3. polled /\ g \in asked /\ l1st[g] = "FETCH" /\ uartPort.data = peer.byte
    BY <1>1, <2>2, AnswerOf, RxAnswered DEF DriverInv
  <2>4. Loaded(g, g) = uartPort.data
    <3>1. PICK d \in Devices : InWindow(d, req[g].byte) /\ SlaveData(g) = Port[d].data
      BY <1>1, <2>2, AnswerOf
    <3>2. d = "uart"
      BY <2>2, <3>1, RxAccess, WindowsApart
    <3>3. QED
      BY <2>3, <3>1, <3>2 DEF Loaded, ReadData, Port
  <2>5. QED
    BY <2>2, <2>3, <2>4 DEF ByteInv
<1>2. QED
  BY PortInvariance, RxInvariance, <1>1, PTL DEF ByteReadOnce

-----------------------------------------------------------------------------
(* Types                                                                   *)

(* Registers, ports and lines hold words of their widths.                  *)
WordsInv ==
  /\ uartPort \in [ready : BOOLEAN, data : Byte \cup 0 .. 3]
  /\ spiPort \in [ready : BOOLEAN, data : CtrlWord \cup SpiWord]
  /\ clintPort \in [ready : BOOLEAN, data : Time]
  /\ GpioTypeOK /\ level \in {0, 1}
  /\ l1 \in [Cores -> Lines] /\ seen \in [Cores -> SUBSET Vals]
  /\ landed \in [Cores -> BOOLEAN] /\ serving \in BOOLEAN /\ polled \in BOOLEAN
  /\ odd \in BOOLEAN

(* All that a type can be concluded from.                                  *)
TypesInv == PInv /\ ClintInv /\ SpiInv /\ TxInv /\ RxInv /\ WordsInv

(* What a load reads of each peripheral.                                   *)
LEMMA Readings ==
  ASSUME TypesInv, NEW a \in Nat
  PROVE  /\ UartRead(a) \in Byte \cup 0 .. 3
         /\ SpiRead(a) \in CtrlWord \cup SpiWord
         /\ ClintRead(a) \in Time
         /\ GpioRead(a, level) \in {0, 1}
<1>1. UartRead(a) \in Byte \cup 0 .. 3
  <2>1. /\ rx.data \in Byte /\ rx.valid \in {0, 1} /\ TxReady \in {0, 1}
    BY DEF TypesInv, RxInv, FrameAligned, RxRegisters, TxReady
  <2>2. 2 * rx.valid + TxReady \in 0 .. 3 /\ 0 \in 0 .. 3
    BY <2>1
  <2>3. QED
    BY <2>1, <2>2 DEF UartRead
<1>2. SpiRead(a) \in CtrlWord \cup SpiWord
  <2>1. /\ spi.ctrl \in CtrlWord /\ spi.rx \in SpiWord /\ spi.busy \in {0, 1}
        /\ spiPort.data \in CtrlWord \cup SpiWord
    BY DEF TypesInv, SpiInv, SpiRegisters, WordsInv
  <2>2. {0, 1} \subseteq CtrlWord
    <3>1. 2^16 \in Nat /\ 2^16 >= 2
      BY SMT
    <3>2. QED
      BY <3>1 DEF CtrlWord
  <2>3. QED
    BY <2>1, <2>2 DEF SpiRead
<1>3. ClintRead(a) \in Time
  <2>1. 0 \in Time
    BY ClintAssumption DEF Time
  <2>2. clint \in [mtime : Time, mtimecmp : [Hart -> Time], msip : [Hart -> Time]]
    BY DEF TypesInv, ClintInv
  <2>3. InMtimecmp(a) => HartOf(a, MTIMECMP, 8) \in Hart
    BY RegisterOwner
  <2>4. InMsip(a) => HartOf(a, MSIP, 4) \in Hart
    BY RegisterOwner
  <2>5. QED
    BY <2>1, <2>2, <2>3, <2>4 DEF ClintRead
<1>4. GpioRead(a, level) \in {0, 1}
  BY DEF TypesInv, WordsInv, GpioTypeOK, GpioRead, Pin
<1>5. QED
  BY <1>1, <1>2, <1>3, <1>4

(* An access that a peripheral sees is one of a core to it.                *)
LEMMA DeviceUser ==
  ASSUME CoresInv, NEW g \in Cores, NEW d \in Devices, Reads(g, d) \/ Writes(g, d)
  PROVE  /\ InWindow(d, req[g].byte) /\ Offset(g, d) \in Nat
         /\ Writes(g, d) => req[g].op = "write"
<1>1. Bus!Requesting(g) /\ InWindow(d, req[g].byte)
  BY DEF Reads, Writes, Selected, Bus!Requesting
<1>2. Bus!L1Request(g).op = req[g].op /\ req[g].byte \in Nat
  BY <1>1, RequestOf, Instruction
<1>3. Offset(g, d) \in Nat
  BY <1>1, <1>2, SMT DEF Offset, InWindow, Base, Devices
<1>4. QED
  BY <1>1, <1>2, <1>3 DEF Writes

(* What a cycle leaves in the ports and in the GPIO.                       *)
LEMMA PortTypes ==
  ASSUME TypesInv, NEW g \in Cores, Cycle(g)
  PROVE  /\ uartPort' \in [ready : BOOLEAN, data : Byte \cup 0 .. 3]
         /\ spiPort' \in [ready : BOOLEAN, data : CtrlWord \cup SpiWord]
         /\ clintPort' \in [ready : BOOLEAN, data : Time]
         /\ GpioTypeOK' /\ level' \in {0, 1}
<1>1. CoresInv /\ WordsInv
  BY DEF TypesInv, PInv
<1>2. {"uart", "spi", "clint", "gpio"} = Devices
  BY DEF Devices, Base
<1>3. uartPort' \in [ready : BOOLEAN, data : Byte \cup 0 .. 3]
  <2> DEFINE a == Offset(g, "uart")
  <2>1. Reads(g, "uart") => UartRead(a) \in Byte \cup 0 .. 3
    BY <1>1, <1>2, DeviceUser, Readings
  <2>2. CASE Used("uart")
    <3>1. uartPort' = [ready |-> Reads(g, "uart") \/ (Writes(g, "uart") /\ UartTakesWrite(a)),
                       data  |-> IF Reads(g, "uart") THEN UartRead(a) ELSE uartPort.data]
      BY <2>2 DEF Cycle, UartCycle, UartEdge
    <3>2. uartPort.data \in Byte \cup 0 .. 3
      BY <1>1 DEF WordsInv
    <3>3. QED
      BY <2>1, <3>1, <3>2
  <2>3. CASE ~Used("uart")
    BY <1>1, <2>3 DEF Cycle, UartCycle, WordsInv
  <2>4. QED
    BY <2>2, <2>3
<1>4. spiPort' \in [ready : BOOLEAN, data : CtrlWord \cup SpiWord]
  <2> DEFINE a == Offset(g, "spi")
             takes == Writes(g, "spi") /\ SpiTakesWrite(a)
  <2>1. Reads(g, "spi") => SpiRead(a) \in CtrlWord \cup SpiWord
    BY <1>1, <1>2, DeviceUser, Readings
  <2>2. CASE Used("spi")
    <3>1. spiPort' = [ready |-> takes \/ Reads(g, "spi"),
                      data  |-> IF Reads(g, "spi") /\ ~takes THEN SpiRead(a) ELSE spiPort.data]
      BY <2>2 DEF Cycle, SpiCycle, SpiEdge
    <3>2. spiPort.data \in CtrlWord \cup SpiWord
      BY <1>1 DEF WordsInv
    <3>3. QED
      BY <2>1, <3>1, <3>2
  <2>3. CASE ~Used("spi")
    BY <1>1, <2>3 DEF Cycle, SpiCycle, WordsInv
  <2>4. QED
    BY <2>2, <2>3
<1>5. clintPort' \in [ready : BOOLEAN, data : Time]
  <2> DEFINE a == Offset(g, "clint")
  <2>1. Reads(g, "clint") => ClintRead(a) \in Time
    BY <1>1, <1>2, DeviceUser, Readings
  <2>2. CASE Used("clint")
    <3>1. clintPort' = [ready |-> Writes(g, "clint") \/ Reads(g, "clint"),
                        data  |-> IF Reads(g, "clint") /\ ~Writes(g, "clint")
                                    THEN ClintRead(a) ELSE clintPort.data]
      BY <2>2 DEF Cycle, ClintCycle, ClintEdge
    <3>2. clintPort.data \in Time
      BY <1>1 DEF WordsInv
    <3>3. QED
      BY <2>1, <3>1, <3>2
  <2>3. CASE ~Used("clint")
    BY <1>1, <2>3 DEF Cycle, ClintCycle, WordsInv
  <2>4. QED
    BY <2>2, <2>3
<1>6. GpioTypeOK' /\ level' \in {0, 1}
  <2> DEFINE a == Offset(g, "gpio")
  <2>1. Reads(g, "gpio") => GpioRead(a, level) \in {0, 1}
    BY <1>1, <1>2, DeviceUser, Readings
  <2>2. CASE Used("gpio")
    <3>1. /\ gpio' = IF Writes(g, "gpio") THEN GpioWritten(a, req[g].data) ELSE gpio
          /\ gpioPort' = [ready |-> Writes(g, "gpio") \/ Reads(g, "gpio"),
                          data  |-> IF Reads(g, "gpio") /\ ~Writes(g, "gpio")
                                      THEN GpioRead(a, level) ELSE gpioPort.data]
          /\ level' \in IF Sampled THEN {0, 1} ELSE {level}
      BY <2>2 DEF Cycle, GpioCycle, GpioEdge
    <3>2. gpioPort.data \in {0, 1} /\ gpio \in [dir : {0, 1}, out : {0, 1}] /\ level \in {0, 1}
      BY <1>1 DEF WordsInv, GpioTypeOK
    <3>3. Writes(g, "gpio") => req[g].data \in {0, 1}
      BY <1>1, <1>2, DeviceUser, Instruction
    <3>4. gpio' \in [dir : {0, 1}, out : {0, 1}]
      BY <3>1, <3>2, <3>3 DEF GpioWritten
    <3>5. gpioPort' \in [ready : BOOLEAN, data : {0, 1}]
      BY <2>1, <3>1, <3>2
    <3>6. QED
      BY <3>1, <3>2, <3>4, <3>5 DEF GpioTypeOK
  <2>3. CASE ~Used("gpio")
    BY <1>1, <2>3 DEF Cycle, GpioCycle, WordsInv, GpioTypeOK
  <2>4. QED
    BY <2>2, <2>3
<1>7. QED
  BY <1>3, <1>4, <1>5, <1>6

(* What a cycle leaves in the L1s and in what the loads have seen.         *)
LEMMA LinesTypes ==
  ASSUME TypesInv, NEW g \in Cores, Cycle(g)
  PROVE  l1' \in [Cores -> Lines] /\ seen' \in [Cores -> SUBSET Vals]
<1>1. CoresInv /\ l1 \in [Cores -> Lines] /\ seen \in [Cores -> SUBSET Vals]
  BY DEF TypesInv, PInv, WordsInv
<1>2. \A d \in Devices : Port[d].data \in Vals
  <2>1. /\ uartPort.data \in Vals /\ spiPort.data \in Vals
        /\ clintPort.data \in Vals /\ gpioPort.data \in Vals
    BY ValsAssumption DEF TypesInv, WordsInv, GpioTypeOK
  <2>2. QED
    BY <2>1 DEF Port, Devices, Base
<1>3. SlaveData(g) \in Vals \cup {Invalid}
  BY <1>2 DEF SlaveData
<1>4. ASSUME NEW c \in Cores
      PROVE  NextLines(l1st[c], l1[c], LineIndex, req[c], BusReady(g, c), SlaveData(g)) \in Lines
  <2>1. l1[c] \in Lines
    BY <1>1
  <2>2. Fill(l1[c], LineIndex, req[c].addr, SlaveData(g)) \in Lines
    BY <1>3, <2>1 DEF Fill, Lines
  <2>3. req[c].op = "write" => [l1[c] EXCEPT ![req[c].addr] = req[c].data] \in Lines
    BY <1>1, <2>1, Instruction DEF Lines
  <2>4. QED
    BY <2>1, <2>2, <2>3 DEF NextLines
<1>5. l1' \in [Cores -> Lines]
  BY <1>4 DEF Cycle, CoreEdge
<1>6. ASSUME NEW c \in Cores, req[c].op = "read"
      PROVE  RegisterValue(req[c].byte) \in Vals
  <2>1. PICK d \in Devices : InWindow(d, req[c].byte)
    BY <1>1, <1>6, Instruction
  <2>2. req[c].byte \in Nat
    BY <1>1, Instruction
  <2>3. req[c].byte - Base[d] \in Nat
    BY <2>1, <2>2 DEF InWindow, Devices, Base
  <2>4. d \in {"uart", "spi", "clint", "gpio"}
    BY DEF Devices, Base
  <2>5. CASE d = "uart"
    BY <2>1, <2>2, <2>3, <2>5, RegisterOf, Readings, ValsAssumption DEF Base
  <2>6. CASE d = "spi"
    BY <2>1, <2>2, <2>3, <2>6, RegisterOf, Readings, ValsAssumption DEF Base
  <2>7. CASE d = "clint"
    BY <2>1, <2>2, <2>3, <2>7, RegisterOf, Readings, ValsAssumption DEF Base
  <2>8. CASE d = "gpio"
    BY <2>1, <2>2, <2>3, <2>8, RegisterOf, Readings, ValsAssumption DEF Base
  <2>9. QED
    BY <2>4, <2>5, <2>6, <2>7, <2>8
<1>7. seen' \in [Cores -> SUBSET Vals]
  BY <1>1, <1>6 DEF Cycle, GhostEdge
<1>8. QED
  BY <1>5, <1>7

(* A cycle preserves the types.                                            *)
LEMMA WordsStep ==
  ASSUME TypesInv, [Next]_vars
  PROVE  WordsInv'
<1>1. WordsInv
  BY DEF TypesInv
<1>2. CASE Next
  <2>1. PICK g \in Cores : Cycle(g)
    BY <1>2 DEF Next
  <2>2. landed' \in [Cores -> BOOLEAN] /\ odd' \in BOOLEAN
    BY <2>1 DEF Cycle, GhostEdge
  <2>3. polled' \in BOOLEAN
    <3> DEFINE valid == Loaded(g, g) >= 2
    <3>1. polled' = IF RxTaken(g) THEN FALSE ELSE IF Polls(g) THEN valid ELSE polled
      BY <2>1 DEF Cycle, GhostEdge
    <3>2. polled \in BOOLEAN
      BY <1>1 DEF WordsInv
    <3>3. Polls(g) => valid \in BOOLEAN
      <4>1. SUFFICES ASSUME Polls(g) PROVE valid \in BOOLEAN
        OBVIOUS
      <4>2. /\ Loads(g, Base.uart + STATUS) /\ Answered(g, g) /\ req[g].op = "read"
            /\ PInv /\ CoresInv
        BY <4>1 DEF Polls, Loads, TypesInv, PInv
      <4>3. PICK d \in Devices : InWindow(d, req[g].byte) /\ SlaveData(g) = Port[d].data
        BY <4>2, AnswerOf
      <4>4. d = "uart"
        BY <4>2, <4>3, RxAccess, WindowsApart
      <4>5. Loaded(g, g) = uartPort.data
        BY <4>2, <4>3, <4>4, AnswerOf DEF Loaded, ReadData, Port, PInv, CoresInv, State
      <4>6. uartPort.data \in Nat
        BY <1>1, UartAssumption DEF WordsInv, Byte
      <4>7. QED
        BY <4>5, <4>6
    <3> HIDE DEF valid
    <3>4. QED
      BY <3>1, <3>2, <3>3, Zenon
  <2>4. serving' \in BOOLEAN
    BY <1>1, <2>1 DEF Cycle, BusEdge, busVars, WordsInv
  <2>5. QED
    BY <2>1, <2>2, <2>3, <2>4, PortTypes, LinesTypes DEF WordsInv
<1>3. CASE UNCHANGED vars
  BY <1>1, <1>3 DEF vars, coreVars, busVars, deviceVars, outside, ghosts, WordsInv, GpioTypeOK
<1>4. QED
  BY <1>2, <1>3

(* and reset establishes them.                                             *)
LEMMA WordsInit == Init => WordsInv
<1> SUFFICES ASSUME Init PROVE WordsInv
  OBVIOUS
<1>1. 0 \in CtrlWord
  <2>1. 2^16 \in Nat /\ 2^16 >= 2
    BY SMT
  <2>2. QED
    BY <2>1 DEF CtrlWord
<1>2. 0 \in Time
  BY ClintAssumption DEF Time
<1>3. 0 \in Byte \cup 0 .. 3
  BY SMT
<1>4. /\ uartPort \in [ready : BOOLEAN, data : Byte \cup 0 .. 3]
      /\ spiPort \in [ready : BOOLEAN, data : CtrlWord \cup SpiWord]
      /\ clintPort \in [ready : BOOLEAN, data : Time]
  BY <1>1, <1>2, <1>3 DEF Init, UartInit, SpiInit, ClintInit
<1>5. GpioTypeOK /\ level \in {0, 1}
  BY DEF Init, GpioInit, GpioTypeOK
<1>6. l1 \in [Cores -> Lines] /\ seen \in [Cores -> SUBSET Vals]
  BY DEF Init, Lines
<1>7. /\ landed \in [Cores -> BOOLEAN] /\ serving \in BOOLEAN /\ polled \in BOOLEAN
      /\ odd \in BOOLEAN
  BY DEF Init
<1>8. QED
  BY <1>4, <1>5, <1>6, <1>7 DEF WordsInv

(* The type invariant: the queue of bytes that are due is never longer     *)
(* than one, and every counter stays below its bound.                      *)
THEOREM PeripheralTypes == Spec => []TypeOK
<1>1. ASSUME TypesInv PROVE TypeOK
  <2>1. CoresInv /\ AnswersInv /\ ClintInv /\ SpiInv /\ TxInv /\ FrameAligned /\ WordsInv
    BY <1>1 DEF TypesInv, PInv, RxInv
  <2>2. UartTypeOK
    BY <2>1 DEF UartTypeOK, TxInv, TxFrame, TxRegisters, FrameAligned, RxRegisters, WordsInv
  <2>3. SpiTypeOK
    BY <2>1 DEF SpiTypeOK, SpiInv, SpiRegisters, WordsInv
  <2>4. ClintTypeOK
    BY <2>1 DEF ClintTypeOK, ClintInv, WordsInv
  <2>5. ear \in [n : 0 .. FrameBits * pace, byte : Byte]
    <3> DEFINE e == FrameBits * pace
    <3>1. pace \in Nat /\ pace >= 2
      BY <2>1, PacesAssumption, UartAssumption DEF FrameAligned
    <3>2. LastMiddle \in Nat /\ e \in Nat /\ LastMiddle < e
      <4> DEFINE x == (DataBits + 1) * pace
                 h == pace \div 2
      <4>1. x \in Nat /\ (DataBits + 2) * pace = x + pace
        BY <3>1, UartAssumption, SMT
      <4>2. h \in Nat /\ h < pace
        BY <3>1, SMT
      <4>3. e = x + pace /\ LastMiddle = x + h
        BY <4>1 DEF FrameBits, LastMiddle, Middle
      <4> HIDE DEF x, h, e
      <4>4. QED
        BY <3>1, <4>1, <4>2, <4>3
    <3>3. ear \in [n : Nat, byte : Byte] /\ (ear.n > 0 => ear.n - 1 <= LastMiddle)
      BY <2>1 DEF TxInv, EarInv
    <3> HIDE DEF e
    <3>4. ear.n \in 0 .. e
      BY <3>2, <3>3
    <3>5. ear \in [n : 0 .. e, byte : Byte]
      BY <3>3, <3>4
    <3>6. QED
      BY <3>5 DEF e
  <2>6. Len(due) <= 2 /\ \A k \in 1 .. Len(due) : due[k] \in Byte
    <3>1. tx.shift \in Byte
      BY <2>1 DEF TxInv, TxFrame, TxRegisters
    <3>2. due \in {<<>>, <<tx.shift>>}
      BY <2>1 DEF TxInv, DueInv
    <3>3. CASE due = <<>>
      BY <3>3
    <3>4. CASE due = <<tx.shift>>
      <4>1. Len(due) = 1 /\ due[1] = tx.shift
        BY <3>4
      <4>2. QED
        BY <3>1, <4>1
    <3>5. QED
      BY <3>2, <3>3, <3>4
  <2>7. QED
    BY <2>1, <2>2, <2>3, <2>4, <2>5, <2>6 DEF TypeOK, CoresInv, AnswersInv, ClintInv, SpiInv,
       FrameAligned, PeerRegisters, WordsInv
<1>2. TypesInv /\ [Next]_vars => WordsInv'
  BY WordsStep
<1>3. ClintInv /\ PInv /\ [Next]_vars => ClintInv'
  BY ClintInvStep DEF PInv
<1>4. Spec => []ClintInv
  BY PortInvariance, ClintInitInv, <1>3, PTL DEF Spec
<1>5. SpiInv /\ PInv /\ [Next]_vars => SpiInv'
  <2>1. ASSUME SpiInv, PInv, Next PROVE SpiInv'
    <3>1. PICK g \in Cores : Cycle(g)
      BY <2>1 DEF Next
    <3>2. QED
      BY <2>1, <3>1, SpiStep DEF PInv
  <2>2. ASSUME SpiInv, UNCHANGED vars PROVE SpiInv'
    BY <2>2 DEF vars, deviceVars, outside, SpiInv, ChipSelected, Exchanging
  <2>3. QED
    BY <2>1, <2>2
<1>6. Spec => []SpiInv
  BY PortInvariance, SpiInitInv, <1>5, PTL DEF Spec
<1>7. TypesInv <=> PInv /\ ClintInv /\ SpiInv /\ TxInv /\ RxInv /\ WordsInv
  BY DEF TypesInv
<1>8. QED
  BY PortInvariance, TxInvariance, RxInvariance, WordsInit, <1>1, <1>2, <1>4, <1>6, <1>7, PTL DEF Spec
=============================================================================
