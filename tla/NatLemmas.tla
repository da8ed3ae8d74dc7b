------------------------------- MODULE NatLemmas -------------------------------
(* Facts about natural numbers that the proofs of several modules cite. *)
EXTENDS Integers, FiniteSetsExt, WellFoundedInduction, TLAPS

Less == {ss \in Nat \X Nat : ss[1] < ss[2]}

\* A non-empty set of naturals has a least element, Min of FiniteSetsExt.
LEMMA MinIn ==
  ASSUME NEW S \in SUBSET Nat, S # {}
  PROVE  Min(S) \in S /\ \A y \in S : Min(S) <= y
<1>1. IsWellFoundedOn(Less, Nat)
  <2>1. OpToRel(<, Nat) = Less  BY DEF OpToRel, Less
  <2> QED BY <2>1, NatLessThanWellFounded
<1>2. PICK x \in S : \A y \in S : ~ (<<y, x>> \in Less)
  BY <1>1, WFMin
<1>3. \A y \in S : x <= y
  <2> TAKE y \in S
  <2>1. ~ (y < x)  BY <1>2 DEF Less
  <2> QED BY <2>1
<1> QED BY <1>2, <1>3 DEF Min

\* A set of naturals with 0 and every successor has them all.
LEMMA Induction ==
  ASSUME NEW S, 0 \in S, \A n \in Nat : n \in S => n + 1 \in S
  PROVE  Nat \subseteq S
<1> SUFFICES ASSUME Nat \ S # {} PROVE FALSE  OBVIOUS
<1>1. PICK k \in Nat : k = Min(Nat \ S) /\ k \notin S /\ \A y \in Nat \ S : k <= y
  BY MinIn
<1>2. k # 0  BY <1>1
<1>3. k - 1 \in Nat /\ k - 1 \in S
  <2>1. k - 1 \in Nat  BY <1>2
  <2> QED BY <1>1, <2>1
<1>4. (k - 1) + 1 \in S  BY <1>3
<1> QED BY <1>1, <1>4

\* Division undoes multiplication: the number of a frame is recovered from its
\* address.
LEMMA DivMul ==
  ASSUME NEW P \in Nat \ {0}, NEW f \in Nat
  PROVE  (f * P) \div P = f
<1> DEFINE q == (f * P) \div P
<1>1. q \in Int /\ q * P <= f * P /\ f * P < (q + 1) * P
  BY Z3
<1>2. q = f
  <2> HIDE DEF q
  <2>1. CASE q < f
    <3>1. q + 1 <= f  BY <1>1, <2>1
    <3>2. (q + 1) * P <= f * P  BY <3>1, <1>1
    <3> QED BY <3>2, <1>1
  <2>2. CASE q > f
    <3>1. (f + 1) * P <= q * P  BY <2>2, <1>1
    <3>2. f * P < (f + 1) * P  OBVIOUS
    <3> QED BY <3>1, <3>2, <1>1
  <2> QED BY <1>1, <2>1, <2>2
<1> QED BY <1>2

\* Remainders of numbers no further than one turn away, as the indices of a
\* ring are.
LEMMA Remainder ==
  ASSUME NEW a \in Int, NEW m \in Nat \ {0}, -m <= a, a < m + m
  PROVE  a % m = IF a < 0 THEN a + m ELSE IF a < m THEN a ELSE a - m
<1>1. CASE a < 0  BY <1>1, Z3
<1>2. CASE 0 <= a /\ a < m  BY <1>2, Z3
<1>3. CASE a >= m
  <2>1. (a \div m) * m <= a /\ a < (a \div m + 1) * m /\ a \div m \in Int
    BY Z3
  <2>2. a % m = a - (a \div m) * m  BY Z3
  <2> QED BY <1>3, <2>1, <2>2, Z3
<1> QED BY <1>1, <1>2, <1>3

\* An index moved on, or back.
LEMMA RemainderSum ==
  ASSUME NEW m \in Nat \ {0}, NEW a \in 0..m-1, NEW i \in 0..m
  PROVE  /\ (a + i) % m = IF a + i < m THEN a + i ELSE a + i - m
         /\ (a - i) % m = IF i <= a THEN a - i ELSE a - i + m
<1>1. PICK b \in Int : b = a + i  OBVIOUS
<1>2. b % m = IF b < m THEN b ELSE b - m
  <2>1. ~(b < 0) /\ -m <= b /\ b < m + m  BY <1>1
  <2> QED BY ONLY <2>1, b \in Int, m \in Nat \ {0}, Remainder
<1>3. PICK c \in Int : c = a - i  OBVIOUS
<1>4. c % m = IF c < 0 THEN c + m ELSE c
  <2>1. c < m /\ -m <= c /\ c < m + m  BY <1>3
  <2> QED BY ONLY <2>1, c \in Int, m \in Nat \ {0}, Remainder
<1>5. (a + i) % m = b % m /\ (a - i) % m = c % m  BY ONLY <1>1, <1>3, Zenon
<1> QED BY <1>1, <1>2, <1>3, <1>4, <1>5

\* The i-th slot from index a.
LEMMA RemainderSlot ==
  ASSUME NEW m \in Nat \ {0}, NEW a \in 0..m-1, NEW i \in 1..m
  PROVE  (a + i - 1) % m = IF a + i - 1 < m THEN a + i - 1 ELSE a + i - 1 - m
<1>1. PICK b \in Int : b = a + i - 1  OBVIOUS
<1>2. b % m = IF b < m THEN b ELSE b - m
  <2>1. ~(b < 0) /\ -m <= b /\ b < m + m  BY <1>1
  <2> QED BY ONLY <2>1, b \in Int, m \in Nat \ {0}, Remainder
<1>3. (a + i - 1) % m = b % m  BY ONLY <1>1, Zenon
<1> QED BY <1>1, <1>2, <1>3

\* A whole turn more.
LEMMA RemainderTurn ==
  ASSUME NEW m \in Nat \ {0}, NEW a \in Nat, a % m = 0
  PROVE  (a + m) % m = 0
<1>1. PICK q \in Nat : a = q * m
  <2>1. a \div m \in Nat /\ a % m = a - (a \div m) * m  BY Z3
  <2> QED BY <2>1
<1>2. PICK b \in Nat : b = a + m  OBVIOUS
<1>3. b = (q + 1) * m  BY <1>1, <1>2
<1>4. b \div m = q + 1  BY <1>3, DivMul
<1>5. b % m = b - (b \div m) * m  BY Z3
<1>6. b % m = 0  BY <1>3, <1>4, <1>5
<1> QED BY <1>2, <1>6

\* Quotient and remainder of a number that is put together of them.
LEMMA Quotient ==
  ASSUME NEW m \in Nat \ {0}, NEW q \in Nat, NEW r \in 0..m-1
  PROVE  (q * m + r) \div m = q /\ (q * m + r) % m = r
<1>1. PICK a \in Nat : a = q * m + r  OBVIOUS
<1>2. PICK d \in Int : d = a \div m  OBVIOUS
<1>3. d * m <= a /\ a < (d + 1) * m /\ a % m = a - d * m  BY <1>2, Z3
<1>4. d = q
  <2>1. CASE d < q
    <3>1. (d + 1) * m <= q * m  BY <2>1
    <3> QED BY <1>1, <1>3, <3>1
  <2>2. CASE d > q
    <3>1. (q + 1) * m <= d * m  BY <2>2
    <3> QED BY <1>1, <1>3, <3>1
  <2> QED BY <2>1, <2>2
<1> QED BY <1>1, <1>2, <1>3, <1>4

\* A number below n times m has a quotient below n.
LEMMA QuotientBelow ==
  ASSUME NEW m \in Nat \ {0}, NEW a \in Nat, NEW n \in Int, a < m * n
  PROVE  a \div m \in 0..n-1 /\ a % m \in 0..m-1 /\ a = (a \div m) * m + (a % m)
<1>1. PICK d \in Int : d = a \div m  OBVIOUS
<1>2. PICK r \in Int : r = a % m  OBVIOUS
<1>3. d * m <= a /\ a < (d + 1) * m /\ r = a - d * m  BY <1>1, <1>2, Z3
<1>4. d >= 0
  <2> SUFFICES ASSUME d + 1 <= 0 PROVE FALSE  OBVIOUS
  <2>1. (d + 1) * m <= 0 * m  OBVIOUS
  <2> QED BY <1>3, <2>1
<1>5. d < n
  <2> SUFFICES ASSUME n <= d PROVE FALSE  OBVIOUS
  <2>1. m * n <= d * m  OBVIOUS
  <2> QED BY <1>3, <2>1
<1> QED BY <1>1, <1>2, <1>3, <1>4, <1>5

LEMMA DivDiv ==
  ASSUME NEW n \in Nat, NEW a \in Nat \ {0}, NEW b \in Nat \ {0}
  PROVE  (n \div a) \div b = n \div (a * b)
<1>1. PICK q \in Int : q = n \div a  OBVIOUS
<1>2. PICK r \in Int : r = q \div b  OBVIOUS
<1>3. q * a <= n /\ n < (q + 1) * a  BY <1>1, Z3
<1>4. r * b <= q /\ q + 1 <= (r + 1) * b  BY <1>2, Z3
<1>5. q \in Nat /\ r \in Nat
  <2>1. q >= 0
    <3> SUFFICES ASSUME q + 1 <= 0 PROVE FALSE  OBVIOUS
    <3>1. (q + 1) * a <= 0  BY Z3
    <3> QED BY <1>3, <3>1
  <2>2. r >= 0
    <3> SUFFICES ASSUME r + 1 <= 0 PROVE FALSE  OBVIOUS
    <3>1. (r + 1) * b <= 0  BY Z3
    <3> QED BY <1>4, <2>1, <3>1
  <2> QED BY <2>1, <2>2
<1>6. (r * b) * a <= q * a /\ (q + 1) * a <= ((r + 1) * b) * a  BY <1>4, Z3
<1>7. (r * b) * a = r * (a * b) /\ ((r + 1) * b) * a = r * (a * b) + a * b  BY Z3
<1>8. PICK m \in Nat \ {0} : m = a * b  BY Z3
<1>9. PICK u \in Nat : u = r * m  BY <1>5, <1>8, Z3
<1>10. n - u \in 0..m-1 /\ u + (n - u) = n
  BY <1>3, <1>6, <1>7, <1>8, <1>9
<1>11. (r * m + (n - u)) \div m = r  BY <1>5, <1>10, Quotient
<1> QED BY <1>1, <1>2, <1>8, <1>9, <1>10, <1>11
=============================================================================
