---------------------------- MODULE ArithmeticProofs ----------------------------
(***************************************************************************)
(* Proofs about Arithmetic, for every width of integers and every          *)
(* precision of floats.                                                    *)
(***************************************************************************)
EXTENDS Arithmetic, FiniteSetTheorems, FunctionTheorems, NaturalsInduction,
        WellFoundedInduction, TLAPS

(* Powers of two.                                                          *)

LEMMA Least ==
  ASSUME NEW S, S \subseteq Nat, S # {}
  PROVE  \E n \in S : \A k \in S : n <= k
<1> DEFINE R == {p \in Nat \X Nat : p[1] < p[2]}
<1>1. IsWellFoundedOn(R, Nat)
  BY NatLessThanWellFounded DEF OpToRel
<1>2. PICK n \in S : \A k \in S : <<k, n>> \notin R
  <2> HIDE DEF R
  <2> QED BY <1>1, WFMin
<1>3. ASSUME NEW k \in S PROVE n <= k
  <2>1. <<k, n>> \in Nat \X Nat /\ <<k, n>>[1] = k /\ <<k, n>>[2] = n
    OBVIOUS
  <2>2. ~(k < n)
    BY <1>2, <2>1
  <2>3. k \in Nat /\ n \in Nat
    OBVIOUS
  <2> QED BY <2>2, <2>3
<1> QED BY <1>3

\* A set of numbers with 0 that is closed under successor has them all.
LEMMA AllOfNat ==
  ASSUME NEW S, S \subseteq Nat, 0 \in S, \A n \in S : n + 1 \in S
  PROVE  S = Nat
<1> SUFFICES ASSUME Nat \ S # {} PROVE FALSE
  OBVIOUS
<1>1. PICK n \in Nat \ S : \A k \in Nat \ S : n <= k
  BY Least
<1>2. n - 1 \in Nat /\ n - 1 \notin Nat \ S
  BY <1>1
<1> QED BY <1>1, <1>2

\* The subsets of 1 .. n are as many as 2^n: half of those of 1 .. n + 1.
LEMMA Powers ==
  ASSUME NEW n \in Nat
  PROVE  /\ 2^n \in Nat /\ 2^n > 0
         /\ 2^(n + 1) = 2 * 2^n
<1> DEFINE S == 1 .. n
           N == SUBSET S
           Y == {T \cup {n + 1} : T \in N}
           f == [T \in N |-> T \cup {n + 1}]
<1>1. /\ IsFiniteSet(S) /\ Cardinality(S) = n
  BY FS_Interval
<1>2. /\ IsFiniteSet(1 .. n + 1) /\ Cardinality(1 .. n + 1) = n + 1
  BY FS_Interval
<1>3. /\ IsFiniteSet(N) /\ Cardinality(N) = 2^n
  BY <1>1, FS_SUBSET
<1>4. Cardinality(SUBSET (1 .. n + 1)) = 2^(n + 1)
  BY <1>2, FS_SUBSET
<1>5. f \in Bijection(N, Y)
  <2>1. \A T \in N : n + 1 \notin T
    OBVIOUS
  <2>2. ASSUME NEW T \in N, NEW U \in N, f[T] = f[U] PROVE T = U
    BY <2>1, <2>2
  <2>3. f \in [N -> Y] /\ \A y \in Y : \E T \in N : f[T] = y
    OBVIOUS
  <2> HIDE DEF f, N, Y
  <2> QED BY <2>2, <2>3, Fun_IsBij
<1>6. IsFiniteSet(Y) /\ Cardinality(Y) = Cardinality(N)
  <2>1. ExistsBijection(N, Y)
    BY <1>5 DEF ExistsBijection
  <2> HIDE DEF Y, N
  <2> QED BY <1>3, <2>1, FS_Bijection
<1>7. SUBSET (1 .. n + 1) = N \cup Y
  <2>1. ASSUME NEW T \in SUBSET (1 .. n + 1), n + 1 \in T PROVE T \in Y
    <3>1. T \ {n + 1} \in N /\ T = (T \ {n + 1}) \cup {n + 1}
      BY <2>1
    <3> QED BY <3>1
  <2>2. ASSUME NEW T \in SUBSET (1 .. n + 1), n + 1 \notin T PROVE T \in N
    BY <2>2
  <2>3. \A T \in N \cup Y : T \in SUBSET (1 .. n + 1)
    OBVIOUS
  <2> HIDE DEF N, Y
  <2> QED BY <2>1, <2>2, <2>3
<1>8. N \cap Y = {}
  OBVIOUS
<1>9. Cardinality(N \cup Y) = Cardinality(N) + Cardinality(Y) - Cardinality(N \cap Y)
  <2> HIDE DEF Y, N
  <2> QED BY <1>3, <1>6, FS_Union
<1>10. Cardinality({}) = 0
  BY FS_EmptySet
<1>11. Cardinality(N) \in Nat /\ {} \in N
  BY <1>3, FS_CardinalityType
<1>12. Cardinality(N) # 0
  <2> HIDE DEF N
  <2> QED BY <1>3, <1>11, FS_EmptySet
<1> HIDE DEF N, Y, S
<1>13. Cardinality(N \cup Y) = 2 * Cardinality(N)
  <2>1. Cardinality(N \cap Y) = 0
    BY <1>8, <1>10
  <2> QED BY <1>6, <1>9, <1>11, <2>1
<1>14. 2^n \in Nat /\ 2^n > 0
  BY <1>3, <1>11, <1>12
<1>15. 2^(n + 1) = 2 * 2^n
  BY <1>3, <1>4, <1>7, <1>13
<1> QED BY <1>14, <1>15

LEMMA PowersMultiply ==
  ASSUME NEW a \in Nat, NEW b \in Nat
  PROVE  2^(a + b) = 2^a * 2^b
<1> DEFINE S == {k \in Nat : 2^(a + k) = 2^a * 2^k}
<1>1. 0 \in S
  <2>1. 2^a \in Nat /\ 2^0 = 1 /\ a + 0 = a
    BY Powers
  <2> QED BY <2>1
<1>2. ASSUME NEW k \in S PROVE k + 1 \in S
  <2>1. a + (k + 1) = (a + k) + 1
    OBVIOUS
  <2>2. 2^((a + k) + 1) = 2 * 2^(a + k) /\ 2^(k + 1) = 2 * 2^k
    BY Powers
  <2>3. 2^a \in Nat /\ 2^k \in Nat
    BY Powers
  <2> QED BY <2>1, <2>2, <2>3
<1>3. S = Nat
  <2> HIDE DEF S
  <2>1. S \subseteq Nat
    BY DEF S
  <2> QED BY <1>1, <1>2, <2>1, AllOfNat
<1> QED BY <1>3

\* 2^n grows with n, at least doubling, and exceeds it.
LEMMA PowersGrow ==
  ASSUME NEW a \in Nat, NEW b \in Nat, a <= b
  PROVE  /\ 2^a <= 2^b
         /\ a < b => 2 * 2^a <= 2^b
         /\ 2^b = 2^a * 2^(b - a)
<1>1. b - a \in Nat /\ a + (b - a) = b
  OBVIOUS
<1>2. 2^b = 2^a * 2^(b - a)
  BY <1>1, PowersMultiply
<1>3. 2^a \in Nat /\ 2^a > 0 /\ 2^(b - a) \in Nat /\ 2^(b - a) > 0
  BY <1>1, Powers
<1>4. ASSUME a < b PROVE 2^(b - a) >= 2
  <2>1. b - a - 1 \in Nat /\ (b - a - 1) + 1 = b - a
    BY <1>4
  <2>2. 2^(b - a) = 2 * 2^(b - a - 1) /\ 2^(b - a - 1) \in Nat /\ 2^(b - a - 1) > 0
    BY <2>1, Powers
  <2> QED BY <2>2
<1>5. ASSUME NEW p \in Nat, NEW q \in Nat, p > 0, q > 0
      PROVE  p <= p * q /\ (q >= 2 => 2 * p <= p * q)
  BY <1>5
<1> QED BY <1>2, <1>3, <1>4, <1>5

LEMMA PowersExceed ==
  ASSUME NEW n \in Nat
  PROVE  n < 2^n
<1> DEFINE S == {k \in Nat : k < 2^k}
<1>1. 0 \in S
  OBVIOUS
<1>2. ASSUME NEW k \in S PROVE k + 1 \in S
  BY Powers
<1>3. S = Nat
  <2> HIDE DEF S
  <2>1. S \subseteq Nat
    BY DEF S
  <2> QED BY <1>1, <1>2, <2>1, AllOfNat
<1> QED BY <1>3

-----------------------------------------------------------------------------
(* Rounding.                                                               *)

\* The spacing: a float of Precision bits is found for every integer.
LEMMA ShiftIsOne ==
  ASSUME NEW abs \in Nat
  PROVE  /\ Shift(abs) \in 0 .. abs
         /\ abs < 2^(Precision + Shift(abs))
         /\ Shift(abs) > 0 => abs >= 2^(Precision + Shift(abs) - 1)
<1> DEFINE S == {s \in Nat : abs < 2^(Precision + s)}
<1>1. Precision \in Nat
  BY PrecisionAssumption
<1>2. abs \in S
  <2>1. abs < 2^abs /\ 2^abs <= 2^(Precision + abs)
    BY <1>1, PowersExceed, PowersGrow
  <2>2. 2^abs \in Nat /\ 2^(Precision + abs) \in Nat
    BY <1>1, Powers
  <2> QED BY <2>1, <2>2
<1>3. PICK s \in S : \A y \in S : s <= y
  <2>1. S \subseteq Nat /\ S # {}
    BY <1>2
  <2> HIDE DEF S
  <2> QED BY <2>1, Least
<1>4. s \in 0 .. abs /\ abs < 2^(Precision + s)
  BY <1>2, <1>3
<1>5. ASSUME s > 0 PROVE abs >= 2^(Precision + s - 1)
  <2>1. s - 1 \in Nat /\ s - 1 \notin S
    BY <1>3, <1>5
  <2>2. Precision + (s - 1) = Precision + s - 1 /\ Precision + s - 1 \in Nat
    BY <1>1, <2>1
  <2>3. 2^(Precision + s - 1) \in Nat
    BY <2>2, Powers
  <2>4. ~(abs < 2^(Precision + s - 1))
    BY <2>1, <2>2
  <2> QED BY <2>3, <2>4
<1> QED BY <1>4, <1>5 DEF Shift

\* A power that is below another has the smaller exponent.
LEMMA PowersCompare ==
  ASSUME NEW a \in Nat, NEW b \in Nat, 2^a < 2^b
  PROVE  a < b
<1>1. 2^a \in Nat /\ 2^b \in Nat
  BY Powers
<1>2. b <= a => 2^b <= 2^a
  BY PowersGrow
<1> QED BY <1>1, <1>2

\* Rounding to a multiple of the spacing moves by half of it at most, and
\* leaves its multiples alone.
LEMMA RoundToNearest ==
  ASSUME NEW unit \in Nat, unit > 0, NEW abs \in Nat
  PROVE  /\ RoundTo(unit, abs) \in Nat
         /\ 2 * (RoundTo(unit, abs) - abs) <= unit
         /\ 2 * (abs - RoundTo(unit, abs)) <= unit
         /\ abs % unit = 0 => RoundTo(unit, abs) = abs
<1> DEFINE q == abs \div unit
           r == abs % unit
<1>1. q \in Nat /\ r \in 0 .. unit - 1 /\ abs = unit * q + r
  OBVIOUS
<1>2. unit * (q + 1) = unit * q + unit /\ unit * q \in Nat
  BY <1>1
<1>3. \/ RoundTo(unit, abs) = unit * q /\ 2 * r <= unit
      \/ RoundTo(unit, abs) = unit * (q + 1) /\ 2 * r >= unit
  <2>1. CASE 2 * r > unit
    BY <1>1, <2>1 DEF RoundTo
  <2>2. CASE 2 * r = unit
    BY <1>1, <2>2 DEF RoundTo
  <2>3. CASE 2 * r < unit
    <3>1. RoundTo(unit, abs) = unit * q
      BY <1>1, <2>3 DEF RoundTo
    <3> QED BY <2>3, <3>1, <1>1
  <2> QED BY <1>1, <2>1, <2>2, <2>3
<1> HIDE DEF q, r
<1>4. RoundTo(unit, abs) \in Nat
  BY <1>1, <1>2, <1>3
<1>5. /\ 2 * (RoundTo(unit, abs) - abs) <= unit
      /\ 2 * (abs - RoundTo(unit, abs)) <= unit
  BY <1>1, <1>2, <1>3
<1>6. r = 0 => RoundTo(unit, abs) = abs
  BY <1>1, <1>2, <1>3
<1> QED BY <1>4, <1>5, <1>6 DEF r

\* Rounding a natural number: exact up to 2^Precision and on powers of two.
LEMMA RoundSmall ==
  ASSUME NEW abs \in Nat, abs <= 2^Precision
  PROVE  RoundTo(2^Shift(abs), abs) = abs
<1> DEFINE s == Shift(abs)
<1>1. /\ s \in Nat /\ Precision \in Nat /\ Precision > 0
      /\ abs < 2^(Precision + s) /\ (s > 0 => abs >= 2^(Precision + s - 1))
  BY ShiftIsOne, PrecisionAssumption
<1> HIDE DEF s
<1>2. 2^Precision \in Nat
  BY <1>1, Powers
<1>3. CASE s = 0
  <2>1. 2^s = 1 /\ abs % 1 = 0
    BY <1>3
  <2> QED BY <2>1, RoundToNearest DEF s
<1>4. CASE s = 1
  <2>1. Precision + s - 1 = Precision /\ Precision - 1 \in Nat /\ (Precision - 1) + 1 = Precision
    BY <1>1, <1>4
  <2>2. abs = 2^Precision
    BY <1>1, <1>2, <1>4, <2>1
  <2>3. 2^Precision = 2 * 2^(Precision - 1) /\ 2^(Precision - 1) \in Nat
    BY <2>1, Powers
  <2>4. 2^s = 2 /\ abs % 2 = 0
    BY <1>4, <2>2, <2>3
  <2>5. 2^s \in Nat /\ 2^s > 0 /\ abs % 2^s = 0
    BY <2>4
  <2> QED BY <2>5, RoundToNearest DEF s
<1>5. CASE s > 1
  <2>1. Precision + s - 1 \in Nat /\ Precision < Precision + s - 1
    BY <1>1, <1>5
  <2>2. 2 * 2^Precision <= 2^(Precision + s - 1) /\ 2^(Precision + s - 1) \in Nat
        /\ 2^Precision > 0
    BY <1>1, <2>1, Powers, PowersGrow
  <2> QED BY <1>1, <1>2, <1>5, <2>2
<1> QED BY <1>1, <1>3, <1>4, <1>5

LEMMA RoundPower ==
  ASSUME NEW k \in Nat
  PROVE  RoundTo(2^Shift(2^k), 2^k) = 2^k
<1> DEFINE s == Shift(2^k)
<1>1. /\ 2^k \in Nat /\ Precision \in Nat /\ Precision > 0
  BY Powers, PrecisionAssumption
<1>2. s \in Nat /\ (s > 0 => 2^k >= 2^(Precision + s - 1))
  BY <1>1, ShiftIsOne
<1> HIDE DEF s
<1>3. s <= k
  <2>1. CASE s = 0
    BY <1>2, <2>1
  <2>2. CASE s > 0
    <3>1. Precision + s - 1 \in Nat /\ s <= Precision + s - 1
      BY <1>1, <1>2
    <3>2. ~(k < Precision + s - 1)
      <4> SUFFICES ASSUME k < Precision + s - 1 PROVE FALSE
        OBVIOUS
      <4>1. 2 * 2^k <= 2^(Precision + s - 1) /\ 2^(Precision + s - 1) \in Nat /\ 2^k > 0
        BY <3>1, Powers, PowersGrow
      <4> QED BY <1>1, <1>2, <2>2, <4>1
    <3> QED BY <1>2, <3>1, <3>2
  <2> QED BY <1>2, <2>1, <2>2
<1>4. 2^k = 2^s * 2^(k - s) /\ 2^s \in Nat /\ 2^s > 0 /\ k - s \in Nat /\ 2^(k - s) \in Nat
  BY <1>2, <1>3, PowersGrow, Powers
<1>5. 2^k % 2^s = 0
  BY <1>4
<1> QED BY <1>1, <1>4, <1>5, RoundToNearest DEF s

\* The largest integer of k bits rounds to itself, or beyond the precision to
\* the one after it.
LEMMA RoundBelowPower ==
  ASSUME NEW k \in Nat
  PROVE  RoundTo(2^Shift(2^k - 1), 2^k - 1) = IF k <= Precision THEN 2^k - 1 ELSE 2^k
<1> DEFINE M == 2^k - 1
           s == Shift(M)
<1>1. /\ 2^k \in Nat /\ 2^k > 0 /\ M \in Nat /\ Precision \in Nat /\ Precision > 0
      /\ 2^Precision \in Nat /\ 2^Precision > 0
  BY Powers, PrecisionAssumption
<1>2. CASE k <= Precision
  <2>1. 2^k <= 2^Precision
    BY <1>1, <1>2, PowersGrow
  <2> QED BY <1>1, <1>2, <2>1, RoundSmall
<1>3. CASE k > Precision
  <2>1. s \in Nat /\ M < 2^(Precision + s) /\ (s > 0 => M >= 2^(Precision + s - 1))
    BY <1>1, ShiftIsOne
  <2> HIDE DEF s
  <2>2. s = k - Precision
    <3>1. ~(k < Precision + s)
      <4> SUFFICES ASSUME k < Precision + s PROVE FALSE
        OBVIOUS
      <4>1. s > 0 /\ k <= Precision + s - 1 /\ Precision + s - 1 \in Nat
        BY <1>1, <1>3, <2>1
      <4>2. 2^k <= 2^(Precision + s - 1) /\ 2^(Precision + s - 1) \in Nat
        BY <4>1, PowersGrow, Powers
      <4> QED BY <1>1, <2>1, <4>1, <4>2
    <3>2. ~(Precision + s < k)
      <4> SUFFICES ASSUME Precision + s < k PROVE FALSE
        OBVIOUS
      <4>1. 2 * 2^(Precision + s) <= 2^k /\ 2^(Precision + s) \in Nat /\ 2^(Precision + s) > 0
        BY <1>1, <2>1, PowersGrow, Powers
      <4> QED BY <1>1, <2>1, <4>1
    <3> QED BY <1>1, <2>1, <3>1, <3>2
  <2>3. 2^k = 2^s * 2^Precision /\ 2^s \in Nat
    <3>1. k = s + Precision
      BY <1>1, <2>1, <2>2
    <3>2. 2^(s + Precision) = 2^s * 2^Precision
      BY <1>1, <2>1, PowersMultiply
    <3> QED BY <2>1, <3>1, <3>2, Powers
  <2>4. 2^s >= 2
    <3>1. s - 1 \in Nat /\ (s - 1) + 1 = s
      BY <1>1, <1>3, <2>2
    <3>2. 2^s = 2 * 2^(s - 1) /\ 2^(s - 1) \in Nat /\ 2^(s - 1) > 0
      BY <3>1, Powers
    <3> QED BY <3>2
  <2>5. (2^Precision - 1) % 2 = 1
    <3>1. Precision - 1 \in Nat /\ (Precision - 1) + 1 = Precision
      BY <1>1
    <3>2. 2^Precision = 2 * 2^(Precision - 1) /\ 2^(Precision - 1) \in Nat /\ 2^(Precision - 1) > 0
      BY <3>1, Powers
    <3> QED BY <3>2
  <2>6. ASSUME NEW u \in Nat, u >= 2, NEW p \in Nat, p > 0, (p - 1) % 2 = 1
        PROVE  RoundTo(u, u * p - 1) = u * p
    <3>1. u * p - 1 = u * (p - 1) + (u - 1) /\ p - 1 \in Nat /\ u - 1 \in 0 .. u - 1
      BY <2>6
    <3>2. (u * (p - 1) + (u - 1)) \div u = p - 1 /\ (u * (p - 1) + (u - 1)) % u = u - 1
      BY <2>6, <3>1
    <3>3. (u * p - 1) \div u = p - 1 /\ (u * p - 1) % u = u - 1
      BY <3>1, <3>2
    <3>4. 2 * (u - 1) > u \/ (2 * (u - 1) = u /\ (p - 1) % 2 = 1)
      BY <2>6
    <3> QED BY <2>6, <3>3, <3>4 DEF RoundTo
  <2>7. RoundTo(2^s, 2^s * 2^Precision - 1) = 2^s * 2^Precision
    BY <1>1, <2>3, <2>4, <2>5, <2>6
  <2>8. RoundTo(2^s, M) = 2^k
    BY <2>3, <2>7
  <2> HIDE DEF M
  <2> QED BY <1>1, <1>3, <2>8 DEF M, s
<1> QED BY <1>1, <1>2, <1>3

\* What rounding does to integers of up to width bits.
LEMMA RoundNear ==
  ASSUME NEW abs \in Nat, NEW width \in Nat, Precision < width, abs < 2^width
  PROVE  /\ RoundTo(2^Shift(abs), abs) - abs <= 2^(width - Precision - 1)
         /\ abs - RoundTo(2^Shift(abs), abs) <= 2^(width - Precision - 1)
<1> DEFINE s == Shift(abs)
           r == RoundTo(2^s, abs)
<1>1. /\ s \in Nat /\ Precision \in Nat /\ Precision > 0
      /\ abs < 2^(Precision + s) /\ (s > 0 => abs >= 2^(Precision + s - 1))
  BY ShiftIsOne, PrecisionAssumption
<1>2. 2^s \in Nat /\ 2^s > 0
  BY <1>1, Powers
<1>3. r \in Nat /\ 2 * (r - abs) <= 2^s /\ 2 * (abs - r) <= 2^s
  BY <1>2, RoundToNearest
<1> DEFINE e == width - Precision - 1
<1>4. e \in Nat /\ 2^e \in Nat /\ 2^e > 0
  BY <1>1, Powers
<1> HIDE DEF s, r
<1>5. s <= e + 1
  <2>1. CASE s = 0
    BY <1>4, <2>1
  <2>2. CASE s > 0
    <3>1. Precision + s - 1 \in Nat
      BY <1>1
    <3>2. 2^(Precision + s - 1) \in Nat /\ 2^width \in Nat
      BY <3>1, Powers
    <3>3. 2^(Precision + s - 1) < 2^width
      BY <1>1, <2>2, <3>2
    <3>4. Precision + s - 1 < width
      BY <3>1, <3>3, PowersCompare
    <3> QED BY <1>1, <3>4
  <2> QED BY <1>1, <2>1, <2>2
<1> HIDE DEF e
<1>6. 2^s <= 2 * 2^e
  <2>1. e + 1 \in Nat /\ 2^(e + 1) = 2 * 2^e
    BY <1>4, Powers
  <2>2. 2^s <= 2^(e + 1)
    BY <1>1, <1>5, <2>1, PowersGrow
  <2> QED BY <2>1, <2>2
<1>7. r - abs <= 2^e /\ abs - r <= 2^e
  BY <1>2, <1>3, <1>4, <1>6
<1> QED BY <1>7 DEF r, s, e

-----------------------------------------------------------------------------
(* Widths, bounds, and the integers that floats stand for.                 *)

LEMMA Widths ==
  ASSUME NEW l \in 0 .. MaxLog
  PROVE  /\ Width(l) \in Nat /\ Width(l) > 0
         /\ StorageWidth(l) \in Nat /\ Width(l) <= StorageWidth(l)
         /\ NarrowLog <= l => StorageWidth(l) = Width(l)
         /\ 2^Width(l) \in Nat /\ 2^Width(l) > 0 /\ 2^(Width(l) - 1) \in Nat /\ 2^(Width(l) - 1) > 0
         /\ 2^Width(l) = 2 * 2^(Width(l) - 1)
         /\ 2^StorageWidth(l) \in Nat /\ 2^Width(l) <= 2^StorageWidth(l)
         /\ 2^StorageWidth(l) = 2 * 2^(StorageWidth(l) - 1)
         /\ 2^(StorageWidth(l) - 1) \in Nat /\ 2^(Width(l) - 1) <= 2^(StorageWidth(l) - 1)
<1>1. l \in Nat /\ NarrowLog \in Nat /\ MaxLog \in Nat
  BY WidthAssumption
<1>2. Width(l) \in Nat /\ Width(l) > 0
  BY <1>1, Powers DEF Width
<1>3. StorageWidth(l) \in Nat /\ Width(l) <= StorageWidth(l)
  <2>1. CASE l <= NarrowLog
    BY <1>1, <2>1, Powers, PowersGrow DEF StorageWidth, Width
  <2>2. CASE ~(l <= NarrowLog)
    BY <1>2, <2>2 DEF StorageWidth
  <2> QED BY <2>1, <2>2
<1>4. NarrowLog <= l => StorageWidth(l) = Width(l)
  BY <1>1 DEF StorageWidth
<1> DEFINE w == Width(l)
           s == StorageWidth(l)
<1> HIDE DEF w, s
<1>5. /\ w \in Nat /\ w - 1 \in Nat /\ s - 1 \in Nat /\ s \in Nat /\ w <= s /\ w - 1 <= s - 1
      /\ (w - 1) + 1 = w /\ (s - 1) + 1 = s
  BY <1>2, <1>3 DEF w, s
<1>6. /\ 2^w \in Nat /\ 2^w > 0 /\ 2^(w - 1) \in Nat /\ 2^(w - 1) > 0 /\ 2^w = 2 * 2^(w - 1)
      /\ 2^s \in Nat /\ 2^(s - 1) \in Nat /\ 2^s = 2 * 2^(s - 1)
  BY <1>5, Powers
<1>7. 2^w <= 2^s /\ 2^(w - 1) <= 2^(s - 1)
  BY <1>5, PowersGrow
<1> QED BY <1>2, <1>3, <1>4, <1>6, <1>7 DEF w, s

\* The widest integers are wider than floats are precise, their sign set aside.
LEMMA Widest ==
  /\ MaxLog \in 0 .. MaxLog /\ NarrowLog <= MaxLog
  /\ Precision \in Nat /\ Precision > 1 /\ Precision < Width(MaxLog) - 1
  /\ 2^Precision \in Nat /\ 2 * 2^Precision <= 2^(Width(MaxLog) - 1)
<1>1. /\ MaxLog \in 0 .. MaxLog /\ NarrowLog <= MaxLog
      /\ Precision \in Nat /\ Precision > 1 /\ Precision < Width(MaxLog) - 1
  BY WidthAssumption, PrecisionAssumption DEF Width
<1>2. Width(MaxLog) - 1 \in Nat
  BY <1>1, Widths
<1> QED BY <1>1, <1>2, PowersGrow, Powers

LEMMA RoundType ==
  ASSUME NEW n \in Int
  PROVE  Round(n) \in Int
<1>1. ASSUME NEW abs \in Nat PROVE RoundTo(2^Shift(abs), abs) \in Nat
  <2>1. Shift(abs) \in Nat
    BY ShiftIsOne
  <2> QED BY <2>1, Powers, RoundToNearest
<1> QED BY <1>1 DEF Round

\* The bounds that trunc compares with: the lower one is exact, the upper one
\* may be the integer after it.
LEMMA Bounds ==
  ASSUME NEW l \in 0 .. MaxLog, NEW signed \in BOOLEAN
  PROVE  /\ MaxInt(l, signed) \in Nat /\ MinInt(l, signed) \in Int /\ -MinInt(l, signed) \in Nat
         /\ Round(MinInt(l, signed)) = MinInt(l, signed)
         /\ Round(MaxInt(l, signed)) \in MaxInt(l, signed) .. MaxInt(l, signed) + 1
<1> DEFINE k == IF signed THEN Width(l) - 1 ELSE Width(l)
<1>1. k \in Nat /\ 2^k \in Nat /\ 2^k > 0
  BY Widths
<1>2. MaxInt(l, signed) = 2^k - 1
  BY DEF MaxInt
<1>3. MinInt(l, signed) = IF signed THEN -(2^k) ELSE 0
  BY DEF MinInt
<1> HIDE DEF k
<1>4. Round(2^k - 1) \in 2^k - 1 .. 2^k
  BY <1>1, RoundBelowPower DEF Round
<1>5. Round(-(2^k)) = -(2^k)
  BY <1>1, RoundPower DEF Round
<1>6. Round(0) = 0
  <2>1. 0 <= 2^Precision
    BY Widest
  <2> QED BY <2>1, RoundSmall DEF Round
<1> QED BY <1>1, <1>2, <1>3, <1>4, <1>5, <1>6

LEMMA TruncateBetween ==
  ASSUME NEW f, f.halves \in Int, NEW c \in Nat, NEW b \in Nat,
         -(2 * c) <= f.halves, f.halves < 2 * (b + 1)
  PROVE  Truncate(f) \in -c .. b
BY DEF Truncate

LEMMA TruncateInt ==
  ASSUME NEW n \in Int
  PROVE  Truncate(Finite(2 * n)) = n
BY DEF Truncate, Finite

\* Wrapping keeps what fits, and the sign can be had back.
LEMMA WrapFits ==
  ASSUME NEW l \in 0 .. MaxLog
  PROVE  /\ \A n \in Int : Wrap(n, Width(l)) \in 0 .. 2^Width(l) - 1
         /\ \A n \in Int : Wrap(n, StorageWidth(l)) \in 0 .. 2^StorageWidth(l) - 1
         /\ \A n \in 0 .. 2^Width(l) - 1 : Wrap(n, Width(l)) = n
         /\ \A n \in 0 .. 2^StorageWidth(l) - 1 : Wrap(n, StorageWidth(l)) = n
         /\ \A n \in -(2^(Width(l) - 1)) .. 2^(Width(l) - 1) - 1 :
              Signed(Wrap(n, Width(l)), Width(l)) = n
         /\ \A v \in 0 .. 2^Width(l) - 1 :
              Signed(v, Width(l)) \in -(2^(Width(l) - 1)) .. 2^(Width(l) - 1) - 1
<1> DEFINE p == 2^Width(l)
           q == 2^StorageWidth(l)
           h == 2^(Width(l) - 1)
<1>1. p \in Nat /\ p > 0 /\ q \in Nat /\ q > 0 /\ h \in Nat /\ h > 0 /\ p = 2 * h
  BY Widths
<1> HIDE DEF p, q, h
<1>2. \A n \in Int : n % p \in 0 .. p - 1 /\ n % q \in 0 .. q - 1
  BY <1>1
<1>3. /\ \A n \in 0 .. p - 1 : n % p = n
      /\ \A n \in 0 .. q - 1 : n % q = n
  BY <1>1
<1>4. \A n \in -h .. h - 1 : n % p = IF n < 0 THEN n + p ELSE n
  <2>1. ASSUME NEW n \in -h .. h - 1, n < 0 PROVE n % p = n + p
    <3>1. n + p \in 0 .. p - 1 /\ n = p * (-1) + (n + p)
      BY <1>1, <2>1
    <3> QED BY <1>1, <2>1, <3>1
  <2>2. ASSUME NEW n \in -h .. h - 1, ~(n < 0) PROVE n % p = n
    BY <1>1, <1>3, <2>2
  <2> QED BY <2>1, <2>2
<1>5. \A n \in -h .. h - 1 : (IF n % p >= h THEN (n % p) - p ELSE n % p) = n
  BY <1>1, <1>4
<1>6. \A v \in 0 .. p - 1 : (IF v >= h THEN v - p ELSE v) \in -h .. h - 1
  BY <1>1
<1> QED BY <1>2, <1>3, <1>5, <1>6 DEF Wrap, Signed, p, q, h

-----------------------------------------------------------------------------
(* What is on the wire.                                                    *)

IntOK(w) == /\ w.log \in Logs \cup {0}
            /\ w.v \in 0 .. 2^StorageWidth(w.log) - 1
            /\ w.m \in 0 .. 2^Width(w.log) - 1
            /\ NarrowLog <= w.log => w.v = w.m

\* A float that was converted from one of the widest integers is that integer,
\* rounded.
FromOK(f, from) ==
    from.log = MaxLog =>
        /\ from.signed \in BOOLEAN
        /\ from.m \in MinInt(MaxLog, from.signed) .. MaxInt(MaxLog, from.signed)
        /\ f = FromInt(from.m)

\* trunc succeeds only where the integer part is in range, and always if the
\* float is below the largest integer and not below the smallest.
TruncatedOK(w) ==
    /\ w.log \in Logs /\ w.signed \in BOOLEAN /\ w.tag \in {0, 1}
    /\ IsFloat(w.arg) /\ FromOK(w.arg, w.from)
    /\ w.tag = 1 => /\ IsFinite(w.arg) /\ w.arg.halves \in Int
                    /\ Truncate(w.arg) \in MinInt(w.log, w.signed) .. MaxInt(w.log, w.signed)
                    /\ w.v = Wrap(Truncate(w.arg), StorageWidth(w.log))
    /\ w.tag = 0 => /\ w.v = 0
                    /\ ~ /\ IsFinite(w.arg)
                         /\ 2 * MinInt(w.log, w.signed) <= w.arg.halves
                         /\ w.arg.halves < 2 * MaxInt(w.log, w.signed)

WireOK(w) ==
    /\ w.t \in {"none", "int", "bool", "float", "truncated", "rotation", "option"}
    /\ w.t = "int" => IntOK(w)
    /\ w.t = "bool" => w.v \in BOOLEAN /\ w.m \in BOOLEAN
    /\ w.t = "float" => IsFloat(w.v) /\ FromOK(w.v, w.from)
    /\ w.t = "truncated" => TruncatedOK(w)
    /\ w.t = "rotation" => IsFloat(w.v) /\ (~IsFinite(w.v) => w.sum)
    /\ w.t = "option" => /\ IsFloat(w.v) /\ (w.tag = 1 <=> IsFinite(w.arg))
                         /\ w.tag = 1 => w.v = w.arg

Inv == /\ WireOK(x) /\ halted \in BOOLEAN /\ astray \in BOOLEAN
       /\ halted => x.t = "float" /\ ~IsFinite(x.v)

LEMMA IntWireOK ==
  ASSUME NEW l \in Logs \cup {0},
         NEW v \in 0 .. 2^StorageWidth(l) - 1, NEW m \in 0 .. 2^Width(l) - 1,
         NarrowLog <= l => v = m
  PROVE  WireOK(IntWire(l, v, m))
BY DEF WireOK, IntOK, IntWire

LEMMA BoolWireOK ==
  ASSUME NEW v \in BOOLEAN, NEW m \in BOOLEAN
  PROVE  WireOK(BoolWire(v, m))
BY DEF WireOK, BoolWire

LEMMA FloatWireOK ==
  ASSUME NEW f, IsFloat(f), NEW from, FromOK(f, from)
  PROVE  WireOK(FloatWire(f, from))
BY DEF WireOK, FloatWire

\* A constant fits its LLVM type, and fills it if its width does.
LEMMA ConstantOK ==
  ASSUME NEW l \in Logs, NEW k \in IntConsts(l)
  PROVE  /\ l \in 0 .. MaxLog /\ k \in 0 .. 2^Width(l) - 1
         /\ ConstInt(l, k) = IntWire(l, k, k)
         /\ k \in 0 .. 2^StorageWidth(l) - 1
<1>1. l \in 0 .. MaxLog /\ k \in 0 .. 2^Width(l) - 1
  BY WidthAssumption DEF Width
<1>2. k \in 0 .. 2^StorageWidth(l) - 1
  BY <1>1, Widths
<1>3. Wrap(k, StorageWidth(l)) = k
  BY <1>1, <1>2, WrapFits
<1> QED BY <1>1, <1>2, <1>3 DEF ConstInt

\* An operation on numbers of some width gives a number of that width.
LEMMA QuotientType ==
  ASSUME NEW a \in Int, NEW b \in Int
  PROVE  Quotient(a, b) \in Int
<1>1. Abs(a) \in Nat /\ Abs(b) \in Nat /\ (b # 0 => Abs(b) > 0)
  BY DEF Abs
<1>2. \A i, j \in Nat : j > 0 => i \div j \in Nat
  OBVIOUS
<1>3. b # 0 => Abs(a) \div Abs(b) \in Nat
  BY <1>1, <1>2
<1> QED BY <1>3 DEF Quotient

LEMMA SignedType ==
  ASSUME NEW a \in Int, NEW width \in Nat
  PROVE  Signed(a, width) \in Int
BY Powers DEF Signed

LEMMA ApplyFits ==
  ASSUME NEW width \in Nat, NEW op \in BinaryOps, NEW a \in Int, NEW b \in Int
  PROVE  Apply(op, a, b, width) \in 0 .. 2^width - 1
<1> DEFINE s == Signed(a, width)
           r == Signed(b, width)
<1>1. \A n \in Int : Wrap(n, width) \in 0 .. 2^width - 1
  <2>1. 2^width \in Nat /\ 2^width > 0
    BY Powers
  <2> QED BY <2>1 DEF Wrap
<1>2. s \in Int /\ r \in Int
  BY SignedType
<1>3. Quotient(a, b) \in Int /\ Quotient(s, r) \in Int
  BY <1>2, QuotientType
<1>4. s - r * Quotient(s, r) \in Int
  <2> HIDE DEF s, r
  <2> QED BY <1>2, <1>3
<1>5. a + b \in Int /\ a - b \in Int /\ a * b \in Int
  OBVIOUS
<1> QED BY <1>1, <1>3, <1>4, <1>5 DEF Apply, BinaryOps, Divisions

LEMMA BinaryOK ==
  ASSUME WireOK(x), NEW k \in IntConsts(x.log), x.log \in Logs,
         NEW op \in BinaryOps, NEW left \in BOOLEAN, IntBinary(op, k, left)
  PROVE  WireOK(x')
<1> DEFINE l == x.log
           c == ConstInt(l, k)
           a == IF left THEN x ELSE c
           b == IF left THEN c ELSE x
           v == Apply(op, a.v, b.v, StorageWidth(l))
           m == Apply(op, a.m, b.m, Width(l))
<1>1. x.t = "int" /\ x' = IntWire(l, v, m)
  BY DEF IntBinary, LlvmBinary, PutRead
<1>2. IntOK(x)
  BY <1>1 DEF WireOK
<1>3. /\ l \in 0 .. MaxLog /\ c.v = k /\ c.m = k
      /\ k \in 0 .. 2^StorageWidth(l) - 1 /\ k \in 0 .. 2^Width(l) - 1
  BY ConstantOK DEF IntWire
<1>4. /\ a.v \in 0 .. 2^StorageWidth(l) - 1 /\ b.v \in 0 .. 2^StorageWidth(l) - 1
      /\ a.m \in 0 .. 2^Width(l) - 1 /\ b.m \in 0 .. 2^Width(l) - 1
      /\ (NarrowLog <= l => a.v = a.m /\ b.v = b.m)
  BY <1>2, <1>3 DEF IntOK
<1>5. StorageWidth(l) \in Nat /\ Width(l) \in Nat
      /\ (NarrowLog <= l => StorageWidth(l) = Width(l))
  BY <1>3, Widths
<1> HIDE DEF a, b, c
<1>10. a.v \in Int /\ b.v \in Int /\ a.m \in Int /\ b.m \in Int
  BY <1>3, <1>4, Widths
<1>6. v \in 0 .. 2^StorageWidth(l) - 1
  BY <1>5, <1>10, ApplyFits
<1>7. m \in 0 .. 2^Width(l) - 1
  BY <1>5, <1>10, ApplyFits
<1>8. NarrowLog <= l => v = m
  BY <1>4, <1>5
<1> HIDE DEF v, m
<1>9. WireOK(IntWire(l, v, m))
  BY <1>6, <1>7, <1>8, IntWireOK
<1> QED BY <1>1, <1>9

LEMMA NegOK ==
  ASSUME WireOK(x), x.log \in Logs, IntNeg
  PROVE  WireOK(x')
<1> DEFINE l == x.log
<1>1. x.t = "int" /\ x' = IntWire(l, Wrap(-x.v, StorageWidth(l)), Wrap(-x.m, Width(l)))
  BY DEF IntNeg, Put
<1>2. IntOK(x) /\ l \in 0 .. MaxLog
  BY <1>1, WidthAssumption DEF WireOK
<1>3. x.v \in Int /\ x.m \in Int /\ (NarrowLog <= l => x.v = x.m /\ StorageWidth(l) = Width(l))
  BY <1>2, Widths DEF IntOK
<1>4. Wrap(-x.v, StorageWidth(l)) \in 0 .. 2^StorageWidth(l) - 1
      /\ Wrap(-x.m, Width(l)) \in 0 .. 2^Width(l) - 1
  BY <1>2, <1>3, WrapFits
<1>5. NarrowLog <= l => Wrap(-x.v, StorageWidth(l)) = Wrap(-x.m, Width(l))
  BY <1>3
<1> QED BY <1>1, <1>4, <1>5, IntWireOK

\* Comparisons and logic give booleans.
LEMMA HoldsIsBoolean ==
  ASSUME NEW pred \in Predicates, NEW a \in Int, NEW b \in Int, NEW width \in Nat
  PROVE  Holds(pred, a, b, width) \in BOOLEAN
<1>1. Signed(a, width) \in Int /\ Signed(b, width) \in Int
  BY SignedType
<1> DEFINE s == Signed(a, width)
           r == Signed(b, width)
<1>2. \A i, j \in Int : /\ (i < j) \in BOOLEAN /\ (i <= j) \in BOOLEAN
                        /\ (i > j) \in BOOLEAN /\ (i >= j) \in BOOLEAN
  OBVIOUS
<1>3. CASE pred \in {"ilt_u", "ile_u", "igt_u", "ige_u"}
  BY <1>2, <1>3 DEF Holds
<1>4. CASE pred \in {"ilt_s", "ile_s", "igt_s", "ige_s"}
  BY <1>1, <1>2, <1>4 DEF Holds
<1>5. CASE pred = "ieq"
  BY <1>5 DEF Holds
<1> QED BY <1>3, <1>4, <1>5 DEF Predicates, SignedPredicates

FloatPredicates == {"feq", "fne", "flt", "fgt", "fle", "fge"}

\* The comparison emitted is the one that is meant, infinities and NaN included.
LEMMA FloatsCompare ==
  ASSUME NEW pred \in FloatPredicates, NEW a, IsFloat(a), NEW b, IsFloat(b)
  PROVE  /\ LlvmFloatCompare(pred, a, b) \in BOOLEAN
         /\ LlvmFloatCompare(pred, a, b) = MeansCompare(pred, a, b)
<1>1. /\ PosInf # NegInf /\ PosInf # NaN /\ NegInf # NaN
      /\ ~IsFinite(PosInf) /\ ~IsFinite(NegInf) /\ ~IsFinite(NaN)
      /\ PosInf.halves = 0 /\ NegInf.halves = 0
  BY DEF PosInf, NegInf, NaN, IsFinite
<1>2. ASSUME NEW f, IsFloat(f)
      PROVE  \/ f = PosInf \/ f = NegInf \/ f = NaN
             \/ /\ f # PosInf /\ f # NegInf /\ f # NaN
                /\ IsFinite(f) /\ f.halves \in Int /\ f = Finite(f.halves)
  BY <1>2 DEF IsFloat, Finite, PosInf, NegInf, NaN, IsFinite
<1>3. \A f, g : IsFinite(f) /\ IsFinite(g) /\ f = Finite(f.halves) /\ g = Finite(g.halves)
                 => (f = g <=> f.halves = g.halves)
  OBVIOUS
<1> DEFINE i == a.halves
           j == b.halves
<1>4. CASE a = NaN \/ b = NaN
  <2>1. ~LlvmFloatCompare(pred, a, b) /\ LlvmFloatCompare(pred, a, b) \in BOOLEAN
    BY <1>4 DEF LlvmFloatCompare, FloatPredicates, OEQ, ONE, OLT, OLE, Ordered
  <2>2. MeansCompare(pred, a, b) = FALSE
    BY <1>4 DEF MeansCompare
  <2> QED BY <2>1, <2>2
<1>5. CASE a # NaN /\ b # NaN
  <2>1. Ordered(a, b) /\ Ordered(b, a) /\ NaN \notin {a, b}
    BY <1>5 DEF Ordered
  <2>2. Difference(a, b) \in Int
    BY <1>1, <1>2, <1>5 DEF Difference, Sign
  <2>3. /\ (a = b <=> Difference(a, b) = 0)
        /\ (OLT(a, b) <=> Difference(a, b) < 0)
        /\ (OLT(b, a) <=> Difference(a, b) > 0)
    BY <1>1, <1>2, <1>3, <1>5, <2>1 DEF Difference, Sign, OLT
  <2>4. /\ (OEQ(a, b) <=> Difference(a, b) = 0)
        /\ (ONE(a, b) <=> Difference(a, b) # 0)
        /\ (OLE(a, b) <=> Difference(a, b) <= 0)
        /\ (OLE(b, a) <=> Difference(a, b) >= 0)
    BY <2>1, <2>2, <2>3 DEF OEQ, ONE, OLE
  <2>5. LlvmFloatCompare(pred, a, b) <=> MeansCompare(pred, a, b)
    BY <2>1, <2>3, <2>4 DEF LlvmFloatCompare, MeansCompare, FloatPredicates
  <2>6. LlvmFloatCompare(pred, a, b) \in BOOLEAN /\ MeansCompare(pred, a, b) \in BOOLEAN
    BY <2>1, <2>2 DEF LlvmFloatCompare, MeansCompare, FloatPredicates, OEQ, ONE, OLT, OLE
  <2> QED BY <2>5, <2>6
<1> QED BY <1>4, <1>5

\* Folding over the inputs computes the conjunction, the disjunction, and
\* whether all are equal.
LEMMA NaryMeans ==
  ASSUME NEW op \in {"And", "Or", "Eq"}, NEW tags \in Seq(BOOLEAN), Len(tags) >= 2
  PROVE  /\ Nary(op, tags) \in BOOLEAN
         /\ Nary(op, tags) = MeansLogic(op, {tags[i] : i \in 1 .. Len(tags)})
<1> DEFINE n == Len(tags)
           S == {tags[i] : i \in 1 .. n}
<1>1. n \in Nat /\ n >= 2 /\ \A i \in 1 .. n : tags[i] \in BOOLEAN
  OBVIOUS
<1> HIDE DEF n
<1>2. tags[1] \in S /\ S \subseteq BOOLEAN
  BY <1>1
<1>3. (\A i \in 1 .. n : tags[i]) <=> S = {TRUE}
  BY <1>1, <1>2
<1>4. (\E i \in 1 .. n : tags[i]) <=> TRUE \in S
  BY <1>1, <1>2
<1>5. (tags[n] = tags[n - 1] /\ \A i \in 1 .. n - 2 : tags[i] = tags[n])
        <=> \A i \in 1 .. n : tags[i] = tags[n]
  BY <1>1
<1>6. (\A i \in 1 .. n : tags[i] = tags[n]) <=> \E b \in BOOLEAN : S = {b}
  <2>1. tags[n] \in S /\ tags[n] \in BOOLEAN
    BY <1>1
  <2>2. ASSUME \A i \in 1 .. n : tags[i] = tags[n] PROVE S = {tags[n]}
    BY <2>1, <2>2
  <2>3. ASSUME NEW b \in BOOLEAN, S = {b}, NEW i \in 1 .. n PROVE tags[i] = tags[n]
    BY <2>1, <2>3
  <2> QED BY <2>1, <2>2, <2>3
<1>7. CASE op = "And"
  BY <1>3, <1>7 DEF Nary, MeansLogic, n
<1>8. CASE op = "Or"
  <2>1. /\ Nary("Or", tags) <=> \E i \in 1 .. n : tags[i]
        /\ Nary("Or", tags) \in BOOLEAN
    BY DEF Nary, n
  <2>2. /\ MeansLogic("Or", S) <=> TRUE \in S
        /\ MeansLogic("Or", S) \in BOOLEAN
    BY DEF MeansLogic
  <2> HIDE DEF S
  <2>3. Nary("Or", tags) = MeansLogic("Or", S)
    BY <1>4, <2>1, <2>2
  <2> QED BY <1>8, <2>1, <2>3 DEF S, n
<1>9. CASE op = "Eq"
  BY <1>5, <1>6, <1>9 DEF Nary, MeansLogic, n
<1> QED BY <1>7, <1>8, <1>9

\* The inputs of a logic operation on the wire and one or two constants.
LEMMA Inputs ==
  ASSUME NEW b \in BOOLEAN, NEW n \in 1 .. 2, NEW bs \in [1 .. n -> BOOLEAN],
         NEW tags, tags = <<b>> \o bs \/ tags = Append(bs, b)
  PROVE  /\ tags \in Seq(BOOLEAN) /\ Len(tags) >= 2
         /\ {tags[i] : i \in 1 .. Len(tags)} = {b} \cup {bs[i] : i \in 1 .. Len(bs)}
<1>1. bs \in Seq(BOOLEAN) /\ Len(bs) = n /\ n \in Nat /\ n >= 1
  OBVIOUS
<1>2. CASE tags = <<b>> \o bs
  <2>1. /\ tags \in Seq(BOOLEAN) /\ Len(tags) = n + 1 /\ tags[1] = b
        /\ \A i \in 1 .. n : tags[i + 1] = bs[i]
    BY <1>1, <1>2
  <2>2. {tags[i] : i \in 1 .. n + 1} = {b} \cup {bs[i] : i \in 1 .. n}
    <3>1. ASSUME NEW i \in 1 .. n + 1, i # 1 PROVE tags[i] = bs[i - 1] /\ i - 1 \in 1 .. n
      BY <1>1, <2>1, <3>1
    <3>2. ASSUME NEW i \in 1 .. n PROVE tags[i + 1] = bs[i] /\ i + 1 \in 1 .. n + 1
      BY <1>1, <2>1
    <3>3. 1 \in 1 .. n + 1
      BY <1>1
    <3> QED BY <2>1, <3>1, <3>2, <3>3
  <2> QED BY <1>1, <1>2, <2>1, <2>2
<1>3. CASE tags = Append(bs, b)
  <2>1. /\ tags \in Seq(BOOLEAN) /\ Len(tags) = n + 1 /\ tags[n + 1] = b
        /\ \A i \in 1 .. n : tags[i] = bs[i]
    BY <1>1, <1>3
  <2>2. {tags[i] : i \in 1 .. n + 1} = {b} \cup {bs[i] : i \in 1 .. n}
    <3>1. \A i \in 1 .. n + 1 : i = n + 1 \/ i \in 1 .. n
      BY <1>1
    <3>2. n + 1 \in 1 .. n + 1 /\ \A i \in 1 .. n : i \in 1 .. n + 1
      BY <1>1
    <3> QED BY <2>1, <3>1, <3>2
  <2> QED BY <1>1, <1>3, <2>1, <2>2
<1> QED BY <1>2, <1>3

-----------------------------------------------------------------------------
(* Arithmetic on floats gives floats.                                      *)

LEMMA NearestType ==
  ASSUME NEW num \in Int, NEW den \in Nat, den > 0
  PROVE  IsFloat(Nearest(num, den))
<1>1. Abs(num) \in Nat
  BY DEF Abs
<1> DEFINE unit == 2^Shift(Abs(num) \div den)
           u == unit * den
           abs == RoundTo(u, Abs(num)) \div den
<1>2. \A i \in Nat : i \div den \in Nat
  OBVIOUS
<1>3. unit \in Nat /\ unit > 0
  <2>1. Shift(Abs(num) \div den) \in Nat
    BY <1>1, <1>2, ShiftIsOne
  <2> QED BY <2>1, Powers
<1>4. u \in Nat /\ u > 0
  <2> HIDE DEF unit
  <2> QED BY <1>3
<1>5. abs \in Nat
  <2>1. RoundTo(u, Abs(num)) \in Nat
    <3> HIDE DEF u
    <3> QED BY <1>1, <1>4, RoundToNearest
  <2> QED BY <1>2, <2>1
<1>6. \A i \in Int : IsFloat(Finite(i))
  BY DEF IsFloat, Finite
<1>7. IsFloat(PosInf) /\ IsFloat(NegInf)
  BY DEF IsFloat
<1>8. Nearest(num, den) = IF abs <= MaxHalves THEN Finite(IF num < 0 THEN -abs ELSE abs)
                          ELSE IF num < 0 THEN NegInf ELSE PosInf
  BY DEF Nearest
<1> HIDE DEF abs
<1> QED BY <1>5, <1>6, <1>7, <1>8

LEMMA FloatOpsType ==
  ASSUME NEW a, IsFloat(a), NEW b, IsFloat(b)
  PROVE  /\ IsFloat(Negated(a)) /\ IsFloat(Sum(a, b)) /\ IsFloat(Product(a, b))
         /\ \A r \in Quotients(a, b) : IsFloat(r)
<1>1. ASSUME NEW f, IsFloat(f) PROVE f.halves \in Int /\ Sgn(f) \in {-1, 0, 1}
  BY <1>1 DEF IsFloat, PosInf, NegInf, NaN, Finite, Sgn
<1>2. IsFloat(PosInf) /\ IsFloat(NegInf) /\ IsFloat(NaN) /\ \A i \in Int : IsFloat(Finite(i))
  BY DEF IsFloat, Finite
<1>3. \A s : IsFloat(Infinity(s))
  BY <1>2 DEF Infinity
<1>4. IsFloat(Negated(a))
  <2>1. -a.halves \in Int
    BY <1>1
  <2> QED BY <1>2, <2>1 DEF Negated
<1>5. IsFloat(Sum(a, b))
  <2>1. a.halves + b.halves \in Int
    BY <1>1
  <2>2. IsFloat(Nearest(a.halves + b.halves, 1))
    BY <2>1, NearestType
  <2> QED BY <1>2, <2>2 DEF Sum
<1>6. IsFloat(Product(a, b))
  <2>1. a.halves * b.halves \in Int
    BY <1>1
  <2>2. IsFloat(Nearest(a.halves * b.halves, 2))
    BY <2>1, NearestType
  <2> QED BY <1>2, <1>3, <2>2 DEF Product
<1>7. ASSUME NEW r \in Quotients(a, b) PROVE IsFloat(r)
  <2>1. b.halves # 0 => IsFloat(Nearest(Sgn(b) * a.halves * 2, Abs(b.halves)))
    <3>1. Sgn(b) * a.halves * 2 \in Int
      BY <1>1
    <3>2. b.halves # 0 => Abs(b.halves) \in Nat /\ Abs(b.halves) > 0
      BY <1>1 DEF Abs
    <3> QED BY <3>1, <3>2, NearestType
  <2> QED BY <1>2, <1>3, <2>1 DEF Quotients
<1> QED BY <1>4, <1>5, <1>6, <1>7

-----------------------------------------------------------------------------
(* Conversions.                                                            *)

LEMMA FiniteIsFloat ==
  ASSUME NEW n \in Int
  PROVE  /\ IsFloat(FromInt(n)) /\ IsFinite(FromInt(n))
         /\ FromInt(n).halves = 2 * Round(n) /\ Round(n) \in Int
         /\ FromInt(n) = Finite(2 * Round(n))
<1>1. Round(n) \in Int
  BY RoundType
<1> QED BY <1>1 DEF FromInt, Finite, IsFloat, IsFinite

LEMMA ConvertOK ==
  ASSUME WireOK(x), x.log \in Logs, NEW signed \in BOOLEAN, Convert(signed)
  PROVE  WireOK(x')
<1> DEFINE l == x.log
           n == IF signed THEN Signed(x.v, StorageWidth(l)) ELSE x.v
           m == IF signed THEN Signed(x.m, Width(l)) ELSE x.m
           from == [log |-> l, signed |-> signed, m |-> m]
<1>1. x.t = "int" /\ x' = FloatWire(FromInt(n), from)
  BY DEF Convert, PutRead, Converted
<1>2. IntOK(x) /\ l \in 0 .. MaxLog
  BY <1>1, WidthAssumption DEF WireOK
<1>3. n \in Int
  BY <1>2, Widths DEF IntOK, Signed
<1>4. ASSUME l = MaxLog
      PROVE  n = m /\ m \in MinInt(MaxLog, signed) .. MaxInt(MaxLog, signed)
  <2>1. x.v = x.m /\ StorageWidth(l) = Width(l) /\ x.m \in 0 .. 2^Width(l) - 1
    BY <1>2, <1>4, Widest, Widths DEF IntOK
  <2>2. n = m
    BY <2>1
  <2>3. CASE signed
    <3>1. Signed(x.m, Width(l)) \in -(2^(Width(l) - 1)) .. 2^(Width(l) - 1) - 1
      BY <1>2, <2>1, WrapFits
    <3> QED BY <1>4, <2>2, <2>3, <3>1 DEF MinInt, MaxInt
  <2>4. CASE ~signed
    BY <1>4, <2>1, <2>2, <2>4 DEF MinInt, MaxInt
  <2> QED BY <2>3, <2>4
<1> HIDE DEF n, m, l
<1>5. FromOK(FromInt(n), from)
  BY <1>4 DEF FromOK
<1>6. IsFloat(FromInt(n))
  BY <1>3, FiniteIsFloat
<1> HIDE DEF from
<1> QED BY <1>1, <1>5, <1>6, FloatWireOK

\* The two comparisons let through exactly what is below the upper bound, as a
\* float, and not below the lower one.
LEMMA Within ==
  ASSUME NEW f, IsFloat(f), NEW l \in 0 .. MaxLog, NEW signed \in BOOLEAN
  PROVE  WithinUpperBound(f, l, signed) /\ WithinLowerBound(f, l, signed)
           <=> /\ IsFinite(f) /\ f.halves \in Int
               /\ 2 * MinInt(l, signed) <= f.halves
               /\ f.halves < 2 * Round(MaxInt(l, signed))
<1> DEFINE a == FromInt(MinInt(l, signed))
           b == FromInt(MaxInt(l, signed))
<1>1. MinInt(l, signed) \in Int /\ MaxInt(l, signed) \in Int
  BY Bounds
<1>2. /\ a = Finite(2 * MinInt(l, signed)) /\ a.halves = 2 * MinInt(l, signed)
      /\ b = Finite(2 * Round(MaxInt(l, signed))) /\ b.halves = 2 * Round(MaxInt(l, signed))
      /\ IsFinite(a) /\ IsFinite(b) /\ a.halves \in Int /\ b.halves \in Int
  BY <1>1, Bounds, FiniteIsFloat
<1> HIDE DEF a, b
<1>3. /\ ~IsFinite(PosInf) /\ ~IsFinite(NegInf) /\ ~IsFinite(NaN)
      /\ PosInf # NegInf /\ PosInf # NaN /\ NegInf # NaN
  BY DEF IsFinite, PosInf, NegInf, NaN
<1>4. a # NaN /\ b # NaN /\ a # PosInf /\ b # PosInf /\ a # NegInf /\ b # NegInf
  BY <1>2, <1>3
<1>5. CASE f \in {PosInf, NegInf, NaN}
  <2>1. ~IsFinite(f)
    BY <1>3, <1>5
  <2>2. ~(OLT(f, b) /\ OLE(a, f))
    BY <1>3, <1>4, <1>5 DEF OLT, OLE, OEQ, Ordered
  <2> QED BY <2>1, <2>2 DEF WithinUpperBound, WithinLowerBound, a, b
<1>6. CASE f.halves \in Int /\ f = Finite(f.halves)
  <2>1. IsFinite(f) /\ f \notin {PosInf, NegInf, NaN}
    BY <1>6 DEF Finite, IsFinite, PosInf, NegInf, NaN
  <2>2. \A c : c = Finite(c.halves) => (c = f <=> c.halves = f.halves)
    BY <1>6
  <2>3. (a = f <=> a.halves = f.halves) /\ (b = f <=> b.halves = f.halves)
    BY <1>2, <2>2
  <2>4. OLT(f, b) <=> f.halves < b.halves
    BY <1>2, <1>4, <1>6, <2>1, <2>3 DEF OLT, Ordered
  <2>5. OLE(a, f) <=> a.halves <= f.halves
    BY <1>2, <1>4, <1>6, <2>1, <2>3 DEF OLT, OLE, OEQ, Ordered
  <2> QED BY <1>2, <1>6, <2>1, <2>4, <2>5 DEF WithinUpperBound, WithinLowerBound, a, b
<1> QED BY <1>5, <1>6 DEF IsFloat

\* What trunc lets through has its integer part in the range of the type, so
\* the conversion is defined; what it keeps out is not below the largest
\* integer, or below the smallest.
LEMMA TruncSelects ==
  ASSUME NEW f, IsFloat(f), NEW l \in 0 .. MaxLog, NEW signed \in BOOLEAN
  PROVE  IF WithinUpperBound(f, l, signed) /\ WithinLowerBound(f, l, signed)
         THEN /\ IsFinite(f) /\ f.halves \in Int
              /\ Truncate(f) \in MinInt(l, signed) .. MaxInt(l, signed)
              /\ FloatToInt(f, signed, StorageWidth(l)) = Wrap(Truncate(f), StorageWidth(l))
         ELSE ~ /\ IsFinite(f)
                /\ 2 * MinInt(l, signed) <= f.halves
                /\ f.halves < 2 * MaxInt(l, signed)
<1> DEFINE min == MinInt(l, signed)
           max == MaxInt(l, signed)
<1>1. max \in Nat /\ -min \in Nat /\ min \in Int /\ Round(max) \in max .. max + 1
  BY Bounds
<1>2. CASE WithinUpperBound(f, l, signed) /\ WithinLowerBound(f, l, signed)
  <2>1. IsFinite(f) /\ f.halves \in Int /\ 2 * min <= f.halves /\ f.halves < 2 * Round(max)
    BY <1>2, Within
  <2>2. Truncate(f) \in min .. max
    <3> DEFINE c == -min
    <3>1. c \in Nat /\ -(2 * c) <= f.halves /\ f.halves < 2 * (max + 1) /\ -c = min
      BY <1>1, <2>1
    <3> HIDE DEF c, min, max
    <3>2. max \in Nat
      BY <1>1
    <3>3. Truncate(f) \in -c .. max
      BY <2>1, <3>1, <3>2, TruncateBetween
    <3> QED BY <3>1, <3>3
  <2>3. Truncate(f) \in (IF signed THEN -(2^(StorageWidth(l) - 1)) ELSE 0)
                        .. (IF signed THEN 2^(StorageWidth(l) - 1) - 1 ELSE 2^StorageWidth(l) - 1)
    BY <2>2, Widths DEF MinInt, MaxInt
  <2>4. FloatToInt(f, signed, StorageWidth(l)) = Wrap(Truncate(f), StorageWidth(l))
    BY <2>1, <2>3 DEF FloatToInt
  <2> QED BY <1>2, <2>1, <2>2, <2>4
<1>3. CASE ~(WithinUpperBound(f, l, signed) /\ WithinLowerBound(f, l, signed))
  <2> SUFFICES ASSUME IsFinite(f), 2 * min <= f.halves, f.halves < 2 * max PROVE FALSE
    BY <1>3
  <2>1. f.halves \in Int
    BY DEF IsFloat, IsFinite, PosInf, NegInf, NaN
  <2>2. f.halves < 2 * Round(max)
    BY <1>1, <2>1
  <2> HIDE DEF min, max
  <2> QED BY <1>3, <2>1, <2>2, Within DEF min, max
<1> QED BY <1>2, <1>3

LEMMA TruncOK ==
  ASSUME WireOK(x), NEW l \in Logs, NEW signed \in BOOLEAN, Trunc(l, signed)
  PROVE  WireOK(x')
<1> DEFINE f == x.v
           success == WithinUpperBound(f, l, signed) /\ WithinLowerBound(f, l, signed)
           v == FloatToInt(f, signed, StorageWidth(l))
<1>1. /\ x.t = "float"
      /\ x' = IF success THEN Truncated(l, signed, 1, v, f, x.from)
                         ELSE Truncated(l, signed, 0, 0, f, x.from)
  BY DEF Trunc, Put
<1>2. IsFloat(f) /\ FromOK(f, x.from) /\ l \in 0 .. MaxLog
  BY <1>1, WidthAssumption DEF WireOK
<1>3. IF success
      THEN /\ IsFinite(f) /\ f.halves \in Int
           /\ Truncate(f) \in MinInt(l, signed) .. MaxInt(l, signed)
           /\ v = Wrap(Truncate(f), StorageWidth(l))
      ELSE ~ /\ IsFinite(f)
             /\ 2 * MinInt(l, signed) <= f.halves
             /\ f.halves < 2 * MaxInt(l, signed)
  BY <1>2, TruncSelects
<1> HIDE DEF success, v, f
<1>4. TruncatedOK(x') /\ x'.t = "truncated"
  BY <1>1, <1>2, <1>3 DEF TruncatedOK, Truncated
<1> QED BY <1>4 DEF WireOK

LEMMA UnwrapTruncOK ==
  ASSUME WireOK(x), UnwrapTrunc
  PROVE  WireOK(x')
<1> DEFINE l == x.log
           n == Truncate(x.arg)
<1>1. /\ x.t = "truncated" /\ x.tag = 1
      /\ x' = IntWire(l, x.v, Wrap(n, Width(l)))
  BY DEF UnwrapTrunc, PutFresh
<1>2. /\ l \in Logs /\ x.signed \in BOOLEAN /\ x.v = Wrap(n, StorageWidth(l))
      /\ n \in MinInt(l, x.signed) .. MaxInt(l, x.signed)
  BY <1>1 DEF WireOK, TruncatedOK
<1>3. l \in 0 .. MaxLog
  BY <1>2, WidthAssumption
<1>4. n \in Int
  BY <1>2, <1>3, Bounds
<1> HIDE DEF n
<1>5. x.v \in 0 .. 2^StorageWidth(l) - 1 /\ Wrap(n, Width(l)) \in 0 .. 2^Width(l) - 1
  BY <1>2, <1>3, <1>4, WrapFits
<1>6. NarrowLog <= l => x.v = Wrap(n, Width(l))
  BY <1>2, <1>3, Widths
<1> QED BY <1>1, <1>2, <1>5, <1>6, IntWireOK

-----------------------------------------------------------------------------
(* Every step keeps the wire right.                                        *)

LEMMA InitOK == Init => Inv
<1> SUFFICES ASSUME Init PROVE Inv
  OBVIOUS
<1>1. x.t = "none" /\ halted = FALSE
  BY DEF Init, NoWire
<1> QED BY <1>1 DEF Init, Inv, WireOK

LEMMA BooleansOK ==
  ASSUME WireOK(x)
  PROVE  /\ IToBool => WireOK(x')
         /\ IFromBool => WireOK(x')
<1>1. ASSUME IToBool PROVE WireOK(x')
  <2>1. x' = BoolWire(x.v = 1, x.m = 1)
    BY <1>1 DEF IToBool, PutRead
  <2>2. (x.v = 1) \in BOOLEAN /\ (x.m = 1) \in BOOLEAN
    OBVIOUS
  <2> QED BY <2>1, <2>2, BoolWireOK
<1>2. ASSUME IFromBool PROVE WireOK(x')
  <2> DEFINE v == IF x.v THEN 1 ELSE 0
             m == IF x.m THEN 1 ELSE 0
  <2>1. x' = IntWire(0, v, m)
    BY <1>2 DEF IFromBool, Put
  <2>2. 0 \in 0 .. MaxLog /\ ~(NarrowLog <= 0)
    BY WidthAssumption
  <2>3. 2^Width(0) = 2 * 2^(Width(0) - 1) /\ 2^(Width(0) - 1) \in Nat /\ 2^(Width(0) - 1) > 0
        /\ 2^Width(0) <= 2^StorageWidth(0) /\ 2^StorageWidth(0) \in Nat /\ 2^Width(0) \in Nat
    BY <2>2, Widths
  <2>4. v \in 0 .. 1 /\ m \in 0 .. 1
    OBVIOUS
  <2> HIDE DEF v, m
  <2>5. v \in 0 .. 2^StorageWidth(0) - 1 /\ m \in 0 .. 2^Width(0) - 1
    BY <2>3, <2>4
  <2> QED BY <2>1, <2>2, <2>5, IntWireOK
<1> QED BY <1>1, <1>2

\* The three comparisons of emit_from_halfturns let the finite floats through.
LEMMA FiniteHalfturns ==
  ASSUME NEW f, IsFloat(f)
  PROVE  HalfturnsOk(f) <=> IsFinite(f)
<1>1. CASE f \in {PosInf, NegInf, NaN}
  BY <1>1 DEF HalfturnsOk, OEQ, UNO, Ordered, PosInf, NegInf, NaN, Finite, IsFinite
<1>2. CASE f = Finite(f.halves)
  <2>1. f.cls = "finite"
    BY <1>2 DEF Finite
  <2>2. f # PosInf /\ f # NegInf /\ f # NaN /\ Finite(0) # NaN
    BY <2>1 DEF PosInf, NegInf, NaN, Finite
  <2> QED BY <2>1, <2>2 DEF HalfturnsOk, OEQ, UNO, Ordered, IsFinite
<1> QED BY <1>1, <1>2 DEF IsFloat

LEMMA RotationOK ==
  ASSUME WireOK(x)
  PROVE  /\ FromHalfturns => WireOK(x')
         /\ UnwrapRotation => WireOK(x')
         /\ FromHalfturnsUnchecked => WireOK(x')
         /\ ToHalfturns => WireOK(x')
         /\ \A f \in FloatConsts : LoadRotation(f) \/ RAdd(f) => WireOK(x')
<1>1. ASSUME NEW f, IsFloat(f)
      PROVE  /\ IsFinite(f) => WireOK(Rotation(f, FALSE)) /\ WireOK(Halfturns(1, f, f))
             /\ WireOK(Rotation(f, TRUE)) /\ WireOK(FloatWire(f, NoInt))
             /\ ~IsFinite(f) => WireOK(Halfturns(0, Finite(0), f))
  <2>1. FromOK(f, NoInt)
    BY WidthAssumption DEF FromOK, NoInt
  <2>2. IsFloat(Finite(0))
    BY DEF IsFloat, Finite
  <2> QED BY <1>1, <2>1, <2>2, FloatWireOK DEF WireOK, Rotation, Halfturns
<1>3. ASSUME x.t = "float" PROVE IsFloat(x.v) /\ (HalfturnsOk(x.v) <=> IsFinite(x.v))
  BY <1>3, FiniteHalfturns DEF WireOK
<1>4. FromHalfturns => WireOK(x')
  BY <1>1, <1>3 DEF FromHalfturns, Put
<1>5. UnwrapRotation => WireOK(x')
  <2>1. x.t = "option" /\ x.tag = 1 => IsFloat(x.v) /\ IsFinite(x.v)
    BY DEF WireOK
  <2> QED BY <1>1, <2>1 DEF UnwrapRotation, Put
<1>6. FromHalfturnsUnchecked => WireOK(x')
  <2>1. CASE HalfturnsOk(x.v)
    BY <1>1, <1>3, <2>1 DEF FromHalfturnsUnchecked, Put
  <2>2. CASE ~HalfturnsOk(x.v)
    BY <2>2 DEF FromHalfturnsUnchecked
  <2> QED BY <2>1, <2>2
<1>7. ToHalfturns => WireOK(x')
  <2>1. x.t = "rotation" => IsFloat(x.v)
    BY DEF WireOK
  <2> QED BY <1>1, <2>1 DEF ToHalfturns, Put
<1>8. ASSUME NEW f \in FloatConsts, LoadRotation(f) \/ RAdd(f) PROVE WireOK(x')
  <2>1. IsFloat(f)
    BY WidthAssumption
  <2>2. CASE LoadRotation(f)
    BY <1>1, <2>1, <2>2 DEF LoadRotation, PutFresh
  <2>3. CASE RAdd(f)
    <3>1. IsFloat(x.v)
      BY <2>3 DEF RAdd, WireOK
    <3>2. IsFloat(Sum(x.v, f))
      BY <2>1, <3>1, FloatOpsType
    <3> QED BY <1>1, <2>3, <3>2 DEF RAdd, Put
  <2> QED BY <1>8, <2>2, <2>3
<1> QED BY <1>4, <1>5, <1>6, <1>7, <1>8

LEMMA NextOK == Inv /\ [Next]_vars => Inv'
<1> SUFFICES ASSUME Inv, [Next]_vars PROVE Inv'
  OBVIOUS
<1>1. WireOK(x) /\ halted \in BOOLEAN /\ astray \in BOOLEAN
  BY DEF Inv
<1>2. /\ halted' \in BOOLEAN /\ astray' \in BOOLEAN
      /\ halted' => x'.t = "float" /\ ~IsFinite(x'.v)
  <2>1. CASE Next
    <3>1. \A w, right : Put(w) \/ PutFresh(w) \/ PutRead(right, w)
                        => halted' = halted /\ astray' \in BOOLEAN
      BY <1>1 DEF Put, PutFresh, PutRead
    <3>2. \/ halted' = halted /\ astray' \in BOOLEAN
          \/ FromHalfturnsUnchecked /\ ~HalfturnsOk(x.v)
      BY <2>1, <3>1 DEF Next, Step, LoadInt, IntBinary, IntCompare, IntNeg, Convert, LoadFloat,
           FloatBinary, FloatNeg, FloatCompare, Trunc, UnwrapTrunc, IToBool, IFromBool, Logic,
           LoadRotation, RAdd, FromHalfturns, UnwrapRotation, FromHalfturnsUnchecked, ToHalfturns
    <3>3. CASE FromHalfturnsUnchecked /\ ~HalfturnsOk(x.v)
      <4>1. x.t = "float" /\ x' = x /\ astray' = astray /\ halted' = TRUE
        BY <3>3 DEF FromHalfturnsUnchecked
      <4>2. ~IsFinite(x.v)
        BY <1>1, <3>3, <4>1, FiniteHalfturns DEF WireOK
      <4> QED BY <1>1, <4>1, <4>2
    <3> QED BY <1>1, <2>1, <3>2, <3>3 DEF Next
  <2>2. CASE UNCHANGED vars
    BY <2>2 DEF vars, Inv
  <2> QED BY <2>1, <2>2
<1>3. ASSUME NEW l \in Logs, NEW k \in IntConsts(l), LoadInt(l, k) PROVE WireOK(x')
  BY <1>3, ConstantOK, IntWireOK DEF LoadInt, PutFresh
<1>4. ASSUME NEW l \in Logs, NEW k \in IntConsts(l), x.t = "int", x.log = l,
             NEW pred \in Predicates, IntCompare(pred, k)
      PROVE  WireOK(x')
  <2>1. /\ l \in 0 .. MaxLog /\ k \in Int /\ ConstInt(x.log, k).v = k
    BY <1>4, ConstantOK DEF IntWire
  <2>2. StorageWidth(x.log) \in Nat /\ Width(x.log) \in Nat
    BY <1>4, <2>1, Widths
  <2>3. x.v \in Int /\ x.m \in Int
    BY <1>1, <1>4, <2>1, Widths DEF WireOK, IntOK
  <2>4. /\ Holds(pred, x.v, ConstInt(x.log, k).v, StorageWidth(x.log)) \in BOOLEAN
        /\ Holds(pred, x.m, k, Width(x.log)) \in BOOLEAN
    BY <2>1, <2>2, <2>3, HoldsIsBoolean
  <2> QED BY <1>4, <2>4, BoolWireOK DEF IntCompare, PutRead
<1>5. ASSUME NEW f \in FloatConsts PROVE IsFloat(f)
  BY WidthAssumption
<1>6. ASSUME NEW f \in FloatConsts, LoadFloat(f) PROVE WireOK(x')
  <2>1. FromOK(f, NoInt)
    BY WidthAssumption DEF FromOK, NoInt
  <2> QED BY <1>5, <1>6, <2>1, FloatWireOK DEF LoadFloat, PutFresh
<1>10. ASSUME NEW f \in FloatConsts, NEW op \in FloatBinaryOps, NEW left \in BOOLEAN,
              FloatBinary(op, f, left)
       PROVE  WireOK(x')
  <2>1. IsFloat(x.v) /\ IsFloat(f)
    BY <1>1, <1>5, <1>10 DEF FloatBinary, WireOK
  <2>2. ASSUME NEW a, IsFloat(a), NEW b, IsFloat(b), NEW r \in LlvmFloatBinary(op, a, b)
        PROVE  IsFloat(r)
    <3>1. IsFloat(Negated(b))
      BY <2>2, FloatOpsType
    <3>2. IsFloat(Sum(a, b)) /\ IsFloat(Sum(a, Negated(b))) /\ IsFloat(Product(a, b))
          /\ \A q \in Quotients(a, b) : IsFloat(q)
      BY <2>2, <3>1, FloatOpsType
    <3> QED BY <2>2, <3>2 DEF LlvmFloatBinary, FloatBinaryOps
  <2>3. PICK r : IsFloat(r) /\ x' = FloatWire(r, NoInt)
    BY <1>10, <2>1, <2>2 DEF FloatBinary, PutFresh
  <2>4. FromOK(r, NoInt)
    BY WidthAssumption DEF FromOK, NoInt
  <2> QED BY <2>3, <2>4, FloatWireOK
<1>11. ASSUME FloatNeg PROVE WireOK(x')
  <2>1. IsFloat(Negated(x.v)) /\ FromOK(Negated(x.v), NoInt)
    <3>1. IsFloat(x.v)
      BY <1>1, <1>11 DEF FloatNeg, WireOK
    <3>2. IsFloat(Negated(x.v))
      BY <3>1, FloatOpsType
    <3>3. FromOK(Negated(x.v), NoInt)
      BY WidthAssumption DEF FromOK, NoInt
    <3> QED BY <3>2, <3>3
  <2> QED BY <1>11, <2>1, FloatWireOK DEF FloatNeg, PutFresh
<1>7. ASSUME NEW f \in FloatConsts, NEW pred \in FloatPredicates, FloatCompare(pred, f)
      PROVE  WireOK(x')
  <2>1. IsFloat(x.v) /\ IsFloat(f)
    BY <1>1, <1>5, <1>7 DEF WireOK, FloatCompare
  <2>2. LlvmFloatCompare(pred, x.v, f) \in BOOLEAN /\ MeansCompare(pred, x.v, f) \in BOOLEAN
    BY <2>1, FloatsCompare
  <2> QED BY <1>7, <2>2, BoolWireOK DEF FloatCompare, PutFresh
<1>8. ASSUME NEW op \in {"And", "Or", "Eq"}, NEW n \in 1 .. 2, NEW first \in BOOLEAN,
             NEW bs \in [1 .. n -> BOOLEAN], Logic(op, bs, first)
      PROVE  WireOK(x')
  <2> DEFINE tags == IF first THEN <<x.v>> \o bs ELSE Append(bs, x.v)
             S == {x.m} \cup {bs[i] : i \in 1 .. Len(bs)}
  <2>1. x.v \in BOOLEAN
    BY <1>1, <1>8 DEF Logic, WireOK
  <2>6. tags = <<x.v>> \o bs \/ tags = Append(bs, x.v)
    OBVIOUS
  <2> HIDE DEF tags
  <2>2. tags \in Seq(BOOLEAN) /\ Len(tags) >= 2
    BY <2>1, <2>6, Inputs
  <2> USE DEF tags
  <2>3. x' = BoolWire(Nary(op, tags), MeansLogic(op, S))
    BY <1>8 DEF Logic, Put
  <2> HIDE DEF tags, S
  <2>4. Nary(op, tags) \in BOOLEAN
    BY <2>2, NaryMeans
  <2>5. MeansLogic(op, S) \in BOOLEAN
    <3>1. MeansLogic("And", S) \in BOOLEAN /\ MeansLogic("Or", S) \in BOOLEAN
      BY DEF MeansLogic
    <3>2. MeansLogic("Eq", S) \in BOOLEAN
      BY DEF MeansLogic
    <3> QED BY <3>1, <3>2
  <2> QED BY <2>3, <2>4, <2>5, BoolWireOK
<1>9. WireOK(x')
  <2>1. CASE Step
    BY <1>1, <1>3, <1>4, <1>6, <1>7, <1>8, <1>10, <1>11, <2>1, BinaryOK, NegOK, ConvertOK, TruncOK,
       UnwrapTruncOK, BooleansOK, RotationOK DEF Step, FloatPredicates
  <2>2. CASE UNCHANGED vars
    BY <1>1, <2>2 DEF vars
  <2> QED BY <2>1, <2>2 DEF Next
<1> QED BY <1>2, <1>9 DEF Inv

-----------------------------------------------------------------------------
(* The theorems.                                                           *)

\* The inductive invariant: what is on the wire is right.
THEOREM WireAlwaysOK == Spec => []Inv
BY InitOK, NextOK, PTL DEF Spec

\* Integers stay within their LLVM type and booleans are booleans.
THEOREM ArithmeticTypesCorrect == Spec => []TypeOK
<1>1. Inv => TypeOK
  BY DEF Inv, WireOK, IntOK, TypeOK
<1> QED BY <1>1, WireAlwaysOK, PTL

\* Whatever the widths and the precision: the poison that the unconditional
\* conversion of build_trunc_op gives out of range is never selected, since
\* a float below the rounded upper bound has its integer part in the type.
THEOREM NoPoison == Spec => []PoisonIsNotSelected
<1>1. Inv => PoisonIsNotSelected
  <2> SUFFICES ASSUME Inv PROVE PoisonIsNotSelected
    OBVIOUS
  <2>1. CASE x.t = "int"
    BY <2>1 DEF Inv, WireOK, IntOK, PoisonIsNotSelected, Poison
  <2>2. CASE x.t = "truncated"
    <3>1. TruncatedOK(x)
      BY <2>2 DEF Inv, WireOK
    <3>2. CASE x.tag = 0
      BY <3>1, <3>2 DEF TruncatedOK, PoisonIsNotSelected, Poison
    <3>3. CASE x.tag = 1
      <4>1. x.log \in 0 .. MaxLog /\ Truncate(x.arg) \in Int
            /\ x.v = Wrap(Truncate(x.arg), StorageWidth(x.log))
        <5>1. /\ x.log \in 0 .. MaxLog /\ x.signed \in BOOLEAN
              /\ Truncate(x.arg) \in MinInt(x.log, x.signed) .. MaxInt(x.log, x.signed)
              /\ x.v = Wrap(Truncate(x.arg), StorageWidth(x.log))
          BY <3>1, <3>3, WidthAssumption DEF TruncatedOK
        <5> QED BY <5>1, Bounds
      <4>2. x.v \in Nat
        BY <4>1, WrapFits
      <4> QED BY <4>2 DEF PoisonIsNotSelected, Poison
    <3> QED BY <3>1, <3>2, <3>3 DEF TruncatedOK
  <2> QED BY <2>1, <2>2 DEF PoisonIsNotSelected
<1> QED BY <1>1, WireAlwaysOK, PTL

\* from_halfturns lets the finite floats through and no others: a rotation that
\* is not finite is a sum.
THEOREM HalfturnsChecked == Spec => []HalfturnsAreChecked
<1>1. Inv => HalfturnsAreChecked
  BY DEF Inv, WireOK, HalfturnsAreChecked
<1> QED BY <1>1, WireAlwaysOK, PTL

\* A trunc that succeeds gives the integer part, and one that fails was applied
\* to a float below the smallest or not below the largest integer.
THEOREM TruncRight == Spec => []TruncIsRight
<1>1. Inv => TruncIsRight
  BY DEF Inv, WireOK, TruncatedOK, TruncIsRight
<1> QED BY <1>1, WireAlwaysOK, PTL

\* Converted to a float and truncated back, the widest integers are exact up to
\* 2^Precision, and beyond that refused or off by half the spacing of floats.
THEOREM RoundTripsClose == Spec => []RoundTrips
<1>1. Inv => RoundTrips
  <2> DEFINE W == Width(MaxLog)
             m == x.from.m
             k == IF x.signed THEN W - 1 ELSE W
             n == IF x.signed THEN Signed(x.v, W) ELSE x.v
             d == n - m
             r == 2^(W - Precision - 1)
  <2> SUFFICES ASSUME Inv, x.t = "truncated", x.log = MaxLog,
                      x.from.log = MaxLog, x.from.signed = x.signed
               PROVE  /\ m \in -(2^Precision) .. 2^Precision => x.tag = 1 /\ d = 0
                      /\ x.tag = 1 => -r <= d /\ d <= r
    BY DEF RoundTrips
  <2>1. TruncatedOK(x) /\ x.signed \in BOOLEAN /\ x.tag \in {0, 1}
    BY DEF Inv, WireOK, TruncatedOK
  <2>2. x.arg = FromInt(m) /\ m \in MinInt(MaxLog, x.signed) .. MaxInt(MaxLog, x.signed)
    BY <2>1 DEF TruncatedOK, FromOK
  <2>3. /\ W \in Nat /\ Precision \in Nat /\ Precision < W - 1 /\ k \in Nat
        /\ 2^Precision \in Nat /\ 2 * 2^Precision <= 2^(W - 1)
        /\ 2^(W - 1) \in Nat /\ 2^W \in Nat /\ 2^W = 2 * 2^(W - 1)
        /\ StorageWidth(MaxLog) = W
    BY Widest, Widths
  <2>4. /\ MaxInt(MaxLog, x.signed) = 2^k - 1
        /\ MinInt(MaxLog, x.signed) = IF x.signed THEN -(2^k) ELSE 0
        /\ 2^k \in Nat /\ 2 * 2^Precision <= 2^k /\ 2^k <= 2^W
        /\ (x.signed => 2^k < 2^W)
    BY <2>1, <2>3, Powers DEF MaxInt, MinInt
  <2>5. m \in Int /\ (m < 0 => x.signed /\ -m \in Nat /\ -m < 2^W) /\ m < 2^W
    BY <2>2, <2>3, <2>4
  <2>6. /\ x.arg.halves = 2 * Round(m) /\ Round(m) \in Int /\ IsFinite(x.arg)
        /\ Truncate(x.arg) = Round(m)
    BY <2>2, <2>5, FiniteIsFloat, TruncateInt
  <2>7. m \in -(2^Precision) .. 2^Precision => Round(m) = m
    <3>1. CASE m < 0
      BY <2>3, <2>5, <3>1, RoundSmall DEF Round
    <3>2. CASE ~(m < 0)
      BY <2>3, <2>5, <3>2, RoundSmall DEF Round
    <3> QED BY <3>1, <3>2
  <2>8. -r <= Round(m) - m /\ Round(m) - m <= r
    <3>1. r \in Nat
      BY <2>3, Powers
    <3>2. ASSUME NEW abs \in Nat, abs < 2^W
          PROVE  /\ RoundTo(2^Shift(abs), abs) \in Int
                 /\ RoundTo(2^Shift(abs), abs) - abs <= r
                 /\ abs - RoundTo(2^Shift(abs), abs) <= r
      <4>1. Shift(abs) \in Nat
        BY ShiftIsOne
      <4>2. RoundTo(2^Shift(abs), abs) \in Int
        BY <4>1, Powers, RoundToNearest
      <4> QED BY <2>3, <3>2, <4>2, RoundNear
    <3> HIDE DEF r, W
    <3>3. CASE m < 0
      <4> DEFINE a == -m
                 t == RoundTo(2^Shift(a), a)
      <4>1. a \in Nat /\ a < 2^W /\ Round(m) = -t
        BY <2>5, <3>3 DEF Round
      <4>2. t \in Int /\ t - a <= r /\ a - t <= r
        BY <3>2, <4>1
      <4> HIDE DEF t
      <4> QED BY <2>5, <3>1, <4>1, <4>2
    <3>4. CASE ~(m < 0)
      <4> DEFINE t == RoundTo(2^Shift(m), m)
      <4>1. m \in Nat /\ m < 2^W /\ Round(m) = t
        BY <2>5, <3>4 DEF Round
      <4>2. t \in Int /\ t - m <= r /\ m - t <= r
        BY <3>2, <4>1
      <4> HIDE DEF t
      <4> QED BY <2>5, <3>1, <4>1, <4>2
    <3> QED BY <3>3, <3>4
  <2>9. x.tag = 1 => n = Round(m)
    <3> SUFFICES ASSUME x.tag = 1 PROVE n = Round(m)
      OBVIOUS
    <3>1. /\ Round(m) \in MinInt(MaxLog, x.signed) .. MaxInt(MaxLog, x.signed)
          /\ x.v = Wrap(Round(m), W)
      BY <2>1, <2>3, <2>6 DEF TruncatedOK
    <3>2. CASE x.signed
      <4>1. Round(m) \in -(2^(W - 1)) .. 2^(W - 1) - 1
        BY <2>4, <3>1, <3>2
      <4>2. Signed(Wrap(Round(m), W), W) = Round(m)
        BY <4>1, Widest, WrapFits
      <4> QED BY <3>1, <3>2, <4>2
    <3>3. CASE ~x.signed
      <4>1. Round(m) \in 0 .. 2^W - 1
        BY <2>1, <2>4, <3>1, <3>3
      <4>2. Wrap(Round(m), W) = Round(m)
        BY <4>1, Widest, WrapFits
      <4> QED BY <3>1, <3>3, <4>2
    <3> QED BY <3>2, <3>3
  <2>10. m \in -(2^Precision) .. 2^Precision => x.tag = 1
    <3> SUFFICES ASSUME m \in -(2^Precision) .. 2^Precision, x.tag = 0 PROVE FALSE
      BY <2>1
    <3>1. 2 * MinInt(MaxLog, x.signed) <= 2 * m /\ x.arg.halves = 2 * m
      BY <2>2, <2>4, <2>5, <2>6, <2>7
    <3>2. m < MaxInt(MaxLog, x.signed) /\ 2 * m < 2 * MaxInt(MaxLog, x.signed)
      <4>1. 2^Precision >= 2
        BY Widest, PowersExceed
      <4> QED BY <2>3, <2>4, <2>5, <4>1
    <3> QED BY <2>1, <2>6, <3>1, <3>2 DEF TruncatedOK
  <2> HIDE DEF r, n, m
  <2>11. x.tag = 1 => d = Round(m) - m
    BY <2>9
  <2>12. m \in -(2^Precision) .. 2^Precision => d = 0
    BY <2>5, <2>7, <2>10, <2>11
  <2> QED BY <2>8, <2>10, <2>11, <2>12
<1> QED BY <1>1, WireAlwaysOK, PTL

\* Remainders: multiples of the divisor, and divisors of it, make no difference.
LEMMA Remainder ==
  ASSUME NEW p \in Nat, p > 0, NEW a \in Int, NEW r \in 0 .. p - 1
  PROVE  (p * a + r) % p = r
<1> DEFINE n == p * a + r
           q == n \div p
           t == n % p
<1>1. p * a \in Int
  OBVIOUS
<1>2. n \in Int
  BY <1>1
<1>3. q \in Int /\ t \in 0 .. p - 1 /\ n = p * q + t
  <2> HIDE DEF n
  <2> QED BY <1>2
<1> HIDE DEF q, t
<1>4. p * (a - q) = t - r
  <2>1. p * (a - q) = p * a - p * q
    BY <1>3
  <2>2. p * q \in Int
    BY <1>3
  <2> QED BY <1>1, <1>3, <2>1, <2>2
<1>5. \A d \in Int : -p < p * d /\ p * d < p => d = 0
  <2>1. ASSUME NEW d \in Int, d >= 1 PROVE p * d >= p
    <3>1. d - 1 \in Nat /\ p * (d - 1) \in Nat /\ p * d = p * (d - 1) + p
      BY <2>1
    <3> QED BY <3>1
  <2>2. ASSUME NEW d \in Int, d <= -1 PROVE p * d <= -p
    <3>1. -d - 1 \in Nat /\ p * (-d - 1) \in Nat /\ p * d = -(p * (-d - 1)) - p
      BY <2>2
    <3> QED BY <3>1
  <2> QED BY <2>1, <2>2
<1>6. a - q = 0
  <2>1. a - q \in Int /\ -p < t - r /\ t - r < p
    BY <1>3
  <2> QED BY <1>4, <1>5, <2>1
<1>7. t = r
  BY <1>3, <1>4, <1>6
<1> QED BY <1>7 DEF t

LEMMA Divides ==
  ASSUME NEW p \in Nat, p > 0, NEW a \in Int
  PROVE  \E q \in Int, r \in 0 .. p - 1 : a % p = r /\ a = p * q + r
<1> DEFINE q == a \div p
           r == a % p
<1>1. q \in Int /\ r \in 0 .. p - 1 /\ a = p * q + r
  OBVIOUS
<1> HIDE DEF q
<1> QED BY <1>1

LEMMA Shifted ==
  ASSUME NEW p \in Nat, p > 0, NEW a \in Int, NEW n \in Int
  PROVE  (p * a + n) % p = n % p
<1>2. PICK q \in Int, r \in 0 .. p - 1 : n % p = r /\ n = p * q + r
  BY Divides
<1>3. p * a + n = p * (a + q) + r /\ a + q \in Int
  BY <1>2
<1>4. (p * (a + q) + r) % p = r
  BY <1>2, <1>3, Remainder
<1> QED BY <1>2, <1>3, <1>4

LEMMA WrapWrap ==
  ASSUME NEW l \in 0 .. MaxLog, NEW n \in Int
  PROVE  Wrap(Wrap(n, StorageWidth(l)), Width(l)) = Wrap(n, Width(l))
<1> DEFINE p == 2^Width(l)
           s == 2^StorageWidth(l)
           c == 2^(StorageWidth(l) - Width(l))
<1>1. p \in Nat /\ p > 0 /\ s \in Nat /\ c \in Nat /\ s = p * c /\ s > 0
  <2>1. /\ Width(l) \in Nat /\ StorageWidth(l) \in Nat /\ Width(l) <= StorageWidth(l)
        /\ StorageWidth(l) - Width(l) \in Nat
    BY Widths
  <2> QED BY <2>1, PowersGrow, Powers
<1> HIDE DEF p, s, c
<1>2. PICK q \in Int, r \in 0 .. s - 1 : n % s = r /\ n = s * q + r
  BY <1>1, Divides
<1>3. r \in Int /\ n = s * q + r
  BY <1>1, <1>2
<1>4. s * q = p * (c * q) /\ c * q \in Int
  BY <1>1
<1>5. (p * (c * q) + r) % p = r % p
  BY <1>1, <1>3, <1>4, Shifted
<1>6. n % p = r % p
  BY <1>3, <1>4, <1>5
<1> QED BY <1>2, <1>6 DEF Wrap, p, s

\* Sums, differences and products of remainders.
LEMMA Congruent ==
  ASSUME NEW p \in Nat, p > 0, NEW a \in Int, NEW b \in Int
  PROVE  /\ (a + b) % p = ((a % p) + (b % p)) % p
         /\ (a - b) % p = ((a % p) - (b % p)) % p
         /\ (a * b) % p = ((a % p) * (b % p)) % p
<1>1. PICK i \in Int, c \in 0 .. p - 1 : a % p = c /\ a = p * i + c
  BY Divides
<1>2. PICK j \in Int, d \in 0 .. p - 1 : b % p = d /\ b = p * j + d
  BY Divides
<1>3. c \in Int /\ d \in Int /\ a = p * i + c /\ b = p * j + d
  BY <1>1, <1>2
<1>4. a + b = p * (i + j) + (c + d) /\ a - b = p * (i - j) + (c - d)
      /\ a * b = p * (p * i * j + i * d + c * j) + c * d
  <2>1. a + b = p * (i + j) + (c + d) /\ a - b = p * (i - j) + (c - d)
    BY <1>3
  <2>2. a * b = p * (p * i * j + i * d + c * j) + c * d
    BY <1>3
  <2> QED BY <2>1, <2>2
<1>5. i + j \in Int /\ i - j \in Int /\ c + d \in Int /\ c - d \in Int
  BY <1>3
<1>6. p * i * j + i * d + c * j \in Int /\ c * d \in Int
  BY <1>3
<1>7. (a + b) % p = (c + d) % p /\ (a - b) % p = (c - d) % p
  <2>1. /\ (p * (i + j) + (c + d)) % p = (c + d) % p
        /\ (p * (i - j) + (c - d)) % p = (c - d) % p
    BY <1>5, Shifted
  <2> QED BY <1>4, <2>1
<1>8. (a * b) % p = (c * d) % p
  <2> DEFINE e == p * i * j + i * d + c * j
  <2>1. e \in Int /\ a * b = p * e + c * d
    BY <1>4, <1>6
  <2> HIDE DEF e
  <2>2. (p * e + c * d) % p = (c * d) % p
    BY <1>6, <2>1, Shifted
  <2> QED BY <2>1, <2>2
<1>9. /\ (a % p) + (b % p) = c + d /\ (a % p) - (b % p) = c - d
      /\ (a % p) * (b % p) = c * d
  <2>1. a % p = c /\ b % p = d
    BY <1>1, <1>2
  <2> QED BY <2>1, Zenon
<1> QED
  <2>1. (a + b) % p = ((a % p) + (b % p)) % p
    BY <1>7, <1>9
  <2>2. (a - b) % p = ((a % p) - (b % p)) % p
    BY <1>7, <1>9
  <2>3. (a * b) % p = ((a % p) * (b % p)) % p
    BY <1>8, <1>9
  <2> QED BY <2>1, <2>2, <2>3

\* The operations whose low bits depend on the low bits of their operands alone.
LEMMA RingWraps ==
  ASSUME NEW l \in 0 .. MaxLog, NEW op \in BinaryOps \ Divisions,
         NEW a \in Int, NEW b \in Int
  PROVE  Wrap(Apply(op, a, b, StorageWidth(l)), Width(l))
           = Apply(op, Wrap(a, Width(l)), Wrap(b, Width(l)), Width(l))
<1>1. 2^Width(l) \in Nat /\ 2^Width(l) > 0
  BY Widths
<1>2. a + b \in Int /\ a - b \in Int /\ a * b \in Int
  OBVIOUS
<1>3. /\ Wrap(a + b, Width(l)) = Wrap(Wrap(a, Width(l)) + Wrap(b, Width(l)), Width(l))
      /\ Wrap(a - b, Width(l)) = Wrap(Wrap(a, Width(l)) - Wrap(b, Width(l)), Width(l))
      /\ Wrap(a * b, Width(l)) = Wrap(Wrap(a, Width(l)) * Wrap(b, Width(l)), Width(l))
  <2> DEFINE p == 2^Width(l)
  <2>1. p \in Nat /\ p > 0
    BY <1>1
  <2> HIDE DEF p
  <2>2. /\ (a + b) % p = ((a % p) + (b % p)) % p
        /\ (a - b) % p = ((a % p) - (b % p)) % p
        /\ (a * b) % p = ((a % p) * (b % p)) % p
    BY <2>1, Congruent
  <2>3. \A n : Wrap(n, Width(l)) = n % p
    BY DEF Wrap, p
  <2> QED BY <2>2, <2>3, Zenon
<1>4. \A n \in Int : Wrap(Wrap(n, StorageWidth(l)), Width(l)) = Wrap(n, Width(l))
  BY WrapWrap
<1>5. CASE op = "iadd"
  BY <1>2, <1>3, <1>4, <1>5 DEF Apply
<1>6. CASE op = "isub"
  BY <1>2, <1>3, <1>4, <1>6 DEF Apply
<1>7. CASE op = "imul"
  BY <1>2, <1>3, <1>4, <1>7 DEF Apply
<1> QED BY <1>5, <1>6, <1>7 DEF BinaryOps, Divisions

\* Divisions do so of the numbers that both operands' bits are read as.
LEMMA DivisionWraps ==
  ASSUME NEW l \in 0 .. MaxLog, NEW op \in Divisions,
         NEW a \in Int, NEW b \in Int, NEW c \in Int, NEW d \in Int,
         op = "idiv_u" => a = c /\ b = d,
         op # "idiv_u" => /\ Signed(a, StorageWidth(l)) = Signed(c, Width(l))
                          /\ Signed(b, StorageWidth(l)) = Signed(d, Width(l))
  PROVE  Wrap(Apply(op, a, b, StorageWidth(l)), Width(l)) = Apply(op, c, d, Width(l))
<1> DEFINE s == Signed(c, Width(l))
           r == Signed(d, Width(l))
<1>1. s \in Int /\ r \in Int
  BY Widths, SignedType
<1>2. Quotient(c, d) \in Int /\ Quotient(s, r) \in Int
  BY <1>1, QuotientType
<1>3. s - r * Quotient(s, r) \in Int
  <2> HIDE DEF s, r
  <2> QED BY <1>1, <1>2
<1>4. \A n \in Int : Wrap(Wrap(n, StorageWidth(l)), Width(l)) = Wrap(n, Width(l))
  BY WrapWrap
<1>5. CASE op = "idiv_u"
  BY <1>2, <1>4, <1>5 DEF Apply
<1>6. CASE op = "idiv_s"
  BY <1>2, <1>4, <1>6 DEF Apply
<1>7. CASE op = "imod_s"
  <2>1. Apply(op, a, b, StorageWidth(l)) = Wrap(s - r * Quotient(s, r), StorageWidth(l))
    BY <1>7 DEF Apply
  <2>2. Apply(op, c, d, Width(l)) = Wrap(s - r * Quotient(s, r), Width(l))
    BY <1>7 DEF Apply
  <2> QED BY <1>3, <1>4, <2>1, <2>2
<1> QED BY <1>5, <1>6, <1>7 DEF Divisions

\* A binary operation on integers right up to their width gives another.
LEMMA BinaryComputes ==
  ASSUME WireOK(x), ComputesTheOperations, x.log \in Logs, NEW k \in IntConsts(x.log),
         NEW op \in BinaryOps, NEW left \in BOOLEAN, IntBinary(op, k, left), ~astray',
         astray \in BOOLEAN
  PROVE  x'.t = "int" /\ Wrap(x'.v, Width(x'.log)) = x'.m
<1> DEFINE l == x.log
           c == ConstInt(l, k)
           a == IF left THEN x ELSE c
           b == IF left THEN c ELSE x
<1>1. /\ x.t = "int" /\ x' = IntWire(l, Apply(op, a.v, b.v, StorageWidth(l)),
                                      Apply(op, a.m, b.m, Width(l)))
      /\ ~astray /\ (op \in Divisions => DividesRight(op, a, b))
  BY DEF IntBinary, LlvmBinary, PutRead
<1>2. IntOK(x)
  BY <1>1 DEF WireOK
<1>3. /\ l \in 0 .. MaxLog /\ c.v = k /\ c.m = k /\ c.log = l
      /\ k \in 0 .. 2^StorageWidth(l) - 1 /\ k \in 0 .. 2^Width(l) - 1
  BY ConstantOK DEF IntWire
<1>4. Wrap(x.v, Width(l)) = x.m /\ Wrap(k, Width(l)) = k
  BY <1>1, <1>3, WrapFits DEF ComputesTheOperations
<1>5. /\ a.v \in Int /\ b.v \in Int /\ a.m \in Int /\ b.m \in Int
      /\ Wrap(a.v, Width(l)) = a.m /\ Wrap(b.v, Width(l)) = b.m
      /\ a.log = l /\ b.log = l
  BY <1>2, <1>3, <1>4, Widths DEF IntOK
<1> HIDE DEF a, b, c
<1>6. Wrap(Apply(op, a.v, b.v, StorageWidth(l)), Width(l)) = Apply(op, a.m, b.m, Width(l))
  <2>1. CASE op \in Divisions
    <3>1. /\ op = "idiv_u" => a.v = a.m /\ b.v = b.m
          /\ op # "idiv_u" => /\ Signed(a.v, StorageWidth(l)) = Signed(a.m, Width(l))
                              /\ Signed(b.v, StorageWidth(l)) = Signed(b.m, Width(l))
      BY <1>1, <1>5, <2>1 DEF DividesRight, ReadsRight
    <3> QED BY <1>3, <1>5, <2>1, <3>1, DivisionWraps
  <2>2. CASE op \notin Divisions
    BY <1>3, <1>5, <2>2, RingWraps
  <2> QED BY <2>1, <2>2
<1> QED BY <1>1, <1>6 DEF IntWire

\* So does a negation.
LEMMA NegComputes ==
  ASSUME WireOK(x), ComputesTheOperations, x.log \in Logs, IntNeg, ~astray'
  PROVE  x'.t = "int" /\ Wrap(x'.v, Width(x'.log)) = x'.m
<1> DEFINE l == x.log
<1>1. /\ x.t = "int" /\ ~astray
      /\ x' = IntWire(l, Wrap(-x.v, StorageWidth(l)), Wrap(-x.m, Width(l)))
  BY DEF IntNeg, Put
<1>2. IntOK(x) /\ l \in 0 .. MaxLog /\ Wrap(x.v, Width(l)) = x.m
  BY <1>1, WidthAssumption DEF WireOK, ComputesTheOperations
<1>3. x.v \in Int /\ x.m \in Int
  BY <1>2, Widths DEF IntOK
<1>4. Wrap(-x.v, Width(l)) = Wrap(-x.m, Width(l))
  <2> DEFINE p == 2^Width(l)
             a == x.v
             m == x.m
  <2>1. p \in Nat /\ p > 0 /\ m = a % p /\ a \in Int /\ m \in Int
    BY <1>2, <1>3, Widths DEF Wrap
  <2> HIDE DEF p, a, m
  <2>2. PICK q \in Int, r \in 0 .. p - 1 : a % p = r /\ a = p * q + r
    BY <2>1, Divides
  <2>3. -a = p * (-q) + (-m) /\ -q \in Int /\ -m \in Int
    BY <2>1, <2>2
  <2>4. (p * (-q) + (-m)) % p = (-m) % p
    BY <2>1, <2>3, Shifted
  <2>5. (-a) % p = (-m) % p
    BY <2>3, <2>4
  <2> QED BY <2>5 DEF Wrap, p, a, m
<1>5. Wrap(Wrap(-x.v, StorageWidth(l)), Width(l)) = Wrap(-x.v, Width(l))
  BY <1>2, <1>3, WrapWrap
<1> QED BY <1>1, <1>4, <1>5 DEF IntWire

\* A comparison that reads the bits as the numbers meant gives what they give.
LEMMA ComparesRight ==
  ASSUME WireOK(x), NEW k \in IntConsts(x.log), x.log \in Logs,
         NEW pred \in Predicates, IntCompare(pred, k), ~astray'
  PROVE  x'.t = "bool" /\ x'.v = x'.m
<1> DEFINE c == ConstInt(x.log, k)
           S == StorageWidth(x.log)
           W == Width(x.log)
           signed == pred \in SignedPredicates
<1>1. /\ x.t = "int"
      /\ x' = BoolWire(Holds(pred, x.v, c.v, S), Holds(pred, x.m, k, W))
      /\ ReadsRight(x, signed) /\ ReadsRight(c, signed)
  BY DEF IntCompare, PutRead
<1>2. /\ c.v = k /\ c.m = k /\ c.log = x.log /\ x.log \in 0 .. MaxLog /\ k \in Nat
      /\ S \in Nat /\ W \in Nat /\ x.v \in Int /\ x.m \in Int
  BY <1>1, ConstantOK, Widths DEF IntWire, WireOK, IntOK
<1> DEFINE s == Signed(x.m, W)
           r == Signed(k, W)
<1>3. s \in Int /\ r \in Int
  <2>1. W \in Nat /\ x.m \in Int /\ k \in Int
    BY <1>2
  <2> HIDE DEF W
  <2> QED BY <2>1, SignedType
<1>4. CASE signed
  <2>1. Signed(x.v, S) = s /\ Signed(c.v, S) = r
    BY <1>1, <1>2, <1>4 DEF ReadsRight
  <2> HIDE DEF s, r, c, S, W
  <2>2. Holds(pred, x.v, c.v, S) = Holds(pred, x.m, k, W)
    BY <1>4, <2>1 DEF Holds, SignedPredicates, s, r
  <2> QED BY <1>1, <2>2 DEF BoolWire
<1>5. CASE ~signed
  <2>1. x.v = x.m /\ c.v = k
    BY <1>1, <1>2, <1>5 DEF ReadsRight
  <2> HIDE DEF s, r, c, S, W
  <2>2. Holds(pred, x.v, c.v, S) = Holds(pred, x.m, k, W)
    BY <1>5, <2>1 DEF Holds, SignedPredicates, Predicates
  <2> QED BY <1>1, <2>2 DEF BoolWire
<1> QED BY <1>4, <1>5

\* An integer that is converted becomes the float nearest to it.
LEMMA ConvertComputes ==
  ASSUME WireOK(x), x.log \in Logs, NEW signed \in BOOLEAN, Convert(signed), ~astray'
  PROVE  x'.t = "float" /\ x'.v = FromInt(x'.from.m)
<1>1. /\ x' = FloatWire(FromInt(IF signed THEN Signed(x.v, StorageWidth(x.log)) ELSE x.v),
                        Converted(signed))
      /\ ReadsRight(x, signed)
  BY DEF Convert, PutRead
<1>2. (IF signed THEN Signed(x.v, StorageWidth(x.log)) ELSE x.v) = Converted(signed).m
  BY <1>1 DEF ReadsRight, Converted
<1> QED BY <1>1, <1>2 DEF FloatWire

\* Conversions to and from booleans, and from floats.
LEMMA ConversionsCompute ==
  ASSUME WireOK(x), ComputesTheOperations, ~astray', UnwrapTrunc \/ IToBool \/ IFromBool
  PROVE  /\ x'.t \in {"int", "bool"}
         /\ x'.t = "int" => Wrap(x'.v, Width(x'.log)) = x'.m
         /\ x'.t = "bool" => x'.v = x'.m
<1>1. CASE UnwrapTrunc
  <2>1. /\ x.t = "truncated" /\ x.tag = 1
        /\ x' = IntWire(x.log, x.v, Wrap(Truncate(x.arg), Width(x.log)))
    BY <1>1 DEF UnwrapTrunc, PutFresh
  <2>2. /\ x.log \in 0 .. MaxLog /\ x.signed \in BOOLEAN
        /\ Truncate(x.arg) \in MinInt(x.log, x.signed) .. MaxInt(x.log, x.signed)
        /\ x.v = Wrap(Truncate(x.arg), StorageWidth(x.log))
    BY <2>1, WidthAssumption DEF WireOK, TruncatedOK
  <2>3. Truncate(x.arg) \in Int
    BY <2>2, Bounds
  <2>4. Wrap(x.v, Width(x.log)) = Wrap(Truncate(x.arg), Width(x.log))
    BY <2>2, <2>3, WrapWrap
  <2> QED BY <2>1, <2>4 DEF IntWire
<1>2. CASE IToBool
  <2>1. x' = BoolWire(x.v = 1, x.m = 1) /\ x.v = x.m
    BY <1>2 DEF IToBool, PutRead, ReadsRight
  <2>2. (x.v = 1) = (x.m = 1)
    BY <2>1
  <2> QED BY <2>1, <2>2 DEF BoolWire
<1>3. CASE IFromBool
  <2> DEFINE v == IF x.v THEN 1 ELSE 0
  <2>1. x' = IntWire(0, v, v)
    BY <1>3 DEF IFromBool, Put, ComputesTheOperations
  <2>2. 0 \in 0 .. MaxLog
    BY WidthAssumption
  <2>3. 2^Width(0) = 2 * 2^(Width(0) - 1) /\ 2^(Width(0) - 1) \in Nat /\ 2^(Width(0) - 1) > 0
    BY <2>2, Widths
  <2>4. v \in 0 .. 1
    OBVIOUS
  <2> HIDE DEF v
  <2>5. v \in 0 .. 2^Width(0) - 1
    BY <2>3, <2>4
  <2>6. Wrap(v, Width(0)) = v
    BY <2>2, <2>5, WrapFits
  <2> QED BY <2>1, <2>6 DEF IntWire
<1> QED BY <1>1, <1>2, <1>3

\* What the wire holds is what the operations mean, whatever the widths and the
\* sequence of operations: a wide integer is the number meant, a narrow one is
\* so up to its width for as long as no operation reads the bits beyond.
THEOREM OperationsCompute == Spec => []ComputesTheOperations
<1>1. Init => ComputesTheOperations
  BY DEF Init, NoWire, ComputesTheOperations
<1>2. Inv /\ ComputesTheOperations /\ [Next]_vars => ComputesTheOperations'
  <2> SUFFICES ASSUME Inv, ComputesTheOperations, [Next]_vars PROVE ComputesTheOperations'
    OBVIOUS
  <2>1. WireOK(x) /\ WireOK(x') /\ astray \in BOOLEAN
    BY NextOK DEF Inv
  <2>2. x'.t = "int" /\ NarrowLog <= x'.log => x'.v = x'.m
    BY <2>1 DEF WireOK, IntOK
  <2>3. ASSUME x'.t \notin {"int", "bool", "float"} PROVE ComputesTheOperations'
    BY <2>3 DEF ComputesTheOperations
  <2>4. ASSUME x'.t = "int", ~astray' => Wrap(x'.v, Width(x'.log)) = x'.m
        PROVE  ComputesTheOperations'
    BY <2>2, <2>4 DEF ComputesTheOperations
  <2>5. ASSUME x'.t = "bool", ~astray' => x'.v = x'.m
        PROVE  ComputesTheOperations'
    BY <2>5 DEF ComputesTheOperations
  <2>6. ASSUME x'.t = "float", x'.from = NoInt \/ (~astray' => x'.v = FromInt(x'.from.m))
        PROVE  ComputesTheOperations'
    BY <2>6 DEF ComputesTheOperations
  <2>7. ASSUME NEW l \in Logs, NEW k \in IntConsts(l), LoadInt(l, k)
        PROVE  ComputesTheOperations'
    <3>1. x' = IntWire(l, k, k) /\ l \in 0 .. MaxLog /\ k \in 0 .. 2^Width(l) - 1
      BY <2>7, ConstantOK DEF LoadInt, PutFresh
    <3>2. Wrap(k, Width(l)) = k
      BY <3>1, WrapFits
    <3> QED BY <2>4, <3>1, <3>2 DEF IntWire
  <2>8. ASSUME NEW l \in Logs, NEW k \in IntConsts(l), x.log = l,
               NEW op \in BinaryOps, NEW left \in BOOLEAN, IntBinary(op, k, left)
        PROVE  ComputesTheOperations'
    <3>1. x'.t = "int"
      BY <2>8 DEF IntBinary, PutRead, IntWire
    <3> QED BY <2>1, <2>4, <2>8, <3>1, BinaryComputes
  <2>9. ASSUME x.log \in Logs, IntNeg PROVE ComputesTheOperations'
    <3>1. x'.t = "int"
      BY <2>9 DEF IntNeg, Put, IntWire
    <3> QED BY <2>1, <2>4, <2>9, <3>1, NegComputes
  <2>10. ASSUME NEW l \in Logs, NEW k \in IntConsts(l), x.log = l,
                NEW pred \in Predicates, IntCompare(pred, k)
         PROVE  ComputesTheOperations'
    <3>1. x'.t = "bool"
      BY <2>10 DEF IntCompare, PutRead, BoolWire
    <3> QED BY <2>1, <2>5, <2>10, <3>1, ComparesRight
  <2>11. ASSUME x.log \in Logs, NEW signed \in BOOLEAN, Convert(signed)
         PROVE  ComputesTheOperations'
    <3>1. x'.t = "float"
      BY <2>11 DEF Convert, PutRead, FloatWire
    <3> QED BY <2>1, <2>6, <2>11, <3>1, ConvertComputes
  <2>12. ASSUME NEW f \in FloatConsts, NEW pred \in FloatPredicates, FloatCompare(pred, f)
         PROVE  ComputesTheOperations'
    <3>1. IsFloat(x.v) /\ IsFloat(f)
      BY <2>1, <2>12, WidthAssumption DEF WireOK, FloatCompare
    <3>2. LlvmFloatCompare(pred, x.v, f) = MeansCompare(pred, x.v, f)
      BY <3>1, FloatsCompare
    <3>3. x'.t = "bool" /\ x'.v = x'.m
      BY <2>12, <3>2 DEF FloatCompare, PutFresh, BoolWire
    <3> QED BY <2>5, <3>3
  <2>13. ASSUME UnwrapTrunc \/ IToBool \/ IFromBool PROVE ComputesTheOperations'
    <3>1. x'.t = "int" \/ x'.t = "bool"
      <4>1. UnwrapTrunc \/ IFromBool => x'.t = "int"
        BY DEF UnwrapTrunc, IFromBool, PutFresh, Put, IntWire
      <4>2. IToBool => x'.t = "bool"
        BY DEF IToBool, PutRead, BoolWire
      <4> QED BY <2>13, <4>1, <4>2
    <3> QED BY <2>1, <2>4, <2>5, <2>13, <3>1, ConversionsCompute
  <2>14. ASSUME NEW op \in {"And", "Or", "Eq"}, NEW n \in 1 .. 2, NEW first \in BOOLEAN,
                NEW bs \in [1 .. n -> BOOLEAN], Logic(op, bs, first)
         PROVE  ComputesTheOperations'
    <3> DEFINE tags == IF first THEN <<x.v>> \o bs ELSE Append(bs, x.v)
               S == {x.m} \cup {bs[i] : i \in 1 .. Len(bs)}
    <3>1. /\ x.v \in BOOLEAN /\ (~astray => x.v = x.m) /\ astray' = astray
          /\ x' = BoolWire(Nary(op, tags), MeansLogic(op, S))
      BY <2>1, <2>14 DEF Logic, WireOK, Put, ComputesTheOperations
    <3>2. tags = <<x.v>> \o bs \/ tags = Append(bs, x.v)
      OBVIOUS
    <3> HIDE DEF tags
    <3>3. /\ tags \in Seq(BOOLEAN) /\ Len(tags) >= 2
          /\ {tags[i] : i \in 1 .. Len(tags)} = {x.v} \cup {bs[i] : i \in 1 .. Len(bs)}
      BY <3>1, <3>2, Inputs
    <3>4. Nary(op, tags) = MeansLogic(op, {x.v} \cup {bs[i] : i \in 1 .. Len(bs)})
      BY <3>3, NaryMeans
    <3>5. ~astray' => Nary(op, tags) = MeansLogic(op, S)
      BY <3>1, <3>4
    <3> HIDE DEF S
    <3> QED BY <2>5, <3>1, <3>5 DEF BoolWire
  <2>15. ASSUME \/ \E f \in FloatConsts : LoadFloat(f)
                \/ \E f \in FloatConsts, op \in FloatBinaryOps, left \in BOOLEAN :
                     FloatBinary(op, f, left)
                \/ FloatNeg \/ ToHalfturns
         PROVE  ComputesTheOperations'
    <3>1. x'.t = "float" /\ x'.from = NoInt
      BY <2>15 DEF LoadFloat, FloatBinary, FloatNeg, ToHalfturns, PutFresh, Put, FloatWire
    <3> QED BY <2>6, <3>1
  <2>16. ASSUME \/ \E l \in Logs, signed \in BOOLEAN : Trunc(l, signed)
                \/ \E f \in FloatConsts : LoadRotation(f) \/ RAdd(f)
                \/ FromHalfturns \/ UnwrapRotation
         PROVE  ComputesTheOperations'
    BY <2>3, <2>16 DEF Trunc, LoadRotation, RAdd, FromHalfturns, UnwrapRotation, PutFresh, Put,
       Truncated, Rotation, Halfturns
  <2>17. ASSUME FromHalfturnsUnchecked PROVE ComputesTheOperations'
    <3>1. CASE x' = x /\ astray' = astray
      BY <3>1 DEF ComputesTheOperations
    <3>2. CASE x' = Rotation(x.v, FALSE)
      BY <2>3, <3>2 DEF Rotation
    <3> QED BY <2>17, <3>1, <3>2 DEF FromHalfturnsUnchecked, Put
  <2>18. CASE UNCHANGED vars
    BY <2>18 DEF vars, ComputesTheOperations
  <2> QED BY <2>7, <2>8, <2>9, <2>10, <2>11, <2>12, <2>13, <2>14, <2>15, <2>16, <2>17, <2>18
          DEF Next, Step, FloatPredicates
<1> QED BY <1>1, <1>2, WireAlwaysOK, PTL DEF Spec
=============================================================================
