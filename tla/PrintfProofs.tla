---------------------------- MODULE PrintfProofs ---------------------------
(***************************************************************************)
(* Proof that do_printf prints what its formats mean.  In this order: what *)
(* recursive definitions compute; numerals, and that the do-while of       *)
(* DO_NUM computes them; the digits of a width; FlattenSeq; what Number,   *)
(* Character and String print; how directives are spelled and where they   *)
(* stand in the format; what each turn of the loop does; the invariant.    *)
(***************************************************************************)
EXTENDS Printf, SequenceTheorems, WellFoundedInduction, TLAPS

-----------------------------------------------------------------------------
(* Recursive functions. *)

(***************************************************************************)
(* Induction over the numbers, with a set where the library's theorem has  *)
(* an operator.                                                            *)
(***************************************************************************)
LEMMA Induction ==
    ASSUME NEW S, 0 \in S, \A n \in Nat : n \in S => n + 1 \in S
    PROVE  Nat \subseteq S
<1> SUFFICES ASSUME NEW m \in Nat, m \notin S PROVE FALSE
  OBVIOUS
<1> DEFINE T == Nat \ S
<1>1. T \subseteq Nat /\ T # {}
  OBVIOUS
<1>2. PICK x \in T : \A y \in T : ~(<<y, x>> \in OpToRel(<, Nat))
  BY <1>1, NatLessThanWellFounded, WFMin, Zenon
<1>3. x \in Nat /\ x # 0 /\ x \notin S
  OBVIOUS
<1>4. x - 1 \in Nat /\ x - 1 < x /\ (x - 1) + 1 = x
  BY <1>3
<1>5. x - 1 \in T => <<x - 1, x>> \in OpToRel(<, Nat)
  BY <1>3, <1>4 DEF OpToRel
<1> QED
  BY <1>2, <1>3, <1>4, <1>5

\* A step of a recursion, and the value of h it starts from.
Do(F, n, x) == F[n][x]
Before(h, prev, n) == h[prev[n]]

\* h[n] by its equation: c in base, and elsewhere F of an earlier value.
Equation(h, n, base, c, prev, F) ==
    h[n] = IF n \in base THEN c[n] ELSE Do(F, n, Before(h, prev, n))

\* h satisfies it up to n.
UpTo(h, n, base, c, prev, F, V) ==
    /\ h \in [0 .. n -> V]
    /\ \A m \in 0 .. n : Equation(h, m, base, c, prev, F)

(***************************************************************************)
(* A step that maps V into V stays in V.                                   *)
(***************************************************************************)
LEMMA DoType ==
    ASSUME NEW V, NEW F \in [Nat -> [V -> V]], NEW n \in Nat, NEW x \in V
    PROVE  Do(F, n, x) \in V
<1>1. F[n] \in [V -> V]
  OBVIOUS
<1> QED
  BY <1>1 DEF Do

(***************************************************************************)
(* A function defined by such an equation exists: there is one up to every *)
(* number, and two of them agree where both are defined.                   *)
(***************************************************************************)
LEMMA Recursion ==
    ASSUME NEW V, NEW base, 0 \in base, NEW c \in [Nat -> V], NEW prev \in [Nat -> Nat],
           \A n \in Nat \ base : prev[n] < n, NEW F \in [Nat -> [V -> V]]
    PROVE  \E f \in [Nat -> V] : \A n \in Nat : Equation(f, n, base, c, prev, F)
<1> DEFINE Part(h, n) == UpTo(h, n, base, c, prev, F, V)
           S == {n \in Nat : \E h : Part(h, n)}
           T == {k \in Nat : \A a, b \in Nat : \A h, g :
                    Part(h, a) /\ Part(g, b) /\ k <= a /\ k <= b
                    => \A j \in 0 .. k : h[j] = g[j]}
<1>1. 0 \in S
  <2> DEFINE h == [m \in 0 .. 0 |-> c[m]]
  <2>1. h \in [0 .. 0 -> V] /\ h[0] = c[0]
    OBVIOUS
  <2>2. \A m \in 0 .. 0 : m = 0
    OBVIOUS
  <2> HIDE DEF h
  <2>3. Part(h, 0)
    BY <2>1, <2>2 DEF UpTo, Equation
  <2> QED
    BY <2>3
<1>2. ASSUME NEW n \in Nat, n \in S PROVE n + 1 \in S
  <2>1. PICK g : Part(g, n)
    BY <1>2
  <2>2. g \in [0 .. n -> V] /\ \A m \in 0 .. n : Equation(g, m, base, c, prev, F)
    BY <2>1 DEF UpTo
  <2> DEFINE last == IF n + 1 \in base THEN c[n + 1] ELSE Do(F, n + 1, Before(g, prev, n + 1))
             h == [m \in 0 .. (n + 1) |-> IF m <= n THEN g[m] ELSE last]
  <2>3. last \in V
    <3>1. CASE n + 1 \in base
      BY <3>1
    <3>2. CASE n + 1 \notin base
      <4>1. n + 1 \in Nat /\ prev[n + 1] \in 0 .. n
        BY <3>2
      <4>2. Before(g, prev, n + 1) \in V
        BY <2>2, <4>1 DEF Before
      <4>3. Do(F, n + 1, Before(g, prev, n + 1)) \in V
        BY <4>1, <4>2, DoType
      <4> QED
        BY <3>2, <4>3
    <3> QED
      BY <3>1, <3>2
  <2> HIDE DEF last
  <2>4. h \in [0 .. (n + 1) -> V]
    <3>1. ASSUME NEW m \in 0 .. (n + 1) PROVE (IF m <= n THEN g[m] ELSE last) \in V
      BY <2>2, <2>3
    <3> QED
      BY <3>1
  <2>5. ASSUME NEW m \in 0 .. n PROVE h[m] = g[m]
    BY <2>5
  <2>6. h[n + 1] = last
    OBVIOUS
  <2> HIDE DEF h
  <2>7. ASSUME NEW m \in 0 .. (n + 1) PROVE Equation(h, m, base, c, prev, F)
    <3>1. m \notin base => prev[m] \in 0 .. n /\ Before(h, prev, m) = Before(g, prev, m)
      <4> SUFFICES ASSUME m \notin base PROVE prev[m] \in 0 .. n /\ Before(h, prev, m) = Before(g, prev, m)
        OBVIOUS
      <4>1. m \in Nat \ base
        OBVIOUS
      <4>2. prev[m] \in Nat /\ prev[m] < m
        BY <4>1
      <4>3. prev[m] \in 0 .. n
        BY <4>2
      <4> QED
        BY <4>3, <2>5 DEF Before
    <3>2. CASE m \in 0 .. n
      <4>1. h[m] = g[m] /\ Equation(g, m, base, c, prev, F)
        BY <2>2, <2>5, <3>2
      <4> QED
        BY <4>1, <3>1 DEF Equation
    <3>3. CASE m = n + 1
      BY <2>6, <3>1, <3>3 DEF Equation, last
    <3> QED
      BY <3>2, <3>3
  <2>8. Part(h, n + 1)
    BY <2>4, <2>7 DEF UpTo
  <2> QED
    BY <2>8
<1>3. 0 \in T
  <2> SUFFICES ASSUME NEW a \in Nat, NEW b \in Nat, NEW h, NEW g, Part(h, a), Part(g, b)
               PROVE  \A j \in 0 .. 0 : h[j] = g[j]
    OBVIOUS
  <2>1. Equation(h, 0, base, c, prev, F) /\ Equation(g, 0, base, c, prev, F)
    BY DEF UpTo
  <2>2. h[0] = g[0]
    BY <2>1 DEF Equation
  <2> QED
    BY <2>2
<1>4. ASSUME NEW k \in Nat, k \in T PROVE k + 1 \in T
  <2> SUFFICES ASSUME NEW a \in Nat, NEW b \in Nat, NEW h, NEW g, Part(h, a), Part(g, b),
                      k + 1 <= a, k + 1 <= b
               PROVE  \A j \in 0 .. (k + 1) : h[j] = g[j]
    OBVIOUS
  <2>1. \A j \in 0 .. k : h[j] = g[j]
    BY <1>4
  <2>2. Equation(h, k + 1, base, c, prev, F) /\ Equation(g, k + 1, base, c, prev, F)
    BY DEF UpTo
  <2>3. CASE k + 1 \in base
    <3>1. h[k + 1] = g[k + 1]
      BY <2>2, <2>3 DEF Equation
    <3> QED
      BY <2>1, <3>1
  <2>4. CASE k + 1 \notin base
    <3>1. prev[k + 1] \in 0 .. k
      BY <2>4
    <3>2. Before(h, prev, k + 1) = Before(g, prev, k + 1)
      BY <2>1, <3>1 DEF Before
    <3>3. h[k + 1] = g[k + 1]
      BY <2>2, <2>4, <3>2 DEF Equation
    <3> QED
      BY <2>1, <3>3
  <2> QED
    BY <2>3, <2>4
<1> HIDE DEF S, T
<1>5. Nat \subseteq S /\ Nat \subseteq T
  BY <1>1, <1>2, <1>3, <1>4, Induction
<1> DEFINE H(n) == CHOOSE h : Part(h, n)
           f == [n \in Nat |-> H(n)[n]]
<1>6. ASSUME NEW n \in Nat PROVE Part(H(n), n)
  BY <1>5 DEF S
<1> HIDE DEF H
<1>7. ASSUME NEW n \in Nat
      PROVE  H(n) \in [0 .. n -> V] /\ Equation(H(n), n, base, c, prev, F)
  BY <1>6 DEF UpTo
<1>8. ASSUME NEW n \in Nat, NEW k \in 0 .. n PROVE H(n)[k] = f[k]
  <2>1. k \in T /\ k \in Nat /\ k \in 0 .. k /\ k <= n
    BY <1>5
  <2>2. Part(H(n), n) /\ Part(H(k), k)
    BY <1>6, <2>1
  <2> HIDE DEF Part
  <2>3. H(n)[k] = H(k)[k]
    BY <2>1, <2>2 DEF T
  <2> QED
    BY <2>1, <2>3
<1>9. ASSUME NEW n \in Nat PROVE f[n] \in V
  BY <1>7
<1>10. ASSUME NEW n \in Nat PROVE Equation(f, n, base, c, prev, F)
  <2>1. f[n] = H(n)[n]
    OBVIOUS
  <2> HIDE DEF f
  <2>2. n \notin base => Before(H(n), prev, n) = Before(f, prev, n)
    BY <1>8 DEF Before
  <2> QED
    BY <1>7, <2>1, <2>2 DEF Equation
<1>11. f \in [Nat -> V]
  BY <1>9
<1> HIDE DEF f
<1> QED
  BY <1>10, <1>11

-----------------------------------------------------------------------------
(* Numerals. *)

\* The radixes of DO_NUM.
Radices == {8, 10, 16}

(***************************************************************************)
(* Weight is what its recursive equation says: the powers of the radix.    *)
(***************************************************************************)
LEMMA WeightIs ==
    ASSUME NEW radix \in Nat \ {0}
    PROVE  /\ Weight(radix) \in [Nat -> Nat]
           /\ Weight(radix)[0] = 1
           /\ \A k \in Nat : Weight(radix)[k + 1] = radix * Weight(radix)[k]
<1> DEFINE c == [k \in Nat |-> 1]
           prev == [k \in Nat |-> IF k = 0 THEN 0 ELSE k - 1]
           F == [k \in Nat |-> [v \in Nat |-> radix * v]]
           Is(W) == W = [k \in Nat |-> IF k = 0 THEN 1 ELSE radix * W[k - 1]]
<1>1. \A v \in Nat : radix * v \in Nat
  OBVIOUS
<1>2. /\ c \in [Nat -> Nat] /\ prev \in [Nat -> Nat] /\ F \in [Nat -> [Nat -> Nat]]
      /\ \A k \in Nat \ {0} : prev[k] < k
  BY <1>1
<1>3. PICK f \in [Nat -> Nat] : \A k \in Nat : Equation(f, k, {0}, c, prev, F)
  <2> HIDE DEF c, prev, F
  <2> QED
    BY <1>2, Recursion
<1>4. ASSUME NEW k \in Nat PROVE f[k] = IF k = 0 THEN 1 ELSE radix * f[k - 1]
  <2>1. CASE k = 0
    BY <1>3, <2>1 DEF Equation
  <2>2. CASE k # 0
    <3>1. k - 1 \in Nat /\ prev[k] = k - 1
      BY <2>2
    <3>2. f[k] = Do(F, k, f[k - 1])
      <4> HIDE DEF F, prev
      <4> QED
        BY <1>3, <2>2, <3>1 DEF Equation, Before
    <3>3. F[k] = [v \in Nat |-> radix * v]
      OBVIOUS
    <3> HIDE DEF F
    <3>4. Do(F, k, f[k - 1]) = radix * f[k - 1]
      BY <1>3, <3>1, <3>3 DEF Do
    <3> QED
      BY <2>2, <3>2, <3>4
  <2> QED
    BY <2>1, <2>2
<1>5. Is(f)
  BY <1>3, <1>4
<1>6. Is(Weight(radix))
  BY <1>5 DEF Weight
<1> HIDE DEF c, prev, F
<1> DEFINE W == Weight(radix)
<1>7. W[0] = 1 /\ DOMAIN W = Nat /\ \A k \in Nat : W[k + 1] = radix * W[k]
  <2>1. ASSUME NEW k \in Nat PROVE W[k + 1] = radix * W[k]
    <3>1. k + 1 \in Nat /\ k + 1 # 0 /\ (k + 1) - 1 = k
      OBVIOUS
    <3> QED
      BY <1>6, <3>1
  <2> QED
    BY <1>6, <2>1
<1>8. Nat \subseteq {k \in Nat : W[k] \in Nat}
  <2> HIDE DEF W
  <2> DEFINE S == {k \in Nat : W[k] \in Nat}
  <2>1. 0 \in S
    BY <1>7
  <2>2. \A k \in Nat : k \in S => k + 1 \in S
    BY <1>1, <1>7
  <2> HIDE DEF S
  <2>3. Nat \subseteq S
    BY <2>1, <2>2, Induction
  <2> QED
    BY <2>3 DEF S
<1>9. W = [k \in Nat |-> W[k]]
  BY <1>6
<1> QED
  BY <1>7, <1>8, <1>9

(***************************************************************************)
(* Quotient and remainder of a number put together from the two.           *)
(***************************************************************************)
LEMMA DivUnique ==
    ASSUME NEW d \in Nat \ {0}, NEW q \in Int, NEW a \in 0 .. (d - 1)
    PROVE  (d * q + a) \div d = q /\ (d * q + a) % d = a
  OBVIOUS

(***************************************************************************)
(* Dividing twice is dividing by the product, in either order.             *)
(***************************************************************************)
LEMMA DivDiv ==
    ASSUME NEW n \in Nat, NEW r \in Nat \ {0}, NEW w \in Nat \ {0}
    PROVE  (n \div r) \div w = n \div (r * w) /\ (n \div w) \div r = n \div (r * w)
  OBVIOUS

\* n has k digits.
HasDigits(n, radix, k) ==
    n < Weight(radix)[k] /\ (k = 1 \/ Weight(radix)[k - 1] <= n)

\* How many that is.
DigitCount(n, radix) == CHOOSE k \in 1 .. (n + 1) : HasDigits(n, radix, k)

(***************************************************************************)
(* The powers are positive and never fall.                                 *)
(***************************************************************************)
LEMMA WeightGrows ==
    ASSUME NEW radix \in Radices
    PROVE  /\ Weight(radix) \in [Nat -> Nat \ {0}]
           /\ Weight(radix)[0] = 1 /\ Weight(radix)[1] = radix
           /\ \A k \in Nat : Weight(radix)[k + 1] = radix * Weight(radix)[k]
           /\ \A k \in Nat : \A j \in 0 .. k : Weight(radix)[j] <= Weight(radix)[k]
<1> DEFINE W == Weight(radix)
<1>0. radix \in Nat \ {0} /\ radix \in {8, 10, 16}
  BY DEF Radices
<1>1. W \in [Nat -> Nat] /\ W[0] = 1 /\ \A k \in Nat : W[k + 1] = radix * W[k]
  BY <1>0, WeightIs
<1> HIDE DEF W
<1> DEFINE S == {k \in Nat : W[k] > 0 /\ \A j \in 0 .. k : W[j] <= W[k]}
<1>2. 0 \in S
  BY <1>1
<1>3. ASSUME NEW k \in Nat, k \in S PROVE k + 1 \in S
  <2>1. W[k] \in Nat /\ W[k] > 0 /\ W[k + 1] = radix * W[k] /\ \A j \in 0 .. k : W[j] <= W[k] /\ W[j] \in Nat
    BY <1>1, <1>3
  <2>2. W[k + 1] > W[k]
    BY <2>1, <1>0
  <2>3. ASSUME NEW j \in 0 .. (k + 1) PROVE W[j] <= W[k + 1]
    <3>1. j \in 0 .. k \/ j = k + 1
      OBVIOUS
    <3> QED
      BY <1>1, <2>1, <2>2, <3>1
  <2> QED
    BY <2>1, <2>2, <2>3, <1>1
<1> HIDE DEF S
<1>4. Nat \subseteq S
  BY <1>2, <1>3, Induction
<1>5. W[1] = radix
  <2>1. 0 \in Nat /\ 0 + 1 = 1
    OBVIOUS
  <2> QED
    BY <1>0, <1>1, <2>1
<1>6. \A k \in Nat : W[k] > 0
  BY <1>4 DEF S
<1> QED
  BY <1>1, <1>4, <1>5, <1>6 DEF W, S

(***************************************************************************)
(* A number has only one number of digits.                                 *)
(***************************************************************************)
LEMMA OneWidth ==
    ASSUME NEW radix \in Radices, NEW n \in Nat, NEW k \in Nat \ {0}, NEW j \in Nat \ {0},
           HasDigits(n, radix, k), HasDigits(n, radix, j)
    PROVE  k = j
<1>1. ASSUME NEW a \in Nat \ {0}, NEW b \in Nat \ {0}, a < b,
             HasDigits(n, radix, a), HasDigits(n, radix, b)
      PROVE  FALSE
  <2>1. a \in 0 .. (b - 1) /\ b - 1 \in Nat /\ b # 1
    BY <1>1
  <2>2. Weight(radix)[a] <= Weight(radix)[b - 1]
    BY <2>1, WeightGrows
  <2>3. Weight(radix)[a] \in Nat /\ Weight(radix)[b - 1] \in Nat
    BY <2>1, WeightGrows
  <2> QED
    BY <1>1, <2>1, <2>2, <2>3 DEF HasDigits
<1> QED
  BY <1>1

(***************************************************************************)
(* A number below the radix has one digit.                                 *)
(***************************************************************************)
LEMMA SmallWidth ==
    ASSUME NEW radix \in Radices, NEW n \in Nat, n < radix
    PROVE  HasDigits(n, radix, 1)
  BY WeightGrows DEF HasDigits

(***************************************************************************)
(* What one turn of the do-while of DO_NUM has in hand: the quotient is    *)
(* smaller than the number, and the remainder is a digit.                  *)
(***************************************************************************)
LEMMA QuotientOf ==
    ASSUME NEW radix \in Radices, NEW n \in Nat
    PROVE  /\ n \div radix \in Nat /\ n % radix \in 0 .. (radix - 1)
           /\ n = radix * (n \div radix) + (n % radix)
           /\ n >= radix => n \div radix < n /\ n \div radix # 0
           /\ n < radix => n \div radix = 0 /\ n % radix = n
  BY DEF Radices

(***************************************************************************)
(* A number has one digit more than its quotient by the radix.             *)
(***************************************************************************)
LEMMA MoreWidth ==
    ASSUME NEW radix \in Radices, NEW n \in Nat, n >= radix,
           NEW k \in Nat \ {0}, HasDigits(n \div radix, radix, k)
    PROVE  HasDigits(n, radix, k + 1)
<1> DEFINE q == n \div radix
           a == n % radix
<1>1. q \in Nat /\ a \in 0 .. (radix - 1) /\ n = radix * q + a
  BY QuotientOf
<1> HIDE DEF q, a
<1>2. radix \in {8, 10, 16}
  BY DEF Radices
<1>3. k \in Nat /\ (k + 1) - 1 = k /\ k + 1 # 1
  OBVIOUS
<1>4. Weight(radix)[k] \in Nat /\ Weight(radix)[k + 1] = radix * Weight(radix)[k]
  BY WeightGrows
<1>5. q < Weight(radix)[k] /\ (k = 1 \/ Weight(radix)[k - 1] <= q)
  BY DEF HasDigits, q
<1>6. n < Weight(radix)[k + 1]
  BY <1>1, <1>2, <1>4, <1>5
<1>7. Weight(radix)[k] <= n
  <2>1. CASE k = 1
    BY <2>1, WeightGrows
  <2>2. CASE k # 1
    <3>1. k - 1 \in Nat /\ (k - 1) + 1 = k
      BY <2>2
    <3>2. Weight(radix)[k] = radix * Weight(radix)[k - 1] /\ Weight(radix)[k - 1] \in Nat
      BY <3>1, WeightGrows
    <3> QED
      BY <1>1, <1>2, <1>5, <2>2, <3>2
  <2> QED
    BY <2>1, <2>2
<1> QED
  BY <1>3, <1>6, <1>7 DEF HasDigits

(***************************************************************************)
(* Every number has a number of digits, and one more than its quotient by  *)
(* the radix.                                                              *)
(***************************************************************************)
LEMMA WidthExists ==
    ASSUME NEW radix \in Radices
    PROVE  \A n \in Nat : \E k \in 1 .. (n + 1) : HasDigits(n, radix, k)
<1> DEFINE S == {m \in Nat : \A n \in 0 .. m : \E k \in 1 .. (n + 1) : HasDigits(n, radix, k)}
<1>1. 0 \in S
  <2>1. 0 < radix /\ 1 \in 1 .. (0 + 1)
    BY DEF Radices
  <2>2. HasDigits(0, radix, 1)
    BY <2>1, SmallWidth
  <2>3. \A n \in 0 .. 0 : n = 0
    OBVIOUS
  <2> QED
    BY <2>1, <2>2, <2>3
<1>2. ASSUME NEW m \in Nat, m \in S PROVE m + 1 \in S
  <2>1. \E k \in 1 .. ((m + 1) + 1) : HasDigits(m + 1, radix, k)
    <3>1. CASE m + 1 < radix
      <4>1. HasDigits(m + 1, radix, 1)
        BY <3>1, SmallWidth
      <4>2. 1 \in 1 .. ((m + 1) + 1)
        OBVIOUS
      <4> QED
        BY <4>1, <4>2
    <3>2. CASE m + 1 >= radix
      <4>1. (m + 1) \div radix \in 0 .. m
        BY <3>2, QuotientOf
      <4>2. PICK k \in 1 .. (((m + 1) \div radix) + 1) : HasDigits((m + 1) \div radix, radix, k)
        BY <1>2, <4>1
      <4>3. k \in Nat \ {0} /\ k + 1 \in 1 .. ((m + 1) + 1)
        BY <4>1, <4>2
      <4>4. HasDigits(m + 1, radix, k + 1)
        BY <3>2, <4>2, <4>3, MoreWidth
      <4> QED
        BY <4>3, <4>4
    <3>3. radix \in Nat
      BY DEF Radices
    <3> QED
      BY <3>1, <3>2, <3>3
  <2>2. \A n \in 0 .. (m + 1) : n \in 0 .. m \/ n = m + 1
    OBVIOUS
  <2> QED
    BY <1>2, <2>1, <2>2
<1> HIDE DEF S
<1>3. Nat \subseteq S
  BY <1>1, <1>2, Induction
<1>4. ASSUME NEW n \in Nat PROVE \E k \in 1 .. (n + 1) : HasDigits(n, radix, k)
  <2>1. n \in S /\ n \in 0 .. n
    BY <1>3
  <2> QED
    BY <2>1 DEF S
<1> QED
  BY <1>4

(***************************************************************************)
(* The CHOOSE in Numeral finds the number of digits, and it follows the    *)
(* same recursion as the do-while.                                         *)
(***************************************************************************)
LEMMA WidthIs ==
    ASSUME NEW radix \in Radices, NEW n \in Nat
    PROVE  /\ DigitCount(n, radix) \in Nat \ {0} /\ HasDigits(n, radix, DigitCount(n, radix))
           /\ n < radix => DigitCount(n, radix) = 1
           /\ n >= radix => DigitCount(n, radix) = DigitCount(n \div radix, radix) + 1
<1>1. ASSUME NEW m \in Nat
      PROVE  DigitCount(m, radix) \in Nat \ {0} /\ HasDigits(m, radix, DigitCount(m, radix))
  <2>1. \E k \in 1 .. (m + 1) : HasDigits(m, radix, k)
    BY WidthExists
  <2> QED
    BY <2>1 DEF DigitCount
<1>2. n < radix => DigitCount(n, radix) = 1
  BY <1>1, SmallWidth, OneWidth
<1>3. ASSUME n >= radix PROVE DigitCount(n, radix) = DigitCount(n \div radix, radix) + 1
  <2>1. n \div radix \in Nat
    BY QuotientOf
  <2>2. DigitCount(n \div radix, radix) + 1 \in Nat \ {0}
    BY <1>1, <2>1
  <2>3. HasDigits(n, radix, DigitCount(n \div radix, radix) + 1)
    BY <1>1, <1>3, <2>1, MoreWidth
  <2> QED
    BY <1>1, <2>2, <2>3, OneWidth
<1> QED
  BY <1>1, <1>2, <1>3

\* Everything a format or its output consists of.
Chars ==
    {"0", "1", "2", "3", "4", "5", "6", "7", "8", "9", "A", "B", "C", "D", "E", "F",
     "a", "b", "c", "d", "e", "f", "%", "-", " ", "t", "q", "N", "L", "l", "h",
     "X", "x", "p", "n", "i", "u", "o", "s"} \cup {ToString(k) : k \in Nat}

(***************************************************************************)
(* The ten digits are ten different characters.                            *)
(***************************************************************************)
LEMMA DigitIs ==
    /\ Digit \in [1 .. 10 -> {"0", "1", "2", "3", "4", "5", "6", "7", "8", "9"}]
    /\ Len(Digit) = 10 /\ Digit \in Seq(Chars)
    /\ Digit[1] = "0"
    /\ \A i, j \in 1 .. 10 : Digit[i] = Digit[j] => i = j
    /\ Decimal = {"0", "1", "2", "3", "4", "5", "6", "7", "8", "9"}
<1>1. /\ Digit \in [1 .. 10 -> {"0", "1", "2", "3", "4", "5", "6", "7", "8", "9"}]
      /\ Len(Digit) = 10 /\ Digit[1] = "0"
  BY DEF Digit
<1>2. Digit \in Seq(Chars)
  BY DEF Digit, Chars
<1>3. \A i, j \in 1 .. 10 : Digit[i] = Digit[j] => i = j
  BY DEF Digit
<1>4. Decimal = {Digit[i] : i \in 1 .. 10}
  BY <1>1, <1>2 DEF Decimal, ToSet
<1>5. \A c \in {"0", "1", "2", "3", "4", "5", "6", "7", "8", "9"} : \E i \in 1 .. 10 : Digit[i] = c
  BY DEF Digit
<1> QED
  BY <1>1, <1>2, <1>3, <1>4, <1>5

\* The tables of digits a numeral can be spelled with.
Hexes == {Upper, Lower}

(***************************************************************************)
(* Both tables of sixteen digits begin with the ten.                       *)
(***************************************************************************)
LEMMA HexIs ==
    ASSUME NEW hex \in Hexes
    PROVE  /\ hex \in Seq(Chars) /\ Len(hex) = 16
           /\ \A i \in 1 .. 16 : hex[i] \in Chars
           /\ \A i \in 1 .. 10 : hex[i] = Digit[i]
<1>1. ASSUME NEW letters \in Seq(Chars), Len(letters) = 6, hex = Digit \o letters
      PROVE  /\ hex \in Seq(Chars) /\ Len(hex) = 16
             /\ \A i \in 1 .. 16 : hex[i] \in Chars
             /\ \A i \in 1 .. 10 : hex[i] = Digit[i]
  <2>1. /\ hex \in Seq(Chars) /\ Len(hex) = 16
        /\ \A i \in 1 .. 16 : hex[i] = IF i <= 10 THEN Digit[i] ELSE letters[i - 10]
    <3>1. Digit \in Seq(Chars) /\ Len(Digit) = 10 /\ 10 + 6 = 16
      BY DigitIs
    <3>2. /\ hex \in Seq(Chars) /\ Len(hex) = Len(Digit) + Len(letters)
          /\ \A i \in 1 .. Len(Digit) + Len(letters) :
                hex[i] = IF i <= Len(Digit) THEN Digit[i] ELSE letters[i - Len(Digit)]
      BY <1>1, <3>1, ConcatProperties
    <3>3. Len(Digit) + Len(letters) = 16
      BY <1>1, <3>1
    <3> QED
      BY <3>1, <3>2, <3>3
  <2>2. \A i \in 1 .. 16 : hex[i] \in Chars
    BY <2>1, ElementOfSeq
  <2> QED
    BY <2>1, <2>2
<1>2. <<"A", "B", "C", "D", "E", "F">> \in Seq(Chars) /\ Len(<<"A", "B", "C", "D", "E", "F">>) = 6
  BY DEF Chars
<1>3. <<"a", "b", "c", "d", "e", "f">> \in Seq(Chars) /\ Len(<<"a", "b", "c", "d", "e", "f">>) = 6
  BY DEF Chars
<1>4. hex = Upper \/ hex = Lower
  BY DEF Hexes
<1>5. CASE hex = Upper
  BY <1>1, <1>2, <1>5 DEF Upper
<1>6. CASE hex = Lower
  BY <1>1, <1>3, <1>6 DEF Lower
<1> QED
  BY <1>4, <1>5, <1>6

(***************************************************************************)
(* The digits of a numeral, one by one.                                    *)
(***************************************************************************)
LEMMA NumeralIs ==
    ASSUME NEW radix \in Radices, NEW n \in Nat, NEW hex \in Hexes
    PROVE  /\ Numeral(n, radix, hex) \in Seq(Chars)
           /\ Len(Numeral(n, radix, hex)) = DigitCount(n, radix)
           /\ \A j \in 1 .. DigitCount(n, radix) :
                 Numeral(n, radix, hex)[j]
                    = hex[1 + ((n \div Weight(radix)[DigitCount(n, radix) - j]) % radix)]
<1> DEFINE k == DigitCount(n, radix)
           at(j) == hex[1 + ((n \div Weight(radix)[k - j]) % radix)]
<1>1. k \in Nat
  BY WidthIs
<1>2. Numeral(n, radix, hex) = [j \in 1 .. k |-> at(j)]
  BY DEF Numeral, DigitCount, HasDigits
<1> HIDE DEF k
<1>3. ASSUME NEW j \in 1 .. k PROVE at(j) \in Chars
  <2>1. k - j \in Nat
    BY <1>1
  <2>2. Weight(radix)[k - j] \in Nat \ {0}
    BY <2>1, WeightGrows
  <2>3. n \div Weight(radix)[k - j] \in Nat
    BY <2>2
  <2> DEFINE d == (n \div Weight(radix)[k - j]) % radix
  <2>4. d \in 0 .. 15
    BY <2>3, QuotientOf DEF Radices
  <2> HIDE DEF d
  <2>5. 1 + d \in 1 .. 16
    BY <2>4
  <2>6. hex[1 + d] \in Chars
    BY <2>5, HexIs
  <2> QED
    BY <2>6 DEF d
<1> HIDE DEF at
<1>4. [j \in 1 .. k |-> at(j)] \in Seq(Chars)
  BY <1>1, <1>3
<1>5. Len([j \in 1 .. k |-> at(j)]) = k
  BY <1>1
<1>6. \A j \in 1 .. k : [i \in 1 .. k |-> at(i)][j] = at(j)
  OBVIOUS
<1> QED
  BY <1>2, <1>4, <1>5, <1>6 DEF at, k

(***************************************************************************)
(* The last digit of a number is its remainder by the radix, and the       *)
(* digits before it are those of the quotient.                             *)
(***************************************************************************)
LEMMA NumeralStep ==
    ASSUME NEW radix \in Radices, NEW n \in Nat, NEW hex \in Hexes
    PROVE  Numeral(n, radix, hex)
              = (IF n \div radix = 0 THEN <<>> ELSE Numeral(n \div radix, radix, hex))
                   \o <<hex[1 + (n % radix)]>>
<1> DEFINE q == n \div radix
           last == <<hex[1 + (n % radix)]>>
           k == DigitCount(n, radix)
<1>0. q \in Nat /\ 1 + (n % radix) \in 1 .. 16
  BY QuotientOf DEF Radices
<1>1. last \in Seq(Chars) /\ Len(last) = 1 /\ last[1] = hex[1 + (n % radix)]
  <2> DEFINE d == 1 + (n % radix)
  <2> HIDE DEF d
  <2>1. hex[d] \in Chars
    BY <1>0, HexIs DEF d
  <2>2. <<hex[d]>> \in Seq(Chars) /\ Len(<<hex[d]>>) = 1 /\ <<hex[d]>>[1] = hex[d]
    BY <2>1
  <2> QED
    BY <2>2 DEF d
<1>2. /\ Numeral(n, radix, hex) \in Seq(Chars) /\ Len(Numeral(n, radix, hex)) = k
      /\ k \in Nat \ {0}
  BY NumeralIs, WidthIs
<1>3. Numeral(n, radix, hex)[k] = last[1]
  <2>0. Weight(radix)[0] = 1 /\ n \div 1 = n
    BY WeightGrows
  <2>1. k - k = 0 /\ k \in 1 .. k
    BY <1>2
  <2>2. Numeral(n, radix, hex)[k] = hex[1 + ((n \div Weight(radix)[k - k]) % radix)]
    BY <2>1, NumeralIs
  <2> QED
    BY <1>1, <2>0, <2>1, <2>2
<1> HIDE DEF last
<1>4. CASE n < radix
  <2>1. q = 0 /\ k = 1
    BY <1>4, QuotientOf, WidthIs
  <2>2. Numeral(n, radix, hex) = last
    BY <1>1, <1>2, <1>3, <2>1, SeqEqual
  <2>3. <<>> \o last = last
    BY <1>1, ConcatEmptySeq
  <2> QED
    BY <2>1, <2>2, <2>3 DEF last
<1>5. CASE n >= radix
  <2> DEFINE body == Numeral(q, radix, hex)
             m == DigitCount(q, radix)
  <2>1. q # 0 /\ k = m + 1 /\ m \in Nat
    BY <1>0, <1>5, QuotientOf, WidthIs
  <2>2. body \in Seq(Chars) /\ Len(body) = m
    BY <1>0, NumeralIs
  <2>3. ASSUME NEW j \in 1 .. m PROVE Numeral(n, radix, hex)[j] = body[j]
    <3>1. m - j \in Nat /\ (m - j) + 1 = k - j /\ j \in 1 .. k
      BY <2>1
    <3>2. /\ Weight(radix)[m - j] \in Nat \ {0}
          /\ Weight(radix)[k - j] = radix * Weight(radix)[m - j]
      BY <3>1, WeightGrows
    <3>3. radix \in Nat \ {0}
      BY DEF Radices
    <3>4. n \div Weight(radix)[k - j] = q \div Weight(radix)[m - j]
      <4> DEFINE w == Weight(radix)[m - j]
      <4> HIDE DEF w
      <4>1. w \in Nat \ {0} /\ Weight(radix)[k - j] = radix * w
        BY <3>2 DEF w
      <4>2. (n \div radix) \div w = n \div (radix * w)
        BY <3>3, <4>1, DivDiv
      <4> QED
        BY <4>1, <4>2 DEF w
    <3>5. body[j] = hex[1 + ((q \div Weight(radix)[m - j]) % radix)]
      BY <1>0, NumeralIs
    <3>6. Numeral(n, radix, hex)[j] = hex[1 + ((n \div Weight(radix)[k - j]) % radix)]
      BY <3>1, NumeralIs
    <3> QED
      BY <3>4, <3>5, <3>6
  <2> HIDE DEF body, q, k, m
  <2>4. /\ body \o last \in Seq(Chars) /\ Len(body \o last) = k
        /\ \A j \in 1 .. k : (body \o last)[j] = IF j <= m THEN body[j] ELSE last[j - m]
    <3>1. /\ body \o last \in Seq(Chars) /\ Len(body \o last) = Len(body) + Len(last)
          /\ \A j \in 1 .. Len(body) + Len(last) :
                (body \o last)[j] = IF j <= Len(body) THEN body[j] ELSE last[j - Len(body)]
      BY <1>1, <2>2, ConcatProperties
    <3>2. Len(body) + Len(last) = k
      BY <1>1, <2>1, <2>2
    <3> QED
      BY <2>2, <3>1, <3>2
  <2>5. ASSUME NEW j \in 1 .. k PROVE Numeral(n, radix, hex)[j] = (body \o last)[j]
    <3>1. CASE j \in 1 .. m
      BY <2>1, <2>3, <2>4, <3>1
    <3>2. CASE j = k
      <4>1. ~(j <= m) /\ j - m = 1
        BY <2>1, <3>2
      <4> QED
        BY <1>3, <2>4, <3>2, <4>1
    <3>3. j \in 1 .. m \/ j = k
      <4>1. k = m + 1 /\ m \in Nat
        BY <2>1
      <4> QED
        BY <4>1
    <3> QED
      BY <3>1, <3>2, <3>3
  <2>6. Numeral(n, radix, hex) = body \o last
    BY <1>2, <2>4, <2>5, SeqEqual
  <2> QED
    BY <2>1, <2>6 DEF body, q, last
<1> QED
  BY <1>4, <1>5 DEF Radices

-----------------------------------------------------------------------------
(* The loop that divides. *)

(***************************************************************************)
(* The do-while of do_printf makes the numeral.                            *)
(***************************************************************************)
LEMMA DigitsAreNumeral ==
    ASSUME NEW num \in Nat, NEW radix \in Radices, NEW f
    PROVE  Digits(num, radix, f) = Numeral(num, radix, IF "CA" \in f THEN Upper ELSE Lower)
<1> DEFINE hex == IF "CA" \in f THEN Upper ELSE Lower
           Is(g) == g = [n \in Nat |-> (IF n \div radix = 0 THEN <<>> ELSE g[n \div radix])
                                          \o <<hex[1 + (n % radix)]>>]
           g == [n \in Nat |-> Numeral(n, radix, hex)]
           Convert == CHOOSE h : Is(h)
<1>0. hex \in Hexes
  BY DEF Hexes
<1> HIDE DEF hex
<1>1. Is(g)
  <2>1. ASSUME NEW n \in Nat
        PROVE  g[n] = (IF n \div radix = 0 THEN <<>> ELSE g[n \div radix])
                         \o <<hex[1 + (n % radix)]>>
    <3>1. n \div radix \in Nat
      BY QuotientOf
    <3>2. g[n] = Numeral(n, radix, hex) /\ g[n \div radix] = Numeral(n \div radix, radix, hex)
      BY <3>1
    <3> HIDE DEF g
    <3> QED
      BY <1>0, <3>2, NumeralStep
  <2>2. g = [n \in Nat |-> g[n]]
    OBVIOUS
  <2> HIDE DEF g
  <2> QED
    BY <2>1, <2>2
<1>2. Is(Convert)
  <2> HIDE DEF g, Is
  <2> QED
    BY <1>1
<1>3. Digits(num, radix, f) = Convert[num]
  BY DEF Digits, hex
<1> HIDE DEF Convert
<1> DEFINE S == {m \in Nat : \A n \in 0 .. m : Convert[n] = Numeral(n, radix, hex)}
<1>4. ASSUME NEW n \in Nat
      PROVE  Convert[n] = (IF n \div radix = 0 THEN <<>> ELSE Convert[n \div radix])
                             \o <<hex[1 + (n % radix)]>>
  BY <1>2
<1>5. 0 \in S
  <2>1. 0 \div radix = 0
    BY QuotientOf DEF Radices
  <2>2. Convert[0] = Numeral(0, radix, hex)
    BY <1>0, <1>4, <2>1, NumeralStep
  <2>3. \A n \in 0 .. 0 : n = 0
    OBVIOUS
  <2> QED
    BY <2>2, <2>3
<1>6. ASSUME NEW m \in Nat, m \in S PROVE m + 1 \in S
  <2>1. Convert[m + 1] = Numeral(m + 1, radix, hex)
    <3>1. m + 1 \in Nat /\ ((m + 1) \div radix = 0 \/ (m + 1) \div radix \in 0 .. m)
      BY QuotientOf DEF Radices
    <3>2. CASE (m + 1) \div radix = 0
      BY <1>4, <3>1, <3>2, <1>0, NumeralStep
    <3>3. CASE (m + 1) \div radix # 0
      <4>1. Convert[(m + 1) \div radix] = Numeral((m + 1) \div radix, radix, hex)
        BY <1>6, <3>1, <3>3
      <4> QED
        BY <1>4, <3>1, <3>3, <4>1, <1>0, NumeralStep
    <3> QED
      BY <3>2, <3>3
  <2>2. \A n \in 0 .. (m + 1) : n \in 0 .. m \/ n = m + 1
    OBVIOUS
  <2> QED
    BY <1>6, <2>1, <2>2
<1> HIDE DEF S
<1>7. Nat \subseteq S
  BY <1>5, <1>6, Induction
<1>8. num \in S /\ num \in 0 .. num
  BY <1>7
<1> QED
  BY <1>3, <1>8 DEF S, hex

-----------------------------------------------------------------------------
(* The field width. *)

\* How many digits the width wd is spelled with.
WidthDigits(wd) == DigitCount(wd, 10)

\* What the first d digits of a width amount to.
Scanned(wd, d) == wd \div Weight(10)[WidthDigits(wd) - d]

\* The value of a digit.
DigitOf(c) == (CHOOSE d \in 1 .. 10 : Digit[d] = c) - 1

(***************************************************************************)
(* What Width takes off the character: c - '0'.                            *)
(***************************************************************************)
LEMMA DigitOfIs ==
    ASSUME NEW d \in 0 .. 9
    PROVE  DigitOf(Digit[1 + d]) = d
<1>1. 1 + d \in 1 .. 10
  OBVIOUS
<1> DEFINE e == CHOOSE e \in 1 .. 10 : Digit[e] = Digit[1 + d]
<1>2. e \in 1 .. 10 /\ Digit[e] = Digit[1 + d]
  BY <1>1
<1>3. DigitOf(Digit[1 + d]) = e - 1
  BY DEF DigitOf
<1> HIDE DEF e
<1>4. e = 1 + d
  BY <1>1, <1>2, DigitIs
<1> QED
  BY <1>3, <1>4

(***************************************************************************)
(* The scan of a width digit by digit arrives at the width.                *)
(***************************************************************************)
LEMMA WidthScan ==
    ASSUME NEW wd \in Nat \ {0}
    PROVE  /\ WidthDigits(wd) \in Nat \ {0}
           /\ Numeral(wd, 10, Lower) \in Seq(Chars)
           /\ Len(Numeral(wd, 10, Lower)) = WidthDigits(wd)
           /\ Scanned(wd, 0) = 0 /\ Scanned(wd, WidthDigits(wd)) = wd
           /\ Numeral(wd, 10, Lower)[1] # "0"
           /\ \A d \in 0 .. (WidthDigits(wd) - 1) :
                 /\ Numeral(wd, 10, Lower)[d + 1] \in Decimal
                 /\ Scanned(wd, d) \in 0 .. wd /\ Scanned(wd, d + 1) \in 0 .. wd
                 /\ Scanned(wd, d + 1)
                       = 10 * Scanned(wd, d) + DigitOf(Numeral(wd, 10, Lower)[d + 1])
<1> DEFINE k == WidthDigits(wd)
           num == Numeral(wd, 10, Lower)
           W == Weight(10)
<1>0. 10 \in Radices /\ Lower \in Hexes
  BY DEF Radices, Hexes
<1>1. k \in Nat \ {0} /\ wd < W[k] /\ (k = 1 \/ W[k - 1] <= wd)
  BY <1>0, WidthIs DEF WidthDigits, HasDigits
<1>2. /\ num \in Seq(Chars) /\ Len(num) = k
      /\ \A j \in 1 .. k : num[j] = Lower[1 + ((wd \div W[k - j]) % 10)]
  BY <1>0, NumeralIs DEF WidthDigits
<1>3. W \in [Nat -> Nat \ {0}] /\ W[0] = 1 /\ \A j \in Nat : W[j + 1] = 10 * W[j]
  BY <1>0, WeightGrows
<1> HIDE DEF k, num, W
<1>4. ASSUME NEW w \in Nat \ {0}
      PROVE  wd \div w \in 0 .. wd /\ (wd < w => wd \div w = 0)
             /\ wd \div w = 10 * (wd \div (10 * w)) + ((wd \div w) % 10)
             /\ (wd \div w) % 10 \in 0 .. 9
  <2>1. wd \div w \in Nat /\ (wd < w => wd \div w = 0) /\ wd \div w <= wd
    OBVIOUS
  <2>2. (wd \div w) \div 10 = wd \div (10 * w)
    <3> DEFINE ten == 10
    <3>1. ten \in Nat \ {0} /\ ten = 10
      OBVIOUS
    <3> HIDE DEF ten
    <3>2. (wd \div w) \div ten = wd \div (ten * w)
      BY <3>1, DivDiv
    <3> QED
      BY <3>1, <3>2
  <2> DEFINE q == wd \div w
  <2> HIDE DEF q
  <2>3. q \in Nat => q = 10 * (q \div 10) + (q % 10) /\ q % 10 \in 0 .. 9
    OBVIOUS
  <2> QED
    BY <2>1, <2>2, <2>3 DEF q
<1>5. ASSUME NEW d \in 0 .. k PROVE Scanned(wd, d) \in 0 .. wd
  <2>1. k - d \in Nat
    BY <1>1
  <2>2. W[k - d] \in Nat \ {0}
    BY <1>3, <2>1
  <2> QED
    BY <1>4, <2>2 DEF Scanned, k, W
<1>6. Scanned(wd, 0) = 0
  <2>1. k - 0 = k /\ W[k] \in Nat \ {0}
    BY <1>1, <1>3
  <2> QED
    BY <1>1, <1>4, <2>1 DEF Scanned, k, W
<1>7. Scanned(wd, k) = wd
  <2>1. k - k = 0 /\ wd \div 1 = wd
    BY <1>1
  <2> QED
    BY <1>3, <2>1 DEF Scanned, k, W
<1>8. ASSUME NEW d \in 0 .. (k - 1)
      PROVE  /\ num[d + 1] = Digit[1 + ((wd \div W[k - (d + 1)]) % 10)]
             /\ (wd \div W[k - (d + 1)]) % 10 \in 0 .. 9
             /\ Scanned(wd, d + 1) = 10 * Scanned(wd, d) + ((wd \div W[k - (d + 1)]) % 10)
  <2> DEFINE w == W[k - (d + 1)]
  <2>1. k - (d + 1) \in Nat /\ (k - (d + 1)) + 1 = k - d /\ d + 1 \in 1 .. k
    BY <1>1
  <2>2. w \in Nat \ {0} /\ W[k - d] = 10 * w
    BY <1>3, <2>1
  <2>3. num[d + 1] = Lower[1 + ((wd \div w) % 10)]
    BY <1>2, <2>1
  <2>4. Scanned(wd, d + 1) = wd \div w /\ Scanned(wd, d) = wd \div (10 * w)
    BY <2>2 DEF Scanned, k, W
  <2> HIDE DEF w
  <2>5. (wd \div w) % 10 \in 0 .. 9 /\ wd \div w = 10 * (wd \div (10 * w)) + ((wd \div w) % 10)
    BY <1>4, <2>2
  <2> DEFINE x == (wd \div w) % 10
  <2> HIDE DEF x
  <2>6. Lower[1 + x] = Digit[1 + x]
    <3>1. x \in 0 .. 9
      BY <2>5 DEF x
    <3>2. 1 + x \in 1 .. 10
      BY <3>1
    <3> QED
      BY <1>0, <3>2, HexIs
  <2> QED
    BY <2>3, <2>4, <2>5, <2>6 DEF w, x
<1>9. ASSUME NEW d \in 0 .. (k - 1)
      PROVE  /\ num[d + 1] \in Decimal
             /\ Scanned(wd, d + 1) = 10 * Scanned(wd, d) + DigitOf(num[d + 1])
  <2> DEFINE x == (wd \div W[k - (d + 1)]) % 10
  <2>1. x \in 0 .. 9 /\ num[d + 1] = Digit[1 + x]
        /\ Scanned(wd, d + 1) = 10 * Scanned(wd, d) + x
    BY <1>8
  <2> HIDE DEF x
  <2>2. Digit[1 + x] \in Decimal
    <3>1. 1 + x \in 1 .. 10
      BY <2>1
    <3> QED
      BY <3>1, DigitIs
  <2> QED
    BY <2>1, <2>2, DigitOfIs
<1>10. num[1] # "0"
  <2> DEFINE w == W[k - 1]
             x == (wd \div w) % 10
  <2>1. k - 1 \in Nat /\ (k - 1) + 1 = k /\ 0 \in 0 .. (k - 1) /\ 0 + 1 = 1
    BY <1>1
  <2>2. w \in Nat \ {0} /\ W[k] = 10 * w /\ w <= wd
    BY <1>1, <1>3, <2>1
  <2>3. num[1] = Digit[1 + x] /\ x \in 0 .. 9
    BY <1>8, <2>1
  <2>4. wd \div w = 10 * (wd \div (10 * w)) + x /\ wd \div (10 * w) = 0
    <3>1. wd < 10 * w /\ 10 * w \in Nat \ {0}
      BY <1>1, <2>2
    <3>2. wd \div (10 * w) = 0
      <4> DEFINE v == 10 * w
      <4> HIDE DEF v
      <4> QED
        BY <1>4, <3>1 DEF v
    <3>3. wd \div w = 10 * (wd \div (10 * w)) + ((wd \div w) % 10)
      BY <1>4, <2>2
    <3> QED
      BY <3>2, <3>3
  <2>5. wd \div w # 0
    <3> HIDE DEF w
    <3>1. wd \div w \in Nat /\ wd = w * (wd \div w) + (wd % w) /\ wd % w < w
      BY <2>2
    <3> QED
      BY <2>2, <3>1
  <2> HIDE DEF w, x
  <2>6. x # 0
    BY <2>4, <2>5
  <2>7. 1 + x \in 1 .. 10 /\ 1 + x # 1
    BY <2>3, <2>6
  <2> QED
    BY <2>3, <2>7, DigitIs
<1>11. k \in 0 .. k /\ \A d \in 0 .. (k - 1) : d \in 0 .. k /\ d + 1 \in 0 .. k
  BY <1>1
<1> QED
  BY <1>1, <1>2, <1>5, <1>6, <1>7, <1>9, <1>10, <1>11 DEF k, num

-----------------------------------------------------------------------------
(* Sequences one behind the other. *)

\* The first k of f, one behind the other.
Joined(f, k) == FlattenSeq([j \in 1 .. k |-> f[j]])

\* What FlattenSeq defines flatten by.
IsFlat(h, f, n) == h = [i \in 1 .. n |-> IF i = 1 THEN f[1] ELSE h[i - 1] \o f[i]]

(***************************************************************************)
(* The recursive function by which FlattenSeq is defined exists.           *)
(***************************************************************************)
LEMMA FlatExists ==
    ASSUME NEW C, NEW n \in Nat, NEW f \in [1 .. n -> Seq(C)]
    PROVE  \E h : IsFlat(h, f, n) /\ h \in [1 .. n -> Seq(C)]
<1> DEFINE base == {0}
           g == [i \in Nat |-> IF i \in 1 .. n THEN f[i] ELSE <<>>]
           c == [i \in Nat |-> <<>>]
           prev == [i \in Nat |-> IF i = 0 THEN 0 ELSE i - 1]
           F == [i \in Nat |-> [s \in Seq(C) |-> s \o g[i]]]
<1>1. \A i \in Nat : g[i] \in Seq(C)
  OBVIOUS
<1>2. \A i \in Nat : \A s \in Seq(C) : s \o g[i] \in Seq(C)
  <2> HIDE DEF g
  <2> QED
    BY <1>1, ConcatProperties
<1>3. /\ c \in [Nat -> Seq(C)] /\ prev \in [Nat -> Nat] /\ 0 \in base
      /\ \A i \in Nat \ base : prev[i] < i
  OBVIOUS
<1>4. F \in [Nat -> [Seq(C) -> Seq(C)]]
  <2> HIDE DEF g
  <2> QED
    BY <1>2
<1>5. PICK r \in [Nat -> Seq(C)] : \A i \in Nat : Equation(r, i, base, c, prev, F)
  <2> HIDE DEF base, c, prev, F
  <2> QED
    BY <1>3, <1>4, Recursion
<1>6. r[0] = <<>>
  BY <1>5 DEF Equation
<1>7. ASSUME NEW i \in Nat \ {0} PROVE r[i] = r[i - 1] \o g[i]
  <2>1. i - 1 \in Nat /\ prev[i] = i - 1 /\ i \notin base
    OBVIOUS
  <2>2. F[i] = [s \in Seq(C) |-> s \o g[i]]
    OBVIOUS
  <2> HIDE DEF F, g, prev, base
  <2>3. r[i] = Do(F, i, r[i - 1])
    BY <1>5, <2>1 DEF Equation, Before
  <2>4. Do(F, i, r[i - 1]) = r[i - 1] \o g[i]
    BY <1>5, <2>1, <2>2 DEF Do
  <2> QED
    BY <2>3, <2>4
<1> DEFINE h == [i \in 1 .. n |-> r[i]]
<1>8. h \in [1 .. n -> Seq(C)]
  BY <1>5
<1>9. ASSUME NEW i \in 1 .. n PROVE h[i] = IF i = 1 THEN f[1] ELSE h[i - 1] \o f[i]
  <2>1. i \in Nat \ {0} /\ g[i] = f[i] /\ h[i] = r[i] /\ f[i] \in Seq(C)
    OBVIOUS
  <2>2. i # 1 => i - 1 \in 1 .. n
    OBVIOUS
  <2>3. i # 1 => h[i - 1] = r[i - 1]
    BY <2>2
  <2> HIDE DEF h, g
  <2>4. CASE i = 1
    <3>1. r[1] = r[0] \o f[1]
      <4>1. 1 - 1 = 0
        OBVIOUS
      <4> QED
        BY <1>7, <2>1, <2>4, <4>1
    <3>2. <<>> \o f[1] = f[1]
      BY <2>1, <2>4, ConcatEmptySeq
    <3> QED
      BY <1>6, <2>1, <2>4, <3>1, <3>2
  <2>5. CASE i # 1
    BY <1>7, <2>1, <2>3, <2>5
  <2> QED
    BY <2>4, <2>5
<1>10. h = [i \in 1 .. n |-> h[i]]
  OBVIOUS
<1> HIDE DEF h
<1> QED
  BY <1>8, <1>9, <1>10 DEF IsFlat

\* Two such functions agree where both are defined.
LEMMA FlatAgree ==
    ASSUME NEW n \in Nat, NEW m \in Nat, NEW f, NEW h, NEW g,
           IsFlat(h, f, n), IsFlat(g, f, m)
    PROVE  \A i \in Nat : i \in 1 .. n /\ i \in 1 .. m => h[i] = g[i]
<1>1. /\ \A i \in 1 .. n : h[i] = IF i = 1 THEN f[1] ELSE h[i - 1] \o f[i]
      /\ \A i \in 1 .. m : g[i] = IF i = 1 THEN f[1] ELSE g[i - 1] \o f[i]
  BY DEF IsFlat
<1> DEFINE S == {i \in Nat : i \in 1 .. n /\ i \in 1 .. m => h[i] = g[i]}
<1>2. 0 \in S
  OBVIOUS
<1>3. ASSUME NEW i \in Nat, i \in S PROVE i + 1 \in S
  <2> SUFFICES ASSUME i + 1 \in 1 .. n, i + 1 \in 1 .. m PROVE h[i + 1] = g[i + 1]
    OBVIOUS
  <2>1. CASE i = 0
    BY <1>1, <2>1
  <2>2. CASE i # 0
    <3>1. i \in 1 .. n /\ i \in 1 .. m /\ (i + 1) - 1 = i /\ i + 1 # 1
      BY <2>2
    <3>2. h[i] = g[i]
      BY <1>3, <3>1
    <3> QED
      BY <1>1, <3>1, <3>2
  <2> QED
    BY <2>1, <2>2
<1> HIDE DEF S
<1>4. Nat \subseteq S
  BY <1>2, <1>3, Induction
<1> QED
  BY <1>4 DEF S

(***************************************************************************)
(* FlattenSeq is that function, at its last place.                         *)
(***************************************************************************)
LEMMA JoinedIs ==
    ASSUME NEW C, NEW n \in Nat \ {0}, NEW f, \A j \in 1 .. n : f[j] \in Seq(C)
    PROVE  \E h : IsFlat(h, f, n) /\ h \in [1 .. n -> Seq(C)] /\ Joined(f, n) = h[n]
<1> DEFINE e == [j \in 1 .. n |-> f[j]]
           h == CHOOSE h : IsFlat(h, e, n)
<1>1. e \in [1 .. n -> Seq(C)] /\ Len(e) = n
  OBVIOUS
<1>2. PICK g : IsFlat(g, e, n) /\ g \in [1 .. n -> Seq(C)]
  BY <1>1, FlatExists
<1>3. IsFlat(h, e, n)
  BY <1>2
<1>4. Joined(f, n) = h[n]
  <2>1. n # 0
    OBVIOUS
  <2>2. 1 \in 1 .. n /\ e[1] = f[1]
    OBVIOUS
  <2> QED
    BY <1>1, <2>1, <2>2 DEF Joined, FlattenSeq, IsFlat
<1> HIDE DEF h
<1>5. \A i \in 1 .. n : e[i] = f[i]
  OBVIOUS
<1> HIDE DEF e
<1>6. IsFlat(h, f, n)
  <2>1. h = [i \in 1 .. n |-> IF i = 1 THEN e[1] ELSE h[i - 1] \o e[i]]
    BY <1>3 DEF IsFlat
  <2>2. 1 \in 1 .. n
    OBVIOUS
  <2> QED
    BY <1>5, <2>1, <2>2 DEF IsFlat
<1>7. h \in [1 .. n -> Seq(C)]
  <2>1. \A i \in Nat : i \in 1 .. n /\ i \in 1 .. n => h[i] = g[i]
    BY <1>2, <1>3, FlatAgree
  <2>2. DOMAIN h = 1 .. n /\ h = [i \in 1 .. n |-> h[i]]
    BY <1>3 DEF IsFlat
  <2>3. \A i \in 1 .. n : h[i] = g[i] /\ g[i] \in Seq(C)
    BY <1>2, <2>1
  <2> QED
    BY <2>2, <2>3
<1> QED
  BY <1>4, <1>6, <1>7

(***************************************************************************)
(* One more sequence is put behind the others.                             *)
(***************************************************************************)
LEMMA JoinedStep ==
    ASSUME NEW C, NEW n \in Nat, NEW f, \A j \in 1 .. n : f[j] \in Seq(C)
    PROVE  /\ Joined(f, 0) = <<>>
           /\ \A k \in 0 .. n : Joined(f, k) \in Seq(C)
           /\ \A k \in 0 .. (n - 1) : Joined(f, k + 1) = Joined(f, k) \o f[k + 1]
<1>1. Joined(f, 0) = <<>>
  <2>1. [j \in 1 .. 0 |-> f[j]] = <<>> /\ Len(<<>>) = 0
    OBVIOUS
  <2> QED
    BY <2>1 DEF Joined, FlattenSeq
<1>2. ASSUME NEW k \in 0 .. n PROVE Joined(f, k) \in Seq(C)
  <2>1. CASE k = 0
    BY <1>1, <2>1, EmptySeq
  <2>2. CASE k # 0
    <3>1. k \in Nat \ {0} /\ \A j \in 1 .. k : f[j] \in Seq(C)
      BY <2>2
    <3>2. PICK h : h \in [1 .. k -> Seq(C)] /\ Joined(f, k) = h[k]
      BY <3>1, JoinedIs
    <3> QED
      BY <3>1, <3>2
  <2> QED
    BY <2>1, <2>2
<1>3. ASSUME NEW k \in 0 .. (n - 1) PROVE Joined(f, k + 1) = Joined(f, k) \o f[k + 1]
  <2>1. k + 1 \in Nat \ {0} /\ \A j \in 1 .. (k + 1) : f[j] \in Seq(C)
    OBVIOUS
  <2>2. PICK h : IsFlat(h, f, k + 1) /\ Joined(f, k + 1) = h[k + 1]
    BY <2>1, JoinedIs
  <2>3. h[k + 1] = IF k + 1 = 1 THEN f[1] ELSE h[(k + 1) - 1] \o f[k + 1]
    <3>1. k + 1 \in 1 .. (k + 1)
      OBVIOUS
    <3> QED
      BY <2>2, <3>1 DEF IsFlat
  <2>4. CASE k = 0
    <3>1. <<>> \o f[1] = f[1]
      <4>1. f[1] \in Seq(C)
        BY <2>1, <2>4
      <4> QED
        BY <4>1, ConcatEmptySeq
    <3>2. k + 1 = 1
      BY <2>4
    <3> QED
      BY <1>1, <2>2, <2>3, <2>4, <3>1, <3>2
  <2>5. CASE k # 0
    <3>1. k \in Nat \ {0} /\ \A j \in 1 .. k : f[j] \in Seq(C)
      BY <2>5
    <3>2. PICK g : IsFlat(g, f, k) /\ Joined(f, k) = g[k]
      BY <3>1, JoinedIs
    <3>3. h[k] = g[k]
      <4>1. k \in 1 .. k /\ k \in 1 .. (k + 1) /\ k \in Nat
        BY <3>1
      <4>2. \A i \in Nat : i \in 1 .. (k + 1) /\ i \in 1 .. k => h[i] = g[i]
        BY <2>1, <2>2, <3>1, <3>2, FlatAgree
      <4> QED
        BY <4>1, <4>2
    <3>4. (k + 1) - 1 = k /\ k + 1 # 1
      BY <3>1
    <3> QED
      BY <2>2, <2>3, <3>2, <3>3, <3>4
  <2> QED
    BY <2>4, <2>5
<1> QED
  BY <1>1, <1>2, <1>3

-----------------------------------------------------------------------------
(* What a directive prints. *)

\* The flag that a modifier sets.
ModFlags(mod) == CASE mod = "F" -> {"FP"} [] mod = "l" -> {"32"} [] mod = "h" -> {"16"}
                   [] OTHER -> {}

\* The flags the scan has collected when it comes to the conversion.
FieldFlags(i) == (IF i.lj THEN {"LJ"} ELSE {}) \cup (IF i.lz THEN {"LZ"} ELSE {})
                    \cup ModFlags(i.mod)

\* No directive has the modifier L (see PrintfLong.cfg).
NoLong == "L" \notin Modifiers

(***************************************************************************)
(* PrintfAssumption with its parts separate.                               *)
(***************************************************************************)
LEMMA Assumed ==
    /\ SHRT_MAX \in Nat /\ LONG_MAX \in Nat /\ SHRT_MAX <= LONG_MAX
    /\ Widths \subseteq 0 .. (Longs - 1)
    /\ Modifiers \subseteq {"", "F", "N", "L", "l", "h"}
    /\ Conversions \subseteq {"X", "x", "p", "n", "d", "i", "u", "o", "c", "s"}
    /\ Words \subseteq 0 .. (Longs - 1)
    /\ Lengths \subseteq Nat
    /\ Illegal \subseteq {"minus", "unknown", "width"}
  BY PrintfAssumption, Zenon

(***************************************************************************)
(* What the sizes of a long and a short have to do with one another.       *)
(***************************************************************************)
LEMMA LongsIs ==
    /\ LONG_MAX \in Nat /\ SHRT_MAX \in Nat /\ SHRT_MAX <= LONG_MAX
    /\ Longs = 2 * (LONG_MAX + 1) /\ Shorts = 2 * (SHRT_MAX + 1)
    /\ Longs \in Nat \ {0} /\ Shorts \in Nat \ {0} /\ Shorts <= Longs
<1>1. SHRT_MAX \in Nat /\ LONG_MAX \in Nat /\ SHRT_MAX <= LONG_MAX
  BY Assumed, Zenon
<1> QED
  BY <1>1 DEF Longs, Shorts

(***************************************************************************)
(* What a field of a format consists of; without %L its argument is one    *)
(* word.                                                                   *)
(***************************************************************************)
LEMMA FieldIs ==
    ASSUME NoLong, NEW i \in Fields
    PROVE  /\ i.kind = "field" /\ i.lj \in BOOLEAN /\ i.lz \in BOOLEAN
           /\ i.wd \in 0 .. (Longs - 1)
           /\ i.mod \in {"", "F", "N", "l", "h"}
           /\ i.conv \in Numeric \cup {"c", "s"}
           /\ i.words \in Seq(Nat) /\ Len(i.words) = 1 /\ i.words[1] \in Nat
           /\ i.conv \in Numeric => i.words[1] \in 0 .. (Longs - 1)
<1>1. /\ i.kind = "field" /\ i.lj \in BOOLEAN /\ i.lz \in BOOLEAN /\ i.wd \in Widths
      /\ i.mod \in Modifiers /\ i.conv \in Conversions /\ i.words \in Given(i.mod, i.conv)
  <2>1. PICK p \in Modifiers \X Conversions :
           i \in [kind : {"field"}, lj : BOOLEAN, lz : BOOLEAN, wd : Widths,
                  mod : {p[1]}, conv : {p[2]}, words : Given(p[1], p[2])]
    BY DEF Fields
  <2>2. p[1] \in Modifiers /\ p[2] \in Conversions
    OBVIOUS
  <2> QED
    BY <2>1, <2>2
<1>2. i.mod \in {"", "F", "N", "l", "h"}
  BY <1>1, Assumed DEF NoLong
<1>3. i.conv \in Numeric \cup {"c", "s"} /\ "c" \notin Numeric /\ "s" \notin Numeric
  BY <1>1, Assumed DEF Numeric
<1>4. /\ i.words \in [1 .. 1 -> Nat]
      /\ i.conv \in Numeric => i.words \in [1 .. 1 -> Words]
  <2>1. CASE i.conv = "c"
    <3>1. i.words \in [1 .. 1 -> {0, 1}]
      BY <1>1, <1>2, <1>3, <2>1 DEF Given
    <3> QED
      BY <1>3, <2>1, <3>1
  <2>2. CASE i.conv = "s"
    <3>1. i.words \in [1 .. 1 -> Lengths]
      BY <1>1, <1>2, <1>3, <2>2 DEF Given
    <3>2. Lengths \subseteq Nat
      BY Assumed
    <3> QED
      BY <1>3, <2>2, <3>1, <3>2
  <2>3. CASE i.conv \in Numeric
    <3>1. i.words \in [1 .. 1 -> Words]
      <4>1. i.conv # "c" /\ i.conv # "s" /\ i.mod # "L"
        BY <1>2, <1>3, <2>3
      <4> QED
        BY <1>1, <2>3, <4>1 DEF Given
    <3>2. Words \subseteq Nat
      <4>1. Words \subseteq 0 .. (Longs - 1)
        BY Assumed
      <4> QED
        BY <4>1
    <3> QED
      BY <3>1, <3>2
  <2> QED
    BY <1>3, <2>1, <2>2, <2>3
<1>5. i.words \in Seq(Nat) /\ Len(i.words) = 1 /\ i.words[1] \in Nat
  <2>1. ASSUME NEW x \in [1 .. 1 -> Nat] PROVE x \in Seq(Nat) /\ Len(x) = 1 /\ x[1] \in Nat
    <3>1. x[1] \in Nat /\ x = <<x[1]>> /\ Len(x) = 1
      OBVIOUS
    <3>2. \A y \in Nat : <<y>> \in Seq(Nat)
      OBVIOUS
    <3> QED
      BY <3>1, <3>2
  <2> QED
    BY <1>4, <2>1
<1>6. i.conv \in Numeric => i.words[1] \in 0 .. (Longs - 1)
  <2>1. Words \subseteq 0 .. (Longs - 1)
    BY Assumed
  <2> QED
    BY <1>4, <2>1
<1>7. i.wd \in 0 .. (Longs - 1)
  <2>1. Widths \subseteq 0 .. (Longs - 1)
    BY Assumed
  <2> QED
    BY <1>1, <2>1
<1> QED
  BY <1>1, <1>2, <1>3, <1>5, <1>6, <1>7

\* What Number has loaded into num, and what it does to its sign.
Magnitude(num, conv) ==
    IF conv \in Signed /\ num > LONG_MAX THEN (Longs - num) % Longs ELSE num

(***************************************************************************)
(* The sign is that of the value, the magnitude its absolute value.        *)
(***************************************************************************)
LEMMA LoadedIs ==
    ASSUME NoLong, NEW i \in Fields, i.conv \in Numeric, NEW f,
           "32" \in f <=> i.mod = "l", "64" \notin f, "16" \in f <=> i.mod = "h",
           "SG" \in f <=> i.conv \in Signed,
           NEW num, num = Loaded(i.words[1], f)
    PROVE  /\ num \in Nat
           /\ Value(i) \in Int
           /\ i.conv \in Signed /\ num > LONG_MAX <=> Value(i) < 0
           /\ Magnitude(num, i.conv) = IF Value(i) < 0 THEN -Value(i) ELSE Value(i)
           /\ Magnitude(num, i.conv) \in Nat
<1> DEFINE w == i.words[1]
<1>0. w \in 0 .. (Longs - 1)
  BY FieldIs
<1>1. i.mod \in {"", "F", "N", "l", "h"}
  BY FieldIs
<1>2. w \in Nat /\ w < Longs /\ w + 0 = w
  <2> HIDE DEF w
  <2>1. Longs \in Nat
    BY LongsIs
  <2> QED
    BY <1>0, <2>1
<1>3. ASSUME NEW r \in Nat, r < Longs PROVE r % Longs = r
  BY <1>3, LongsIs
<1>4. num = IF "16" \in f
            THEN IF "SG" \in f /\ w % Shorts > SHRT_MAX THEN (w % Shorts) + Longs - Shorts
                                                         ELSE w % Shorts
            ELSE w
  BY <1>1 DEF Loaded
<1>5. Value(i) = IF i.conv \in Signed /\ 2 * (w % Values(i.mod)) >= Values(i.mod)
                 THEN (w % Values(i.mod)) - Values(i.mod) ELSE w % Values(i.mod)
  <2>1. i.mod # "L"
    BY <1>1
  <2> QED
    BY <1>2, <2>1 DEF Value
<1>6. Values(i.mod) = IF i.mod = "h" THEN Shorts ELSE Longs
  BY <1>1 DEF Values
<1> HIDE DEF w
<1>7. CASE i.mod = "h"
  <2> DEFINE low == w % Shorts
  <2>1. low \in Nat /\ low < Shorts
    BY <1>2, LongsIs
  <2>2. num = IF i.conv \in Signed /\ low > SHRT_MAX THEN low + Longs - Shorts ELSE low
    BY <1>4, <1>7
  <2>3. Value(i) = IF i.conv \in Signed /\ 2 * low >= Shorts THEN low - Shorts ELSE low
    BY <1>5, <1>6, <1>7
  <2> HIDE DEF low
  <2>4. CASE i.conv \in Signed /\ low > SHRT_MAX
    <3>1. num = low + Longs - Shorts /\ Value(i) = low - Shorts
      BY <2>1, <2>2, <2>3, <2>4, LongsIs
    <3>2. num \in Nat /\ num > LONG_MAX /\ Longs - num = Shorts - low
          /\ Longs - num \in Nat /\ Longs - num < Longs
      BY <2>1, <2>4, <3>1, LongsIs
    <3>3. (Longs - num) % Longs = Longs - num
      BY <1>3, <3>2
    <3> QED
      BY <2>1, <2>4, <3>1, <3>2, <3>3, LongsIs DEF Magnitude
  <2>5. CASE ~(i.conv \in Signed /\ low > SHRT_MAX)
    <3>1. num = low /\ Value(i) = low
      BY <2>1, <2>2, <2>3, <2>5, LongsIs
    <3>2. ~(i.conv \in Signed /\ num > LONG_MAX)
      BY <2>1, <2>5, <3>1, LongsIs
    <3> QED
      BY <2>1, <3>1, <3>2 DEF Magnitude
  <2> QED
    BY <2>4, <2>5
<1>8. CASE i.mod # "h"
  <2>1. num = w
    BY <1>4, <1>8
  <2>2. Value(i) = IF i.conv \in Signed /\ 2 * w >= Longs THEN w - Longs ELSE w
    <3>1. w % Longs = w
      BY <1>2, <1>3
    <3> QED
      BY <1>5, <1>6, <1>8, <3>1
  <2>3. CASE i.conv \in Signed /\ w > LONG_MAX
    <3>1. Value(i) = w - Longs /\ Longs - w \in Nat /\ Longs - w < Longs /\ Value(i) < 0
      BY <1>2, <2>2, <2>3, LongsIs
    <3>2. (Longs - w) % Longs = Longs - w
      BY <1>3, <3>1
    <3>3. Magnitude(num, i.conv) = Longs - w
      BY <2>1, <2>3, <3>2 DEF Magnitude
    <3> QED
      BY <1>2, <2>1, <2>3, <3>1, <3>3, LongsIs
  <2>4. CASE ~(i.conv \in Signed /\ w > LONG_MAX)
    <3>1. Value(i) = w
      BY <1>2, <2>2, <2>4, LongsIs
    <3>2. Magnitude(num, i.conv) = num
      BY <2>1, <2>4 DEF Magnitude
    <3> QED
      BY <1>2, <2>1, <2>4, <3>1, <3>2
  <2> QED
    BY <2>3, <2>4
<1> QED
  BY <1>7, <1>8

-----------------------------------------------------------------------------
(* Padding. *)

(***************************************************************************)
(* Padding is a sequence of as many characters as asked for.               *)
(***************************************************************************)
LEMMA CopiesIs ==
    ASSUME NEW c \in Chars, NEW n \in Nat
    PROVE  Copies(c, n) \in Seq(Chars) /\ Len(Copies(c, n)) = n /\ Copies(c, 0) = <<>>
<1>1. Copies(c, n) \in Seq(Chars) /\ Len(Copies(c, n)) = n
  BY DEF Copies
<1>2. [k \in 1 .. 0 |-> c] = <<>>
  OBVIOUS
<1> QED
  BY <1>1, <1>2 DEF Copies

(***************************************************************************)
(* Printing nothing changes nothing.                                       *)
(***************************************************************************)
LEMMA Nothing ==
    ASSUME NEW s \in Seq(Chars)
    PROVE  s \o <<>> = s /\ <<>> \o s = s
  BY ConcatEmptySeq

(***************************************************************************)
(* A sequence of one character.                                            *)
(***************************************************************************)
LEMMA OneChar ==
    ASSUME NEW c \in Chars
    PROVE  <<c>> \in Seq(Chars) /\ Len(<<c>>) = 1 /\ <<c>>[1] = c
  OBVIOUS

\* What EMIT prints for the flag WS, and the columns a field has left.
Sign(f) == IF "WS" \in f THEN <<"-">> ELSE <<>>

Room(width) == IF given_wd > width THEN given_wd - width ELSE 0

(***************************************************************************)
(* EMIT and EMIT2 put the padding where the flags say.                     *)
(***************************************************************************)
LEMMA PaddedIs ==
    ASSUME NEW where \in Seq(Chars), NEW width \in Nat, given_wd \in Nat, NEW f
    PROVE  Padded(where, width, f)
              = IF "LJ" \in f THEN Sign(f) \o where \o Copies(" ", Room(width))
                ELSE IF "LZ" \in f THEN Sign(f) \o Copies("0", Room(width)) \o where
                ELSE Copies(" ", Room(width)) \o Sign(f) \o where
<1> DEFINE pad == Room(width)
           sign == Sign(f)
           left == IF "LJ" \notin f /\ given_wd > width THEN given_wd - width ELSE 0
           right == IF given_wd - left < width THEN 0 ELSE given_wd - left - width
           one == IF "LZ" \in f THEN sign ELSE <<>>
           two == IF "LZ" \notin f THEN sign ELSE <<>>
           blank == IF "LZ" \in f THEN "0" ELSE " "
<1>1. Padded(where, width, f) = one \o Copies(blank, left) \o two \o where \o Copies(" ", right)
  BY DEF Padded, If, Sign
<1>2. "0" \in Chars /\ " " \in Chars /\ "-" \in Chars
  BY DEF Chars
<1>3. sign \in Seq(Chars)
  <2>1. <<"-">> \in Seq(Chars)
    BY <1>2, OneChar
  <2> QED
    BY <2>1, EmptySeq DEF Sign
<1>4. pad \in Nat
  BY DEF Room
<1>5. IF "LJ" \in f THEN left = 0 /\ right = pad ELSE left = pad /\ right = 0
  BY DEF Room
<1>6. Copies(" ", 0) = <<>> /\ Copies("0", 0) = <<>>
  BY <1>2, CopiesIs
<1> HIDE DEF sign, left, right, pad
<1>7. /\ Copies(" ", pad) \in Seq(Chars) /\ Copies("0", pad) \in Seq(Chars)
  BY <1>2, <1>4, CopiesIs
<1>8. /\ sign \o <<>> = sign /\ <<>> \o <<>> = <<>> /\ <<>> \o sign = sign
      /\ \A s \in Seq(Chars) : s \o <<>> = s /\ <<>> \o s = s
  BY <1>3, Nothing, EmptySeq
<1>9. CASE "LJ" \in f
  <2>1. Copies(blank, left) = <<>> /\ Copies(" ", right) = Copies(" ", pad)
    BY <1>5, <1>6, <1>9
  <2>2. one \o <<>> \o two = sign
    BY <1>8
  <2> QED
    BY <1>1, <1>9, <2>1, <2>2 DEF pad, sign
<1>10. CASE "LJ" \notin f /\ "LZ" \in f
  <2>1. Copies(" ", right) = <<>> /\ left = pad
    BY <1>5, <1>6, <1>10
  <2>2. sign \o Copies("0", pad) \in Seq(Chars)
    BY <1>3, <1>7, ConcatProperties
  <2>3. sign \o Copies("0", pad) \o where \in Seq(Chars)
    BY <2>2, ConcatProperties
  <2>4. sign \o Copies("0", pad) \o <<>> = sign \o Copies("0", pad)
    BY <1>8, <2>2
  <2>5. sign \o Copies("0", pad) \o where \o <<>> = sign \o Copies("0", pad) \o where
    BY <1>8, <2>3
  <2> QED
    BY <1>1, <1>10, <2>1, <2>4, <2>5 DEF pad, sign
<1>11. CASE "LJ" \notin f /\ "LZ" \notin f
  <2>1. Copies(" ", right) = <<>> /\ left = pad
    BY <1>5, <1>6, <1>11
  <2>2. <<>> \o Copies(" ", pad) = Copies(" ", pad)
    BY <1>7, <1>8
  <2>3. Copies(" ", pad) \o sign \o where \in Seq(Chars)
    <3>1. Copies(" ", pad) \o sign \in Seq(Chars)
      BY <1>3, <1>7, ConcatProperties
    <3> QED
      BY <3>1, ConcatProperties
  <2>4. Copies(" ", pad) \o sign \o where \o <<>> = Copies(" ", pad) \o sign \o where
    BY <1>8, <2>3
  <2> QED
    BY <1>1, <1>11, <2>1, <2>2, <2>4 DEF pad, sign
<1> QED
  BY <1>9, <1>10, <1>11

-----------------------------------------------------------------------------
(* Conversions. *)

\* The parts of Field.
Amount(i) == IF i.conv \in Numeric THEN Value(i) ELSE 0

Body(i) ==
    IF i.conv = "c" THEN Glyph(i.words[1])
    ELSE IF i.conv = "s" THEN StringAt(i.words[1])
    ELSE Numeral(IF Amount(i) < 0 THEN -Amount(i) ELSE Amount(i), Radix(i.conv),
                 IF i.conv = "X" THEN Upper ELSE Lower)

SignOf(i) == IF Amount(i) < 0 THEN <<"-">> ELSE <<>>

Taken(i) == IF i.conv = "c" THEN 1 ELSE Len(SignOf(i) \o Body(i))

(***************************************************************************)
(* Field, with the parts under their names.                                *)
(***************************************************************************)
LEMMA FieldParts ==
    ASSUME NoLong, NEW i \in Fields, given_wd = i.wd
    PROVE  Field(i) = IF i.lj THEN SignOf(i) \o Body(i) \o Copies(" ", Room(Taken(i)))
                      ELSE IF i.lz /\ i.conv \in Numeric
                           THEN SignOf(i) \o Copies("0", Room(Taken(i))) \o Body(i)
                      ELSE Copies(" ", Room(Taken(i))) \o SignOf(i) \o Body(i)
<1>1. Body(i) = CASE i.conv = "c" -> Glyph(i.words[1])
                  [] i.conv = "s" -> StringAt(i.words[1])
                  [] OTHER -> Numeral(IF Amount(i) < 0 THEN -Amount(i) ELSE Amount(i),
                                      Radix(i.conv), IF i.conv = "X" THEN Upper ELSE Lower)
  BY DEF Body
<1> DEFINE S == SignOf(i)
           B == Body(i)
           w == IF i.conv = "c" THEN 1 ELSE Len(S \o B)
           pad == IF i.wd > w THEN i.wd - w ELSE 0
<1>2. Field(i) = CASE i.lj -> S \o B \o Copies(" ", pad)
                   [] ~i.lj /\ i.lz /\ i.conv \in Numeric -> S \o Copies("0", pad) \o B
                   [] OTHER -> Copies(" ", pad) \o S \o B
  BY <1>1 DEF Field, SignOf, Amount
<1>3. pad = Room(Taken(i))
  BY DEF Room, Taken
<1>4. i.lj \in BOOLEAN /\ i.lz \in BOOLEAN
  BY FieldIs
<1> HIDE DEF S, B, w, pad
<1> QED
  BY <1>2, <1>3, <1>4 DEF S, B

(***************************************************************************)
(* A string consists of characters.                                        *)
(***************************************************************************)
LEMMA StringIs ==
    ASSUME NEW p \in Nat
    PROVE  StringAt(p) \in Seq(Chars)
<1>1. ASSUME NEW k \in 1 .. p PROVE ToString(k) \in Chars
  <2>1. k \in Nat
    OBVIOUS
  <2> QED
    BY <2>1 DEF Chars
<1>2. [k \in 1 .. p |-> ToString(k)] \in Seq(Chars)
  BY <1>1
<1> QED
  BY <1>2 DEF StringAt

(***************************************************************************)
(* The parts of a field consist of characters, and the sign takes one      *)
(* column.                                                                 *)
(***************************************************************************)
LEMMA BodyIs ==
    ASSUME NoLong, NEW i \in Fields
    PROVE  /\ Body(i) \in Seq(Chars) /\ SignOf(i) \in Seq(Chars)
           /\ Len(SignOf(i) \o Body(i)) = Len(Body(i)) + (IF Amount(i) < 0 THEN 1 ELSE 0)
           /\ Taken(i) \in Nat /\ Amount(i) \in Int
           /\ i.conv \in Numeric => Radix(i.conv) \in Radices
<1>1. i.conv \in Numeric \cup {"c", "s"} /\ i.words[1] \in Nat
  BY FieldIs
<1>2. "c" \notin Numeric /\ "s" \notin Numeric
  BY DEF Numeric
<1>3. i.conv \in Numeric => Radix(i.conv) \in Radices
  BY DEF Radix, Radices, Numeric
<1>4. i.conv \in Numeric => Value(i) \in Int
  <2> SUFFICES ASSUME i.conv \in Numeric PROVE Value(i) \in Int
    OBVIOUS
  <2> DEFINE f == (IF i.mod = "l" THEN {"32"} ELSE {}) \cup (IF i.mod = "h" THEN {"16"} ELSE {})
                     \cup (IF i.conv \in Signed THEN {"SG"} ELSE {})
             num == Loaded(i.words[1], f)
  <2>1. /\ "32" \in f <=> i.mod = "l"
        /\ "64" \notin f
        /\ "16" \in f <=> i.mod = "h"
        /\ "SG" \in f <=> i.conv \in Signed
    OBVIOUS
  <2>2. \E x : x = num
    OBVIOUS
  <2> HIDE DEF f
  <2> QED
    BY <2>1, LoadedIs
<1>5. Amount(i) \in Int
  BY <1>4 DEF Amount
<1>6. Body(i) \in Seq(Chars)
  <2>1. CASE i.conv = "c"
    <3>1. ToString(i.words[1]) \in Chars
      BY <1>1 DEF Chars
    <3>2. Glyph(i.words[1]) \in Seq(Chars)
      BY <3>1, OneChar, EmptySeq DEF Glyph, If
    <3> QED
      BY <2>1, <3>2 DEF Body
  <2>2. CASE i.conv = "s"
    <3>1. StringAt(i.words[1]) \in Seq(Chars)
      BY <1>1, StringIs
    <3> QED
      BY <2>2, <3>1 DEF Body
  <2>3. CASE i.conv \in Numeric
    <3> DEFINE n == IF Amount(i) < 0 THEN -Amount(i) ELSE Amount(i)
               hex == IF i.conv = "X" THEN Upper ELSE Lower
    <3>1. n \in Nat /\ hex \in Hexes /\ Radix(i.conv) \in Radices
      BY <1>3, <1>5, <2>3 DEF Hexes
    <3>2. Body(i) = Numeral(n, Radix(i.conv), hex)
      BY <1>2, <2>3 DEF Body
    <3> HIDE DEF n, hex
    <3> QED
      BY <3>1, <3>2, NumeralIs
  <2> QED
    BY <1>1, <2>1, <2>2, <2>3
<1>7. "-" \in Chars
  BY DEF Chars
<1>8. SignOf(i) \in Seq(Chars) /\ Len(SignOf(i)) = IF Amount(i) < 0 THEN 1 ELSE 0
  BY <1>7, OneChar, EmptySeq DEF SignOf
<1>9. Len(SignOf(i) \o Body(i)) = Len(Body(i)) + (IF Amount(i) < 0 THEN 1 ELSE 0)
  <2>1. Len(SignOf(i) \o Body(i)) = Len(SignOf(i)) + Len(Body(i))
    BY <1>6, <1>8, ConcatProperties
  <2>2. Len(Body(i)) \in Nat
    BY <1>6, LenProperties
  <2> QED
    BY <1>8, <2>1, <2>2
<1>10. Taken(i) \in Nat
  <2>1. Len(Body(i)) \in Nat
    BY <1>6, LenProperties
  <2> QED
    BY <1>9, <2>1 DEF Taken
<1> QED
  BY <1>3, <1>5, <1>6, <1>8, <1>9, <1>10

(***************************************************************************)
(* A conversion with the flags, width and argument of a directive prints   *)
(* what the directive means.                                               *)
(***************************************************************************)
LEMMA LaidOut ==
    ASSUME NoLong, NEW i \in Fields, given_wd = i.wd, NEW f,
           "LJ" \in f <=> i.lj, "LZ" \in f <=> i.lz /\ i.conv \in Numeric,
           "WS" \in f <=> Amount(i) < 0
    PROVE  Padded(Body(i), Taken(i), f) = Field(i)
<1>1. given_wd \in Nat /\ i.lj \in BOOLEAN /\ i.lz \in BOOLEAN
  <2>1. i.wd \in 0 .. (Longs - 1) /\ i.lj \in BOOLEAN /\ i.lz \in BOOLEAN
    BY FieldIs
  <2>2. Longs \in Nat
    BY LongsIs
  <2> QED
    BY <2>1, <2>2
<1>2. Body(i) \in Seq(Chars) /\ Taken(i) \in Nat
  BY BodyIs
<1>3. Sign(f) = SignOf(i)
  BY DEF Sign, SignOf
<1> QED
  <2> DEFINE pad == Room(Taken(i))
  <2>1. Padded(Body(i), Taken(i), f)
           = IF "LJ" \in f THEN Sign(f) \o Body(i) \o Copies(" ", pad)
             ELSE IF "LZ" \in f THEN Sign(f) \o Copies("0", pad) \o Body(i)
             ELSE Copies(" ", pad) \o Sign(f) \o Body(i)
    BY <1>1, <1>2, PaddedIs
  <2>2. Field(i) = IF i.lj THEN SignOf(i) \o Body(i) \o Copies(" ", pad)
                   ELSE IF i.lz /\ i.conv \in Numeric
                        THEN SignOf(i) \o Copies("0", pad) \o Body(i)
                   ELSE Copies(" ", pad) \o SignOf(i) \o Body(i)
    BY FieldParts
  <2> HIDE DEF pad
  <2>3. CASE i.lj
    BY <1>3, <2>1, <2>2, <2>3
  <2>4. CASE ~i.lj /\ i.lz /\ i.conv \in Numeric
    BY <1>3, <2>1, <2>2, <2>4
  <2>5. CASE ~i.lj /\ ~(i.lz /\ i.conv \in Numeric)
    BY <1>3, <2>1, <2>2, <2>5
  <2> QED
    BY <1>1, <2>3, <2>4, <2>5

(***************************************************************************)
(* DO_NUM, whatever the radix, the sign, the width and the flags, hands to *)
(* the callback what the directive means, and takes one argument.          *)
(***************************************************************************)
LEMMA NumberPrints ==
    ASSUME NoLong, NEW i \in Fields, i.conv \in Numeric, given_wd = i.wd,
           FlagsAt2 = FieldFlags(i), Argument(args) = i.words[1], Number(i.conv)
    PROVE  Emit(Field(i)) /\ args' = args + 1
<1> DEFINE f == FlagsAt2 \cup (IF i.conv = "X" THEN {"CA"} ELSE {})
                         \cup (IF i.conv \in Signed THEN {"SG"} ELSE {})
           num == Loaded(Argument(args), f)
           negative == i.conv \in Signed /\ num > LONG_MAX
           g == IF negative THEN f \cup {"WS"} ELSE f
           mag == IF negative THEN (Longs - num) % Longs ELSE num
           where == Digits(mag, Radix(i.conv), g)
           width == Len(where) + (IF negative THEN 1 ELSE 0)
<1>1. Emit(Padded(where, width, g))
  BY DEF Number
<1>2. args' = args + (IF "64" \in f /\ "32" \notin f THEN 2 ELSE 1)
  BY DEF Number
<1>3. i.mod \in {"", "F", "N", "l", "h"} /\ i.lj \in BOOLEAN /\ i.lz \in BOOLEAN
  BY FieldIs
<1>4. /\ "32" \in f <=> i.mod = "l"
      /\ "64" \notin f
      /\ "16" \in f <=> i.mod = "h"
      /\ "SG" \in f <=> i.conv \in Signed
      /\ "CA" \in f <=> i.conv = "X"
      /\ "WS" \notin f
      /\ "LJ" \in f <=> i.lj
      /\ "LZ" \in f <=> i.lz
  BY <1>3 DEF FieldFlags, ModFlags
<1>5. num = Loaded(i.words[1], f)
  OBVIOUS
<1> HIDE DEF f, num
<1>6. /\ num \in Nat /\ Value(i) \in Int
      /\ negative <=> Value(i) < 0
      /\ Magnitude(num, i.conv) = IF Value(i) < 0 THEN -Value(i) ELSE Value(i)
      /\ Magnitude(num, i.conv) \in Nat
  BY <1>4, <1>5, LoadedIs
<1>7. mag = Magnitude(num, i.conv)
  BY DEF Magnitude
<1>8. Amount(i) = Value(i)
  BY DEF Amount
<1>9. /\ "WS" \in g <=> Amount(i) < 0
      /\ "CA" \in g <=> i.conv = "X"
      /\ "LJ" \in g <=> i.lj
      /\ "LZ" \in g <=> i.lz
  BY <1>4, <1>6, <1>8
<1>10. width = Len(where) + (IF Amount(i) < 0 THEN 1 ELSE 0)
  BY <1>6, <1>8
<1> HIDE DEF negative, g, mag, width
<1>11. where = Body(i)
  <2>1. mag \in Nat /\ mag = IF Amount(i) < 0 THEN -Amount(i) ELSE Amount(i)
    BY <1>6, <1>7, <1>8
  <2>2. Radix(i.conv) \in Radices
    BY BodyIs
  <2>3. where = Numeral(mag, Radix(i.conv), IF "CA" \in g THEN Upper ELSE Lower)
    BY <2>1, <2>2, DigitsAreNumeral
  <2>4. i.conv # "c" /\ i.conv # "s"
    BY DEF Numeric
  <2> HIDE DEF where
  <2> QED
    BY <1>9, <2>1, <2>3, <2>4 DEF Body
<1> HIDE DEF where
<1>12. width = Taken(i)
  <2>1. i.conv # "c"
    BY DEF Numeric
  <2> QED
    BY <1>10, <1>11, <2>1, BodyIs DEF Taken
<1>13. Padded(where, width, g) = Field(i)
  BY <1>3, <1>9, <1>11, <1>12, LaidOut
<1> QED
  BY <1>1, <1>2, <1>4, <1>13

(***************************************************************************)
(* So do %c and %s, for which the flag 0 pads with blanks.                 *)
(***************************************************************************)
LEMMA LettersPrint ==
    ASSUME NoLong, NEW i \in Fields, i.conv \in {"c", "s"}, given_wd = i.wd,
           FlagsAt2 = FieldFlags(i), Argument(args) = i.words[1],
           IF i.conv = "c" THEN Character ELSE String
    PROVE  Emit(Field(i)) /\ args' = args + 1
<1> DEFINE f == FlagsAt2 \ {"LZ"}
<1>1. i.conv \notin Numeric
  BY DEF Numeric
<1>2. i.mod \in {"", "F", "N", "l", "h"} /\ i.lj \in BOOLEAN /\ i.lz \in BOOLEAN
  BY FieldIs
<1>3. "LJ" \in f <=> i.lj
  BY <1>2 DEF FieldFlags, ModFlags
<1>4. "LZ" \notin f /\ "WS" \notin f
  BY <1>2 DEF FieldFlags, ModFlags
<1>5. Amount(i) = 0
  BY <1>1 DEF Amount
<1>6. Emit(Padded(Body(i), Taken(i), f)) /\ args' = args + 1
  <2>1. CASE i.conv = "c"
    <3>1. Body(i) = Glyph(Argument(args)) /\ Taken(i) = 1
      BY <2>1 DEF Body, Taken
    <3> QED
      BY <2>1, <3>1 DEF Character
  <2>2. CASE i.conv = "s"
    <3>1. Body(i) = StringAt(Argument(args)) /\ Taken(i) = Len(SignOf(i) \o Body(i))
      BY <2>2 DEF Body, Taken
    <3>2. Taken(i) = Len(Body(i))
      <4>1. Len(Body(i)) \in Nat
        BY BodyIs, LenProperties
      <4> QED
        BY <1>5, <3>1, <4>1, BodyIs
    <3> QED
      BY <2>2, <3>1, <3>2 DEF String
  <2> QED
    BY <2>1, <2>2
<1> HIDE DEF f
<1>7. Padded(Body(i), Taken(i), f) = Field(i)
  <2>1. "LZ" \in f <=> i.lz /\ i.conv \in Numeric
    BY <1>1, <1>4
  <2>2. "WS" \in f <=> Amount(i) < 0
    BY <1>4, <1>5
  <2> QED
    BY <1>3, <2>1, <2>2, LaidOut
<1> QED
  BY <1>6, <1>7

-----------------------------------------------------------------------------
(* Directives and how they are written. *)

\* The characters formats are spelled with, and those that are modifiers.
Codes ==
    {"%", "-", "0", "1", "2", "3", "4", "5", "6", "7", "8", "9", "t", "q", "F", "N", "L",
     "l", "h", "X", "x", "p", "n", "d", "i", "u", "o", "c", "s"}

Turned == {"F", "N", "L", "l", "h"}

\* How many characters come before the width, and how many the width has.
Pre(i) == 1 + (IF i.lj THEN 1 ELSE 0) + (IF i.lz THEN 1 ELSE 0)
Wide(i) == IF i.wd > 0 THEN WidthDigits(i.wd) ELSE 0
Modded(i) == IF i.mod # "" THEN 1 ELSE 0

\* The width of i as its spelling has it.
WidthText(i) == If(i.wd > 0, Numeral(i.wd, 10, Lower))

(***************************************************************************)
(* What a field means consists of characters.                              *)
(***************************************************************************)
LEMMA FieldType ==
    ASSUME NoLong, NEW i \in Fields
    PROVE  Field(i) \in Seq(Chars)
<1> DEFINE S == SignOf(i)
           B == Body(i)
           w == Taken(i)
           pad == IF i.wd > w THEN i.wd - w ELSE 0
<1>1. Field(i) = CASE i.lj -> S \o B \o Copies(" ", pad)
                   [] ~i.lj /\ i.lz /\ i.conv \in Numeric -> S \o Copies("0", pad) \o B
                   [] OTHER -> Copies(" ", pad) \o S \o B
  <2>1. B = CASE i.conv = "c" -> Glyph(i.words[1])
              [] i.conv = "s" -> StringAt(i.words[1])
              [] OTHER -> Numeral(IF Amount(i) < 0 THEN -Amount(i) ELSE Amount(i),
                                  Radix(i.conv), IF i.conv = "X" THEN Upper ELSE Lower)
    BY DEF Body
  <2>2. w = IF i.conv = "c" THEN 1 ELSE Len(S \o B)
    BY DEF Taken
  <2> QED
    BY <2>1, <2>2 DEF Field, SignOf, Amount
<1>2. S \in Seq(Chars) /\ B \in Seq(Chars) /\ w \in Nat
  BY BodyIs
<1>3. pad \in Nat
  <2>1. i.wd \in 0 .. (Longs - 1) /\ Longs \in Nat
    BY FieldIs, LongsIs
  <2> HIDE DEF w
  <2> QED
    BY <1>2, <2>1
<1>4. "0" \in Chars /\ " " \in Chars
  BY DEF Chars
<1> HIDE DEF S, B, w, pad
<1>5. Copies(" ", pad) \in Seq(Chars) /\ Copies("0", pad) \in Seq(Chars)
  BY <1>3, <1>4, CopiesIs
<1>6. S \o B \o Copies(" ", pad) \in Seq(Chars)
  <2>1. S \o B \in Seq(Chars)
    BY <1>2, ConcatProperties
  <2> QED
    BY <1>5, <2>1, ConcatProperties
<1>7. S \o Copies("0", pad) \o B \in Seq(Chars)
  <2>1. S \o Copies("0", pad) \in Seq(Chars)
    BY <1>2, <1>5, ConcatProperties
  <2> QED
    BY <1>2, <2>1, ConcatProperties
<1>8. Copies(" ", pad) \o S \o B \in Seq(Chars)
  <2>1. Copies(" ", pad) \o S \in Seq(Chars)
    BY <1>2, <1>5, ConcatProperties
  <2> QED
    BY <1>2, <2>1, ConcatProperties
<1> QED
  <2>1. i.lj \in BOOLEAN /\ i.lz \in BOOLEAN
    BY FieldIs
  <2>2. CASE i.lj
    BY <1>1, <1>6, <2>2
  <2>3. CASE ~i.lj /\ i.lz /\ i.conv \in Numeric
    BY <1>1, <1>7, <2>3
  <2>4. CASE ~i.lj /\ ~(i.lz /\ i.conv \in Numeric)
    BY <1>1, <1>8, <2>4
  <2> QED
    BY <2>1, <2>2, <2>3, <2>4

(***************************************************************************)
(* The directives that are no fields.                                      *)
(***************************************************************************)
LEMMA PlainIs ==
    ASSUME NEW i \in Plain
    PROVE  i.kind \in {"text", "percent", "minus", "unknown", "width"}
<1>1. i.kind \in {"text", "percent"} \cup Illegal
  BY DEF Plain
<1> QED
  BY <1>1, Assumed

(***************************************************************************)
(* What a directive means consists of characters, its arguments of words.  *)
(***************************************************************************)
LEMMA MeantType ==
    ASSUME NoLong, NEW i \in Fields \cup Plain
    PROVE  Meant(i) \in Seq(Chars) /\ WordsOf(i) \in Seq(Nat)
<1>1. CASE i \in Fields
  BY <1>1, FieldIs, FieldType DEF Meant, WordsOf
<1>2. CASE i \in Plain
  <2>1. i.kind \in {"text", "percent", "minus", "unknown", "width"}
    BY <1>2, PlainIs
  <2>2. "%" \in Chars /\ "t" \in Chars
    BY DEF Chars
  <2>3. <<"%">> \in Seq(Chars) /\ <<"t">> \in Seq(Chars)
    BY <2>2, OneChar
  <2>4. Meant(i) \in {<<"%">>, <<"t">>, <<>>}
    BY <2>1 DEF Meant
  <2>5. Meant(i) \in Seq(Chars)
    BY <2>3, <2>4, EmptySeq
  <2>6. WordsOf(i) = <<>>
    BY <2>1 DEF WordsOf
  <2> QED
    BY <2>5, <2>6, EmptySeq
<1> QED
  BY <1>1, <1>2

(***************************************************************************)
(* A field has one modifier or none.                                       *)
(***************************************************************************)
LEMMA ModIs ==
    ASSUME NoLong, NEW i \in Fields
    PROVE  /\ Modded(i) \in {0, 1}
           /\ Modded(i) = 1 => i.mod \in Turned /\ If(i.mod # "", <<i.mod>>) = <<i.mod>>
           /\ Modded(i) = 0 => i.mod = "" /\ If(i.mod # "", <<i.mod>>) = <<>>
<1>1. i.mod \in {"", "F", "N", "l", "h"}
  BY FieldIs
<1>2. CASE i.mod = ""
  <2>1. Modded(i) = 0
    BY <1>2 DEF Modded
  <2>2. If(i.mod # "", <<i.mod>>) = <<>>
    BY <1>2, Zenon DEF If
  <2>3. 0 # 1
    OBVIOUS
  <2> QED
    BY <1>2, <2>1, <2>2, <2>3, Zenon
<1>3. CASE i.mod # ""
  <2>1. Modded(i) = 1
    BY <1>3 DEF Modded
  <2>2. If(i.mod # "", <<i.mod>>) = <<i.mod>>
    BY <1>3, Zenon DEF If
  <2>3. i.mod \in Turned
    BY <1>1, <1>3, Zenon DEF Turned
  <2>4. 0 # 1
    OBVIOUS
  <2> QED
    BY <2>1, <2>2, <2>3, <2>4, Zenon
<1> QED
  BY <1>2, <1>3, Zenon

(***************************************************************************)
(* A sequence of one character of a format.                                *)
(***************************************************************************)
LEMMA OneCode ==
    ASSUME NEW c \in Codes
    PROVE  <<c>> \in Seq(Codes) /\ Len(<<c>>) = 1 /\ <<c>>[1] = c
  OBVIOUS

(***************************************************************************)
(* The width as the format spells it.                                      *)
(***************************************************************************)
LEMMA WidthTextIs ==
    ASSUME NoLong, NEW i \in Fields
    PROVE  /\ WidthText(i) \in Seq(Codes) /\ Len(WidthText(i)) = Wide(i) /\ Wide(i) \in Nat
           /\ i.wd = 0 => Wide(i) = 0
           /\ i.wd \in Nat
           /\ i.wd # 0 => Wide(i) = WidthDigits(i.wd) /\ WidthText(i) = Numeral(i.wd, 10, Lower)
<1>1. i.wd \in Nat
  <2>1. i.wd \in 0 .. (Longs - 1) /\ Longs \in Nat
    BY FieldIs, LongsIs
  <2> QED
    BY <2>1
<1>2. CASE i.wd = 0
  <2>1. WidthText(i) = <<>> /\ Wide(i) = 0
    BY <1>2 DEF WidthText, If, Wide
  <2> QED
    BY <1>2, <2>1, EmptySeq
<1>3. CASE i.wd # 0
  <2>1. WidthText(i) = Numeral(i.wd, 10, Lower) /\ Wide(i) = WidthDigits(i.wd)
    BY <1>1, <1>3 DEF WidthText, If, Wide
  <2> DEFINE s == Numeral(i.wd, 10, Lower)
             k == WidthDigits(i.wd)
  <2>2. /\ k \in Nat \ {0} /\ s \in Seq(Chars) /\ Len(s) = k
        /\ \A d \in 0 .. (k - 1) : s[d + 1] \in Decimal
    BY <1>1, <1>3, WidthScan
  <2> HIDE DEF s, k
  <2>3. \A d \in 1 .. Len(s) : s[d] \in Codes
    <3> SUFFICES ASSUME NEW d \in 1 .. Len(s) PROVE s[d] \in Codes
      OBVIOUS
    <3>1. d - 1 \in 0 .. (k - 1) /\ (d - 1) + 1 = d
      BY <2>2
    <3>2. s[d] \in Decimal
      BY <2>2, <3>1
    <3> QED
      BY <3>2, DigitIs DEF Codes
  <2>4. s \in Seq(Codes)
    <3>1. s = [d \in 1 .. Len(s) |-> s[d]] /\ Len(s) \in Nat
      BY <2>2
    <3> QED
      BY <2>3, <3>1
  <2> QED
    BY <1>1, <1>3, <2>1, <2>2, <2>4 DEF s, k
<1> QED
  BY <1>2, <1>3

(***************************************************************************)
(* Where a directive of the scan has its flags, width, modifier and        *)
(* conversion.                                                             *)
(***************************************************************************)
LEMMA FieldSpelling ==
    ASSUME NoLong, NEW i \in Fields
    PROVE  /\ Spelling(i) \in Seq(Codes)
           /\ Pre(i) \in 1 .. 3 /\ Wide(i) \in Nat /\ Modded(i) \in 0 .. 1
           /\ Len(Spelling(i)) = Pre(i) + Wide(i) + Modded(i) + 1
           /\ Spelling(i)[1] = "%"
           /\ i.lj => Pre(i) >= 2 /\ Spelling(i)[2] = "-"
           /\ i.lz => Spelling(i)[Pre(i)] = "0"
           /\ \A d \in 1 .. Wide(i) : Spelling(i)[Pre(i) + d] = WidthText(i)[d]
           /\ Modded(i) = 1 => Spelling(i)[Pre(i) + Wide(i) + 1] = i.mod
           /\ Spelling(i)[Pre(i) + Wide(i) + Modded(i) + 1] = i.conv
<1>1. i.lj \in BOOLEAN /\ i.lz \in BOOLEAN
  BY FieldIs
<1>25. i.kind = "field" /\ i.conv \in Numeric \cup {"c", "s"}
  BY FieldIs
<1> DEFINE p == <<"%">>
           a == If(i.lj, <<"-">>)
           b == If(i.lz, <<"0">>)
           n == WidthText(i)
           m == If(i.mod # "", <<i.mod>>)
           c == <<i.conv>>
<1>2. Spelling(i) = p \o a \o b \o n \o m \o c
  BY <1>25 DEF Spelling, WidthText
<1>3. p \in Seq(Codes) /\ Len(p) = 1 /\ p[1] = "%"
  BY OneCode DEF Codes
<1>4. a \in Seq(Codes) /\ Len(a) = (IF i.lj THEN 1 ELSE 0) /\ (i.lj => a[1] = "-")
  <2>1. CASE i.lj
    <3>1. a = <<"-">> /\ "-" \in Codes
      BY <2>1 DEF If, Codes
    <3> QED
      BY <2>1, <3>1, OneCode
  <2>2. CASE ~i.lj
    <3>1. a = <<>>
      BY <2>2 DEF If
    <3> QED
      BY <2>2, <3>1, EmptySeq
  <2> QED
    BY <2>1, <2>2
<1>5. b \in Seq(Codes) /\ Len(b) = (IF i.lz THEN 1 ELSE 0) /\ (i.lz => b[1] = "0")
  <2>1. CASE i.lz
    <3>1. b = <<"0">> /\ "0" \in Codes
      BY <2>1 DEF If, Codes
    <3> QED
      BY <2>1, <3>1, OneCode
  <2>2. CASE ~i.lz
    <3>1. b = <<>>
      BY <2>2 DEF If
    <3> QED
      BY <2>2, <3>1, EmptySeq
  <2> QED
    BY <2>1, <2>2
<1>6. n \in Seq(Codes) /\ Len(n) = Wide(i) /\ Wide(i) \in Nat
  BY WidthTextIs
<1>7. m \in Seq(Codes) /\ Len(m) = Modded(i) /\ (Modded(i) = 1 => m[1] = i.mod)
  <2>1. CASE Modded(i) = 1
    <3>1. m = <<i.mod>> /\ i.mod \in Codes
      BY <2>1, ModIs DEF Codes, Turned
    <3> QED
      BY <2>1, <3>1, OneCode
  <2>2. CASE Modded(i) = 0
    <3>1. m = <<>>
      BY <2>2, ModIs, Zenon
    <3> HIDE DEF m
    <3> QED
      BY <2>2, <3>1, EmptySeq
  <2>3. Modded(i) \in {0, 1}
    BY ModIs
  <2> QED
    BY <2>1, <2>2, <2>3
<1>8. c \in Seq(Codes) /\ Len(c) = 1 /\ c[1] = i.conv
  <2>1. i.conv \in Codes
    BY <1>25 DEF Codes, Numeric
  <2> QED
    BY <2>1, OneCode
<1>9. Modded(i) \in {0, 1}
  BY ModIs
<1> HIDE DEF p, a, b, n, m, c
<1>10. /\ p \o a \in Seq(Codes) /\ Len(p \o a) = 1 + (IF i.lj THEN 1 ELSE 0)
       /\ (p \o a)[1] = "%" /\ (i.lj => (p \o a)[2] = "-")
  <2>1. /\ p \o a \in Seq(Codes) /\ Len(p \o a) = Len(p) + Len(a)
        /\ \A j \in 1 .. Len(p) + Len(a) :
              (p \o a)[j] = IF j <= Len(p) THEN p[j] ELSE a[j - Len(p)]
    BY <1>3, <1>4, ConcatProperties
  <2> QED
    BY <1>1, <1>3, <1>4, <2>1
<1> DEFINE pa == p \o a
<1> HIDE DEF pa
<1>11. /\ pa \o b \in Seq(Codes) /\ Len(pa \o b) = Pre(i) /\ Pre(i) \in 1 .. 3
       /\ (pa \o b)[1] = "%" /\ (i.lj => Pre(i) >= 2 /\ (pa \o b)[2] = "-")
       /\ (i.lz => (pa \o b)[Pre(i)] = "0")
  <2>1. /\ pa \o b \in Seq(Codes) /\ Len(pa \o b) = Len(pa) + Len(b)
        /\ \A j \in 1 .. Len(pa) + Len(b) :
              (pa \o b)[j] = IF j <= Len(pa) THEN pa[j] ELSE b[j - Len(pa)]
    BY <1>5, <1>10, ConcatProperties DEF pa
  <2>2. Pre(i) = Len(pa) + Len(b) /\ Len(pa) = 1 + (IF i.lj THEN 1 ELSE 0)
    BY <1>5, <1>10 DEF Pre, pa
  <2>3. pa[1] = "%" /\ (i.lj => pa[2] = "-")
    BY <1>10 DEF pa
  <2> QED
    BY <1>1, <1>5, <2>1, <2>2, <2>3
<1> DEFINE pb == pa \o b
<1> HIDE DEF pb
<1>12. /\ pb \o n \in Seq(Codes) /\ Len(pb \o n) = Pre(i) + Wide(i)
       /\ \A j \in 1 .. Pre(i) + Wide(i) :
             (pb \o n)[j] = IF j <= Pre(i) THEN pb[j] ELSE n[j - Pre(i)]
  <2>1. pb \in Seq(Codes) /\ Len(pb) = Pre(i)
    BY <1>11 DEF pb
  <2>2. /\ pb \o n \in Seq(Codes) /\ Len(pb \o n) = Len(pb) + Len(n)
        /\ \A j \in 1 .. Len(pb) + Len(n) :
              (pb \o n)[j] = IF j <= Len(pb) THEN pb[j] ELSE n[j - Len(pb)]
    BY <1>6, <2>1, ConcatProperties
  <2> QED
    BY <1>6, <2>1, <2>2
<1> DEFINE pn == pb \o n
<1> HIDE DEF pn
<1>13. /\ pn \o m \in Seq(Codes) /\ Len(pn \o m) = Pre(i) + Wide(i) + Modded(i)
       /\ \A j \in 1 .. Pre(i) + Wide(i) + Modded(i) :
             (pn \o m)[j] = IF j <= Pre(i) + Wide(i) THEN pn[j] ELSE m[j - (Pre(i) + Wide(i))]
  <2>1. pn \in Seq(Codes) /\ Len(pn) = Pre(i) + Wide(i)
    BY <1>12 DEF pn
  <2>2. /\ pn \o m \in Seq(Codes) /\ Len(pn \o m) = Len(pn) + Len(m)
        /\ \A j \in 1 .. Len(pn) + Len(m) :
              (pn \o m)[j] = IF j <= Len(pn) THEN pn[j] ELSE m[j - Len(pn)]
    BY <1>7, <2>1, ConcatProperties
  <2> QED
    BY <1>7, <2>1, <2>2
<1> DEFINE pm == pn \o m
<1> HIDE DEF pm
<1>14. /\ pm \o c \in Seq(Codes) /\ Len(pm \o c) = Pre(i) + Wide(i) + Modded(i) + 1
       /\ \A j \in 1 .. Pre(i) + Wide(i) + Modded(i) + 1 :
             (pm \o c)[j] = IF j <= Pre(i) + Wide(i) + Modded(i) THEN pm[j]
                            ELSE c[j - (Pre(i) + Wide(i) + Modded(i))]
  <2>1. pm \in Seq(Codes) /\ Len(pm) = Pre(i) + Wide(i) + Modded(i)
    BY <1>13 DEF pm
  <2>2. /\ pm \o c \in Seq(Codes) /\ Len(pm \o c) = Len(pm) + Len(c)
        /\ \A j \in 1 .. Len(pm) + Len(c) :
              (pm \o c)[j] = IF j <= Len(pm) THEN pm[j] ELSE c[j - Len(pm)]
    BY <1>8, <2>1, ConcatProperties
  <2> QED
    BY <1>8, <2>1, <2>2
<1>15. Spelling(i) = pm \o c
  BY <1>2 DEF pm, pn, pb, pa
<1> DEFINE s == pm \o c
           P == Pre(i)
           W == Wide(i)
           M == Modded(i)
<1> HIDE DEF s, P, W, M
<1>16. P \in Nat /\ P >= 1 /\ W \in Nat /\ M \in Nat
  BY <1>6, <1>9, <1>11 DEF P, W, M
<1>17. \A j \in 1 .. P : s[j] = pb[j]
  <2> SUFFICES ASSUME NEW j \in 1 .. P PROVE s[j] = pb[j]
    OBVIOUS
  <2>1. s[j] = pm[j]
    BY <1>14, <1>16 DEF s, P, W, M
  <2>2. pm[j] = pn[j]
    BY <1>13, <1>16 DEF pm, P, W, M
  <2>3. pn[j] = pb[j]
    BY <1>12, <1>16 DEF pn, P, W
  <2> QED
    BY <2>1, <2>2, <2>3
<1>18. \A d \in 1 .. W : s[P + d] = n[d]
  <2> SUFFICES ASSUME NEW d \in 1 .. W PROVE s[P + d] = n[d]
    OBVIOUS
  <2>1. P + d \in 1 .. P + W /\ P + d \in 1 .. P + W + M /\ P + d \in 1 .. P + W + M + 1
        /\ ~(P + d <= P) /\ (P + d) - P = d
    BY <1>16
  <2>2. s[P + d] = pm[P + d]
    BY <1>14, <1>16, <2>1 DEF s, P, W, M
  <2>3. pm[P + d] = pn[P + d]
    BY <1>13, <1>16, <2>1 DEF pm, P, W, M
  <2>4. pn[P + d] = n[d]
    BY <1>12, <1>16, <2>1 DEF pn, P, W
  <2> QED
    BY <2>2, <2>3, <2>4
<1>19. M = 1 => s[P + W + 1] = i.mod
  <2> SUFFICES ASSUME M = 1 PROVE s[P + W + 1] = i.mod
    OBVIOUS
  <2>1. P + W + 1 \in 1 .. P + W + M /\ P + W + 1 \in 1 .. P + W + M + 1
        /\ ~(P + W + 1 <= P + W) /\ (P + W + 1) - (P + W) = 1
    BY <1>16
  <2>2. s[P + W + 1] = pm[P + W + 1]
    BY <1>14, <1>16, <2>1 DEF s, P, W, M
  <2>3. pm[P + W + 1] = m[1]
    BY <1>13, <1>16, <2>1 DEF pm, P, W, M
  <2> QED
    BY <1>7, <2>2, <2>3 DEF M
<1>20. s[P + W + M + 1] = i.conv
  <2>1. P + W + M + 1 \in 1 .. P + W + M + 1 /\ ~(P + W + M + 1 <= P + W + M)
        /\ (P + W + M + 1) - (P + W + M) = 1
    BY <1>16
  <2>2. s[P + W + M + 1] = c[1]
    BY <1>14, <1>16, <2>1 DEF s, P, W, M
  <2> QED
    BY <1>8, <2>2
<1>21. s[1] = "%" /\ (i.lj => P >= 2 /\ s[2] = "-") /\ (i.lz => s[P] = "0")
  <2>1. pb[1] = "%" /\ (i.lj => P >= 2 /\ pb[2] = "-") /\ (i.lz => pb[P] = "0")
    BY <1>11 DEF pb, P
  <2>2. 1 \in 1 .. P /\ P \in 1 .. P /\ (P >= 2 => 2 \in 1 .. P)
    BY <1>16
  <2> QED
    BY <1>17, <2>1, <2>2
<1>22. s \in Seq(Codes) /\ Len(s) = P + W + M + 1
  BY <1>14 DEF s, P, W, M
<1>23. Spelling(i) = s /\ n = WidthText(i)
  BY <1>15 DEF s, n
<1> QED
  BY <1>6, <1>9, <1>11, <1>18, <1>19, <1>20, <1>21, <1>22, <1>23 DEF P, W, M

\* What a format in memory consists of.
Bytes == Codes \cup {NUL}

(***************************************************************************)
(* How text, %% and the three illegal directives are spelled.              *)
(***************************************************************************)
LEMMA PlainSpelling ==
    ASSUME NEW i \in Plain
    PROVE  /\ Spelling(i) \in Seq(Codes)
           /\ Len(Spelling(i)) \in Nat \ {0}
           /\ i.kind = "text" => Spelling(i) = <<"t">> /\ Len(Spelling(i)) = 1
           /\ i.kind = "percent" => Spelling(i) = <<"%", "%">> /\ Len(Spelling(i)) = 2
           /\ i.kind = "minus" => Spelling(i) = <<"%", "-", "-">> /\ Len(Spelling(i)) = 3
           /\ i.kind = "unknown" => Spelling(i) = <<"%", "0", "3", "q">> /\ Len(Spelling(i)) = 4
           /\ i.kind = "width" => Spelling(i) = <<"%", "5", "%">> /\ Len(Spelling(i)) = 3
<1>1. i.kind \in {"text", "percent", "minus", "unknown", "width"}
  BY PlainIs
<1>2. /\ <<"t">> \in Seq(Codes) /\ Len(<<"t">>) = 1
      /\ <<"%", "%">> \in Seq(Codes) /\ Len(<<"%", "%">>) = 2
      /\ <<"%", "-", "-">> \in Seq(Codes) /\ Len(<<"%", "-", "-">>) = 3
      /\ <<"%", "0", "3", "q">> \in Seq(Codes) /\ Len(<<"%", "0", "3", "q">>) = 4
      /\ <<"%", "5", "%">> \in Seq(Codes) /\ Len(<<"%", "5", "%">>) = 3
  BY DEF Codes
<1>3. CASE i.kind = "text"
  <2>1. Spelling(i) = <<"t">>
    BY <1>3 DEF Spelling
  <2> QED
    BY <1>2, <1>3, <2>1
<1>4. CASE i.kind = "percent"
  <2>1. Spelling(i) = <<"%", "%">>
    BY <1>4 DEF Spelling
  <2> QED
    BY <1>2, <1>4, <2>1
<1>5. CASE i.kind = "minus"
  <2>1. Spelling(i) = <<"%", "-", "-">>
    BY <1>5 DEF Spelling
  <2> QED
    BY <1>2, <1>5, <2>1
<1>6. CASE i.kind = "unknown"
  <2>1. Spelling(i) = <<"%", "0", "3", "q">>
    BY <1>6 DEF Spelling
  <2> QED
    BY <1>2, <1>6, <2>1
<1>7. CASE i.kind = "width"
  <2>1. Spelling(i) = <<"%", "5", "%">>
    BY <1>7 DEF Spelling
  <2> QED
    BY <1>2, <1>7, <2>1
<1> QED
  BY <1>1, <1>3, <1>4, <1>5, <1>6, <1>7

(***************************************************************************)
(* A directive is spelled with at least one character, none of them the    *)
(* NUL.                                                                    *)
(***************************************************************************)
LEMMA SpellingType ==
    ASSUME NoLong, NEW i \in Fields \cup Plain
    PROVE  Spelling(i) \in Seq(Codes) /\ Len(Spelling(i)) \in Nat \ {0}
<1>1. CASE i \in Fields
  <2>1. /\ Spelling(i) \in Seq(Codes)
        /\ Pre(i) \in 1 .. 3 /\ Wide(i) \in Nat /\ Modded(i) \in 0 .. 1
        /\ Len(Spelling(i)) = Pre(i) + Wide(i) + Modded(i) + 1
    BY <1>1, FieldSpelling
  <2>2. Pre(i) + Wide(i) + Modded(i) + 1 \in Nat \ {0}
    BY <2>1
  <2> QED
    BY <2>1, <2>2
<1>2. CASE i \in Plain
  BY <1>2, PlainSpelling
<1> QED
  BY <1>1, <1>2

(***************************************************************************)
(* In joined sequences each has its place, behind those before it.         *)
(***************************************************************************)
LEMMA JoinedPlaces ==
    ASSUME NEW C, NEW n \in Nat, NEW f, \A j \in 1 .. n : f[j] \in Seq(C)
    PROVE  /\ Joined(f, 0) = <<>>
           /\ \A k \in 0 .. n : Joined(f, k) \in Seq(C) /\ Len(Joined(f, k)) \in Nat
           /\ \A k \in 0 .. (n - 1) :
                 /\ Joined(f, k + 1) = Joined(f, k) \o f[k + 1]
                 /\ Len(Joined(f, k + 1)) = Len(Joined(f, k)) + Len(f[k + 1])
                 /\ Len(f[k + 1]) \in Nat
           /\ \A m \in 0 .. n : \A k \in 0 .. m :
                 /\ Len(Joined(f, k)) <= Len(Joined(f, m))
                 /\ \A p \in 1 .. Len(Joined(f, k)) : Joined(f, m)[p] = Joined(f, k)[p]
           /\ \A k \in 0 .. (n - 1) : \A p \in 1 .. Len(f[k + 1]) :
                 Joined(f, n)[Len(Joined(f, k)) + p] = f[k + 1][p]
<1> DEFINE J(k) == Joined(f, k)
<1>1. /\ J(0) = <<>>
      /\ \A k \in 0 .. n : J(k) \in Seq(C)
      /\ \A k \in 0 .. (n - 1) : J(k + 1) = J(k) \o f[k + 1]
  BY JoinedStep
<1> HIDE DEF J
<1>2. \A k \in 0 .. n : Len(J(k)) \in Nat
  BY <1>1
<1>3. ASSUME NEW k \in 0 .. (n - 1)
      PROVE  /\ Len(J(k + 1)) = Len(J(k)) + Len(f[k + 1])
             /\ Len(f[k + 1]) \in Nat
             /\ \A p \in 1 .. Len(J(k)) : J(k + 1)[p] = J(k)[p]
             /\ \A p \in 1 .. Len(f[k + 1]) : J(k + 1)[Len(J(k)) + p] = f[k + 1][p]
  <2> DEFINE s == J(k)
             t == f[k + 1]
             u == J(k + 1)
  <2>1. s \in Seq(C) /\ t \in Seq(C) /\ u = s \o t
    <3>1. k \in 0 .. n /\ k + 1 \in 1 .. n
      OBVIOUS
    <3> QED
      BY <1>1, <3>1
  <2>2. Len(s) \in Nat /\ Len(t) \in Nat
    BY <2>1, LenProperties
  <2>3. /\ Len(u) = Len(s) + Len(t)
        /\ \A p \in 1 .. Len(s) + Len(t) : u[p] = IF p <= Len(s) THEN s[p] ELSE t[p - Len(s)]
    <3> HIDE DEF s, t, u
    <3> QED
      BY <2>1, ConcatProperties
  <2> HIDE DEF s, t, u
  <2>4. \A p \in 1 .. Len(s) : u[p] = s[p]
    BY <2>2, <2>3
  <2>5. \A p \in 1 .. Len(t) : u[Len(s) + p] = t[p]
    <3> SUFFICES ASSUME NEW p \in 1 .. Len(t) PROVE u[Len(s) + p] = t[p]
      OBVIOUS
    <3>1. Len(s) + p \in 1 .. Len(s) + Len(t) /\ ~(Len(s) + p <= Len(s))
          /\ (Len(s) + p) - Len(s) = p
      BY <2>2
    <3> QED
      BY <2>3, <3>1
  <2> QED
    BY <2>2, <2>3, <2>4, <2>5 DEF s, t, u
<1> DEFINE Kept(m, k) == Len(J(k)) <= Len(J(m))
                         /\ \A p \in 1 .. Len(J(k)) : J(m)[p] = J(k)[p]
           S == {m \in Nat : m \in 0 .. n => \A k \in 0 .. m : Kept(m, k)}
<1>4. 0 \in S
  <2>1. \A k \in 0 .. 0 : k = 0
    OBVIOUS
  <2>2. 0 \in 0 .. n
    OBVIOUS
  <2>3. Kept(0, 0)
    BY <1>2, <2>2
  <2> QED
    BY <2>1, <2>3
<1>5. ASSUME NEW m \in Nat, m \in S PROVE m + 1 \in S
  <2> SUFFICES ASSUME m + 1 \in 0 .. n, NEW k \in 0 .. (m + 1) PROVE Kept(m + 1, k)
    OBVIOUS
  <2>1. m \in 0 .. (n - 1) /\ m \in 0 .. n /\ k \in 0 .. n /\ m + 1 \in 0 .. n
    OBVIOUS
  <2>2. CASE k = m + 1
    BY <1>2, <2>1, <2>2
  <2>3. CASE k # m + 1
    <3>1. k \in 0 .. m
      BY <2>3
    <3>2. Kept(m, k)
      BY <1>5, <2>1, <3>1
    <3>3. /\ Len(J(m + 1)) = Len(J(m)) + Len(f[m + 1]) /\ Len(f[m + 1]) \in Nat
          /\ \A p \in 1 .. Len(J(m)) : J(m + 1)[p] = J(m)[p]
      BY <1>3, <2>1
    <3>4. Len(J(k)) \in Nat /\ Len(J(m)) \in Nat
      BY <1>2, <2>1
    <3> QED
      BY <3>2, <3>3, <3>4
  <2> QED
    BY <2>2, <2>3
<1> HIDE DEF S
<1>6. Nat \subseteq S
  BY <1>4, <1>5, Induction
<1> USE DEF S
<1>7. \A m \in 0 .. n : \A k \in 0 .. m : Kept(m, k)
  <2> SUFFICES ASSUME NEW m \in 0 .. n, NEW k \in 0 .. m PROVE Kept(m, k)
    OBVIOUS
  <2>1. m \in S
    BY <1>6
  <2> HIDE DEF Kept
  <2> QED
    BY <2>1
<1>8. ASSUME NEW k \in 0 .. (n - 1), NEW p \in 1 .. Len(f[k + 1])
      PROVE  J(n)[Len(J(k)) + p] = f[k + 1][p]
  <2>1. /\ Len(J(k + 1)) = Len(J(k)) + Len(f[k + 1]) /\ Len(f[k + 1]) \in Nat
        /\ J(k + 1)[Len(J(k)) + p] = f[k + 1][p]
    BY <1>3
  <2>2. Len(J(k)) \in Nat
    BY <1>2
  <2>3. Len(J(k)) + p \in 1 .. Len(J(k + 1))
    BY <2>1, <2>2
  <2>4. \A q \in 1 .. Len(J(k + 1)) : J(n)[q] = J(k + 1)[q]
    <3>1. n \in 0 .. n /\ k + 1 \in 0 .. n
      OBVIOUS
    <3> QED
      BY <1>7, <3>1
  <2> QED
    BY <2>1, <2>3, <2>4
<1> QED
  BY <1>1, <1>2, <1>3, <1>7, <1>8 DEF J

(***************************************************************************)
(* One more piece makes the whole longer by its length.                    *)
(***************************************************************************)
LEMMA JoinedLen ==
    ASSUME NEW C, NEW n \in Nat, NEW f, \A j \in 1 .. n : f[j] \in Seq(C),
           NEW k \in 0 .. (n - 1)
    PROVE  Len(Joined(f, k + 1)) = Len(Joined(f, k)) + Len(f[k + 1])
<1> DEFINE s == Joined(f, k)
           t == f[k + 1]
           u == Joined(f, k + 1)
<1>1. s \in Seq(C) /\ t \in Seq(C) /\ u = s \o t
  <2>1. k \in 0 .. n /\ k + 1 \in 1 .. n
    OBVIOUS
  <2> QED
    BY <2>1, JoinedStep
<1> HIDE DEF s, t, u
<1>2. Len(u) = Len(s) + Len(t)
  BY <1>1, ConcatProperties
<1> QED
  BY <1>2 DEF s, t, u

-----------------------------------------------------------------------------
(* The format and what it stands for, item after item. *)

\* Format, output and arguments of the first k items of the call.
Spelled(k) == Joined([j \in 1 .. Len(items) |-> Spelling(items[j])], k)
Said(k) == Joined([j \in 1 .. Len(items) |-> Meant(items[j])], k)
Passed(k) == Joined([j \in 1 .. Len(items) |-> WordsOf(items[j])], k)

(***************************************************************************)
(* A call prints a sequence of directives.                                 *)
(***************************************************************************)
LEMMA CallsAre ==
    ASSUME items \in Calls
    PROVE  /\ items \in Seq(Fields \cup Plain) /\ Len(items) \in Nat
           /\ \A j \in 1 .. Len(items) : items[j] \in Fields \cup Plain
<1>1. items \in Seq(Fields \cup Plain)
  BY CallsAssumption, Zenon
<1> QED
  BY <1>1

\* The first k items.
First(k) == SubSeq(items, 1, k)

(***************************************************************************)
(* The first k directives of a call, as ItemsPrinted speaks of them, are   *)
(* the first k pieces of the format.                                       *)
(***************************************************************************)
LEMMA PrefixesAre ==
    ASSUME items \in Calls, NEW k, k \in 0 .. Len(items)
    PROVE  /\ Format(First(k)) = Spelled(k)
           /\ Printed(First(k)) = Said(k)
           /\ Arguments(First(k)) = Passed(k)
<1> DEFINE s == First(k)
<1>1. items \in Seq(Fields \cup Plain) /\ Len(items) \in Nat
      /\ \A j \in 1 .. Len(items) : items[j] \in Fields \cup Plain
  BY CallsAre
<1>2. Len(s) = k /\ \A j \in 1 .. k : s[j] = items[j]
  <2>1. \A j \in 1 .. k : items[j] \in Fields \cup Plain
    BY <1>1
  <2>2. /\ Len(s) = IF 1 <= k THEN k - 1 + 1 ELSE 0
        /\ \A j \in 1 .. k - 1 + 1 : s[j] = items[1 + j - 1]
    <3>1. 1 \in Int /\ k \in Int
      OBVIOUS
    <3> QED
      BY <2>1, <3>1, SubSeqProperties DEF First
  <2> HIDE DEF s
  <2>3. Len(s) = k
    BY <2>2
  <2>4. ASSUME NEW j \in 1 .. k PROVE s[j] = items[j]
    <3>1. j \in 1 .. k - 1 + 1 /\ 1 + j - 1 = j
      OBVIOUS
    <3> QED
      BY <2>2, <3>1
  <2> QED
    BY <2>3, <2>4
<1> HIDE DEF s
<1>3. \A j \in 1 .. k : j \in 1 .. Len(items)
  BY <1>1
<1>4. [j \in 1 .. Len(s) |-> Spelling(s[j])]
         = [j \in 1 .. k |-> [m \in 1 .. Len(items) |-> Spelling(items[m])][j]]
  BY <1>2, <1>3
<1>5. [j \in 1 .. Len(s) |-> Meant(s[j])]
         = [j \in 1 .. k |-> [m \in 1 .. Len(items) |-> Meant(items[m])][j]]
  BY <1>2, <1>3
<1>6. [j \in 1 .. Len(s) |-> WordsOf(s[j])]
         = [j \in 1 .. k |-> [m \in 1 .. Len(items) |-> WordsOf(items[m])][j]]
  BY <1>2, <1>3
<1>7. Format(s) = Spelled(k)
  BY <1>4, Zenon DEF Format, Spelled, Joined
<1>8. Printed(s) = Said(k)
  BY <1>5, Zenon DEF Printed, Said, Joined
<1>9. Arguments(s) = Passed(k)
  BY <1>6, Zenon DEF Arguments, Passed, Joined
<1> QED
  BY <1>7, <1>8, <1>9 DEF s

(***************************************************************************)
(* So are all of them.                                                     *)
(***************************************************************************)
LEMMA WholeCall ==
    ASSUME items \in Calls
    PROVE  /\ Format(items) = Spelled(Len(items))
           /\ Printed(items) = Said(Len(items))
           /\ Arguments(items) = Passed(Len(items))
<1>1. items \in Seq(Fields \cup Plain) /\ Len(items) \in Nat
  BY CallsAre
<1>2. First(Len(items)) = items
  BY <1>1, SubSeqFull DEF First
<1>3. Len(items) \in 0 .. Len(items)
  BY <1>1
<1> QED
  BY <1>2, <1>3, PrefixesAre

(***************************************************************************)
(* Where the items' spellings, their output and their arguments are.       *)
(***************************************************************************)
LEMMA Places ==
    ASSUME NoLong, items \in Calls
    PROVE  /\ Spelled(0) = <<>> /\ Said(0) = <<>> /\ Passed(0) = <<>>
           /\ \A k \in 0 .. Len(items) :
                 /\ Spelled(k) \in Seq(Codes) /\ Len(Spelled(k)) \in Nat
                 /\ Said(k) \in Seq(Chars) /\ Len(Said(k)) \in Nat
                 /\ Len(Said(k)) <= Len(Said(Len(items)))
                 /\ Passed(k) \in Seq(Nat) /\ Len(Passed(k)) \in Nat
           /\ \A m \in 0 .. Len(items) : \A k \in 0 .. m :
                 Len(Spelled(k)) <= Len(Spelled(m))
           /\ \A k \in 0 .. (Len(items) - 1) :
                 /\ Len(Spelled(k + 1)) = Len(Spelled(k)) + Len(Spelling(items[k + 1]))
                 /\ Said(k + 1) = Said(k) \o Meant(items[k + 1])
                 /\ Len(Passed(k + 1)) = Len(Passed(k)) + Len(WordsOf(items[k + 1]))
                 /\ Len(Said(k)) + Len(Meant(items[k + 1])) <= Len(Said(Len(items)))
           /\ \A k \in 0 .. (Len(items) - 1) : \A p \in 1 .. Len(Spelling(items[k + 1])) :
                 Spelled(Len(items))[Len(Spelled(k)) + p] = Spelling(items[k + 1])[p]
           /\ \A k \in 0 .. (Len(items) - 1) : \A p \in 1 .. Len(WordsOf(items[k + 1])) :
                 Passed(Len(items))[Len(Passed(k)) + p] = WordsOf(items[k + 1])[p]
<1> DEFINE n == Len(items)
           f == [j \in 1 .. n |-> Spelling(items[j])]
           g == [j \in 1 .. n |-> Meant(items[j])]
           h == [j \in 1 .. n |-> WordsOf(items[j])]
<1>1. n \in Nat /\ \A j \in 1 .. n : items[j] \in Fields \cup Plain
  BY CallsAre
<1> HIDE DEF n
<1>2. /\ \A j \in 1 .. n : f[j] = Spelling(items[j]) /\ f[j] \in Seq(Codes)
      /\ \A j \in 1 .. n : g[j] = Meant(items[j]) /\ g[j] \in Seq(Chars)
      /\ \A j \in 1 .. n : h[j] = WordsOf(items[j]) /\ h[j] \in Seq(Nat)
  BY <1>1, SpellingType, MeantType
<1>3. \A k : Spelled(k) = Joined(f, k) /\ Said(k) = Joined(g, k) /\ Passed(k) = Joined(h, k)
  BY DEF Spelled, Said, Passed, n
<1> HIDE DEF f, g, h
<1>4. \A k \in 0 .. (n - 1) : k + 1 \in 1 .. n /\ k + 1 \in 0 .. n
  BY <1>1
<1>5. n \in 0 .. n
  BY <1>1
<1>6. /\ Joined(f, 0) = <<>>
      /\ \A k \in 0 .. n : Joined(f, k) \in Seq(Codes) /\ Len(Joined(f, k)) \in Nat
      /\ \A k \in 0 .. (n - 1) : Len(Joined(f, k + 1)) = Len(Joined(f, k)) + Len(f[k + 1])
      /\ \A m \in 0 .. n : \A k \in 0 .. m : Len(Joined(f, k)) <= Len(Joined(f, m))
      /\ \A k \in 0 .. (n - 1) : \A p \in 1 .. Len(f[k + 1]) :
            Joined(f, n)[Len(Joined(f, k)) + p] = f[k + 1][p]
  <2>1. \A j \in 1 .. n : f[j] \in Seq(Codes)
    BY <1>2
  <2>2. \A m \in 0 .. n : \A k \in 0 .. m :
           /\ Len(Joined(f, k)) <= Len(Joined(f, m))
           /\ \A p \in 1 .. Len(Joined(f, k)) : Joined(f, m)[p] = Joined(f, k)[p]
    BY <1>1, <2>1, JoinedPlaces
  <2>3. \A m \in 0 .. n : \A k \in 0 .. m : Len(Joined(f, k)) <= Len(Joined(f, m))
    BY <2>2
  <2>4. /\ Joined(f, 0) = <<>>
        /\ \A k \in 0 .. n : Joined(f, k) \in Seq(Codes) /\ Len(Joined(f, k)) \in Nat
    BY <1>1, <2>1, JoinedPlaces
  <2>6. \A k \in 0 .. (n - 1) : Joined(f, k + 1) = Joined(f, k) \o f[k + 1]
    BY <1>1, <2>1, JoinedStep
  <2>7. ASSUME NEW k \in 0 .. (n - 1)
        PROVE  Len(Joined(f, k + 1)) = Len(Joined(f, k)) + Len(f[k + 1])
    BY <1>1, <2>1, JoinedLen
  <2>5. \A k \in 0 .. (n - 1) : \A p \in 1 .. Len(f[k + 1]) :
           Joined(f, n)[Len(Joined(f, k)) + p] = f[k + 1][p]
    BY <1>1, <2>1, JoinedPlaces
  <2> QED
    BY <2>3, <2>4, <2>5, <2>6, <2>7
<1>7. /\ Joined(h, 0) = <<>>
      /\ \A k \in 0 .. n : Joined(h, k) \in Seq(Nat) /\ Len(Joined(h, k)) \in Nat
      /\ \A k \in 0 .. (n - 1) : Len(Joined(h, k + 1)) = Len(Joined(h, k)) + Len(h[k + 1])
      /\ \A k \in 0 .. (n - 1) : \A p \in 1 .. Len(h[k + 1]) :
            Joined(h, n)[Len(Joined(h, k)) + p] = h[k + 1][p]
  <2>1. \A j \in 1 .. n : h[j] \in Seq(Nat)
    BY <1>2
  <2> QED
    BY <1>1, <2>1, JoinedPlaces
<1>8. /\ Joined(g, 0) = <<>>
      /\ \A k \in 0 .. n : Joined(g, k) \in Seq(Chars) /\ Len(Joined(g, k)) \in Nat
      /\ \A k \in 0 .. (n - 1) : Joined(g, k + 1) = Joined(g, k) \o g[k + 1]
                                 /\ Len(Joined(g, k + 1)) = Len(Joined(g, k)) + Len(g[k + 1])
      /\ \A m \in 0 .. n : \A k \in 0 .. m : Len(Joined(g, k)) <= Len(Joined(g, m))
  <2>1. \A j \in 1 .. n : g[j] \in Seq(Chars)
    BY <1>2
  <2>2. \A m \in 0 .. n : \A k \in 0 .. m :
           /\ Len(Joined(g, k)) <= Len(Joined(g, m))
           /\ \A p \in 1 .. Len(Joined(g, k)) : Joined(g, m)[p] = Joined(g, k)[p]
    BY <1>1, <2>1, JoinedPlaces
  <2>3. \A m \in 0 .. n : \A k \in 0 .. m : Len(Joined(g, k)) <= Len(Joined(g, m))
    BY <2>2
  <2>4. /\ Joined(g, 0) = <<>>
        /\ \A k \in 0 .. n : Joined(g, k) \in Seq(Chars) /\ Len(Joined(g, k)) \in Nat
    BY <1>1, <2>1, JoinedPlaces
  <2>6. \A k \in 0 .. (n - 1) : Joined(g, k + 1) = Joined(g, k) \o g[k + 1]
    BY <1>1, <2>1, JoinedStep
  <2>7. ASSUME NEW k \in 0 .. (n - 1)
        PROVE  Len(Joined(g, k + 1)) = Len(Joined(g, k)) + Len(g[k + 1])
    BY <1>1, <2>1, JoinedLen
  <2>5. \A k \in 0 .. (n - 1) : \A p \in 1 .. Len(g[k + 1]) :
           Joined(g, n)[Len(Joined(g, k)) + p] = g[k + 1][p]
    BY <1>1, <2>1, JoinedPlaces
  <2> QED
    BY <2>3, <2>4, <2>5, <2>6, <2>7
<1>9. \A k \in 0 .. n : Len(Joined(g, k)) <= Len(Joined(g, n))
  BY <1>5, <1>8
<1>10. \A k \in 0 .. (n - 1) : Len(Joined(g, k)) + Len(g[k + 1]) <= Len(Joined(g, n))
  <2> SUFFICES ASSUME NEW k \in 0 .. (n - 1)
               PROVE  Len(Joined(g, k)) + Len(g[k + 1]) <= Len(Joined(g, n))
    OBVIOUS
  <2>1. Len(Joined(g, k + 1)) = Len(Joined(g, k)) + Len(g[k + 1])
    BY <1>8
  <2>2. Len(Joined(g, k + 1)) <= Len(Joined(g, n))
    BY <1>4, <1>9
  <2> QED
    BY <2>1, <2>2
<1>11. \A k \in 0 .. n :
                 /\ Spelled(k) \in Seq(Codes) /\ Len(Spelled(k)) \in Nat
                 /\ Said(k) \in Seq(Chars) /\ Len(Said(k)) \in Nat
                 /\ Len(Said(k)) <= Len(Said(n))
                 /\ Passed(k) \in Seq(Nat) /\ Len(Passed(k)) \in Nat
  BY <1>3, <1>6, <1>7, <1>8, <1>9
<1>12. \A m \in 0 .. n : \A k \in 0 .. m : Len(Spelled(k)) <= Len(Spelled(m))
  BY <1>3, <1>6
<1>13. \A k \in 0 .. (n - 1) :
                 /\ Len(Spelled(k + 1)) = Len(Spelled(k)) + Len(Spelling(items[k + 1]))
                 /\ Said(k + 1) = Said(k) \o Meant(items[k + 1])
                 /\ Len(Passed(k + 1)) = Len(Passed(k)) + Len(WordsOf(items[k + 1]))
                 /\ Len(Said(k)) + Len(Meant(items[k + 1])) <= Len(Said(n))
  <2> SUFFICES ASSUME NEW k \in 0 .. (n - 1)
      PROVE  /\ Len(Spelled(k + 1)) = Len(Spelled(k)) + Len(Spelling(items[k + 1]))
             /\ Said(k + 1) = Said(k) \o Meant(items[k + 1])
             /\ Len(Passed(k + 1)) = Len(Passed(k)) + Len(WordsOf(items[k + 1]))
             /\ Len(Said(k)) + Len(Meant(items[k + 1])) <= Len(Said(n))
    OBVIOUS
  <2>1. /\ f[k + 1] = Spelling(items[k + 1]) /\ g[k + 1] = Meant(items[k + 1])
        /\ h[k + 1] = WordsOf(items[k + 1])
    BY <1>2, <1>4
  <2> QED
    BY <1>3, <1>6, <1>7, <1>8, <1>10, <2>1
<1>14. \A k \in 0 .. (n - 1) : \A p \in 1 .. Len(Spelling(items[k + 1])) :
          Spelled(n)[Len(Spelled(k)) + p] = Spelling(items[k + 1])[p]
  <2> SUFFICES ASSUME NEW k \in 0 .. (n - 1), NEW p \in 1 .. Len(Spelling(items[k + 1]))
               PROVE  Spelled(n)[Len(Spelled(k)) + p] = Spelling(items[k + 1])[p]
    OBVIOUS
  <2>1. f[k + 1] = Spelling(items[k + 1])
    BY <1>2, <1>4
  <2> QED
    BY <1>3, <1>6, <2>1
<1>15. \A k \in 0 .. (n - 1) : \A p \in 1 .. Len(WordsOf(items[k + 1])) :
          Passed(n)[Len(Passed(k)) + p] = WordsOf(items[k + 1])[p]
  <2> SUFFICES ASSUME NEW k \in 0 .. (n - 1), NEW p \in 1 .. Len(WordsOf(items[k + 1]))
               PROVE  Passed(n)[Len(Passed(k)) + p] = WordsOf(items[k + 1])[p]
    OBVIOUS
  <2>1. h[k + 1] = WordsOf(items[k + 1])
    BY <1>2, <1>4
  <2> QED
    BY <1>3, <1>7, <2>1
<1>16. Spelled(0) = <<>> /\ Said(0) = <<>> /\ Passed(0) = <<>>
  BY <1>3, <1>6, <1>7, <1>8
<1> QED
  BY <1>11, <1>12, <1>13, <1>14, <1>15, <1>16 DEF n

-----------------------------------------------------------------------------
(* What has been printed. *)

\* The caller's buffer when P has been written into it.
Written(P) == [k \in 1 .. (Len(Printed(items)) + 2) |-> IF k <= Len(P) THEN P[k] ELSE "stale"]

\* P is what has been printed so far.
Wrote(P) ==
    /\ count = Len(P)
    /\ fn = "kprintf_help" => screen = P /\ buffer = Stale
    /\ fn = "vsprintf_help" => buffer = Written(P) /\ dst = Len(P) + 1

(***************************************************************************)
(* The callback, given s behind P, leaves P and s behind one another: on   *)
(* the screen, or in a buffer that is long enough.                         *)
(***************************************************************************)
LEMMA Emits ==
    ASSUME fn \in {"kprintf_help", "vsprintf_help"}, NEW P \in Seq(Chars), NEW s \in Seq(Chars),
           Len(Printed(items)) \in Nat, Len(P) + Len(s) <= Len(Printed(items)),
           Wrote(P), Emit(s), UNCHANGED call
    PROVE  Wrote(P \o s)'
<1> DEFINE N == Len(Printed(items)) + 2
           u == P \o s
<1>1. /\ Len(P) \in Nat /\ Len(s) \in Nat
      /\ u \in Seq(Chars) /\ Len(u) = Len(P) + Len(s)
      /\ \A k \in 1 .. Len(P) + Len(s) : u[k] = IF k <= Len(P) THEN P[k] ELSE s[k - Len(P)]
  BY ConcatProperties, LenProperties
<1>2. items' = items /\ fn' = fn
  BY DEF call
<1>3. Printed(items)' = Printed(items)
  BY <1>2 DEF Printed
<1>4. Stale' = Stale
  BY <1>2 DEF Stale
<1>5. count' = Len(u)
  BY <1>1 DEF Emit, Wrote
<1>6. CASE fn = "kprintf_help"
  <2>1. screen' = u /\ buffer' = Stale
    BY <1>6 DEF Emit, Wrote
  <2> HIDE DEF u
  <2> QED
    BY <1>2, <1>4, <1>5, <1>6, <2>1 DEF Wrote, u
<1>7. CASE fn = "vsprintf_help"
  <2>1. buffer = Written(P) /\ dst = Len(P) + 1
    BY <1>7 DEF Wrote
  <2>2. /\ buffer' = [k \in DOMAIN buffer |->
                         IF k \in dst .. (dst + Len(s) - 1) THEN s[k - dst + 1] ELSE buffer[k]]
        /\ dst' = dst + Len(s)
    BY <1>7 DEF Emit
  <2>3. dst' = Len(u) + 1
    <3> HIDE DEF u
    <3> QED
      BY <1>1, <2>1, <2>2
  <2>4. DOMAIN buffer = 1 .. N /\ N \in Nat
    BY <2>1 DEF Written
  <2>5. \A k \in 1 .. N : buffer[k] = IF k <= Len(P) THEN P[k] ELSE "stale"
    BY <2>1 DEF Written
  <2>6. buffer' = [k \in 1 .. N |-> IF k <= Len(u) THEN u[k] ELSE "stale"]
    <3> HIDE DEF u, N
    <3>1. ASSUME NEW k \in 1 .. N
          PROVE  (IF k \in dst .. (dst + Len(s) - 1) THEN s[k - dst + 1] ELSE buffer[k])
                    = IF k <= Len(u) THEN u[k] ELSE "stale"
      <4>1. CASE k <= Len(P)
        <5>1. ~(k \in dst .. (dst + Len(s) - 1)) /\ k <= Len(u) /\ k \in 1 .. Len(P) + Len(s)
          BY <1>1, <2>1, <2>4, <4>1
        <5> QED
          BY <1>1, <2>5, <4>1, <5>1
      <4>2. CASE k > Len(P) /\ k <= Len(P) + Len(s)
        <5>1. k \in dst .. (dst + Len(s) - 1) /\ k - dst + 1 = k - Len(P)
              /\ k <= Len(u) /\ k \in 1 .. Len(P) + Len(s) /\ ~(k <= Len(P))
          BY <1>1, <2>1, <2>4, <4>2
        <5> QED
          BY <1>1, <5>1
      <4>3. CASE k > Len(P) + Len(s)
        <5>1. ~(k \in dst .. (dst + Len(s) - 1)) /\ ~(k <= Len(u)) /\ ~(k <= Len(P))
          BY <1>1, <2>1, <2>4, <4>3
        <5> QED
          BY <2>5, <5>1
      <4> QED
        BY <1>1, <2>4, <4>1, <4>2, <4>3
    <3>2. [k \in DOMAIN buffer |->
              IF k \in dst .. (dst + Len(s) - 1) THEN s[k - dst + 1] ELSE buffer[k]]
             = [k \in 1 .. N |-> IF k <= Len(u) THEN u[k] ELSE "stale"]
      BY <2>4, <3>1
    <3> QED
      BY <2>2, <3>2
  <2>7. Written(u)' = [k \in 1 .. N |-> IF k <= Len(u) THEN u[k] ELSE "stale"]
    BY <1>3 DEF Written
  <2> HIDE DEF u, N
  <2> QED
    BY <1>2, <1>5, <1>7, <2>3, <2>6, <2>7 DEF Wrote, u
<1> QED
  BY <1>6, <1>7

(***************************************************************************)
(* A turn that prints nothing leaves the output as it is.                  *)
(***************************************************************************)
LEMMA SameOutput ==
    ASSUME NEW P, Wrote(P), UNCHANGED <<call, output>>
    PROVE  Wrote(P)'
<1>1. items' = items /\ fn' = fn /\ count' = count /\ screen' = screen /\ buffer' = buffer
      /\ dst' = dst
  BY DEF call, output
<1>2. Stale' = Stale /\ Written(P)' = Written(P)
  BY <1>1 DEF Stale, Written
<1> QED
  BY <1>1, <1>2 DEF Wrote

-----------------------------------------------------------------------------
(* One directive. *)

\* The state between two directives.
Clean == state = 0 /\ flags = {} /\ given_wd = 0

\* The flags collected before the modifier.
Marks(i) == (IF i.lj THEN {"LJ"} ELSE {}) \cup (IF i.lz THEN {"LZ"} ELSE {})

\* The width read when d of its digits have been.
Got(i, d) == IF d = 0 THEN 0 ELSE Scanned(i.wd, d)

\* Where the scan can stand in a directive, and what it then remembers.
Within(i, p) ==
    \/ p = 0 /\ Clean
    \/ /\ i \in Fields /\ i.lj
       /\ p = 2 /\ state = 1 /\ flags = {"LJ"} /\ given_wd = 0
    \/ /\ i \in Fields
       /\ \E d \in 1 .. Wide(i) : p = Pre(i) + d /\ given_wd = Got(i, d)
       /\ state = 2 /\ flags = Marks(i)
    \/ /\ i \in Fields /\ Modded(i) = 1
       /\ p = Pre(i) + Wide(i) + 1 /\ state = 3 /\ flags = FieldFlags(i) /\ given_wd = i.wd
    \/ /\ i \in Plain /\ i.kind = "minus"
       /\ p = 2 /\ state = 1 /\ flags = {"LJ"}
    \/ /\ i \in Plain /\ i.kind = "unknown"
       /\ p = 3 /\ state = 2
    \/ /\ i \in Plain /\ i.kind = "width"
       /\ p = 2 /\ state = 2

\* The directive whose spelling follows the first b characters of the text.
Stands(i, b) == \A j \in 1 .. Len(Spelling(i)) : text[b + j] = Spelling(i)[j]

\* A turn moves on inside directive i, to behind its character p.
Onward(i, b, p) ==
    /\ p \in 1 .. (Len(Spelling(i)) - 1)
    /\ fmt' = b + p + 1
    /\ Within(i, p)'
    /\ UNCHANGED <<call, args, output, returned>>

\* A turn ends directive i, having printed what it means.
Finished(i, b) ==
    /\ fmt' = b + Len(Spelling(i)) + 1
    /\ Clean'
    /\ args' = args + Len(WordsOf(i))
    /\ Emit(Meant(i)) \/ (Meant(i) = <<>> /\ UNCHANGED output)
    /\ UNCHANGED <<call, returned>>

\* What a turn inside directive i does.
Moved(i, b) == Finished(i, b) \/ \E p \in 1 .. (Len(Spelling(i)) - 1) : Onward(i, b, p)

(***************************************************************************)
(* After d digits of the width the scan holds what they amount to: it      *)
(* never overflows, and all the digits give the width.                     *)
(***************************************************************************)
LEMMA GotIs ==
    ASSUME NoLong, NEW i \in Fields
    PROVE  /\ Got(i, 0) = 0 /\ Got(i, Wide(i)) = i.wd
           /\ \A d \in 0 .. (Wide(i) - 1) :
                 /\ WidthText(i)[d + 1] \in Decimal
                 /\ Got(i, d) \in Nat /\ Got(i, d + 1) \in 0 .. (Longs - 1)
                 /\ Got(i, d + 1) = 10 * Got(i, d) + DigitOf(WidthText(i)[d + 1])
           /\ Wide(i) # 0 => WidthText(i)[1] # "0"
<1>1. Wide(i) \in Nat /\ i.wd \in Nat /\ i.wd < Longs /\ Longs \in Nat
  <2>1. i.wd \in 0 .. (Longs - 1) /\ Longs \in Nat
    BY FieldIs, LongsIs
  <2>2. Wide(i) \in Nat
    BY WidthTextIs
  <2> QED
    BY <2>1, <2>2
<1>2. Got(i, 0) = 0
  BY DEF Got
<1>3. CASE i.wd = 0
  <2>1. Wide(i) = 0
    BY <1>3, WidthTextIs
  <2>2. 0 .. (Wide(i) - 1) = {}
    BY <2>1
  <2> QED
    BY <1>2, <1>3, <2>1, <2>2
<1>4. CASE i.wd # 0
  <2> DEFINE s == Numeral(i.wd, 10, Lower)
             k == WidthDigits(i.wd)
  <2>1. Wide(i) = k /\ WidthText(i) = s
    BY <1>4, WidthTextIs
  <2>2. i.wd \in Nat \ {0}
    BY <1>1, <1>4
  <2>3. /\ k \in Nat \ {0} /\ Scanned(i.wd, 0) = 0 /\ Scanned(i.wd, k) = i.wd /\ s[1] # "0"
        /\ \A d \in 0 .. (k - 1) :
              /\ s[d + 1] \in Decimal
              /\ Scanned(i.wd, d) \in 0 .. i.wd /\ Scanned(i.wd, d + 1) \in 0 .. i.wd
              /\ Scanned(i.wd, d + 1) = 10 * Scanned(i.wd, d) + DigitOf(s[d + 1])
    BY <2>2, WidthScan
  <2> HIDE DEF s, k
  <2>4. \A d : Got(i, d) = IF d = 0 THEN 0 ELSE Scanned(i.wd, d)
    BY DEF Got
  <2>5. \A d \in Nat : Got(i, d) = Scanned(i.wd, d)
    BY <2>3, <2>4
  <2>6. Got(i, Wide(i)) = i.wd
    BY <2>1, <2>3, <2>5
  <2>7. ASSUME NEW d \in 0 .. (Wide(i) - 1)
        PROVE  /\ WidthText(i)[d + 1] \in Decimal
               /\ Got(i, d) \in Nat /\ Got(i, d + 1) \in 0 .. (Longs - 1)
               /\ Got(i, d + 1) = 10 * Got(i, d) + DigitOf(WidthText(i)[d + 1])
    <3>1. d \in 0 .. (k - 1) /\ d \in Nat /\ d + 1 \in Nat
      BY <2>1, <2>3
    <3>2. Got(i, d) = Scanned(i.wd, d) /\ Got(i, d + 1) = Scanned(i.wd, d + 1)
      BY <2>5, <3>1
    <3>3. /\ s[d + 1] \in Decimal
          /\ Scanned(i.wd, d) \in 0 .. i.wd /\ Scanned(i.wd, d + 1) \in 0 .. i.wd
          /\ Scanned(i.wd, d + 1) = 10 * Scanned(i.wd, d) + DigitOf(s[d + 1])
      BY <2>3, <3>1
    <3>4. Scanned(i.wd, d) \in Nat /\ Scanned(i.wd, d + 1) \in 0 .. (Longs - 1)
      BY <1>1, <3>3
    <3> QED
      BY <2>1, <3>2, <3>3, <3>4
  <2> QED
    BY <1>2, <2>1, <2>3, <2>6, <2>7
<1> QED
  BY <1>3, <1>4

(***************************************************************************)
(* The turn that takes the conversion character prints what the directive  *)
(* means and leaves nothing of it behind.                                  *)
(***************************************************************************)
LEMMA ConversionPrints ==
    ASSUME NoLong, NEW i \in Fields, given_wd = i.wd, FlagsAt2 = FieldFlags(i),
           Argument(args) = i.words[1], text[At2] = i.conv, Conversion
    PROVE  /\ Emit(Meant(i)) /\ args' = args + Len(WordsOf(i))
           /\ Clean' /\ fmt' = At2 + 1 /\ UNCHANGED <<call, returned>>
<1>1. i.conv \in Numeric \cup {"c", "s"} /\ i.kind = "field"
  BY FieldIs
<1>2. Meant(i) = Field(i) /\ WordsOf(i) = i.words
  BY <1>1 DEF Meant, WordsOf
<1>3. "c" \notin Numeric /\ "s" \notin Numeric
  BY DEF Numeric
<1>4. Len(i.words) = 1
  BY FieldIs
<1>5. Clean' /\ fmt' = At2 + 1 /\ UNCHANGED <<call, returned>>
  BY DEF Conversion, Reset, Clean
<1>6. CASE i.conv \in Numeric
  <2>1. Number(i.conv)
    BY <1>3, <1>6 DEF Conversion
  <2> QED
    BY <1>2, <1>4, <1>5, <1>6, <2>1, NumberPrints
<1>7. CASE i.conv = "c"
  <2>1. Character
    BY <1>3, <1>7 DEF Conversion
  <2>2. i.conv \in {"c", "s"} /\ (IF i.conv = "c" THEN Character ELSE String)
    BY <1>7, <2>1
  <2> QED
    BY <1>2, <1>4, <1>5, <2>2, LettersPrint
<1>8. CASE i.conv = "s"
  <2>1. String
    BY <1>3, <1>8 DEF Conversion
  <2>2. i.conv \in {"c", "s"} /\ (IF i.conv = "c" THEN Character ELSE String)
    BY <1>8, <2>1
  <2> QED
    BY <1>2, <1>4, <1>5, <2>2, LettersPrint
<1> QED
  BY <1>1, <1>6, <1>7, <1>8

-----------------------------------------------------------------------------
(* One turn of the loop. *)

(***************************************************************************)
(* The condition under which each turn takes the character.                *)
(***************************************************************************)
LEMMA Guards ==
    /\ Echo => Turn /\ state = 0 /\ ~Percent
    /\ PercentSign => InFlags /\ text[At1] = "%"
    /\ Minus => InFlags /\ text[At1] = "-"
    /\ Width => InWidth /\ text[At2] \in Decimal
    /\ Modifier => InModifiers /\ text[At2] \in Turned
    /\ Conversion => InModifiers /\ text[At2] \notin Turned
    /\ Return => ~Turn
<1>1. Echo => Turn /\ state = 0 /\ ~Percent
  BY DEF Echo
<1>2. PercentSign => InFlags /\ text[At1] = "%"
  BY DEF PercentSign
<1>3. Minus => InFlags /\ text[At1] = "-"
  BY DEF Minus
<1>4. Width => InWidth /\ text[At2] \in Decimal
  BY DEF Width
<1>5. Modifier => InModifiers /\ text[At2] \in Turned
  BY DEF Modifier, Turned
<1>6. Conversion => InModifiers /\ text[At2] \notin Turned
  BY DEF Conversion, Turned
<1>7. Return => ~Turn
  BY DEF Return, Turn
<1> QED
  BY <1>1, <1>2, <1>3, <1>4, <1>5, <1>6, <1>7

(***************************************************************************)
(* Which state takes the character.                                        *)
(***************************************************************************)
LEMMA Turns ==
    ASSUME Turn, Next
    PROVE  /\ state = 0 /\ text[fmt] # "%" => Echo
           /\ state = 0 /\ text[fmt] = "%" => InFlags /\ At1 = fmt + 1
           /\ state = 1 => InFlags /\ At1 = fmt
           /\ InFlags /\ text[At1] = "%" => PercentSign
           /\ InFlags /\ text[At1] = "-" => Minus
           /\ InFlags /\ text[At1] \notin {"%", "-"}
                 => /\ InWidth /\ (Width \/ Modifier \/ Conversion)
                    /\ state \in {0, 1}
                    /\ text[At1] = "0" => At2 = At1 + 1 /\ FlagsAt2 = flags \cup {"LZ"}
                    /\ text[At1] # "0" => At2 = At1 /\ FlagsAt2 = flags
           /\ state = 2 => /\ InWidth /\ (Width \/ Modifier \/ Conversion)
                           /\ At2 = fmt /\ FlagsAt2 = flags
           /\ state = 3 => /\ InModifiers /\ ~InWidth /\ (Modifier \/ Conversion)
                           /\ At2 = fmt /\ FlagsAt2 = flags
           /\ InWidth => state \in {0, 1, 2}
<1>1. /\ Echo => state = 0 /\ ~Percent
      /\ PercentSign => InFlags /\ text[At1] = "%"
      /\ Minus => InFlags /\ text[At1] = "-"
      /\ Width => InWidth
      /\ Modifier => InModifiers
      /\ Conversion => InModifiers
      /\ ~Return
  BY Guards
<1>2. Echo \/ PercentSign \/ Minus \/ Width \/ Modifier \/ Conversion
  BY <1>1 DEF Next
<1>3. InWidth => state \in {0, 1, 2}
  BY DEF InWidth, PastFlags, InFlags, Percent
<1>4. InModifiers => InWidth \/ state = 3
  BY DEF InModifiers, PastWidth
<1>5. CASE state = 0 /\ text[fmt] # "%"
  <2>1. ~InFlags /\ ~InWidth
    BY <1>5 DEF InFlags, InWidth, PastFlags, Percent
  <2>2. Echo
    BY <1>1, <1>2, <1>4, <1>5, <2>1
  <2> QED
    BY <1>5, <2>1, <2>2
<1>6. CASE InFlags
  <2>1. state \in {0, 1} /\ (state = 0 => Percent)
    BY <1>6 DEF InFlags, Percent
  <2>2. ~Echo
    BY <1>1, <2>1
  <2>3. (state = 0 => At1 = fmt + 1) /\ (state = 1 => At1 = fmt)
    BY <2>1 DEF At1, Percent
  <2>4. CASE text[At1] = "%"
    <3>1. ~InWidth
      BY <2>1, <2>4 DEF InWidth, PastFlags
    <3> QED
      BY <1>1, <1>2, <1>4, <1>6, <2>1, <2>2, <2>3, <2>4, <3>1 DEF Percent
  <2>5. CASE text[At1] = "-"
    <3>1. ~InWidth
      BY <2>1, <2>5 DEF InWidth, PastFlags
    <3> QED
      BY <1>1, <1>2, <1>4, <1>6, <2>1, <2>2, <2>3, <2>5, <3>1 DEF Percent
  <2>6. CASE text[At1] \notin {"%", "-"}
    <3>1. PastFlags /\ InWidth
      BY <1>6, <2>6 DEF InWidth, PastFlags
    <3>2. Width \/ Modifier \/ Conversion
      BY <1>1, <1>2, <2>2, <2>6
    <3>3. text[At1] = "0" => At2 = At1 + 1 /\ FlagsAt2 = flags \cup {"LZ"}
      BY <3>1 DEF ZeroFlag, At2, FlagsAt2
    <3>4. text[At1] # "0" => At2 = At1 /\ FlagsAt2 = flags
      BY DEF ZeroFlag, At2, FlagsAt2
    <3> QED
      BY <1>6, <2>1, <2>3, <2>6, <3>1, <3>2, <3>3, <3>4 DEF Percent
  <2> QED
    BY <2>4, <2>5, <2>6
<1>7. CASE state \in {2, 3}
  <2>1. ~Percent /\ ~InFlags /\ ~PastFlags /\ ~ZeroFlag
    BY <1>7 DEF Percent, InFlags, PastFlags, ZeroFlag
  <2>2. At2 = fmt /\ FlagsAt2 = flags
    BY <2>1 DEF At1, At2, FlagsAt2
  <2>3. Width \/ Modifier \/ Conversion
    BY <1>1, <1>2, <1>7, <2>1
  <2>4. state = 2 => InWidth
    BY DEF InWidth
  <2>5. state = 3 => InModifiers /\ ~InWidth
    BY <2>1 DEF InModifiers, InWidth
  <2> QED
    BY <1>1, <1>7, <2>1, <2>2, <2>3, <2>4, <2>5
<1>8. CASE state \notin {0, 1, 2, 3}
  <2>1. ~InFlags
    BY <1>8 DEF InFlags, Percent
  <2> QED
    BY <1>3, <1>8, <2>1
<1>9. state = 0 /\ text[fmt] = "%" => InFlags
  BY DEF InFlags, Percent
<1>10. state = 1 => InFlags
  BY DEF InFlags
<1> QED
  BY <1>3, <1>5, <1>6, <1>7, <1>8, <1>9, <1>10

(***************************************************************************)
(* What a modifier adds to the flags.                                      *)
(***************************************************************************)
LEMMA FieldFlagsAre ==
    ASSUME NoLong, NEW i \in Fields
    PROVE  /\ Modded(i) = 0 => FieldFlags(i) = Marks(i)
           /\ Modded(i) = 1 => FieldFlags(i) = Marks(i) \cup FlagOf(i.mod)
<1>1. ASSUME Modded(i) = 0 PROVE FieldFlags(i) = Marks(i)
  <2>1. i.mod = ""
    BY <1>1, ModIs, Zenon
  <2>2. ModFlags(i.mod) = {}
    BY <2>1 DEF ModFlags
  <2>3. FieldFlags(i) = Marks(i) \cup ModFlags(i.mod)
    BY Zenon DEF FieldFlags, Marks
  <2> QED
    BY <2>2, <2>3
<1>2. ASSUME Modded(i) = 1 PROVE FieldFlags(i) = Marks(i) \cup FlagOf(i.mod)
  <2>1. i.mod \in {"F", "N", "l", "h"}
    <3>1. i.mod \in Turned
      BY <1>2, ModIs, Zenon
    <3>2. i.mod \in {"", "F", "N", "l", "h"}
      BY FieldIs
    <3> QED
      BY <3>1, <3>2, Zenon DEF Turned
  <2>2. ModFlags(i.mod) = FlagOf(i.mod)
    BY <2>1 DEF ModFlags, FlagOf
  <2>3. FieldFlags(i) = Marks(i) \cup ModFlags(i.mod)
    BY Zenon DEF FieldFlags, Marks
  <2> QED
    BY <2>2, <2>3
<1> QED
  BY <1>1, <1>2

(***************************************************************************)
(* No character of a field is taken for one of another state: the width    *)
(* does not begin with 0, and no conversion is a modifier.                 *)
(***************************************************************************)
LEMMA TailChars ==
    ASSUME NoLong, NEW i \in Fields
    PROVE  /\ Modded(i) = 1 => i.mod \in Turned /\ i.mod \notin Decimal
           /\ i.conv \notin Turned /\ i.conv \notin Decimal
           /\ Modded(i) \in 0 .. 1
           /\ Spelling(i)[Pre(i) + 1] \notin {"%", "-", "0"}
<1>1. Modded(i) = 1 => i.mod \in Turned
  BY ModIs, Zenon
<1>2. Turned \cap Decimal = {} /\ Turned \cap {"%", "-", "0"} = {}
  BY DigitIs DEF Turned
<1>3. i.conv \in Numeric \cup {"c", "s"}
  BY FieldIs
<1>4. i.conv \notin Turned /\ i.conv \notin Decimal /\ i.conv \notin {"%", "-", "0"}
  BY <1>3, DigitIs DEF Numeric, Turned
<1>5. /\ Pre(i) \in 1 .. 3 /\ Wide(i) \in Nat /\ Modded(i) \in 0 .. 1
      /\ \A d \in 1 .. Wide(i) : Spelling(i)[Pre(i) + d] = WidthText(i)[d]
      /\ Modded(i) = 1 => Spelling(i)[Pre(i) + Wide(i) + 1] = i.mod
      /\ Spelling(i)[Pre(i) + Wide(i) + Modded(i) + 1] = i.conv
  BY FieldSpelling
<1>6. Spelling(i)[Pre(i) + 1] \notin {"%", "-", "0"}
  <2>1. CASE Wide(i) # 0
    <3>1. 0 \in 0 .. (Wide(i) - 1) /\ 1 \in 1 .. Wide(i) /\ 0 + 1 = 1
      BY <1>5, <2>1
    <3>2. Spelling(i)[Pre(i) + 1] = WidthText(i)[1]
      BY <1>5, <3>1
    <3>3. WidthText(i)[0 + 1] \in Decimal /\ WidthText(i)[1] # "0"
      BY <2>1, <3>1, GotIs
    <3>4. WidthText(i)[1] \in Decimal
      BY <3>1, <3>3
    <3> QED
      BY <3>2, <3>3, <3>4, DigitIs
  <2>2. CASE Wide(i) = 0 /\ Modded(i) = 1
    <3>1. Pre(i) + Wide(i) + 1 = Pre(i) + 1
      BY <1>5, <2>2
    <3> QED
      BY <1>1, <1>2, <1>5, <2>2, <3>1
  <2>3. CASE Wide(i) = 0 /\ Modded(i) = 0
    <3>1. Pre(i) + Wide(i) + Modded(i) + 1 = Pre(i) + 1
      BY <1>5, <2>3
    <3> QED
      BY <1>4, <1>5, <3>1
  <2> QED
    BY <1>5, <2>1, <2>2, <2>3
<1> QED
  BY <1>1, <1>2, <1>4, <1>5, <1>6

(***************************************************************************)
(* From behind the flags of a directive on: a digit of the width, the      *)
(* modifier, or the conversion.                                            *)
(***************************************************************************)
LEMMA TailStep ==
    ASSUME NoLong, NEW i \in Fields, NEW b \in Nat, Stands(i, b), NEW d \in 0 .. Wide(i),
           InWidth, state \in {0, 1, 2}, At2 = b + Pre(i) + d + 1, FlagsAt2 = Marks(i),
           given_wd = Got(i, d), Argument(args) = i.words[1],
           Width \/ Modifier \/ Conversion
    PROVE  Moved(i, b)
<1> DEFINE s == Spelling(i)
           P == Pre(i)
           W == Wide(i)
           M == Modded(i)
<1>1. /\ P \in 1 .. 3 /\ W \in Nat /\ M \in 0 .. 1
      /\ Len(s) = P + W + M + 1
      /\ \A e \in 1 .. W : s[P + e] = WidthText(i)[e]
      /\ M = 1 => s[P + W + 1] = i.mod
      /\ s[P + W + M + 1] = i.conv
  BY FieldSpelling
<1>2. \A j \in 1 .. Len(s) : text[b + j] = s[j]
  BY DEF Stands
<1>3. /\ M = 1 => i.mod \in Turned /\ i.mod \notin Decimal
      /\ i.conv \notin Turned /\ i.conv \notin Decimal
  BY TailChars
<1>4. InModifiers => text[At2] \notin Decimal
  BY DEF InModifiers, PastWidth
<1>5. /\ Width => text[At2] \in Decimal
      /\ Modifier => InModifiers /\ text[At2] \in Turned
      /\ Conversion => InModifiers /\ text[At2] \notin Turned
  BY Guards
<1> HIDE DEF s, P, W, M
<1>6. CASE d < W
  <2>1. P + d + 1 \in 1 .. Len(s) /\ At2 = b + (P + d + 1) /\ d + 1 \in 1 .. W
        /\ P + (d + 1) = P + d + 1 /\ d \in 0 .. (W - 1)
    <3>1. d \in Nat /\ d < W
      BY <1>1, <1>6 DEF W
    <3>2. At2 = b + P + d + 1
      BY DEF P
    <3>3. P \in Nat /\ P >= 1 /\ W \in Nat /\ M \in Nat /\ Len(s) = P + W + M + 1 /\ b \in Nat
      BY <1>1
    <3>4. d + 1 \in 1 .. W /\ P + (d + 1) = P + d + 1 /\ d \in 0 .. (W - 1)
      BY <3>1, <3>3
    <3>5. P + d + 1 \in 1 .. Len(s) /\ At2 = b + (P + d + 1)
      BY <3>1, <3>2, <3>3
    <3> QED
      BY <3>4, <3>5
  <2>2. text[At2] = s[P + d + 1]
    BY <1>2, <2>1
  <2>3. s[P + d + 1] = WidthText(i)[d + 1]
    BY <1>1, <2>1
  <2> DEFINE c == WidthText(i)[d + 1]
  <2>4. /\ c \in Decimal /\ Got(i, d) \in Nat /\ Got(i, d + 1) \in 0 .. (Longs - 1)
        /\ Got(i, d + 1) = 10 * Got(i, d) + DigitOf(c)
    BY <2>1, GotIs DEF W
  <2> HIDE DEF c
  <2>5. text[At2] = c
    BY <2>2, <2>3 DEF c
  <2>6. Width
    BY <1>4, <1>5, <2>4, <2>5
  <2>7. /\ given_wd' = (10 * given_wd + (CHOOSE e \in 1 .. 10 : Digit[e] = text[At2]) - 1) % Longs
        /\ flags' = Marks(i) /\ state' = 2 /\ fmt' = At2 + 1
        /\ UNCHANGED <<call, args, output, returned>>
    BY <2>6 DEF Width
  <2>8. given_wd' = Got(i, d + 1)
    <3> DEFINE e == CHOOSE e \in 1 .. 10 : Digit[e] = c
    <3>1. e \in 1 .. 10
      <4>1. \E x \in 1 .. 10 : Digit[x] = c
        <5>1. Digit \in Seq(Chars) /\ Len(Digit) = 10
          BY DigitIs
        <5> QED
          BY <2>4, <5>1 DEF Decimal, ToSet
      <4> QED
        BY <4>1
    <3>2. DigitOf(c) = e - 1
      BY DEF DigitOf
    <3>3. given_wd' = (10 * given_wd + e - 1) % Longs
      BY <2>5, <2>7
    <3> HIDE DEF e
    <3>4. 10 * given_wd + e - 1 = Got(i, d + 1)
      BY <2>4, <3>1, <3>2
    <3> QED
      BY <2>4, <3>3, <3>4, LongsIs
  <2>9. P + d + 1 \in 1 .. (Len(s) - 1) /\ fmt' = b + (P + d + 1) + 1
    BY <1>1, <1>6, <2>1, <2>7
  <2>10. Within(i, P + d + 1)'
    <3>1. \E x \in 1 .. Wide(i) : P + d + 1 = Pre(i) + x /\ given_wd' = Got(i, x)
      BY <2>1, <2>8 DEF P, W
    <3> QED
      BY <2>7, <3>1 DEF Within
  <2>11. Onward(i, b, P + d + 1)
    BY <2>7, <2>9, <2>10 DEF Onward, s
  <2> QED
    BY <2>9, <2>11 DEF Moved, s
<1>7. CASE d = W /\ M = 1
  <2>1. P + W + 1 \in 1 .. Len(s) /\ At2 = b + (P + W + 1) /\ P + W + 1 \in 1 .. (Len(s) - 1)
    <3>1. At2 = b + P + W + 1
      BY <1>7 DEF P
    <3> QED
      BY <1>1, <1>7, <3>1
  <2>2. text[At2] = i.mod
    BY <1>1, <1>2, <1>7, <2>1
  <2>3. Modifier
    BY <1>3, <1>5, <1>7, <2>2
  <2>4. /\ flags' = FlagsAt2 \cup FlagOf(i.mod) /\ state' = 3 /\ fmt' = At2 + 1
        /\ given_wd' = given_wd /\ UNCHANGED <<call, args, output, returned>>
    BY <2>2, <2>3 DEF Modifier
  <2>5. flags' = FieldFlags(i)
    BY <1>7, <2>4, FieldFlagsAre DEF M
  <2>6. given_wd' = i.wd
    BY <1>7, <2>4, GotIs DEF W
  <2>7. Within(i, P + W + 1)'
    BY <1>7, <2>4, <2>5, <2>6 DEF Within, P, W, M
  <2>8. fmt' = b + (P + W + 1) + 1
    BY <2>1, <2>4
  <2>9. Onward(i, b, P + W + 1)
    BY <2>1, <2>4, <2>7, <2>8 DEF Onward, s
  <2> QED
    BY <2>1, <2>9 DEF Moved, s
<1>8. CASE d = W /\ M = 0
  <2>1. P + W + M + 1 \in 1 .. Len(s) /\ At2 = b + (P + W + M + 1) /\ At2 = b + Len(s)
    <3>1. At2 = b + P + W + 1
      BY <1>8 DEF P
    <3> QED
      BY <1>1, <1>8, <3>1
  <2>2. text[At2] = i.conv
    BY <1>1, <1>2, <2>1
  <2>3. Conversion
    BY <1>3, <1>5, <2>2
  <2>4. FlagsAt2 = FieldFlags(i)
    BY <1>8, FieldFlagsAre DEF M
  <2>5. given_wd = i.wd
    BY <1>8, GotIs DEF W
  <2>6. /\ Emit(Meant(i)) /\ args' = args + Len(WordsOf(i))
        /\ Clean' /\ fmt' = At2 + 1 /\ UNCHANGED <<call, returned>>
    BY <2>2, <2>3, <2>4, <2>5, ConversionPrints
  <2>7. fmt' = b + Len(s) + 1
    BY <2>1, <2>6
  <2> QED
    BY <2>6, <2>7 DEF Moved, Finished, s
<1> QED
  BY <1>1, <1>6, <1>7, <1>8 DEF W

(***************************************************************************)
(* From behind the modifier on.                                            *)
(***************************************************************************)
LEMMA ModifiedStep ==
    ASSUME NoLong, NEW i \in Fields, NEW b \in Nat, Stands(i, b), Modded(i) = 1,
           At2 = b + Pre(i) + Wide(i) + 2, FlagsAt2 = FieldFlags(i), given_wd = i.wd,
           Argument(args) = i.words[1], Modifier \/ Conversion
    PROVE  Moved(i, b)
<1> DEFINE s == Spelling(i)
           P == Pre(i)
           W == Wide(i)
           M == Modded(i)
<1>1. /\ P \in 1 .. 3 /\ W \in Nat /\ M \in 0 .. 1 /\ Len(s) = P + W + M + 1
      /\ s[P + W + M + 1] = i.conv
  BY FieldSpelling
<1>2. \A j \in 1 .. Len(s) : text[b + j] = s[j]
  BY DEF Stands
<1>3. i.conv \notin Turned
  BY TailChars
<1> HIDE DEF s, P, W, M
<1>4. P + W + M + 1 \in 1 .. Len(s) /\ At2 = b + (P + W + M + 1) /\ At2 = b + Len(s)
  BY <1>1 DEF P, W, M
<1>5. text[At2] = i.conv
  BY <1>1, <1>2, <1>4
<1>6. Conversion
  BY <1>3, <1>5, Guards
<1>7. /\ Emit(Meant(i)) /\ args' = args + Len(WordsOf(i))
      /\ Clean' /\ fmt' = At2 + 1 /\ UNCHANGED <<call, returned>>
  BY <1>5, <1>6, ConversionPrints
<1>8. fmt' = b + Len(s) + 1
  BY <1>4, <1>7
<1> QED
  BY <1>7, <1>8 DEF Moved, Finished, s

(***************************************************************************)
(* A turn in a directive goes on in it, or ends it having printed what it  *)
(* means.                                                                  *)
(***************************************************************************)
LEMMA FieldStep ==
    ASSUME NoLong, NEW i \in Fields, NEW b \in Nat, Stands(i, b), Turn, Next,
           NEW p \in Nat, p < Len(Spelling(i)), Within(i, p), fmt = b + p + 1,
           Argument(args) = i.words[1]
    PROVE  Moved(i, b)
<1> DEFINE s == Spelling(i)
<1>1. /\ Pre(i) \in 1 .. 3 /\ Wide(i) \in Nat /\ Modded(i) \in 0 .. 1
      /\ Len(s) = Pre(i) + Wide(i) + Modded(i) + 1
      /\ s[1] = "%"
      /\ i.lj => Pre(i) >= 2 /\ s[2] = "-"
      /\ i.lz => s[Pre(i)] = "0"
  BY FieldSpelling
<1>2. \A j \in 1 .. Len(s) : text[b + j] = s[j]
  BY DEF Stands
<1>3. s[Pre(i) + 1] \notin {"%", "-", "0"}
  BY TailChars
<1>4. i.lj \in BOOLEAN /\ i.lz \in BOOLEAN
  BY FieldIs
<1>5. i \notin Plain
  <2>1. i.kind = "field"
    BY FieldIs
  <2>2. ASSUME i \in Plain PROVE FALSE
    <3>1. i.kind \in {"text", "percent", "minus", "unknown", "width"}
      BY <2>2, PlainIs
    <3> QED
      BY <2>1, <3>1
  <2> QED
    BY <2>2
<1> HIDE DEF s
\* Behind the % and the -.
<1>6. ASSUME InFlags, flags = (IF i.lj THEN {"LJ"} ELSE {}), given_wd = 0,
             At1 = b + (1 + (IF i.lj THEN 1 ELSE 0)) + 1
      PROVE  Moved(i, b)
  <2>1. CASE i.lz
    <3>1. Pre(i) = 1 + (IF i.lj THEN 1 ELSE 0) + 1
      BY <1>4, <2>1 DEF Pre
    <3>2. At1 = b + Pre(i) /\ Pre(i) \in 1 .. Len(s)
      BY <1>1, <1>4, <1>6, <3>1
    <3>3. text[At1] = "0"
      BY <1>1, <1>2, <2>1, <3>2
    <3>4. /\ InWidth /\ (Width \/ Modifier \/ Conversion)
          /\ state \in {0, 1} /\ At2 = At1 + 1 /\ FlagsAt2 = flags \cup {"LZ"}
      BY <1>6, <3>3, Turns
    <3>5. At2 = b + Pre(i) + 0 + 1
      BY <1>1, <3>2, <3>4
    <3>6. FlagsAt2 = Marks(i)
      BY <1>6, <2>1, <3>4 DEF Marks
    <3>7. given_wd = Got(i, 0) /\ 0 \in 0 .. Wide(i)
      BY <1>1, <1>6, GotIs
    <3> QED
      BY <3>4, <3>5, <3>6, <3>7, TailStep
  <2>2. CASE ~i.lz
    <3>1. Pre(i) = 1 + (IF i.lj THEN 1 ELSE 0)
      BY <1>4, <2>2 DEF Pre
    <3>2. At1 = b + (Pre(i) + 1) /\ Pre(i) + 1 \in 1 .. Len(s)
      BY <1>1, <1>4, <1>6, <3>1
    <3>3. text[At1] \notin {"%", "-", "0"}
      BY <1>2, <1>3, <3>2
    <3>4. /\ InWidth /\ (Width \/ Modifier \/ Conversion)
          /\ state \in {0, 1} /\ At2 = At1 /\ FlagsAt2 = flags
      BY <1>6, <3>3, Turns
    <3>5. At2 = b + Pre(i) + 0 + 1
      BY <1>1, <3>2, <3>4
    <3>6. FlagsAt2 = Marks(i)
      BY <1>6, <2>2, <3>4 DEF Marks
    <3>7. given_wd = Got(i, 0) /\ 0 \in 0 .. Wide(i)
      BY <1>1, <1>6, GotIs
    <3> QED
      BY <3>4, <3>5, <3>6, <3>7, TailStep
  <2> QED
    BY <1>4, <2>1, <2>2
<1>7. CASE p = 0 /\ Clean
  <2>1. fmt = b + 1 /\ 1 \in 1 .. Len(s)
    BY <1>1, <1>7
  <2>2. text[fmt] = "%"
    BY <1>1, <1>2, <2>1
  <2>3. state = 0 /\ flags = {} /\ given_wd = 0
    BY <1>7 DEF Clean
  <2>4. InFlags /\ At1 = fmt + 1
    BY <2>2, <2>3, Turns
  <2>5. CASE i.lj
    <3>1. 2 \in 1 .. Len(s) /\ At1 = b + 2 /\ 2 \in 1 .. (Len(s) - 1)
      BY <1>1, <2>1, <2>4, <2>5
    <3>2. text[At1] = "-"
      BY <1>1, <1>2, <2>5, <3>1
    <3>3. Minus
      BY <2>4, <3>2, Turns
    <3>4. /\ flags' = {"LJ"} /\ state' = 1 /\ given_wd' = 0 /\ fmt' = At1 + 1
          /\ UNCHANGED <<call, args, output, returned>>
      BY <2>3, <3>3 DEF Minus
    <3>5. Within(i, 2)'
      BY <2>5, <3>4 DEF Within
    <3>6. fmt' = b + 2 + 1
      BY <3>1, <3>4
    <3>7. Onward(i, b, 2)
      BY <3>1, <3>4, <3>5, <3>6 DEF Onward, s
    <3> QED
      BY <3>1, <3>7 DEF Moved, s
  <2>6. CASE ~i.lj
    BY <1>6, <2>1, <2>3, <2>4, <2>6
  <2> QED
    BY <1>4, <2>5, <2>6
<1>8. CASE i.lj /\ p = 2 /\ state = 1 /\ flags = {"LJ"} /\ given_wd = 0
  <2>1. InFlags /\ At1 = fmt
    BY <1>8, Turns
  <2> QED
    BY <1>6, <1>8, <2>1
<1>9. CASE /\ \E d \in 1 .. Wide(i) : p = Pre(i) + d /\ given_wd = Got(i, d)
           /\ state = 2 /\ flags = Marks(i)
  <2>1. PICK d \in 1 .. Wide(i) : p = Pre(i) + d /\ given_wd = Got(i, d)
    BY <1>9
  <2>2. d \in 0 .. Wide(i) /\ fmt = b + Pre(i) + d + 1
    BY <1>1, <2>1
  <2>3. InWidth /\ (Width \/ Modifier \/ Conversion) /\ At2 = fmt /\ FlagsAt2 = flags
    BY <1>9, Turns
  <2> QED
    BY <1>9, <2>1, <2>2, <2>3, TailStep
<1>10. CASE /\ Modded(i) = 1
            /\ p = Pre(i) + Wide(i) + 1 /\ state = 3 /\ flags = FieldFlags(i) /\ given_wd = i.wd
  <2>1. (Modifier \/ Conversion) /\ At2 = fmt /\ FlagsAt2 = flags
    BY <1>10, Turns
  <2>2. At2 = b + Pre(i) + Wide(i) + 2
    <3>1. p = Pre(i) + Wide(i) + 1 /\ At2 = b + p + 1
      BY <1>10, <2>1
    <3>2. Pre(i) \in Nat /\ Wide(i) \in Nat
      BY <1>1
    <3> QED
      BY <3>1, <3>2
  <2> QED
    BY <1>10, <2>1, <2>2, ModifiedStep
<1> QED
  BY <1>5, <1>7, <1>8, <1>9, <1>10 DEF Within

(***************************************************************************)
(* A turn inside text, %% or an illegal directive moves on in it or ends   *)
(* it; an illegal one ends without output.                                 *)
(***************************************************************************)
LEMMA PlainStep ==
    ASSUME NEW i \in Plain, NEW b \in Nat, Stands(i, b), Turn, Next, args \in Nat,
           NEW p \in Nat, p < Len(Spelling(i)), Within(i, p), fmt = b + p + 1,
           i \notin Fields
    PROVE  Moved(i, b)
<1> DEFINE s == Spelling(i)
<1>1. i.kind \in {"text", "percent", "minus", "unknown", "width"}
  BY PlainIs
<1>2. \A j \in 1 .. Len(s) : text[b + j] = s[j]
  BY DEF Stands
<1>3. WordsOf(i) = <<>> /\ args + 0 = args
  BY <1>1 DEF WordsOf
<1>4. Len(<<>>) = 0
  OBVIOUS
<1>5. ASSUME Clean', fmt' = b + Len(s) + 1, UNCHANGED <<call, returned>>, args' = args,
             Emit(Meant(i)) \/ (Meant(i) = <<>> /\ UNCHANGED output)
      PROVE  Moved(i, b)
  <2>1. args' = args + Len(WordsOf(i))
    BY <1>3, <1>4, <1>5
  <2> QED
    BY <1>5, <2>1 DEF Moved, Finished
<1>6. ASSUME NEW q \in 1 .. (Len(s) - 1), fmt' = b + q + 1, Within(i, q)',
             UNCHANGED <<call, args, output, returned>>
      PROVE  Moved(i, b)
  BY <1>6 DEF Moved, Onward
<1>7. CASE i.kind = "text"
  <2>1. s = <<"t">> /\ Len(s) = 1
    BY <1>7, PlainSpelling
  <2>2. p = 0 /\ state = 0 /\ flags = {} /\ given_wd = 0
    BY <1>7, <2>1 DEF Within, Clean
  <2>3. text[b + 1] = s[1] /\ s[1] = "t" /\ fmt = b + 1
    BY <1>2, <2>1, <2>2
  <2>4. Echo
    BY <2>2, <2>3, Turns
  <2>5. /\ Emit(<<"t">>) /\ fmt' = fmt + 1
        /\ UNCHANGED <<call, args, state, flags, given_wd, returned>>
    BY <2>3, <2>4 DEF Echo
  <2>6. Meant(i) = <<"t">>
    BY <1>7 DEF Meant
  <2>7. fmt' = b + Len(s) + 1
    BY <2>1, <2>3, <2>5
  <2>8. Clean'
    BY <2>2, <2>5 DEF Clean
  <2> HIDE DEF s
  <2> QED
    BY <1>5, <2>5, <2>6, <2>7, <2>8
<1>8. CASE i.kind = "percent"
  <2>1. s = <<"%", "%">> /\ Len(s) = 2
    BY <1>8, PlainSpelling
  <2>2. p = 0 /\ state = 0 /\ flags = {} /\ given_wd = 0
    BY <1>8, <2>1 DEF Within, Clean
  <2>3. text[b + 1] = "%" /\ text[b + 2] = "%" /\ fmt = b + 1
    BY <1>2, <2>1, <2>2
  <2>4. InFlags /\ At1 = b + 2
    BY <2>2, <2>3, Turns
  <2>5. PercentSign
    BY <2>3, <2>4, Turns
  <2>6. Emit(<<"%">>) /\ fmt' = At1 + 1 /\ Clean' /\ UNCHANGED <<call, args, returned>>
    BY <2>5 DEF PercentSign, Reset, Clean
  <2>7. Meant(i) = <<"%">>
    BY <1>8 DEF Meant
  <2>8. fmt' = b + Len(s) + 1
    BY <2>1, <2>4, <2>6
  <2> HIDE DEF s
  <2> QED
    BY <1>5, <2>6, <2>7, <2>8
<1>9. i.kind \in {"minus", "unknown", "width"} => Meant(i) = <<>>
  BY DEF Meant
<1>10. CASE i.kind = "minus"
  <2>1. s = <<"%", "-", "-">> /\ Len(s) = 3
    BY <1>10, PlainSpelling
  <2>2. text[b + 1] = "%" /\ text[b + 2] = "-" /\ text[b + 3] = "-"
    BY <1>2, <2>1
  <2>3. CASE p = 0 /\ Clean
    <3>1. state = 0 /\ flags = {} /\ fmt = b + 1
      BY <2>3 DEF Clean
    <3>2. InFlags /\ At1 = b + 2
      BY <2>2, <3>1, Turns
    <3>3. Minus
      BY <2>2, <3>2, Turns
    <3>4. /\ flags' = {"LJ"} /\ state' = 1 /\ fmt' = At1 + 1
          /\ UNCHANGED <<call, args, output, returned>>
      BY <3>1, <3>3 DEF Minus
    <3>5. Within(i, 2)'
      BY <1>10, <3>4 DEF Within
    <3>6. 2 \in 1 .. (Len(s) - 1) /\ fmt' = b + 2 + 1
      BY <2>1, <3>2, <3>4
    <3> HIDE DEF s
    <3> QED
      BY <1>6, <3>4, <3>5, <3>6
  <2>4. CASE p = 2 /\ state = 1 /\ flags = {"LJ"}
    <3>1. InFlags /\ At1 = b + 3
      BY <2>4, Turns
    <3>2. Minus
      BY <2>2, <3>1, Turns
    <3>3. Clean' /\ fmt' = At1 + 1 /\ UNCHANGED <<call, args, output, returned>>
      BY <2>4, <3>2 DEF Minus, Reset, Clean
    <3>4. fmt' = b + Len(s) + 1
      BY <2>1, <3>1, <3>3
    <3> HIDE DEF s
    <3> QED
      BY <1>5, <1>9, <1>10, <3>3, <3>4
  <2> QED
    BY <1>10, <2>3, <2>4 DEF Within
\* A width that is read, and the character that ends the directive.
<1>11. ASSUME p = 0 /\ Clean, text[b + 1] = "%",
              \/ text[b + 2] \in Decimal /\ text[b + 2] # "0"
              \/ text[b + 2] = "0" /\ text[b + 3] \in Decimal
       PROVE  /\ state' = 2 /\ UNCHANGED <<call, args, output, returned>>
              /\ fmt' = IF text[b + 2] = "0" THEN b + 4 ELSE b + 3
  <2>1. state = 0 /\ flags = {} /\ fmt = b + 1
    BY <1>11 DEF Clean
  <2>2. InFlags /\ At1 = b + 2
    BY <1>11, <2>1, Turns
  <2>3. text[At1] \notin {"%", "-"}
    BY <1>11, <2>2, DigitIs
  <2>4. /\ InWidth /\ (Width \/ Modifier \/ Conversion) /\ state \in {0, 1}
        /\ text[At1] = "0" => At2 = At1 + 1
        /\ text[At1] # "0" => At2 = At1
    BY <2>2, <2>3, Turns
  <2>5. text[At2] \in Decimal /\ At2 = IF text[b + 2] = "0" THEN b + 3 ELSE b + 2
    BY <1>11, <2>2, <2>4
  <2>6. ~Modifier /\ ~Conversion
    <3>1. ~InModifiers
      BY <2>1, <2>5 DEF InModifiers, PastWidth
    <3> QED
      BY <3>1, Guards
  <2>7. state' = 2 /\ fmt' = At2 + 1 /\ UNCHANGED <<call, args, output, returned>>
    BY <2>4, <2>6 DEF Width
  <2> QED
    BY <2>5, <2>7
<1>12. ASSUME state = 2, text[fmt] \in {"q", "%"}
       PROVE  Clean' /\ fmt' = fmt + 1 /\ args' = args /\ UNCHANGED <<call, output, returned>>
  <2>1. (Width \/ Modifier \/ Conversion) /\ At2 = fmt
    BY <1>12, Turns
  <2>2. text[At2] \notin Decimal /\ text[At2] \notin Turned /\ text[At2] \notin Numeric
        /\ text[At2] # "c" /\ text[At2] # "s"
    BY <1>12, <2>1, DigitIs DEF Turned, Numeric
  <2>3. Conversion
    BY <2>1, <2>2, Guards
  <2>4. UNCHANGED <<output, args>>
    BY <2>2, <2>3 DEF Conversion
  <2>5. Reset /\ fmt' = At2 + 1 /\ UNCHANGED <<call, returned>>
    BY <2>3 DEF Conversion
  <2> QED
    BY <2>1, <2>4, <2>5 DEF Reset, Clean
<1>13. CASE i.kind = "unknown"
  <2>1. s = <<"%", "0", "3", "q">> /\ Len(s) = 4
    BY <1>13, PlainSpelling
  <2>2. text[b + 1] = "%" /\ text[b + 2] = "0" /\ text[b + 3] = "3" /\ text[b + 4] = "q"
    BY <1>2, <2>1
  <2>3. CASE p = 0 /\ Clean
    <3>1. "3" \in Decimal
      BY DigitIs
    <3>2. state' = 2 /\ UNCHANGED <<call, args, output, returned>> /\ fmt' = b + 4
      BY <1>11, <2>2, <2>3, <3>1
    <3>3. Within(i, 3)'
      BY <1>13, <3>2 DEF Within
    <3>4. 3 \in 1 .. (Len(s) - 1) /\ fmt' = b + 3 + 1
      BY <2>1, <3>2
    <3> HIDE DEF s
    <3> QED
      BY <1>6, <3>2, <3>3, <3>4
  <2>4. CASE p = 3 /\ state = 2
    <3>1. fmt = b + 4
      BY <2>4
    <3>2. Clean' /\ fmt' = fmt + 1 /\ args' = args /\ UNCHANGED <<call, output, returned>>
      BY <1>12, <2>2, <2>4, <3>1
    <3>3. fmt' = b + Len(s) + 1
      BY <2>1, <3>1, <3>2
    <3> HIDE DEF s
    <3> QED
      BY <1>5, <1>9, <1>13, <3>2, <3>3
  <2> QED
    BY <1>13, <2>3, <2>4 DEF Within
<1>14. CASE i.kind = "width"
  <2>1. s = <<"%", "5", "%">> /\ Len(s) = 3
    BY <1>14, PlainSpelling
  <2>2. text[b + 1] = "%" /\ text[b + 2] = "5" /\ text[b + 3] = "%"
    BY <1>2, <2>1
  <2>3. CASE p = 0 /\ Clean
    <3>1. text[b + 2] \in Decimal /\ text[b + 2] # "0" /\ text[b + 1] = "%"
      BY <2>2, DigitIs
    <3>2. state' = 2 /\ UNCHANGED <<call, args, output, returned>> /\ fmt' = b + 3
      BY <1>11, <2>3, <3>1
    <3>3. Within(i, 2)'
      BY <1>14, <3>2 DEF Within
    <3>4. 2 \in 1 .. (Len(s) - 1) /\ fmt' = b + 2 + 1
      BY <2>1, <3>2
    <3> HIDE DEF s
    <3> QED
      BY <1>6, <3>2, <3>3, <3>4
  <2>4. CASE p = 2 /\ state = 2
    <3>1. fmt = b + 3
      BY <2>4
    <3>2. Clean' /\ fmt' = fmt + 1 /\ args' = args /\ UNCHANGED <<call, output, returned>>
      BY <1>12, <2>2, <2>4, <3>1
    <3>3. fmt' = b + Len(s) + 1
      BY <2>1, <3>1, <3>2
    <3> HIDE DEF s
    <3> QED
      BY <1>5, <1>9, <1>14, <3>2, <3>3
  <2> QED
    BY <1>14, <2>3, <2>4 DEF Within
<1> QED
  BY <1>1, <1>7, <1>8, <1>10, <1>13, <1>14

-----------------------------------------------------------------------------
(* The whole call. *)

\* The scan is before or in item k + 1, having passed p characters of it.
Standing(k, p) ==
    /\ fmt = Len(Spelled(k)) + p + 1
    /\ args = Len(Passed(k)) + 1
    /\ \/ k = Len(items) /\ p = 0 /\ Clean
       \/ k < Len(items) /\ p < Len(Spelling(items[k + 1])) /\ Within(items[k + 1], p)

\* What has been printed once do_printf and its caller have returned.
Ended ==
    /\ count = Len(Printed(items))
    /\ fn = "kprintf_help" => screen = Printed(items) /\ buffer = Stale
    /\ fn = "vsprintf_help" => buffer = Printed(items) \o <<NUL, "stale">>

(***************************************************************************)
(* The inductive invariant: the scan is before or in some item, knows of   *)
(* it what was passed and of the ones before it nothing, and the output is *)
(* what those mean.                                                        *)
(***************************************************************************)
ScanInv ==
    /\ items \in Calls /\ text = Format(items) \o <<NUL>>
    /\ fn \in {"kprintf_help", "vsprintf_help"} /\ returned \in BOOLEAN
    /\ \E k \in 0 .. Len(items) : \E p \in Nat :
          /\ Standing(k, p)
          /\ ~returned => Wrote(Said(k))
          /\ returned => k = Len(items) /\ Ended

(***************************************************************************)
(* What was asked for does not change during the call.                     *)
(***************************************************************************)
LEMMA Frame ==
    ASSUME UNCHANGED call
    PROVE  /\ items' = items /\ text' = text /\ fn' = fn
           /\ Printed(items)' = Printed(items) /\ Format(items)' = Format(items)
           /\ Stale' = Stale
           /\ \A k : /\ Spelled(k)' = Spelled(k) /\ Said(k)' = Said(k) /\ Passed(k)' = Passed(k)
<1>1. items' = items /\ text' = text /\ fn' = fn
  BY DEF call
<1>2. Printed(items)' = Printed(items) /\ Format(items)' = Format(items)
  BY <1>1 DEF Printed, Format
<1>3. Stale' = Stale
  BY <1>1 DEF Stale
<1>4. \A k : Spelled(k)' = Spelled(k) /\ Said(k)' = Said(k) /\ Passed(k)' = Passed(k)
  BY <1>1 DEF Spelled, Said, Passed
<1> QED
  BY <1>1, <1>2, <1>3, <1>4

(***************************************************************************)
(* The NUL is behind the last directive, and each directive stands where   *)
(* the ones before it end.                                                 *)
(***************************************************************************)
LEMMA TextIs ==
    ASSUME NoLong, items \in Calls, text = Format(items) \o <<NUL>>
    PROVE  /\ text[Len(Spelled(Len(items))) + 1] = NUL
           /\ \A k \in 0 .. (Len(items) - 1) : Stands(items[k + 1], Len(Spelled(k)))
<1> DEFINE n == Len(items)
           t == Spelled(n)
<1>1. n \in Nat /\ Format(items) = t
  BY CallsAre, WholeCall
<1>2. \A k \in 0 .. n : Spelled(k) \in Seq(Codes) /\ Len(Spelled(k)) \in Nat
  BY Places
<1>3. t \in Seq(Codes) /\ Len(t) \in Nat
  <2>1. n \in 0 .. n
    BY <1>1
  <2> QED
    BY <1>2, <2>1
<1>4. t \in Seq(Bytes) /\ <<NUL>> \in Seq(Bytes) /\ Len(<<NUL>>) = 1 /\ <<NUL>>[1] = NUL
  <2>1. Codes \subseteq Bytes /\ NUL \in Bytes
    BY DEF Bytes
  <2>2. t \in Seq(Bytes)
    <3> HIDE DEF t
    <3> QED
      BY <1>3, <2>1, SeqMonotonic
  <2> QED
    BY <2>1, <2>2
<1>5. text = t \o <<NUL>>
  BY <1>1
<1> DEFINE z == <<NUL>>
<1> HIDE DEF t, z
<1>6. \A j \in 1 .. Len(t) + Len(z) : text[j] = IF j <= Len(t) THEN t[j] ELSE z[j - Len(t)]
  BY <1>4, <1>5, ConcatProperties DEF z
<1>7. Len(z) = 1 /\ z[1] = NUL
  BY <1>4 DEF z
<1>8. text[Len(t) + 1] = NUL
  <2>1. Len(t) + 1 \in 1 .. Len(t) + Len(z) /\ ~(Len(t) + 1 <= Len(t))
        /\ (Len(t) + 1) - Len(t) = 1
    BY <1>3, <1>7
  <2> QED
    BY <1>6, <1>7, <2>1
<1>9. ASSUME NEW k \in 0 .. (n - 1) PROVE Stands(items[k + 1], Len(Spelled(k)))
  <2> DEFINE b == Len(Spelled(k))
             s == Spelling(items[k + 1])
  <2>1. k \in 0 .. n /\ k + 1 \in 0 .. n /\ k + 1 \in 1 .. n /\ n \in 0 .. n /\ k + 1 \in 0 .. n
    BY <1>1
  <2>2. b \in Nat /\ Len(Spelled(k + 1)) = b + Len(s) /\ Len(Spelled(k + 1)) <= Len(t)
    BY <1>2, <2>1, Places DEF t
  <2>3. \A j \in 1 .. Len(s) : t[b + j] = s[j]
    BY Places DEF t
  <2>4. Len(s) \in Nat
    <3>1. items[k + 1] \in Fields \cup Plain
      BY <2>1, CallsAre
    <3> QED
      BY <3>1, SpellingType
  <2> HIDE DEF b, s
  <2>5. \A j \in 1 .. Len(s) : text[b + j] = s[j]
    <3> SUFFICES ASSUME NEW j \in 1 .. Len(s) PROVE text[b + j] = s[j]
      OBVIOUS
    <3>1. b + j \in 1 .. Len(t) + Len(z) /\ b + j <= Len(t)
      BY <1>3, <1>7, <2>2, <2>4
    <3> QED
      BY <1>6, <2>3, <3>1
  <2> QED
    BY <2>5 DEF Stands, s, b
<1> QED
  BY <1>8, <1>9 DEF t

(***************************************************************************)
(* The next argument is the one of the directive the scan is in.           *)
(***************************************************************************)
LEMMA ArgumentIs ==
    ASSUME NoLong, items \in Calls, NEW k, k \in 0 .. (Len(items) - 1), items[k + 1] \in Fields,
           args = Len(Passed(k)) + 1
    PROVE  Argument(args) = items[k + 1].words[1]
<1> DEFINE i == items[k + 1]
<1>1. i.kind = "field" /\ Len(i.words) = 1
  BY FieldIs
<1>2. WordsOf(i) = i.words
  BY <1>1 DEF WordsOf
<1>3. 1 \in 1 .. Len(WordsOf(i))
  <2> HIDE DEF i
  <2>1. Len(WordsOf(i)) = 1
    BY <1>1, <1>2
  <2> QED
    BY <2>1
<1>4. Passed(Len(items))[Len(Passed(k)) + 1] = WordsOf(i)[1]
  BY <1>3, Places
<1>5. Arguments(items) = Passed(Len(items))
  BY WholeCall
<1> QED
  BY <1>2, <1>4, <1>5 DEF Argument

(***************************************************************************)
(* sprintf's NUL ends what has been written.                               *)
(***************************************************************************)
LEMMA Terminated ==
    ASSUME NEW P, P = Printed(items), P \in Seq(Chars)
    PROVE  [Written(P) EXCEPT ![Len(P) + 1] = NUL] = P \o <<NUL, "stale">>
<1> DEFINE C == Chars \cup {NUL, "stale"}
           z == <<NUL, "stale">>
           N == Len(P) + 2
           w == [k \in 1 .. N |-> IF k <= Len(P) THEN P[k] ELSE "stale"]
           x == [w EXCEPT ![Len(P) + 1] = NUL]
<1>1. P \in Seq(C) /\ Len(P) \in Nat
  <2>1. Chars \subseteq C
    OBVIOUS
  <2> HIDE DEF C
  <2> QED
    BY <2>1, SeqMonotonic
<1>2. z \in Seq(C) /\ Len(z) = 2 /\ z[1] = NUL /\ z[2] = "stale"
  OBVIOUS
<1>3. Written(P) = w
  BY DEF Written
<1> HIDE DEF z
<1>4. /\ P \o z \in Seq(C) /\ Len(P \o z) = N
      /\ \A k \in 1 .. N : (P \o z)[k] = IF k <= Len(P) THEN P[k] ELSE z[k - Len(P)]
  <2> HIDE DEF C
  <2>1. /\ P \o z \in Seq(C) /\ Len(P \o z) = Len(P) + Len(z)
        /\ \A k \in 1 .. Len(P) + Len(z) : (P \o z)[k] = IF k <= Len(P) THEN P[k] ELSE z[k - Len(P)]
    BY <1>1, <1>2, ConcatProperties
  <2> QED
    BY <1>1, <1>2, <2>1
<1>5. \A k \in 1 .. N : x[k] = IF k <= Len(P) THEN P[k]
                               ELSE IF k = Len(P) + 1 THEN NUL ELSE "stale"
  BY <1>1
<1>6. x \in Seq(C) /\ Len(x) = N
  <2>1. \A k \in 1 .. N : x[k] \in C
    <3> SUFFICES ASSUME NEW k \in 1 .. N PROVE x[k] \in C
      OBVIOUS
    <3>1. k <= Len(P) => P[k] \in C
      <4>1. k <= Len(P) => k \in 1 .. Len(P)
        BY <1>1
      <4> HIDE DEF C
      <4> QED
        BY <1>1, <4>1, ElementOfSeq
    <3> HIDE DEF x
    <3> QED
      BY <1>5, <3>1
  <2>2. x = [k \in 1 .. N |-> x[k]]
    OBVIOUS
  <2>3. N \in Nat
    BY <1>1
  <2> HIDE DEF x, C, N
  <2> QED
    BY <2>1, <2>2, <2>3
<1>7. \A k \in 1 .. N : x[k] = (P \o z)[k]
  <2> SUFFICES ASSUME NEW k \in 1 .. N PROVE x[k] = (P \o z)[k]
    OBVIOUS
  <2> HIDE DEF x
  <2>1. CASE k <= Len(P)
    BY <1>4, <1>5, <2>1
  <2>2. CASE k = Len(P) + 1
    <3>1. ~(k <= Len(P)) /\ k - Len(P) = 1
      BY <1>1, <2>2
    <3> QED
      BY <1>2, <1>4, <1>5, <2>2, <3>1
  <2>3. CASE k = Len(P) + 2
    <3>1. ~(k <= Len(P)) /\ k - Len(P) = 2 /\ k # Len(P) + 1
      BY <1>1, <2>3
    <3> QED
      BY <1>2, <1>4, <1>5, <3>1
  <2>4. k <= Len(P) \/ k = Len(P) + 1 \/ k = Len(P) + 2
    BY <1>1
  <2> QED
    BY <2>1, <2>2, <2>3, <2>4
<1>8. x = P \o z
  <2> HIDE DEF x, C, N
  <2> QED
    BY <1>4, <1>6, <1>7, SeqEqual
<1> QED
  BY <1>3, <1>8 DEF z

(***************************************************************************)
(* The scan starts before the first item.                                  *)
(***************************************************************************)
LEMMA ScanInit ==
    ASSUME NoLong, Init
    PROVE  ScanInv
<1>1. /\ items \in Calls /\ text = Format(items) \o <<NUL>>
      /\ fn \in {"kprintf_help", "vsprintf_help"} /\ returned = FALSE
      /\ fmt = 1 /\ args = 1 /\ count = 0 /\ screen = <<>> /\ buffer = Stale /\ dst = 1
  BY DEF Init
<1>2. Clean
  BY DEF Init, Clean
<1>3. Len(items) \in Nat /\ 0 \in 0 .. Len(items)
  BY <1>1, CallsAre
<1>4. Spelled(0) = <<>> /\ Said(0) = <<>> /\ Passed(0) = <<>>
  BY <1>1, Places
<1>5. Len(<<>>) = 0
  OBVIOUS
<1>6. fmt = Len(Spelled(0)) + 0 + 1 /\ args = Len(Passed(0)) + 1
  BY <1>1, <1>4, <1>5
<1>7. \/ 0 = Len(items) /\ 0 = 0 /\ Clean
      \/ 0 < Len(items) /\ 0 < Len(Spelling(items[0 + 1])) /\ Within(items[0 + 1], 0)
  <2>1. CASE 0 = Len(items)
    BY <1>2, <2>1
  <2>2. CASE 0 # Len(items)
    <3>1. 0 < Len(items) /\ 1 \in 1 .. Len(items)
      BY <1>3, <2>2
    <3>2. Len(Spelling(items[1])) \in Nat \ {0}
      <4>1. items[1] \in Fields \cup Plain
        BY <1>1, <3>1, CallsAre
      <4> QED
        BY <4>1, SpellingType
    <3>3. Within(items[1], 0)
      BY <1>2 DEF Within
    <3>4. 0 + 1 = 1 /\ 0 < Len(Spelling(items[1]))
      BY <3>2
    <3> QED
      BY <3>1, <3>3, <3>4
  <2> QED
    BY <2>1, <2>2
<1>8. Standing(0, 0)
  BY <1>6, <1>7 DEF Standing
<1>9. Wrote(Said(0))
  <2>1. Written(<<>>) = Stale
    <3>1. \A k \in 1 .. (Len(Printed(items)) + 2) :
             (IF k <= Len(<<>>) THEN <<>>[k] ELSE "stale") = "stale"
      <4>1. ASSUME NEW k \in 1 .. (Len(Printed(items)) + 2) PROVE ~(k <= Len(<<>>))
        BY <1>5
      <4> QED
        BY <4>1
    <3> QED
      BY <3>1 DEF Written, Stale
  <2> QED
    BY <1>1, <1>4, <1>5, <2>1 DEF Wrote
<1> QED
  BY <1>1, <1>3, <1>8, <1>9 DEF ScanInv

(***************************************************************************)
(* Every turn of the loop, and the return, keep the invariant.             *)
(***************************************************************************)
LEMMA ScanNext ==
    ASSUME NoLong, ScanInv, Next
    PROVE  ScanInv'
<1>1. /\ items \in Calls /\ text = Format(items) \o <<NUL>>
      /\ fn \in {"kprintf_help", "vsprintf_help"} /\ returned \in BOOLEAN
  BY DEF ScanInv
<1>2. PICK k \in 0 .. Len(items), p \in Nat :
         /\ Standing(k, p)
         /\ ~returned => Wrote(Said(k))
         /\ returned => k = Len(items) /\ Ended
  BY DEF ScanInv
<1> DEFINE n == Len(items)
<1>3. n \in Nat /\ k \in 0 .. n /\ k \in Nat
  BY <1>1, CallsAre
<1>4. ~returned
  <2>1. Turn => ~returned
    BY DEF Turn
  <2>2. Return => ~returned
    BY DEF Return
  <2>3. (InFlags => Turn) /\ (InWidth => Turn) /\ (InModifiers => Turn)
    BY DEF InFlags, PastFlags, InWidth, PastWidth, InModifiers
  <2> QED
    BY <2>1, <2>2, <2>3, Guards DEF Next
<1>5. /\ fmt = Len(Spelled(k)) + p + 1 /\ args = Len(Passed(k)) + 1
      /\ \/ k = Len(items) /\ p = 0 /\ Clean
         \/ k < Len(items) /\ p < Len(Spelling(items[k + 1])) /\ Within(items[k + 1], p)
  BY <1>2 DEF Standing
<1>6. /\ Spelled(k) \in Seq(Codes) /\ Len(Spelled(k)) \in Nat
      /\ Said(k) \in Seq(Chars) /\ Len(Said(k)) \in Nat
      /\ Passed(k) \in Seq(Nat) /\ Len(Passed(k)) \in Nat
  BY <1>1, Places
<1>7. Printed(items) = Said(n) /\ Said(n) \in Seq(Chars) /\ Len(Printed(items)) \in Nat
  <2>1. n \in 0 .. n
    BY <1>3
  <2> QED
    BY <1>1, <2>1, Places, WholeCall
<1>8. CASE k = n /\ p = 0 /\ Clean
  <2>1. text[fmt] = NUL
    <3>1. fmt = Len(Spelled(n)) + 1
      BY <1>5, <1>6, <1>8
    <3> QED
      BY <1>1, <3>1, TextIs
  <2>2. ~Turn
    BY <2>1 DEF Turn
  <2>3. Return
    <3>1. (InFlags => Turn) /\ (InWidth => Turn) /\ (InModifiers => Turn)
      BY DEF InFlags, PastFlags, InWidth, PastWidth, InModifiers
    <3> QED
      BY <2>2, <3>1, Guards DEF Next
  <2>4. /\ UNCHANGED <<call, scan, count, screen, dst>> /\ returned' = TRUE
        /\ buffer' = IF fn = "vsprintf_help" THEN [buffer EXCEPT ![count + 1] = NUL] ELSE buffer
    BY <2>3 DEF Return
  <2>5. UNCHANGED call
    BY <2>4
  <2>6. /\ items' = items /\ text' = text /\ fn' = fn
        /\ Printed(items)' = Printed(items) /\ Format(items)' = Format(items)
        /\ Stale' = Stale
        /\ Spelled(k)' = Spelled(k) /\ Passed(k)' = Passed(k)
    BY <2>5, Frame
  <2>7. Wrote(Printed(items))
    BY <1>2, <1>4, <1>7, <1>8
  <2>8. Ended'
    <3>1. count' = Len(Printed(items)) /\ screen' = screen
      BY <2>4, <2>7 DEF Wrote
    <3>2. fn = "kprintf_help" => screen' = Printed(items) /\ buffer' = Stale
      BY <2>4, <2>7, <3>1 DEF Wrote
    <3>3. fn = "vsprintf_help" => buffer' = Printed(items) \o <<NUL, "stale">>
      <4>1. fn = "vsprintf_help" => buffer' = [Written(Printed(items)) EXCEPT ![count + 1] = NUL]
        BY <2>4, <2>7 DEF Wrote
      <4>2. count + 1 = Len(Printed(items)) + 1
        BY <2>7 DEF Wrote
      <4>3. PICK P : P = Printed(items)
        OBVIOUS
      <4>4. [Written(P) EXCEPT ![Len(P) + 1] = NUL] = P \o <<NUL, "stale">>
        BY <1>7, <4>3, Terminated
      <4> QED
        BY <4>1, <4>2, <4>3, <4>4
    <3> QED
      BY <2>6, <3>1, <3>2, <3>3 DEF Ended
  <2>9. Standing(k, p)'
    <3>1. fmt' = fmt /\ args' = args /\ state' = state /\ flags' = flags /\ given_wd' = given_wd
      BY <2>4 DEF scan
    <3>2. Clean'
      BY <1>8, <3>1 DEF Clean
    <3> QED
      BY <1>5, <1>8, <2>6, <3>1, <3>2 DEF Standing
  <2>10. k \in 0 .. Len(items') /\ k = Len(items')
    BY <1>3, <1>8, <2>6
  <2> QED
    BY <1>1, <2>4, <2>6, <2>8, <2>9, <2>10 DEF ScanInv
<1>9. CASE k < n /\ p < Len(Spelling(items[k + 1])) /\ Within(items[k + 1], p)
  <2>1. PICK i : i = items[k + 1]
    OBVIOUS
  <2>2. PICK b : b = Len(Spelled(k))
    OBVIOUS
  <2>3. PICK P : P = Said(k)
    OBVIOUS
  <2>4. k \in 0 .. (n - 1) /\ k + 1 \in 1 .. n /\ k + 1 \in 0 .. n /\ b \in Nat
    BY <1>3, <1>6, <1>9, <2>2
  <2>5. i \in Fields \cup Plain
    BY <1>1, <2>1, <2>4, CallsAre
  <2>6. Stands(i, b)
    BY <1>1, <2>1, <2>2, <2>4, TextIs
  <2>7. Spelling(i) \in Seq(Codes) /\ Len(Spelling(i)) \in Nat \ {0}
    BY <2>5, SpellingType
  <2>8. Turn
    <3>1. p + 1 \in 1 .. Len(Spelling(i)) /\ fmt = b + (p + 1)
      BY <1>5, <1>9, <2>1, <2>2, <2>4, <2>7
    <3>2. text[fmt] = Spelling(i)[p + 1]
      BY <2>6, <3>1 DEF Stands
    <3>3. Spelling(i)[p + 1] \in Codes
      BY <2>7, <3>1, ElementOfSeq
    <3>4. NUL \notin Codes
      BY DEF NUL, Codes
    <3> QED
      BY <1>4, <3>2, <3>3, <3>4 DEF Turn
  <2>9. args \in Nat /\ fmt = b + p + 1
    BY <1>5, <1>6, <2>2
  <2>10. Moved(i, b)
    <3>1. CASE i \in Fields
      <4>1. Argument(args) = i.words[1]
        BY <1>1, <1>5, <2>1, <2>4, <3>1, ArgumentIs
      <4> QED
        BY <1>9, <2>1, <2>4, <2>6, <2>8, <2>9, <3>1, <4>1, FieldStep
    <3>2. CASE i \notin Fields
      BY <1>9, <2>1, <2>4, <2>5, <2>6, <2>8, <2>9, <3>2, PlainStep
    <3> QED
      BY <3>1, <3>2
  <2>11. Wrote(P)
    BY <1>2, <1>4, <2>3
  <2>12. /\ Len(Spelled(k + 1)) = b + Len(Spelling(i))
         /\ Said(k + 1) = P \o Meant(i)
         /\ Len(Passed(k + 1)) = Len(Passed(k)) + Len(WordsOf(i))
         /\ Len(P) + Len(Meant(i)) <= Len(Printed(items))
    BY <1>1, <1>7, <2>1, <2>2, <2>3, <2>4, Places
  <2>13. ASSUME NEW q \in 1 .. (Len(Spelling(i)) - 1), Onward(i, b, q)
         PROVE  ScanInv'
    <3>1. /\ fmt' = b + q + 1 /\ Within(i, q)' /\ UNCHANGED <<call, args, output, returned>>
      BY <2>13 DEF Onward
    <3>2. UNCHANGED call
      BY <3>1
    <3>3. /\ items' = items /\ text' = text /\ fn' = fn
          /\ Format(items)' = Format(items)
          /\ Spelled(k)' = Spelled(k) /\ Passed(k)' = Passed(k) /\ Said(k)' = Said(k)
      BY <3>2, Frame
    <3>4. q \in Nat /\ q < Len(Spelling(i))
      BY <2>7
    <3>5. Standing(k, q)'
      <4>1. fmt' = Len(Spelled(k)') + q + 1 /\ args' = Len(Passed(k)') + 1
        BY <1>5, <2>2, <3>1, <3>3
      <4>2. items'[k + 1] = i /\ k < Len(items')
        BY <1>9, <2>1, <3>3
      <4>3. Within(items[k + 1], q)'
        BY <3>1, <4>2
      <4> QED
        BY <3>4, <4>1, <4>2, <4>3 DEF Standing
    <3>6. Wrote(P)'
      BY <2>11, <3>1, SameOutput
    <3>7. Wrote(Said(k))'
      BY <2>3, <3>3, <3>6
    <3>8. returned' = FALSE /\ k \in 0 .. Len(items')
      BY <1>3, <1>4, <3>1, <3>3
    <3> QED
      BY <1>1, <3>3, <3>4, <3>5, <3>7, <3>8 DEF ScanInv
  <2>14. ASSUME Finished(i, b)
         PROVE  ScanInv'
    <3>1. /\ fmt' = b + Len(Spelling(i)) + 1 /\ Clean' /\ args' = args + Len(WordsOf(i))
          /\ Emit(Meant(i)) \/ (Meant(i) = <<>> /\ UNCHANGED output)
          /\ UNCHANGED <<call, returned>>
      BY <2>14 DEF Finished
    <3>2. UNCHANGED call
      BY <3>1
    <3>3. /\ items' = items /\ text' = text /\ fn' = fn
          /\ Format(items)' = Format(items)
          /\ Spelled(k + 1)' = Spelled(k + 1) /\ Passed(k + 1)' = Passed(k + 1)
          /\ Said(k + 1)' = Said(k + 1)
      BY <3>2, Frame
    <3>4. Meant(i) \in Seq(Chars) /\ WordsOf(i) \in Seq(Nat) /\ Len(WordsOf(i)) \in Nat
      BY <2>5, MeantType
    <3>5. P \in Seq(Chars)
      BY <1>6, <2>3
    <3>6. PICK u : u = P \o Meant(i)
      OBVIOUS
    <3>7. Wrote(u)'
      <4>1. CASE Emit(Meant(i))
        <5>1. Wrote(P \o Meant(i))'
          <6>1. PICK m : m = Meant(i)
            OBVIOUS
          <6>2. Wrote(P \o m)'
            BY <1>1, <1>7, <2>11, <2>12, <3>2, <3>4, <3>5, <4>1, <6>1, Emits
          <6> QED
            BY <6>1, <6>2
        <5> QED
          BY <3>6, <5>1
      <4>2. CASE Meant(i) = <<>> /\ UNCHANGED output
        <5>1. u = P
          BY <3>5, <3>6, <4>2, ConcatEmptySeq
        <5> QED
          BY <2>11, <3>2, <4>2, <5>1, SameOutput
      <4> QED
        BY <3>1, <4>1, <4>2
    <3>8. Wrote(Said(k + 1))'
      BY <2>12, <3>3, <3>6, <3>7
    <3>9. fmt' = Len(Spelled(k + 1)') + 0 + 1
      <4>1. Len(Spelled(k + 1)') = b + Len(Spelling(i))
        BY <2>12, <3>3
      <4>2. fmt' = b + Len(Spelling(i)) + 1 /\ b \in Nat /\ Len(Spelling(i)) \in Nat
        BY <2>4, <2>7, <3>1
      <4> QED
        BY <4>1, <4>2
    <3>10. args' = Len(Passed(k + 1)') + 1
      <4>1. Len(Passed(k + 1)') = Len(Passed(k)) + Len(WordsOf(i))
        BY <2>12, <3>3
      <4>2. args' = Len(Passed(k)) + 1 + Len(WordsOf(i))
        BY <1>5, <3>1
      <4>3. Len(Passed(k)) \in Nat /\ Len(WordsOf(i)) \in Nat
        BY <1>6, <3>4
      <4> QED
        BY <4>1, <4>2, <4>3
    <3>11. \/ k + 1 = Len(items') /\ 0 = 0 /\ Clean'
           \/ k + 1 < Len(items') /\ 0 < Len(Spelling(items[k + 1 + 1])') /\ Within(items[k + 1 + 1], 0)'
      <4>1. CASE k + 1 = n
        BY <3>1, <3>3, <4>1
      <4>2. CASE k + 1 # n
        <5>1. k + 1 < n /\ k + 1 + 1 \in 1 .. n
          BY <1>3, <2>4, <4>2
        <5>2. Len(Spelling(items[k + 1 + 1])) \in Nat \ {0}
          <6>1. items[k + 1 + 1] \in Fields \cup Plain
            BY <1>1, <5>1, CallsAre
          <6> QED
            BY <6>1, SpellingType
        <5>3. Spelling(items[k + 1 + 1])' = Spelling(items[k + 1 + 1])
          BY <3>3
        <5>4. Within(items[k + 1 + 1], 0)'
          BY <3>1 DEF Within
        <5>5. 0 < Len(Spelling(items[k + 1 + 1]))
          BY <5>2
        <5> QED
          BY <3>3, <5>1, <5>3, <5>4, <5>5
      <4> QED
        BY <4>1, <4>2
    <3>12. Standing(k + 1, 0)'
      BY <3>9, <3>10, <3>11 DEF Standing
    <3>13. returned' = FALSE /\ k + 1 \in 0 .. Len(items')
      BY <1>4, <2>4, <3>1, <3>3
    <3> QED
      BY <1>1, <3>3, <3>8, <3>12, <3>13 DEF ScanInv
  <2> QED
    BY <2>10, <2>13, <2>14 DEF Moved
<1> QED
  BY <1>5, <1>8, <1>9

(***************************************************************************)
(* So does a step that changes nothing.                                    *)
(***************************************************************************)
LEMMA ScanStutter ==
    ASSUME ScanInv, UNCHANGED vars
    PROVE  ScanInv'
<1>1. UNCHANGED <<call, scan, output, returned>>
  BY DEF vars
<1>2. UNCHANGED call
  BY <1>1
<1>3. /\ items \in Calls /\ text = Format(items) \o <<NUL>>
      /\ fn \in {"kprintf_help", "vsprintf_help"} /\ returned \in BOOLEAN
  BY DEF ScanInv
<1>4. PICK k \in 0 .. Len(items), p \in Nat :
         /\ Standing(k, p)
         /\ ~returned => Wrote(Said(k))
         /\ returned => k = Len(items) /\ Ended
  BY DEF ScanInv
<1>5. /\ items' = items /\ text' = text /\ fn' = fn
      /\ Printed(items)' = Printed(items) /\ Format(items)' = Format(items) /\ Stale' = Stale
      /\ Spelled(k)' = Spelled(k) /\ Passed(k)' = Passed(k) /\ Said(k)' = Said(k)
  BY <1>2, Frame
<1>6. fmt' = fmt /\ args' = args /\ state' = state /\ flags' = flags /\ given_wd' = given_wd
  BY <1>1 DEF scan
<1>7. count' = count /\ screen' = screen /\ buffer' = buffer
  BY <1>1 DEF output
<1>8. Standing(k, p)'
  <2>1. Clean => Clean'
    BY <1>6 DEF Clean
  <2>2. PICK i : i = items[k + 1]
    OBVIOUS
  <2>3. Within(i, p) => Within(i, p)'
    BY <1>6, <2>1 DEF Within
  <2>4. Within(items[k + 1], p) => Within(items[k + 1], p)'
    BY <1>5, <2>2, <2>3
  <2>5. Spelling(items[k + 1])' = Spelling(items[k + 1])
    BY <1>5
  <2> QED
    BY <1>4, <1>5, <1>6, <2>1, <2>4, <2>5 DEF Standing
<1>9. ~returned => Wrote(Said(k))'
  <2>1. PICK P : P = Said(k)
    OBVIOUS
  <2>2. Wrote(P) => Wrote(P)'
    BY <1>1, SameOutput
  <2> QED
    BY <1>4, <1>5, <2>1, <2>2
<1>10. Ended => Ended'
  BY <1>5, <1>7 DEF Ended
<1>11. returned' = returned
  BY <1>1
<1> QED
  BY <1>3, <1>4, <1>5, <1>8, <1>9, <1>10, <1>11 DEF ScanInv

(***************************************************************************)
(* The beginning of a buffer that starts with P.                           *)
(***************************************************************************)
LEMMA Start ==
    ASSUME NEW C, NEW P \in Seq(C), NEW B, \A j \in 1 .. Len(P) : B[j] = P[j]
    PROVE  SubSeq(B, 1, Len(P)) = P
<1> DEFINE m == Len(P)
           t == SubSeq(B, 1, m)
<1>1. m \in Nat /\ \A j \in 1 .. m : P[j] \in C
  BY LenProperties, ElementOfSeq
<1>2. \A j \in 1 .. m : B[j] \in C
  BY <1>1
<1> HIDE DEF m
<1>3. /\ t \in Seq(C)
      /\ Len(t) = IF 1 <= m THEN m - 1 + 1 ELSE 0
      /\ \A j \in 1 .. m - 1 + 1 : t[j] = B[1 + j - 1]
  <2>1. 1 \in Int /\ m \in Int
    BY <1>1
  <2> QED
    BY <1>2, <2>1, SubSeqProperties
<1> HIDE DEF t
<1>4. Len(t) = m
  BY <1>1, <1>3
<1>5. ASSUME NEW j \in 1 .. m PROVE t[j] = P[j]
  <2>1. j \in 1 .. m - 1 + 1 /\ 1 + j - 1 = j
    BY <1>1
  <2> QED
    BY <1>3, <2>1 DEF m
<1>6. t = P
  BY <1>3, <1>4, <1>5, SeqEqual DEF m
<1> QED
  BY <1>6 DEF t, m

(***************************************************************************)
(* What was sent, while do_printf runs.                                    *)
(***************************************************************************)
LEMMA SentIs ==
    ASSUME NEW P, P \in Seq(Chars), Len(P) <= Len(Printed(items)), Len(Printed(items)) \in Nat,
           Wrote(P), fn \in {"kprintf_help", "vsprintf_help"}
    PROVE  Sent = P /\ count = Len(P)
<1>1. count = Len(P) /\ Len(P) \in Nat
  BY DEF Wrote
<1>2. CASE fn = "kprintf_help"
  BY <1>1, <1>2 DEF Wrote, Sent
<1>3. CASE fn = "vsprintf_help"
  <2>1. buffer = Written(P)
    BY <1>3 DEF Wrote
  <2>2. \A j \in 1 .. Len(P) : buffer[j] = P[j]
    <3>1. \A j \in 1 .. Len(P) : j \in 1 .. (Len(Printed(items)) + 2) /\ j <= Len(P)
      BY <1>1
    <3> QED
      BY <2>1, <3>1 DEF Written
  <2>3. SubSeq(buffer, 1, Len(P)) = P
    BY <2>2, Start
  <2> QED
    BY <1>1, <1>3, <2>3 DEF Sent
<1> QED
  BY <1>2, <1>3

(***************************************************************************)
(* What was sent, and what the buffer ends with, once it has returned.     *)
(***************************************************************************)
LEMMA EndedIs ==
    ASSUME Ended, Printed(items) \in Seq(Chars), fn \in {"kprintf_help", "vsprintf_help"}
    PROVE  /\ Sent = Printed(items) /\ count = Len(Printed(items))
           /\ buffer = IF fn = "kprintf_help" THEN Stale ELSE Printed(items) \o <<NUL, "stale">>
<1>1. CASE fn = "kprintf_help"
  BY <1>1 DEF Ended, Sent
<1>2. CASE fn = "vsprintf_help"
  <2> DEFINE P == Printed(items)
             z == <<NUL, "stale">>
             C == Chars \cup {NUL, "stale"}
  <2>1. buffer = P \o z /\ count = Len(P)
    BY <1>2 DEF Ended
  <2>2. P \in Seq(C) /\ z \in Seq(C) /\ Len(P) \in Nat /\ Len(z) = 2
    <3>1. Chars \subseteq C
      OBVIOUS
    <3>2. P \in Seq(C)
      <4> HIDE DEF C
      <4> QED
        BY <3>1, SeqMonotonic
    <3> QED
      BY <3>2
  <2> HIDE DEF P, z, C
  <2>3. \A j \in 1 .. Len(P) + Len(z) : buffer[j] = IF j <= Len(P) THEN P[j] ELSE z[j - Len(P)]
    BY <2>1, <2>2, ConcatProperties
  <2>4. \A j \in 1 .. Len(P) : buffer[j] = P[j]
    <3>1. \A j \in 1 .. Len(P) : j \in 1 .. Len(P) + Len(z) /\ j <= Len(P)
      BY <2>2
    <3> QED
      BY <2>3, <3>1
  <2>5. SubSeq(buffer, 1, Len(P)) = P
    BY <2>2, <2>4, Start
  <2>6. Sent = P
    BY <1>2, <2>1, <2>5 DEF Sent
  <2> QED
    BY <1>2, <2>1, <2>6 DEF P, z
<1> QED
  BY <1>1, <1>2

(***************************************************************************)
(* The invariant implies what the run checks: where the scan stands        *)
(* between two items the place in the format says how many there were,     *)
(* because every item has a character.                                     *)
(***************************************************************************)
LEMMA ScanImplies ==
    ASSUME NoLong, ScanInv
    PROVE  ItemsPrinted
<1> DEFINE n == Len(items)
<1>1. /\ items \in Calls /\ fn \in {"kprintf_help", "vsprintf_help"} /\ returned \in BOOLEAN
  BY DEF ScanInv
<1>2. PICK k \in 0 .. Len(items), p \in Nat :
         /\ Standing(k, p)
         /\ ~returned => Wrote(Said(k))
         /\ returned => k = Len(items) /\ Ended
  BY DEF ScanInv
<1>3. n \in Nat /\ k \in 0 .. n /\ n \in 0 .. n
  BY <1>1, CallsAre
<1>4. /\ fmt = Len(Spelled(k)) + p + 1
      /\ \/ k = n /\ p = 0 /\ Clean
         \/ k < n /\ p < Len(Spelling(items[k + 1])) /\ Within(items[k + 1], p)
  BY <1>2 DEF Standing
<1>5. Printed(items) = Said(n) /\ Said(n) \in Seq(Chars) /\ Len(Printed(items)) \in Nat
  BY <1>1, <1>3, Places, WholeCall
<1>6. /\ Said(k) \in Seq(Chars) /\ Len(Said(k)) <= Len(Printed(items))
      /\ Len(Spelled(k)) \in Nat
  BY <1>1, <1>3, <1>5, Places
<1>7. ASSUME NEW j \in 0 .. n, fmt = Len(Format(SubSeq(items, 1, j))) + 1
      PROVE  j = k /\ p = 0
  <2>1. fmt = Len(Spelled(j)) + 1 /\ Len(Spelled(j)) \in Nat
    <3>1. Format(First(j)) = Spelled(j)
      BY <1>1, PrefixesAre
    <3>2. Len(Spelled(j)) \in Nat
      BY <1>1, Places
    <3> QED
      BY <1>7, <3>1, <3>2, Zenon DEF First
  <2>2. CASE j < k
    <3>1. j \in 0 .. (n - 1) /\ j + 1 \in 0 .. k /\ j + 1 \in 1 .. n
      BY <1>3, <2>2
    <3>2. Len(Spelled(j + 1)) = Len(Spelled(j)) + Len(Spelling(items[j + 1]))
      BY <1>1, <3>1, Places
    <3>3. Len(Spelled(j + 1)) <= Len(Spelled(k))
      BY <1>1, <1>3, <3>1, Places
    <3>4. Len(Spelling(items[j + 1])) \in Nat \ {0}
      <4>1. items[j + 1] \in Fields \cup Plain
        BY <1>1, <3>1, CallsAre
      <4> QED
        BY <4>1, SpellingType
    <3> QED
      BY <1>4, <1>6, <2>1, <3>2, <3>3, <3>4
  <2>3. CASE j > k
    <3>1. k \in 0 .. (n - 1) /\ k + 1 \in 0 .. j /\ k + 1 \in 1 .. n /\ k # n
      BY <1>3, <2>3
    <3>2. Len(Spelled(k + 1)) = Len(Spelled(k)) + Len(Spelling(items[k + 1]))
      BY <1>1, <3>1, Places
    <3>3. Len(Spelled(k + 1)) <= Len(Spelled(j))
      BY <1>1, <3>1, Places
    <3>4. Len(Spelling(items[k + 1])) \in Nat
      <4>1. items[k + 1] \in Fields \cup Plain
        BY <1>1, <3>1, CallsAre
      <4> QED
        BY <4>1, SpellingType
    <3>5. p < Len(Spelling(items[k + 1]))
      BY <1>4, <3>1
    <3> QED
      BY <1>4, <1>6, <2>1, <3>2, <3>3, <3>4, <3>5
  <2>4. CASE j = k
    BY <1>4, <1>6, <2>1, <2>4
  <2> QED
    BY <1>3, <2>2, <2>3, <2>4
<1>8. p = 0 => Clean
  <2>1. CASE k = n
    BY <1>4, <2>1
  <2>2. CASE k # n
    <3>1. p = 0 => Within(items[k + 1], 0)
      BY <1>4, <2>2
    <3>2. k + 1 \in 1 .. n
      BY <1>3, <2>2
    <3>3. items[k + 1] \in Fields => Pre(items[k + 1]) \in 1 .. 3 /\ Wide(items[k + 1]) \in Nat
      BY FieldSpelling
    <3> QED
      BY <3>1, <3>3 DEF Within
  <2> QED
    BY <2>1, <2>2
<1>9. Sent = Said(k) /\ count = Len(Sent)
  <2>1. CASE returned
    <3>1. k = n /\ Ended
      BY <1>2, <2>1
    <3> QED
      BY <1>1, <1>5, <3>1, EndedIs
  <2>2. CASE ~returned
    <3>1. Wrote(Said(k))
      BY <1>2, <2>2
    <3> QED
      BY <1>1, <1>5, <1>6, <3>1, SentIs
  <2> QED
    BY <2>1, <2>2
<1>10. ASSUME NEW j \in 0 .. n, fmt = Len(Format(SubSeq(items, 1, j))) + 1
       PROVE  /\ state = 0 /\ flags = {} /\ given_wd = 0
              /\ Sent = Printed(SubSeq(items, 1, j)) /\ count = Len(Sent)
  <2>1. j = k /\ p = 0
    BY <1>7, <1>10
  <2>2. Clean
    BY <1>8, <2>1
  <2>3. Printed(First(j)) = Said(j)
    BY <1>1, PrefixesAre
  <2>4. Sent = Printed(SubSeq(items, 1, j))
    BY <1>9, <2>1, <2>3, Zenon DEF First
  <2> QED
    BY <1>9, <2>2, <2>4 DEF Clean
<1>11. returned => buffer = IF fn = "kprintf_help" THEN Stale ELSE Printed(items) \o <<NUL, "stale">>
  BY <1>1, <1>2, <1>5, EndedIs
<1> QED
  BY <1>10, <1>11 DEF ItemsPrinted

(***************************************************************************)
(* do_printf, kprintf and sprintf print exactly what the directives of a   *)
(* format mean, one after the other, and no flag, width, modifier or state *)
(* of one reaches the next, legal or not.  For every int and short size,   *)
(* every set of widths, words, lengths and conversions, and calls of any   *)
(* number of directives; %L is left out (num is a 32-bit long:             *)
(* PrintfLong.cfg).                                                        *)
(***************************************************************************)
THEOREM ItemsPrintedTheorem ==
    ASSUME NoLong
    PROVE  Spec => []ItemsPrinted
<1>1. Init => ScanInv
  BY ScanInit
<1>2. ScanInv /\ [Next]_vars => ScanInv'
  BY ScanNext, ScanStutter
<1>3. ScanInv => ItemsPrinted
  BY ScanImplies
<1> QED
  BY <1>1, <1>2, <1>3, PTL DEF Spec
=============================================================================
