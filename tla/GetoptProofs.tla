---------------------------- MODULE GetoptProofs ----------------------------
(****************************************************************************)
(* Proofs about Getopt, for every command line, every spelling of its       *)
(* options and with or without POSIXLY_CORRECT: permute_args exchanges two  *)
(* blocks, getopt_long takes an option for what it means, and when it       *)
(* returns -1 the operands are last.                                        *)
(****************************************************************************)
EXTENDS Getopt, TLAPS, FiniteSetTheorems

-----------------------------------------------------------------------------
(* Numbers: induction, and what divides what.                               *)

(* A set of natural numbers has a least element.  It stands for induction,  *)
(* of which the prover cannot instantiate the theorems.                     *)
LEMMA LeastOf ==
    ASSUME NEW T \in SUBSET Nat, T # {}
    PROVE  \E x \in T : \A y \in T : x <= y
<1>1. PICK n \in T : TRUE
      OBVIOUS
<1> DEFINE A == {x \in 0..n : \A y \in T : x < y}
           c == Cardinality(A)
<1>2. \A y \in Nat : IsFiniteSet(0..(y - 1)) /\ Cardinality(0..(y - 1)) = y
      BY FS_Interval
<1>3. IsFiniteSet(0..n)
      BY FS_Interval
<1>4. A \subseteq 0..n
      OBVIOUS
<1> HIDE DEF A
<1>5. IsFiniteSet(A)
      BY <1>3, <1>4, FS_Subset
<1>5a. c \in Nat
      BY <1>5, FS_CardinalityType
<1> HIDE DEF c
<1>6. \A y \in Nat : A \subseteq 0..(y - 1) => c <= y
  <2> TAKE y \in Nat
  <2> HAVE A \subseteq 0..(y - 1)
  <2>1. IsFiniteSet(0..(y - 1)) /\ Cardinality(0..(y - 1)) = y
        BY <1>2
  <2> QED BY <2>1, FS_Subset DEF c
<1>7. \A y \in Nat : 0..y \subseteq A => y + 1 <= c
  <2> TAKE y \in Nat
  <2> HAVE 0..y \subseteq A
  <2>1. IsFiniteSet(0..((y + 1) - 1)) /\ Cardinality(0..((y + 1) - 1)) = y + 1
        BY <1>2
  <2>2. 0..((y + 1) - 1) = 0..y
        OBVIOUS
  <2> QED BY <1>5, <2>1, <2>2, FS_Subset DEF c
<1>8. c <= n
      BY <1>1, <1>6 DEF A
<1>9. c \notin A
  <2> SUFFICES ASSUME c \in A PROVE FALSE
      OBVIOUS
  <2>1. 0..c \subseteq A
        BY <1>5a, <1>8 DEF A
  <2> QED BY <1>5a, <1>7, <2>1
<1>10. PICK y \in T : y <= c
      BY <1>5a, <1>8, <1>9 DEF A
<1>11. A \subseteq 0..(y - 1)
      BY <1>10 DEF A
<1>12. c = y
      BY <1>5a, <1>6, <1>10, <1>11
<1>13. \A z \in T : y <= z
  <2> SUFFICES ASSUME NEW z \in T, z < y PROVE FALSE
      OBVIOUS
  <2>1. A \subseteq 0..(z - 1)
        BY DEF A
  <2> QED BY <1>5a, <1>6, <1>12, <2>1
<1> QED BY <1>10, <1>13

(* Induction, with the numbers for which a fact holds as a set.             *)
LEMMA Induction ==
    ASSUME NEW S \in SUBSET Nat, 0 \in S, \A n \in Nat : n \in S => n + 1 \in S
    PROVE  S = Nat
<1> SUFFICES ASSUME S # Nat PROVE FALSE
  OBVIOUS
<1>1. PICK x \in Nat \ S : \A y \in Nat \ S : x <= y
  BY LeastOf
<1>2. x # 0 /\ x - 1 \in Nat /\ x - 1 \in S
  BY <1>1
<1> QED BY <1>2

(* n divides x.                                                             *)
Divides(n, x) == \E k \in Int : x = n * k

(* Quotient and remainder.                                                  *)
LEMMA DivMod == ASSUME NEW n \in Nat \ {0}, NEW x \in Nat
  PROVE /\ x \div n \in Nat /\ x % n \in 0..(n - 1) /\ x = n * (x \div n) + (x % n)
OBVIOUS

(* A multiple of n that is less than n, in absolute value, is 0.            *)
LEMMA MulOne == ASSUME NEW n \in Nat \ {0}, NEW k \in Int, n * k > -n, n * k < n
  PROVE k = 0
<1>1. k >= 1 => n * k >= n OBVIOUS
<1>2. k <= -1 => n * k <= -n OBVIOUS
<1> QED BY <1>1, <1>2

(* There are no other quotient and remainder.                               *)
LEMMA Remainder == ASSUME NEW n \in Nat \ {0}, NEW q \in Int, NEW r \in 0..(n-1), NEW x \in Nat, x = n * q + r
  PROVE x % n = r /\ x \div n = q
<1> DEFINE p == x \div n  m == x % n
<1>1. p \in Nat /\ m \in 0..(n-1) /\ x = n * p + m
  BY DivMod
<1> HIDE DEF p, m
<1>2. n * (p - q) = r - m
  BY <1>1
<1>3. p - q = 0
  BY <1>1, <1>2, MulOne
<1> QED BY <1>1, <1>3 DEF p, m

(* Two numbers have the same remainder if n divides their difference.       *)
LEMMA SameRemainder == ASSUME NEW n \in Nat \ {0}, NEW x \in Nat, NEW y \in Nat
  PROVE x % n = y % n <=> Divides(n, x - y)
<1> DEFINE p == x \div n  m == x % n
           q == y \div n  r == y % n
<1>1. /\ p \in Nat /\ m \in 0..(n-1) /\ x = n * p + m
      /\ q \in Nat /\ r \in 0..(n-1) /\ y = n * q + r
  BY DivMod
<1> HIDE DEF p, m, q, r
<1>2. m = r => x - y = n * (p - q)
  BY <1>1
<1>3. ASSUME NEW k \in Int, x - y = n * k PROVE m = r
  <2> DEFINE e == k - p + q
  <2>1. e \in Int /\ n * e = m - r
    BY <1>1, <1>3
  <2> HIDE DEF e
  <2>2. e = 0 BY <1>1, <2>1, MulOne
  <2>3. n * 0 = 0 OBVIOUS
  <2> QED BY <1>1, <2>1, <2>2, <2>3
<1>4. m = r => Divides(n, x - y)
  <2>1. p - q \in Int BY <1>1
  <2> QED BY <1>2, <2>1 DEF Divides
<1>5. Divides(n, x - y) => m = r
  BY <1>3 DEF Divides
<1> QED BY <1>4, <1>5 DEF m, r

(* What divides two numbers divides their sum and their difference.         *)
LEMMA DividesSum ==
    ASSUME NEW n \in Int, NEW x \in Int, NEW y \in Int, Divides(n, x), Divides(n, y)
    PROVE  Divides(n, x + y) /\ Divides(n, x - y)
<1>1. PICK k \in Int : x = n * k
      BY DEF Divides
<1>2. PICK l \in Int : y = n * l
      BY DEF Divides
<1>3. x + y = n * (k + l) /\ x - y = n * (k - l)
      BY <1>1, <1>2
<1>4. k + l \in Int /\ k - l \in Int
      BY <1>1, <1>2
<1> QED BY <1>3, <1>4 DEF Divides

(* What divides a number divides its multiples.                             *)
LEMMA DividesTimes ==
    ASSUME NEW n \in Int, NEW x \in Int, NEW c \in Int, Divides(n, x)
    PROVE  Divides(n, x * c)
<1>1. PICK k \in Int : x = n * k
      BY DEF Divides
<1>2. x * c = n * (k * c) /\ k * c \in Int
      BY <1>1
<1> QED BY <1>2 DEF Divides

-----------------------------------------------------------------------------
(* permute_args: the cycles of its exchanges, and what they do.             *)

(* Max, of a bounded set of natural numbers.                                *)
LEMMA GreatestOf ==
    ASSUME NEW b \in Nat, NEW T \in SUBSET (0..b), T # {}
    PROVE  Max(T) \in T /\ \A y \in T : y <= Max(T)
<1> DEFINE S == {b - y : y \in T}
<1>1. /\ \A y \in T : b - y \in S /\ b - y \in Nat
      /\ \A x \in S : \E y \in T : x = b - y
      OBVIOUS
<1> HIDE DEF S
<1>2. S \in SUBSET Nat /\ S # {}
      BY <1>1
<1>3. PICK x \in S : \A y \in S : x <= y
      BY <1>2, LeastOf
<1>4. PICK m \in T : x = b - m
      BY <1>1, <1>3
<1>5. \A y \in T : m >= y
      BY <1>1, <1>3, <1>4
<1> QED BY <1>5 DEF Max

(* The greatest common divisor, and how often it goes into both.            *)
LEMMA GcdFacts ==
    ASSUME NEW a \in Nat \ {0}, NEW b \in Nat \ {0}
    PROVE  LET g == Gcd(a, b)
           IN  /\ g \in 1..b /\ Divides(g, a) /\ Divides(g, b)
               /\ \A d \in 1..b : Divides(d, a) /\ Divides(d, b) => d <= g
<1> DEFINE D == {d \in 1..b : a % d = 0 /\ b % d = 0}
<1>1. \A d \in 1..b : d \in D <=> Divides(d, a) /\ Divides(d, b)
  <2> TAKE d \in 1..b
  <2>1. 0 % d = 0
        BY Remainder
  <2>2. (a % d = 0 <=> Divides(d, a)) /\ (b % d = 0 <=> Divides(d, b))
    <3>1. (a % d = 0 % d <=> Divides(d, a - 0)) /\ (b % d = 0 % d <=> Divides(d, b - 0))
          BY SameRemainder
    <3>2. a - 0 = a /\ b - 0 = b
          OBVIOUS
    <3> QED BY <2>1, <3>1, <3>2
  <2> QED BY <2>2
<1>2. 1 \in D
  <2>1. a = 1 * a /\ b = 1 * b /\ 1 \in 1..b
        OBVIOUS
  <2> QED BY <1>1, <2>1 DEF Divides
<1>3. D \in SUBSET (0..b) /\ D # {}
      BY <1>2
<1>4. Gcd(a, b) = Max(D)
      BY DEF Gcd
<1>5. Max(D) \in D /\ \A d \in D : d <= Max(D)
      BY <1>3, GreatestOf
<1>6. D \subseteq 1..b
      OBVIOUS
<1> HIDE DEF D
<1> QED BY <1>1, <1>4, <1>5, <1>6

(* Going round a + b places by b, one is back after (a + b) / gcd steps and  *)
(* not before.                                                               *)
LEMMA CycleLength ==
    ASSUME NEW a \in Nat \ {0}, NEW b \in Nat \ {0}
    PROVE  LET g == Gcd(a, b)
               L == (a + b) \div g
           IN  /\ L \in Nat \ {0} /\ a + b = g * L
               /\ Divides(a + b, L * b)
               /\ \A j \in 1..(L - 1) : ~Divides(a + b, j * b)
<1> DEFINE g == Gcd(a, b)
           L == (a + b) \div g
           T == a + b
<1>1. /\ g \in 1..b /\ Divides(g, a) /\ Divides(g, b)
      /\ \A d \in 1..b : Divides(d, a) /\ Divides(d, b) => d <= g
      BY GcdFacts
<1> HIDE DEF g
<1>2. T \in Nat \ {0}
      OBVIOUS
<1>3. T = g * L /\ L \in Nat \ {0}
  <2>1. Divides(g, T)
        BY <1>1, DividesSum
  <2>2. PICK k \in Int : T = g * k
        BY <2>1 DEF Divides
  <2>2a. g * k = g * k + 0 /\ 0 \in 0..(g - 1)
        BY <1>1, <2>2
  <2>3. L = k
        BY <1>1, <1>2, <2>2, <2>2a, Remainder
  <2>4. k > 0
        BY <1>1, <1>2, <2>2
  <2> QED BY <2>2, <2>3, <2>4
<1> HIDE DEF L
<1>4. PICK r \in Int : b = g * r
      BY <1>1 DEF Divides
<1>5. Divides(T, L * b)
  <2>1. L * b = T * r
        BY <1>1, <1>3, <1>4
  <2> QED BY <2>1 DEF Divides
<1> DEFINE P == {j \in Nat \ {0} : Divides(T, j * b)}
<1>6. P \in SUBSET Nat /\ L \in P
      BY <1>3, <1>5
<1>7. PICK d \in P : \A j \in P : d <= j
      BY <1>6, LeastOf
<1>8. d \in Nat \ {0} /\ Divides(T, d * b)
      BY <1>7
<1>9. \A j \in Nat \ {0} : Divides(T, j * b) => d <= j
      BY <1>7
<1> HIDE DEF P
<1>10. PICK e \in Nat, m \in 0..(d - 1) : L = d * e + m
  <2>1. L \div d \in Nat /\ L % d \in 0..(d - 1) /\ L = d * (L \div d) + (L % d)
        BY <1>3, <1>8, DivMod
  <2> DEFINE x == L \div d
             y == L % d
  <2>2. x \in Nat /\ y \in 0..(d - 1) /\ L = d * x + y
        BY <2>1
  <2> HIDE DEF x, y
  <2> QED BY <2>2
<1>11. m = 0
  <2> DEFINE u == d * b
             v == u * e
             w == L * b
  <2>1. u \in Int /\ Divides(T, u)
        BY <1>8
  <2>2. w - v = m * b
        BY <1>3, <1>8, <1>10
  <2>3. w \in Int /\ Divides(T, w)
        BY <1>3, <1>5
  <2> HIDE DEF u
  <2>4. v \in Int /\ Divides(T, v)
    <3>1. T \in Int /\ e \in Int
          BY <1>2
    <3> HIDE DEF T
    <3>2. Divides(T, u * e)
          BY <2>1, <3>1, DividesTimes
    <3> QED BY <2>1, <3>2
  <2> HIDE DEF v, w
  <2>5. Divides(T, w - v)
        BY <1>2, <2>3, <2>4, DividesSum
  <2>6. Divides(T, m * b)
        BY <2>2, <2>5
  <2> QED BY <1>8, <1>9, <1>10, <2>6
<1>12. L = d * e /\ e # 0
       BY <1>3, <1>8, <1>10, <1>11
<1>13. PICK k \in Int : d * b = T * k
       BY <1>8 DEF Divides
<1>14. b = (g * e) * k
  <2>1. d * b = d * ((g * e) * k)
        BY <1>1, <1>3, <1>8, <1>12, <1>13
  <2>2. d * (b - (g * e) * k) = 0
        BY <1>1, <1>8, <2>1
  <2> DEFINE z == b - (g * e) * k
  <2>3. z \in Int /\ d * z = 0
        BY <1>1, <2>2
  <2> HIDE DEF z
  <2>4. z = 0
        BY <1>8, <2>3, MulOne
  <2> QED BY <1>1, <2>4 DEF z
<1>15. a = (g * e) * (d - k)
  <2>1. a = g * (d * e) - (g * e) * k
        BY <1>1, <1>3, <1>12, <1>14
  <2> QED BY <1>1, <1>8, <2>1
<1>16. Divides(g * e, a) /\ Divides(g * e, b)
  <2>1. d - k \in Int
        BY <1>8
  <2> QED BY <1>14, <1>15, <2>1 DEF Divides
<1>17. g * e \in 1..b
  <2>1. g * e \in Nat /\ g * e >= 1
        BY <1>1, <1>12
  <2>2. k >= 1
        BY <1>14, <2>1
  <2>3. (g * e) * k >= g * e
        BY <2>1, <2>2
  <2> QED BY <1>14, <2>1, <2>3
<1>18. e = 1
  <2>1. g * e <= g
        BY <1>1, <1>16, <1>17
  <2> QED BY <1>1, <1>12, <2>1
<1>19. L = d
       BY <1>8, <1>12, <1>18
<1>20. \A j \in 1..(L - 1) : ~Divides(T, j * b)
       BY <1>8, <1>9, <1>19
<1> QED BY <1>3, <1>5, <1>20 DEF g, L

(* Where cycle i of PermuteArgs is after j advances, counted from the       *)
(* beginning of blocks of a and b elements.                                 *)
Stop(a, b, i, j) == (a + i + j * b) % (a + b)

(* How many stops a cycle has.                                              *)
Rounds(a, b) == (a + b) \div Gcd(a, b)

(* permute_args makes Gcd(a, b) cycles of Rounds(a, b) stops each, which    *)
(* are as many as there are elements.                                       *)
LEMMA Counts ==
    ASSUME NEW a \in Nat \ {0}, NEW b \in Nat \ {0}
    PROVE  /\ Gcd(a, b) \in 1..b /\ Rounds(a, b) \in Nat \ {0}
           /\ a + b = Gcd(a, b) * Rounds(a, b)
BY GcdFacts, CycleLength DEF Rounds

(* A stop is a place within the two blocks.                                 *)
LEMMA StopType ==
    ASSUME NEW a \in Nat \ {0}, NEW b \in Nat \ {0}, NEW i \in Nat, NEW j \in Nat
    PROVE  Stop(a, b, i, j) \in 0..(a + b - 1)
<1> DEFINE x == a + i + j * b
           n == a + b
<1>1. x \in Nat /\ n \in Nat \ {0}
      OBVIOUS
<1> HIDE DEF x, n
<1>2. x % n \in 0..(n - 1)
      BY <1>1, DivMod
<1> QED BY <1>2 DEF Stop, x, n

(* Cycle i begins at a + i, and comes back to it.                           *)
LEMMA StopFirst ==
    ASSUME NEW a \in Nat \ {0}, NEW b \in Nat \ {0}, NEW i \in 0..(Gcd(a, b) - 1)
    PROVE  Stop(a, b, i, 0) = a + i /\ Stop(a, b, i, Rounds(a, b)) = a + i
<1> DEFINE n == a + b
           L == Rounds(a, b)
           y == L * b
           x == a + i
<1>1. i \in Nat /\ x \in 0..(n - 1) /\ n \in Nat \ {0}
      BY Counts
<1>2. y \in Nat /\ Divides(n, y)
  <2>1. L \in Nat
        BY Counts
  <2>2. Divides(n, L * b)
        BY CycleLength DEF Rounds
  <2> QED BY <2>1, <2>2
<1>3. x = n * 0 + x
      BY <1>1
<1> HIDE DEF x, n
<1>4. x % n = x
      BY <1>1, <1>3, Remainder
<1> HIDE DEF y
<1>5. (x + y) % n = x % n
  <2> DEFINE z == x + y
  <2>1. z \in Nat /\ x \in Nat /\ z - x = y
        BY <1>1, <1>2
  <2> HIDE DEF z
  <2>2. Divides(n, z - x)
        BY <1>2, <2>1
  <2>3. z % n = x % n
        BY <1>1, <2>1, <2>2, SameRemainder
  <2> QED BY <2>3 DEF z
<1>6. Stop(a, b, i, 0) = x % n
  <2>1. a + i + 0 * b = a + i
        BY <1>1
  <2> QED BY <2>1 DEF Stop, x, n
<1>7. Stop(a, b, i, L) = (x + y) % n
      BY DEF Stop, x, n, y
<1> QED BY <1>4, <1>5, <1>6, <1>7 DEF x

(* An advance is by the length of the one block or the other.               *)
LEMMA StopNext ==
    ASSUME NEW a \in Nat \ {0}, NEW b \in Nat \ {0}, NEW i \in Nat, NEW j \in Nat
    PROVE  LET x == Stop(a, b, i, j)
           IN  Stop(a, b, i, j + 1) = IF x < a THEN x + b ELSE x - a
<1> DEFINE n == a + b
           x == Stop(a, b, i, j)
           s == a + i + j * b
           y == IF x < a THEN x + b ELSE x - a
           q == s \div n
           p == IF x < a THEN q ELSE q + 1
<1>1. n \in Nat \ {0} /\ s \in Nat /\ s + b \in Nat
      OBVIOUS
<1>2. q \in Nat /\ x \in 0..(n - 1) /\ s = n * q + x
  <2>1. x = s % n
        BY DEF Stop
  <2> HIDE DEF x, s, n
  <2> QED BY <1>1, <2>1, DivMod
<1>3. (s + b) = n * p + y /\ y \in 0..(n - 1) /\ p \in Nat
  <2> HIDE DEF x, s, q
  <2>1. CASE x < a
        BY <1>1, <1>2, <2>1
  <2>2. CASE ~(x < a)
    <3>1. n * (q + 1) = n * q + n
          BY <1>2
    <3> QED BY <1>1, <1>2, <2>2, <3>1
  <2> QED BY <2>1, <2>2
<1>4. Stop(a, b, i, j + 1) = (s + b) % n
  <2>1. a + i + (j + 1) * b = s + b
        OBVIOUS
  <2> QED BY <2>1 DEF Stop
<1> HIDE DEF n, s, y, p, q
<1>5. (s + b) % n = y
  <2> DEFINE z == s + b
  <2>1. /\ z \in Nat /\ z = n * p + y /\ p \in Int
        /\ y \in 0..(n - 1) /\ n \in Nat \ {0}
        BY <1>1, <1>3
  <2> HIDE DEF z
  <2>2. z % n = y
        BY <2>1, Remainder
  <2> QED BY <2>2 DEF z
<1> QED BY <1>4, <1>5 DEF y

(* The cycles and their stops are all different ...                         *)
LEMMA StopsDiffer ==
    ASSUME NEW a \in Nat \ {0}, NEW b \in Nat \ {0},
           NEW i \in 0..(Gcd(a, b) - 1), NEW k \in 0..(Gcd(a, b) - 1),
           NEW j \in 0..(Rounds(a, b) - 1), NEW l \in 0..(Rounds(a, b) - 1),
           Stop(a, b, i, j) = Stop(a, b, k, l)
    PROVE  i = k /\ j = l
<1> DEFINE g == Gcd(a, b)
           L == Rounds(a, b)
           n == a + b
           s == a + i + j * b
           r == a + k + l * b
           e == (j - l) * b
<1>1. g \in Nat \ {0} /\ L \in Nat \ {0} /\ n = g * L /\ Divides(g, b)
  <2>1. g \in 1..b /\ Divides(g, b)
        BY GcdFacts
  <2>2. L \in Nat \ {0} /\ n = g * L
        BY Counts
  <2> QED BY <2>1, <2>2
<1>1a. i \in 0..(g - 1) /\ k \in 0..(g - 1) /\ j \in 0..(L - 1) /\ l \in 0..(L - 1)
      OBVIOUS
<1>1b. \A m \in 1..(L - 1) : ~Divides(n, m * b)
      BY CycleLength DEF Rounds
<1> HIDE DEF g, L
<1>2. s \in Nat /\ r \in Nat /\ n \in Nat \ {0} /\ e \in Int
      BY <1>1, <1>1a
<1>3. s % n = r % n
      BY DEF Stop
<1>4. s - r = (i - k) + e
      BY <1>1, <1>1a
<1> HIDE DEF s, r
<1>5. Divides(n, s - r)
      BY <1>2, <1>3, SameRemainder
<1>6. Divides(g, s - r)
  <2>1. PICK m \in Int : s - r = n * m
        BY <1>5 DEF Divides
  <2>2. s - r = g * (L * m) /\ L * m \in Int
        BY <1>1, <2>1
  <2> QED BY <2>2 DEF Divides
<1>7. Divides(g, e)
  <2> DEFINE c == j - l
  <2>1. c \in Int /\ b * c = e /\ g \in Int /\ b \in Int /\ Divides(g, b)
        BY <1>1, <1>1a
  <2> HIDE DEF c
  <2>2. Divides(g, b * c)
        BY <2>1, DividesTimes
  <2> QED BY <2>1, <2>2
<1>8. i = k
  <2>1. Divides(g, (s - r) - e)
        BY <1>1, <1>2, <1>6, <1>7, DividesSum
  <2>2. (s - r) - e = i - k
        BY <1>1a, <1>2, <1>4
  <2>3. PICK m \in Int : i - k = g * m
        BY <2>1, <2>2 DEF Divides
  <2>4. m = 0
        BY <1>1, <1>1a, <2>3, MulOne
  <2> QED BY <1>1, <1>1a, <2>3, <2>4
<1>9. Divides(n, e)
      BY <1>1a, <1>2, <1>4, <1>5, <1>8
<1>10. Divides(n, 0 - e)
  <2>1. 0 = n * 0
        BY <1>2
  <2>2. Divides(n, 0)
        BY <2>1 DEF Divides
  <2> QED BY <1>2, <1>9, <2>2, DividesSum
<1>11. CASE j > l
  <2>1. j - l \in 1..(L - 1)
        BY <1>1, <1>1a, <1>11
  <2> QED BY <1>1b, <1>9, <2>1
<1>12. CASE l > j
  <2>1. l - j \in 1..(L - 1) /\ (l - j) * b = 0 - e
        BY <1>1, <1>1a, <1>12
  <2> QED BY <1>1b, <1>10, <2>1
<1> QED BY <1>1a, <1>8, <1>11, <1>12

(* ... and there is one for every place.                                    *)
LEMMA StopsCover ==
    ASSUME NEW a \in Nat \ {0}, NEW b \in Nat \ {0}, NEW x \in 0..(a + b - 1)
    PROVE  \E i \in 0..(Gcd(a, b) - 1), j \in 0..(Rounds(a, b) - 1) :
              Stop(a, b, i, j) = x
<1> DEFINE I == 0..(Gcd(a, b) - 1)
           J == 0..(Rounds(a, b) - 1)
           N == 0..(a + b - 1)
           f == [p \in I \X J |-> Stop(a, b, p[1], p[2])]
<1>1. /\ IsFiniteSet(I) /\ Cardinality(I) = Gcd(a, b)
      /\ IsFiniteSet(J) /\ Cardinality(J) = Rounds(a, b)
      /\ IsFiniteSet(N) /\ Cardinality(N) = a + b
  <2>1. \A n \in Nat : IsFiniteSet(0..(n - 1)) /\ Cardinality(0..(n - 1)) = n
    <3> TAKE n \in Nat
    <3>1. IsFiniteSet(0..(n - 1))
          BY FS_Interval
    <3>2. Cardinality(0..(n - 1)) = IF 0 > n - 1 THEN 0 ELSE (n - 1) - 0 + 1
          BY FS_Interval
    <3> QED BY <3>1, <3>2
  <2>2. Gcd(a, b) \in Nat /\ Rounds(a, b) \in Nat /\ a + b \in Nat
        BY Counts
  <2> QED BY <2>1, <2>2
<1>2. IsFiniteSet(I \X J) /\ Cardinality(I \X J) = a + b
  <2> HIDE DEF I, J
  <2>1. IsFiniteSet(I \X J) /\ Cardinality(I \X J) = Cardinality(I) * Cardinality(J)
        BY <1>1, FS_Product
  <2>2. a + b = Gcd(a, b) * Rounds(a, b)
        BY Counts
  <2> QED BY <1>1, <2>1, <2>2
<1>3. \A i \in I, j \in J : Stop(a, b, i, j) \in N
      BY StopType
<1>4. SUFFICES ASSUME \A i \in I, j \in J : Stop(a, b, i, j) # x
               PROVE  FALSE
      OBVIOUS
<1>5. f \in [I \X J -> N \ {x}]
      BY <1>3, <1>4
<1>6. IsFiniteSet(N \ {x}) /\ Cardinality(N \ {x}) < a + b
  <2>1. Cardinality(N \ {x}) = Cardinality(N) - 1 /\ IsFiniteSet(N \ {x})
        BY <1>1, FS_RemoveElement
  <2> QED BY <1>1, <2>1
<1>7. PICK p \in I \X J, q \in I \X J : p # q /\ f[p] = f[q]
  <2> HIDE DEF f, I, J, N
  <2> QED BY <1>2, <1>5, <1>6, FS_PigeonHole
<1>8. /\ p[1] \in I /\ p[2] \in J /\ q[1] \in I /\ q[2] \in J
      /\ Stop(a, b, p[1], p[2]) = Stop(a, b, q[1], q[2])
      /\ p = <<p[1], p[2]>> /\ q = <<q[1], q[2]>>
      BY <1>7
<1> QED BY <1>7, <1>8, StopsDiffer

(* A recursive function whose values stay in V exists.                      *)
Closed(F, K, V) == \A n \in 1..K, w \in V : F[n][w] \in V
Runs(W, F, K, V, v) ==
    /\ W \in [0..K -> V]
    /\ W[0] = v
    /\ \A n \in 1..K : W[n] = F[n][W[n - 1]]

(* Such a function exists, of any length: by induction.                     *)
LEMMA Recursion ==
    ASSUME NEW K \in Nat, NEW V, NEW v \in V, NEW F, Closed(F, K, V)
    PROVE  \E W : Runs(W, F, K, V, v)
<1>0. \A n \in 1..K, w \in V : F[n][w] \in V
      BY DEF Closed
<1> DEFINE Fits(W, m) == /\ W \in [0..m -> V]
                         /\ W[0] = v
                         /\ \A n \in 1..m : W[n] = F[n][W[n - 1]]
           S == {m \in Nat : m <= K => \E W : Fits(W, m)}
<1>1. 0 \in S
  <2>1. Fits([n \in 0..0 |-> v], 0)
        OBVIOUS
  <2> QED BY <2>1
<1>2. ASSUME NEW m \in Nat, m \in S PROVE m + 1 \in S
  <2> SUFFICES ASSUME m + 1 <= K PROVE \E W : Fits(W, m + 1)
      OBVIOUS
  <2>1. PICK W : Fits(W, m)
        BY <1>2
  <2> DEFINE X == [n \in 0..(m + 1) |-> IF n <= m THEN W[n] ELSE F[m + 1][W[m]]]
  <2>2. W[m] \in V /\ F[m + 1][W[m]] \in V
    <3>1. W[m] \in V /\ m + 1 \in 1..K
          BY <2>1
    <3> QED BY <1>0, <3>1
  <2>3. X \in [0..(m + 1) -> V] /\ X[0] = v
        BY <2>1, <2>2
  <2>4. ASSUME NEW n \in 1..(m + 1) PROVE X[n] = F[n][X[n - 1]]
    <3>1. CASE n <= m
      <4>1. X[n] = W[n] /\ X[n - 1] = W[n - 1] /\ n \in 1..m
            BY <3>1
      <4> QED BY <2>1, <4>1
    <3>2. CASE n = m + 1
      <4>1. X[n] = F[m + 1][W[m]] /\ X[n - 1] = W[m]
            BY <3>2
      <4> QED BY <3>2, <4>1
    <3> QED BY <3>1, <3>2
  <2>5. Fits(X, m + 1)
        BY <2>3, <2>4
  <2> QED BY <2>5
<1>3. S = Nat
  <2>1. S \in SUBSET Nat
        OBVIOUS
  <2> HIDE DEF S
  <2> QED BY <1>1, <1>2, <2>1, Induction
<1>4. PICK W : Fits(W, K)
      BY <1>3
<1> QED BY <1>4 DEF Runs

(* The two places exchange n has to do with.                                *)
From(start, end, opt_end, n) ==
    LET L == Rounds(end - start, opt_end - end)
    IN  start + Stop(end - start, opt_end - end, (n - 1) \div L, ((n - 1) % L) + 1)
Into(start, end, opt_end, n) ==
    end + ((n - 1) \div Rounds(end - start, opt_end - end))

(* Place k after places p and q have exchanged their elements.              *)
Crossed(k, p, q) == IF k = p THEN q ELSE IF k = q THEN p ELSE k

(* W[n] is the list after n exchanges.                                      *)
IsWalk(W, args, start, end, opt_end) ==
    W = [n \in 0..(opt_end - start) |->
            IF n = 0 THEN args
            ELSE [k \in DOMAIN args |->
                     W[n - 1][Crossed(k, From(start, end, opt_end, n),
                                      Into(start, end, opt_end, n))]]]

(* Exchange n is a stop of a cycle, within the two blocks.                  *)
LEMMA Steps ==
    ASSUME NEW start \in Nat, NEW end \in Nat, NEW opt_end \in Nat,
           start < end, end < opt_end
    PROVE  LET a == end - start
               b == opt_end - end
           IN  /\ a \in Nat \ {0} /\ b \in Nat \ {0} /\ a + b = opt_end - start
               /\ Gcd(a, b) \in 1..b /\ Rounds(a, b) \in Nat \ {0}
               /\ a + b = Gcd(a, b) * Rounds(a, b)
               /\ \A n \in 1..(opt_end - start) :
                     /\ (n - 1) \div Rounds(a, b) \in 0..(Gcd(a, b) - 1)
                     /\ (n - 1) % Rounds(a, b) \in 0..(Rounds(a, b) - 1)
                     /\ From(start, end, opt_end, n) \in start..(opt_end - 1)
                     /\ Into(start, end, opt_end, n) \in start..(opt_end - 1)
<1> DEFINE a == end - start
           b == opt_end - end
           g == Gcd(a, b)
           L == Rounds(a, b)
<1>1. a \in Nat \ {0} /\ b \in Nat \ {0} /\ a + b = opt_end - start
      OBVIOUS
<1> HIDE DEF a, b
<1>2. g \in 1..b /\ L \in Nat \ {0} /\ a + b = g * L
      BY <1>1, Counts
<1> HIDE DEF g, L
<1>3. ASSUME NEW n \in 1..(opt_end - start)
      PROVE  /\ (n - 1) \div L \in 0..(g - 1)
             /\ (n - 1) % L \in 0..(L - 1)
             /\ From(start, end, opt_end, n) \in start..(opt_end - 1)
             /\ Into(start, end, opt_end, n) \in start..(opt_end - 1)
  <2> DEFINE x == n - 1
             i == x \div L
             j == x % L
  <2>1. x \in Nat /\ x < g * L
        BY <1>1, <1>2
  <2> HIDE DEF x
  <2>2. i \in Nat /\ j \in 0..(L - 1) /\ x = L * i + j
        BY <1>2, <2>1, DivMod
  <2> HIDE DEF i, j
  <2>3. i < g
    <3>1. i >= g => L * i >= L * g
          BY <1>2, <2>2
    <3>2. L * g = g * L
          BY <1>2
    <3> QED BY <1>2, <2>1, <2>2, <3>1, <3>2
  <2>4. Stop(a, b, i, j + 1) \in 0..(a + b - 1)
    <3>1. \A l \in Nat : Stop(a, b, i, l) \in 0..(a + b - 1)
          BY <1>1, <2>2, StopType
    <3> QED BY <2>2, <3>1
  <2>5. From(start, end, opt_end, n) = start + Stop(a, b, i, j + 1)
        BY DEF From, a, b, i, j, x, L
  <2>6. Into(start, end, opt_end, n) = end + i
        BY DEF Into, a, b, i, x, L
  <2>7. From(start, end, opt_end, n) \in start..(opt_end - 1)
        BY <1>1, <2>4, <2>5
  <2>8. Into(start, end, opt_end, n) \in start..(opt_end - 1)
        BY <1>2, <2>2, <2>3, <2>6 DEF b
  <2> QED BY <1>2, <2>2, <2>3, <2>7, <2>8 DEF i, j, x
<1> QED BY <1>1, <1>2, <1>3 DEF a, b, g, L

(* PermuteArgs is the last of the lists that the exchanges make one after   *)
(* the other.                                                               *)
LEMMA WalkExists ==
    ASSUME NEW args, NEW start \in Nat, NEW end \in Nat, NEW opt_end \in Nat,
           start < end, end < opt_end,
           start..(opt_end - 1) \subseteq DOMAIN args,
           args = [k \in DOMAIN args |-> args[k]]
    PROVE  \E W : /\ IsWalk(W, args, start, end, opt_end)
                  /\ PermuteArgs(args, start, end, opt_end) = W[opt_end - start]
<1> DEFINE K == opt_end - start
           T == {args[k] : k \in DOMAIN args}
           V == [DOMAIN args -> T]
           P(n) == From(start, end, opt_end, n)
           Q(n) == Into(start, end, opt_end, n)
           F == [n \in 1..K |-> [w \in V |->
                    [k \in DOMAIN args |-> w[Crossed(k, P(n), Q(n))]]]]
           nnonopts == end - start
           nopts    == opt_end - end
           ncycle   == Gcd(nnonopts, nopts)
           cyclelen == (opt_end - start) \div ncycle
           Pos(i, j) == start + ((nnonopts + i + j * nopts) % (nnonopts + nopts))
           Exchanged(a, p, q) ==
               [k \in DOMAIN args |-> a[IF k = p THEN q ELSE IF k = q THEN p ELSE k]]
           Walk[n \in 0..(ncycle * cyclelen)] ==
               IF n = 0 THEN args
               ELSE LET i == (n - 1) \div cyclelen
                        j == (n - 1) % cyclelen
                    IN  Exchanged(Walk[n - 1], Pos(i, j + 1), end + i)
<1>1. K \in Nat /\ args \in V
      OBVIOUS
<1>2. \A n \in 1..K : \A k \in DOMAIN args : Crossed(k, P(n), Q(n)) \in DOMAIN args
      BY Steps DEF Crossed
<1>3. \A n \in 1..K, w \in V : F[n][w] \in V
  <2> HIDE DEF P, Q, K, T
  <2> QED BY <1>2
<1>4. PICK W \in [0..K -> V] : W[0] = args /\ \A n \in 1..K : W[n] = F[n][W[n - 1]]
  <2> HIDE DEF F, V, K, Walk
  <2>1. Closed(F, K, V)
        BY <1>3 DEF Closed
  <2>2. PICK W : Runs(W, F, K, V, args)
        BY <1>1, <2>1, Recursion
  <2> QED BY <2>2 DEF Runs
<1>5. W = [n \in 0..K |->
              IF n = 0 THEN args
              ELSE [k \in DOMAIN args |-> W[n - 1][Crossed(k, P(n), Q(n))]]]
  <2>1. ASSUME NEW n \in 1..K
        PROVE  W[n] = [k \in DOMAIN args |-> W[n - 1][Crossed(k, P(n), Q(n))]]
    <3> HIDE DEF P, Q, V
    <3>1. n \in 1..K /\ W[n - 1] \in V
          BY <1>1, <1>4
    <3>2. W[n] = F[n][W[n - 1]]
          BY <1>4
    <3> QED BY <3>1, <3>2
  <2> HIDE DEF F, K, P, Q, V
  <2>2. \A n \in 0..K : n # 0 => n \in 1..K
        BY <1>1
  <2>3. W = [n \in 0..K |-> W[n]]
        BY <1>4
  <2> QED BY <1>4, <2>1, <2>2, <2>3
<1>6. ncycle * cyclelen = K /\ cyclelen = Rounds(nnonopts, nopts)
      BY Steps DEF Rounds
<1> DEFINE D(n, w) == Exchanged(w, Pos((n - 1) \div cyclelen, ((n - 1) % cyclelen) + 1),
                                end + ((n - 1) \div cyclelen))
           E(n, w) == [k \in DOMAIN args |-> w[Crossed(k, P(n), Q(n))]]
           M == ncycle * cyclelen
<1>7. \A n, w : D(n, w) = E(n, w)
  <2> TAKE n, w
  <2>1. P(n) = Pos((n - 1) \div cyclelen, ((n - 1) % cyclelen) + 1)
        BY <1>6 DEF From, Stop
  <2>2. Q(n) = end + ((n - 1) \div cyclelen)
        BY <1>6 DEF Into
  <2> HIDE DEF P, Q, Pos, cyclelen
  <2> QED BY <2>1, <2>2 DEF Crossed
<1>8. PermuteArgs(args, start, end, opt_end) = Walk[ncycle * cyclelen]
      BY DEF PermuteArgs
<1>9. Walk = [n \in 0..M |-> IF n = 0 THEN args ELSE D(n, Walk[n - 1])]
  <2>1. W = [n \in 0..K |-> IF n = 0 THEN args ELSE E(n, W[n - 1])]
        BY <1>5
  <2>2. W = [n \in 0..M |-> IF n = 0 THEN args ELSE D(n, W[n - 1])]
    <3>1. M = K
          BY <1>6
    <3> HIDE DEF D, E, K, M
    <3> QED BY <2>1, <3>1, <1>7
  <2> HIDE DEF Exchanged, Pos, cyclelen, ncycle
  <2> QED BY <2>2 DEF Walk
<1>10. IsWalk(Walk, args, start, end, opt_end)
  <2>1. Walk = [n \in 0..K |-> IF n = 0 THEN args ELSE E(n, Walk[n - 1])]
    <3>1. M = K
          BY <1>6
    <3> HIDE DEF D, E, K, M, Walk
    <3> QED BY <1>7, <1>9, <3>1
  <2> HIDE DEF Walk
  <2> QED BY <2>1 DEF IsWalk
<1> QED BY <1>6, <1>8, <1>10

(* Of which stop the element is that stop j of cycle i has when cycle c is  *)
(* in work and has advanced m times, of L.                                  *)
Held(i, j, c, m, L) ==
    IF i > c \/ (i = c /\ j > m) THEN j
    ELSE IF j > 0 THEN j - 1
    ELSE IF i < c THEN L - 1 ELSE m

(* How Held changes with an exchange: only the two places do.               *)
LEMMA HeldFacts ==
    ASSUME NEW L \in Nat \ {0}, NEW c \in Nat, NEW m \in 0..(L - 1),
           NEW i \in Nat, NEW j \in 0..(L - 1)
    PROVE  /\ Held(i, j, c, m, L) \in 0..(L - 1)
           /\ m + 1 < L /\ ~(i = c /\ j \in {0, m + 1}) =>
                 Held(i, j, c, m + 1, L) = Held(i, j, c, m, L)
           /\ m + 1 < L => /\ Held(c, 0, c, m + 1, L) = m + 1
                           /\ Held(c, m + 1, c, m + 1, L) = m
                           /\ Held(c, 0, c, m, L) = m
                           /\ Held(c, m + 1, c, m, L) = m + 1
           /\ m + 1 = L => Held(i, j, c + 1, 0, L) = Held(i, j, c, m, L)
           /\ Held(i, j, 0, 0, L) = j
           /\ i < c => Held(i, j, c, m, L) = IF j > 0 THEN j - 1 ELSE L - 1
BY DEF Held

(* What the next exchange does to the position in the walk.                 *)
LEMMA Advance ==
    ASSUME NEW L \in Nat \ {0}, NEW n \in Nat
    PROVE  /\ n \div L \in Nat /\ n % L \in 0..(L - 1)
           /\ (n % L) + 1 < L => /\ (n + 1) \div L = n \div L
                                 /\ (n + 1) % L = (n % L) + 1
           /\ (n % L) + 1 = L => /\ (n + 1) \div L = (n \div L) + 1
                                 /\ (n + 1) % L = 0
<1> DEFINE i == n \div L
           j == n % L
           y == n + 1
<1>1. i \in Nat /\ j \in 0..(L - 1) /\ n = L * i + j
      BY DivMod
<1>2. y \in Nat
      OBVIOUS
<1> HIDE DEF i, j
<1>3. y = L * i + (j + 1) /\ y = L * (i + 1) + ((j + 1) - L)
      BY <1>1
<1> HIDE DEF y
<1>4. ASSUME j + 1 < L PROVE y \div L = i /\ y % L = j + 1
  <2>1. j + 1 \in 0..(L - 1)
        BY <1>1, <1>4
  <2> QED BY <1>1, <1>2, <1>3, <2>1, Remainder
<1>5. ASSUME j + 1 = L PROVE y \div L = i + 1 /\ y % L = 0
  <2> DEFINE e == i + 1
  <2>1. y = L * e + 0
        BY <1>1, <1>3, <1>5
  <2>2. e \in Int /\ 0 \in 0..(L - 1)
        BY <1>1
  <2> HIDE DEF e
  <2>3. y \div L = e /\ y % L = 0
        BY <1>2, <2>1, <2>2, Remainder
  <2> QED BY <2>3 DEF e
<1> QED BY <1>1, <1>4, <1>5 DEF i, j, y

(* w is the list args when cycle c has advanced m times: what a stop holds  *)
(* is what Held says, and nothing else has moved.                           *)
Rotated(w, args, start, end, opt_end, c, m) ==
    LET a == end - start
        b == opt_end - end
        S(i, j) == start + Stop(a, b, i, j)
    IN  /\ DOMAIN w = DOMAIN args
        /\ \A k \in DOMAIN args \ (start..(opt_end - 1)) : w[k] = args[k]
        /\ \A i \in 0..(Gcd(a, b) - 1), j \in 0..(Rounds(a, b) - 1) :
              w[S(i, j)] = args[S(i, Held(i, j, c, m, Rounds(a, b)))]

(* An exchange goes on with the cycle, or ends it and begins the next.      *)
LEMMA RotatedStep ==
    ASSUME NEW args, NEW start \in Nat, NEW end \in Nat, NEW opt_end \in Nat,
           start < end, end < opt_end,
           start..(opt_end - 1) \subseteq DOMAIN args,
           NEW c \in 0..(Gcd(end - start, opt_end - end) - 1),
           NEW m \in 0..(Rounds(end - start, opt_end - end) - 1),
           NEW w, Rotated(w, args, start, end, opt_end, c, m),
           NEW v,
           v = [k \in DOMAIN args |->
                   w[Crossed(k, start + Stop(end - start, opt_end - end, c, m + 1), end + c)]]
    PROVE  IF m + 1 < Rounds(end - start, opt_end - end)
           THEN Rotated(v, args, start, end, opt_end, c, m + 1)
           ELSE Rotated(v, args, start, end, opt_end, c + 1, 0)
<1> DEFINE a == end - start
           b == opt_end - end
           g == Gcd(a, b)
           L == Rounds(a, b)
           S(i, j) == start + Stop(a, b, i, j)
           p == S(c, m + 1)
           q == S(c, 0)
<1>1. a \in Nat \ {0} /\ b \in Nat \ {0} /\ a + b = opt_end - start
      OBVIOUS
<1>2. g \in Nat \ {0} /\ L \in Nat \ {0} /\ g <= b
  <2> HIDE DEF a, b
  <2>1. g \in 1..b /\ L \in Nat \ {0}
        BY <1>1, Counts
  <2> QED BY <1>1, <2>1
<1>3. \A i \in 0..(g - 1), j \in Nat : S(i, j) \in start..(opt_end - 1)
  <2> TAKE i \in 0..(g - 1), j \in Nat
  <2>1. i \in Nat
        BY <1>2
  <2>2. Stop(a, b, i, j) \in 0..(a + b - 1)
    <3> HIDE DEF a, b
    <3> QED BY <1>1, <2>1, StopType
  <2> QED BY <1>1, <2>2
<1>4. end + c = q /\ S(c, L) = q
  <2>1. Stop(a, b, c, 0) = a + c /\ Stop(a, b, c, Rounds(a, b)) = a + c
        BY <1>1, StopFirst
  <2> QED BY <2>1
<1>5. \A i \in 0..(g - 1), k \in 0..(g - 1), j \in 0..(L - 1), l \in 0..(L - 1) :
          S(i, j) = S(k, l) => i = k /\ j = l
  <2> TAKE i \in 0..(g - 1), k \in 0..(g - 1), j \in 0..(L - 1), l \in 0..(L - 1)
  <2> HAVE S(i, j) = S(k, l)
  <2>1. Stop(a, b, i, j) \in Int /\ Stop(a, b, k, l) \in Int
        BY <1>1, StopType
  <2>2. Stop(a, b, i, j) = Stop(a, b, k, l)
        BY <2>1
  <2> QED BY <1>1, <2>2, StopsDiffer
<1>6. /\ DOMAIN w = DOMAIN args
      /\ \A k \in DOMAIN args \ (start..(opt_end - 1)) : w[k] = args[k]
      /\ \A i \in 0..(g - 1), j \in 0..(L - 1) :
            w[S(i, j)] = args[S(i, Held(i, j, c, m, L))]
      BY DEF Rotated
<1>7. v = [k \in DOMAIN args |-> w[Crossed(k, p, q)]]
      BY <1>4
<1>8. c \in 0..(g - 1) /\ m \in 0..(L - 1)
      OBVIOUS
<1>9. p \in start..(opt_end - 1) /\ q \in start..(opt_end - 1)
      BY <1>3, <1>8
<1> HIDE DEF g, L, S, p, q
<1>10. /\ DOMAIN v = DOMAIN args
       /\ \A k \in DOMAIN args \ (start..(opt_end - 1)) : v[k] = args[k]
       BY <1>6, <1>7, <1>9 DEF Crossed
<1>11. ASSUME m + 1 < L
       PROVE  \A i \in 0..(g - 1), j \in 0..(L - 1) :
                  v[S(i, j)] = args[S(i, Held(i, j, c, m + 1, L))]
  <2> TAKE i \in 0..(g - 1), j \in 0..(L - 1)
  <2>0. m + 1 \in 0..(L - 1) /\ 0 \in 0..(L - 1) /\ i \in Nat /\ c \in Nat /\ m + 1 # 0
        BY <1>2, <1>8, <1>11
  <2>1. S(i, j) \in DOMAIN args /\ p \in DOMAIN args /\ q \in DOMAIN args
        BY <1>3, <1>9
  <2>2. p = S(c, m + 1) /\ q = S(c, 0)
        BY DEF p, q
  <2>3. CASE i = c /\ j = m + 1
    <3>1. v[S(i, j)] = w[q]
          BY <1>7, <2>1, <2>2, <2>3 DEF Crossed
    <3>2. w[q] = args[S(c, Held(c, 0, c, m, L))]
          BY <1>6, <1>8, <2>0, <2>2
    <3>3. Held(c, 0, c, m, L) = m /\ Held(c, m + 1, c, m + 1, L) = m
          BY <1>2, <1>8, <1>11, <2>0 DEF Held
    <3> QED BY <2>3, <3>1, <3>2, <3>3
  <2>4. CASE i = c /\ j = 0
    <3>1. v[S(i, j)] = w[p]
          BY <1>7, <2>1, <2>2, <2>4 DEF Crossed
    <3>2. w[p] = args[S(c, Held(c, m + 1, c, m, L))]
          BY <1>6, <1>8, <2>0, <2>2
    <3>3. Held(c, m + 1, c, m, L) = m + 1 /\ Held(c, 0, c, m + 1, L) = m + 1
          BY <1>2, <1>8, <1>11, <2>0 DEF Held
    <3> QED BY <2>4, <3>1, <3>2, <3>3
  <2>5. CASE ~(i = c /\ j \in {0, m + 1})
    <3>1. S(i, j) # p /\ S(i, j) # q
          BY <1>5, <1>8, <2>0, <2>2, <2>5
    <3>2. v[S(i, j)] = w[S(i, j)]
          BY <1>7, <2>1, <3>1 DEF Crossed
    <3>3. Held(i, j, c, m + 1, L) = Held(i, j, c, m, L)
          BY <1>2, <1>8, <1>11, <2>0, <2>5, HeldFacts
    <3> QED BY <1>6, <3>2, <3>3
  <2> QED BY <2>3, <2>4, <2>5
<1>12. ASSUME m + 1 = L
       PROVE  \A i \in 0..(g - 1), j \in 0..(L - 1) :
                  v[S(i, j)] = args[S(i, Held(i, j, c + 1, 0, L))]
  <2> TAKE i \in 0..(g - 1), j \in 0..(L - 1)
  <2>1. p = q
        BY <1>4, <1>12 DEF p
  <2>2. S(i, j) \in DOMAIN args
        BY <1>3
  <2>3. v[S(i, j)] = w[S(i, j)]
        BY <1>7, <2>1, <2>2 DEF Crossed
  <2>4. Held(i, j, c + 1, 0, L) = Held(i, j, c, m, L)
        BY <1>2, <1>8, <1>12, HeldFacts
  <2> QED BY <1>6, <2>3, <2>4
<1>13. CASE m + 1 < L
       BY <1>10, <1>11, <1>13 DEF Rotated, S, g, L
<1>14. CASE ~(m + 1 < L)
  <2>1. m + 1 = L
        BY <1>2, <1>8, <1>14
  <2> QED BY <1>10, <1>12, <1>14, <2>1 DEF Rotated, S, g, L
<1> QED BY <1>13, <1>14 DEF g, L

(* After all cycles, every element has gone one stop back: by induction     *)
(* over the exchanges.                                                      *)
LEMMA WalkRotates ==
    ASSUME NEW args, NEW start \in Nat, NEW end \in Nat, NEW opt_end \in Nat,
           start < end, end < opt_end,
           start..(opt_end - 1) \subseteq DOMAIN args,
           NEW W, IsWalk(W, args, start, end, opt_end)
    PROVE  Rotated(W[opt_end - start], args, start, end, opt_end,
                   Gcd(end - start, opt_end - end), 0)
<1> DEFINE a == end - start
           b == opt_end - end
           K == opt_end - start
           g == Gcd(a, b)
           L == Rounds(a, b)
           Ok(n) == Rotated(W[n], args, start, end, opt_end, n \div L, n % L)
           G == {n \in Nat : n <= K => Ok(n)}
<1>1. /\ K \in Nat \ {0} /\ g \in Nat \ {0} /\ L \in Nat \ {0} /\ K = g * L
      /\ \A n \in 1..K : (n - 1) \div L \in 0..(g - 1) /\ (n - 1) % L \in 0..(L - 1)
  <2>1. g \in 1..b /\ L \in Nat \ {0} /\ a + b = g * L
        BY Steps
  <2>2. \A n \in 1..K : (n - 1) \div L \in 0..(g - 1) /\ (n - 1) % L \in 0..(L - 1)
        BY Steps
  <2>3. K \in Nat \ {0} /\ a + b = K /\ b \in Nat
        OBVIOUS
  <2> HIDE DEF a, b, K, g, L
  <2> QED BY <2>1, <2>2, <2>3
<1>2. \A n \in 0..K :
          W[n] = IF n = 0 THEN args
                 ELSE [k \in DOMAIN args |->
                         W[n - 1][Crossed(k, From(start, end, opt_end, n),
                                          Into(start, end, opt_end, n))]]
  <2> DEFINE E(n, w) == [k \in DOMAIN args |->
                            w[Crossed(k, From(start, end, opt_end, n),
                                      Into(start, end, opt_end, n))]]
  <2>1. W = [n \in 0..K |-> IF n = 0 THEN args ELSE E(n, W[n - 1])]
        BY DEF IsWalk
  <2> HIDE DEF E, K
  <2>2. \A n \in 0..K : W[n] = IF n = 0 THEN args ELSE E(n, W[n - 1])
        BY <2>1
  <2> QED BY <2>2 DEF E
<1>3. 0 \in G
  <2>1. 0 \div L = 0 /\ 0 % L = 0
    <3> HIDE DEF L
    <3>1. 0 = L * 0 + 0 /\ 0 \in 0..(L - 1)
          BY <1>1
    <3> QED BY <1>1, <3>1, Remainder
  <2>2. W[0] = args
    <3>1. 0 \in 0..K
          BY <1>1
    <3> HIDE DEF K
    <3> QED BY <1>2, <3>1
  <2>3. \A i \in Nat, j \in 0..(L - 1) : Held(i, j, 0, 0, L) = j
        BY DEF Held
  <2>4. Rotated(args, args, start, end, opt_end, 0, 0)
    <3>1. \A i \in 0..(g - 1) : i \in Nat
          BY <1>1
    <3> QED BY <2>3, <3>1 DEF Rotated
  <2> QED BY <2>1, <2>2, <2>4
<1>4. ASSUME NEW n \in Nat, n \in G PROVE n + 1 \in G
  <2> SUFFICES ASSUME n + 1 <= K PROVE Ok(n + 1)
      OBVIOUS
  <2> DEFINE c == n \div L
             m == n % L
             v == W[n + 1]
             w == W[n]
  <2>1. Rotated(w, args, start, end, opt_end, c, m)
        BY <1>1, <1>4
  <2>2. c \in 0..(g - 1) /\ m \in 0..(L - 1)
    <3>1. n + 1 \in 1..K /\ (n + 1) - 1 = n
          BY <1>1
    <3> QED BY <1>1, <3>1
  <2>3. v = [k \in DOMAIN args |-> w[Crossed(k, start + Stop(a, b, c, m + 1), end + c)]]
    <3>1. n + 1 \in 0..K /\ n + 1 # 0 /\ (n + 1) - 1 = n
          BY <1>1
    <3>2. From(start, end, opt_end, n + 1) = start + Stop(a, b, c, m + 1)
          BY <3>1 DEF From
    <3>3. Into(start, end, opt_end, n + 1) = end + c
          BY <3>1 DEF Into
    <3> HIDE DEF a, b, c, m, K
    <3> QED BY <1>2, <3>1, <3>2, <3>3
  <2>4. IF m + 1 < L
        THEN Rotated(v, args, start, end, opt_end, c, m + 1)
        ELSE Rotated(v, args, start, end, opt_end, c + 1, 0)
    <3> HIDE DEF v, w, c, m
    <3> QED BY <2>1, <2>2, <2>3, RotatedStep
  <2>5. /\ m + 1 < L => (n + 1) \div L = c /\ (n + 1) % L = m + 1
        /\ m + 1 = L => (n + 1) \div L = c + 1 /\ (n + 1) % L = 0
    <3> HIDE DEF L
    <3> QED BY <1>1, Advance
  <2> HIDE DEF c, m, v, w, L, a, b, g
  <2>6. CASE m + 1 < L
        BY <2>4, <2>5, <2>6 DEF v
  <2>7. CASE ~(m + 1 < L)
    <3>1. m + 1 = L
          BY <1>1, <2>2, <2>7
    <3> QED BY <2>4, <2>5, <2>7, <3>1 DEF v
  <2> QED BY <2>6, <2>7
<1>5. G = Nat
  <2>1. G \in SUBSET Nat
        OBVIOUS
  <2> HIDE DEF G
  <2> QED BY <1>3, <1>4, <2>1, Induction
<1>6. Ok(K)
  <2> HIDE DEF Ok, K
  <2> QED BY <1>1, <1>5
<1>7. K \div L = g /\ K % L = 0
  <2> HIDE DEF K, L, g
  <2>1. K = L * g + 0 /\ 0 \in 0..(L - 1) /\ g \in Int
        BY <1>1
  <2> QED BY <1>1, <2>1, Remainder
<1> QED BY <1>6, <1>7

(* permute_args exchanges two neighbouring blocks and moves nothing else.   *)
THEOREM PermuteSwaps ==
    ASSUME NEW args, NEW start \in Nat, NEW end \in Nat, NEW opt_end \in Nat,
           start < end, end < opt_end,
           start..(opt_end - 1) \subseteq DOMAIN args,
           args = [k \in DOMAIN args |-> args[k]]
    PROVE  LET result == PermuteArgs(args, start, end, opt_end)
               moved == start + (opt_end - end)
           IN  /\ result = [k \in DOMAIN args |-> result[k]]
               /\ \A k \in DOMAIN args \ (start..(opt_end - 1)) : result[k] = args[k]
               /\ \A k \in start..(moved - 1) : result[k] = args[k + (end - start)]
               /\ \A k \in moved..(opt_end - 1) : result[k] = args[k - (opt_end - end)]
<1> DEFINE a == end - start
           b == opt_end - end
           g == Gcd(a, b)
           L == Rounds(a, b)
           S(i, j) == Stop(a, b, i, j)
           r == PermuteArgs(args, start, end, opt_end)
<1>1. /\ a \in Nat \ {0} /\ b \in Nat \ {0} /\ a + b = opt_end - start
      /\ g \in Nat \ {0} /\ L \in Nat \ {0}
      BY Steps
<1>2. /\ r = [k \in DOMAIN args |-> r[k]]
      /\ \A k \in DOMAIN args \ (start..(opt_end - 1)) : r[k] = args[k]
      /\ \A i \in 0..(g - 1), j \in 0..(L - 1) :
            r[start + S(i, j)] = args[start + S(i, Held(i, j, g, 0, L))]
  <2>1. PICK W : IsWalk(W, args, start, end, opt_end) /\ r = W[opt_end - start]
        BY WalkExists
  <2>2. Rotated(r, args, start, end, opt_end, g, 0)
        BY <2>1, WalkRotates
  <2>3. r = [k \in DOMAIN args |-> r[k]]
    <3> DEFINE K == opt_end - start
               E(n, w) == [k \in DOMAIN args |->
                              w[Crossed(k, From(start, end, opt_end, n),
                                        Into(start, end, opt_end, n))]]
    <3>1. W = [n \in 0..K |-> IF n = 0 THEN args ELSE E(n, W[n - 1])]
          BY <2>1 DEF IsWalk
    <3>2. K \in 0..K /\ K # 0
          OBVIOUS
    <3>3. W[K] = E(K, W[K - 1])
      <4> HIDE DEF E, K
      <4> QED BY <3>1, <3>2
    <3>4. \A n, w : E(n, w) = [k \in DOMAIN args |-> E(n, w)[k]]
          OBVIOUS
    <3> HIDE DEF E, r
    <3> QED BY <2>1, <3>3, <3>4
  <2> QED BY <2>2, <2>3 DEF Rotated
<1> HIDE DEF r
<1>3. ASSUME NEW x \in 0..(a + b - 1)
      PROVE  \E y \in 0..(a + b - 1) :
                 /\ x = IF y < a THEN y + b ELSE y - a
                 /\ r[start + x] = args[start + y]
  <2>1. PICK i \in 0..(g - 1), j \in 0..(L - 1) : S(i, j) = x
    <3> HIDE DEF a, b
    <3> QED BY <1>1, StopsCover
  <2> DEFINE h == IF j > 0 THEN j - 1 ELSE L - 1
             y == S(i, h)
  <2>2. i \in Nat /\ h \in Nat
        BY <1>1
  <2>3. h = Held(i, j, g, 0, L)
        BY <1>1 DEF Held
  <2>4. S(i, h + 1) = x
    <3>1. CASE j > 0
      <4>1. h + 1 = j
            BY <1>1, <3>1
      <4> HIDE DEF S, h
      <4> QED BY <2>1, <4>1
    <3>2. CASE ~(j > 0)
      <4>1. h + 1 = L /\ j = 0
            BY <1>1, <3>2
      <4>2. S(i, 0) = S(i, L)
        <5> HIDE DEF a, b
        <5> QED BY <1>1, StopFirst
      <4> HIDE DEF S, h, L
      <4> QED BY <2>1, <4>1, <4>2
    <3> QED BY <3>1, <3>2
  <2> HIDE DEF h
  <2>5. y \in 0..(a + b - 1)
    <3> HIDE DEF a, b
    <3> QED BY <1>1, <2>2, StopType
  <2>6. S(i, h + 1) = IF y < a THEN y + b ELSE y - a
    <3> HIDE DEF a, b
    <3> QED BY <1>1, <2>2, StopNext
  <2>7. r[start + x] = args[start + y]
    <3> HIDE DEF S
    <3> QED BY <1>2, <2>1, <2>3
  <2> HIDE DEF y, S
  <2> QED BY <2>4, <2>5, <2>6, <2>7
<1>4. ASSUME NEW k \in start..(start + b - 1)
      PROVE  r[k] = args[k + a]
  <2> DEFINE x == k - start
  <2>1. x \in 0..(a + b - 1) /\ x < b /\ start + x = k
        BY <1>1
  <2> HIDE DEF x
  <2>2. PICK y \in 0..(a + b - 1) : /\ x = IF y < a THEN y + b ELSE y - a
                                    /\ r[start + x] = args[start + y]
        BY <1>3, <2>1
  <2>3. start + y = k + a
        BY <1>1, <2>1, <2>2
  <2> QED BY <2>1, <2>2, <2>3
<1>5. ASSUME NEW k \in (start + b)..(opt_end - 1)
      PROVE  r[k] = args[k - b]
  <2> DEFINE x == k - start
  <2>1. x \in 0..(a + b - 1) /\ x >= b /\ start + x = k
        BY <1>1
  <2> HIDE DEF x
  <2>2. PICK y \in 0..(a + b - 1) : /\ x = IF y < a THEN y + b ELSE y - a
                                    /\ r[start + x] = args[start + y]
        BY <1>3, <2>1
  <2>3. start + y = k - b
        BY <1>1, <2>1, <2>2
  <2> QED BY <2>1, <2>2, <2>3
<1>6. /\ \A k \in start..((start + (opt_end - end)) - 1) : r[k] = args[k + (end - start)]
      /\ \A k \in (start + (opt_end - end))..(opt_end - 1) : r[k] = args[k - (opt_end - end)]
      BY <1>4, <1>5
<1> QED BY <1>2, <1>6, Zenon DEF r

-----------------------------------------------------------------------------
(* The elements of a list at some places, by their rank.                    *)

(* How many of the places in js come up to j.                               *)
Rank(js, j) == Cardinality({i \in js : i <= j})

(* Rank counts up by one at every place in js.                              *)
LEMMA RankStep ==
    ASSUME NEW js \in SUBSET (Nat \ {0}), NEW j \in Nat
    PROVE  /\ Rank(js, 0) = 0
           /\ Rank(js, j) \in Nat
           /\ Rank(js, j + 1) = IF j + 1 \in js THEN Rank(js, j) + 1 ELSE Rank(js, j)
<1> DEFINE S == {i \in js : i <= j}
<1>0. \A i \in js : i \in Nat /\ i > 0
      OBVIOUS
<1>1. IsFiniteSet(S)
  <2>1. IsFiniteSet(0..j)
        BY FS_Interval
  <2>2. \A i \in S : i \in 0..j
    <3> TAKE i \in S
    <3>1. i \in js /\ i <= j
          OBVIOUS
    <3>2. i \in Nat
          BY <1>0, <3>1
    <3> QED BY <3>1, <3>2
  <2> QED BY <2>1, <2>2, FS_Subset
<1>2. {i \in js : i <= 0} = {}
  <2>1. \A i \in js : ~(i <= 0)
    <3> TAKE i \in js
    <3>1. i \in Nat /\ i > 0
          BY <1>0
    <3> QED BY <3>1
  <2> QED BY <2>1
<1>3. {i \in js : i <= j + 1} = IF j + 1 \in js THEN S \cup {j + 1} ELSE S
  <2>1. \A i \in js : i <= j + 1 <=> i <= j \/ i = j + 1
        BY <1>0
  <2>2. CASE j + 1 \in js
        BY <2>1, <2>2
  <2>3. CASE j + 1 \notin js
        BY <2>1, <2>3
  <2> QED BY <2>2, <2>3
<1>4. j + 1 \notin S
      OBVIOUS
<1>5. Cardinality(S \cup {j + 1}) = Cardinality(S) + 1
      BY <1>1, <1>4, FS_AddElement
<1>6. Cardinality(S) \in Nat
      BY <1>1, FS_CardinalityType
<1>7. Rank(js, 0) = 0
      BY <1>2, FS_EmptySet DEF Rank
<1> QED BY <1>3, <1>5, <1>6, <1>7 DEF Rank

(* Rank is monotonic, and strictly so at the places in js.                  *)
LEMMA RankMono ==
    ASSUME NEW js \in SUBSET (Nat \ {0}), NEW i \in Nat, NEW j \in Nat, i <= j
    PROVE  Rank(js, i) <= Rank(js, j) /\ (i < j /\ j \in js => Rank(js, i) < Rank(js, j))
<1> DEFINE G == {n \in Nat : Rank(js, i) <= Rank(js, i + n)}
<1>1. 0 \in G
  <2>1. Rank(js, i) \in Nat /\ i + 0 = i
        BY RankStep
  <2> QED BY <2>1
<1>2. ASSUME NEW n \in Nat, n \in G PROVE n + 1 \in G
  <2>1. i + n \in Nat /\ (i + n) + 1 = i + (n + 1)
        OBVIOUS
  <2>2. Rank(js, i + n) <= Rank(js, (i + n) + 1)
    <3>1. \A k \in Nat : Rank(js, k) <= Rank(js, k + 1)
      <4> TAKE k \in Nat
      <4>1. /\ Rank(js, k) \in Nat
            /\ Rank(js, k + 1) = IF k + 1 \in js THEN Rank(js, k) + 1 ELSE Rank(js, k)
            BY RankStep
      <4> QED BY <4>1
    <3> QED BY <2>1, <3>1
  <2>3. Rank(js, i) \in Nat /\ Rank(js, i + n) \in Nat /\ Rank(js, (i + n) + 1) \in Nat
        BY <2>1, RankStep
  <2> QED BY <1>2, <2>1, <2>2, <2>3
<1>3. G = Nat
  <2>1. G \in SUBSET Nat
        OBVIOUS
  <2> HIDE DEF G
  <2> QED BY <1>1, <1>2, <2>1, Induction
<1>4. \A k \in Nat : i <= k => Rank(js, i) <= Rank(js, k)
  <2> TAKE k \in Nat
  <2> HAVE i <= k
  <2>1. k - i \in Nat /\ i + (k - i) = k
        OBVIOUS
  <2>2. k - i \in G
        BY <1>3, <2>1
  <2> QED BY <2>1, <2>2
<1>5. ASSUME i < j, j \in js PROVE Rank(js, i) < Rank(js, j)
  <2>1. j - 1 \in Nat /\ i <= j - 1 /\ (j - 1) + 1 = j
        BY <1>5
  <2>2. Rank(js, i) <= Rank(js, j - 1)
        BY <1>4, <2>1
  <2>3. Rank(js, j) = Rank(js, j - 1) + 1
    <3> DEFINE k == j - 1
    <3>1. k \in Nat /\ k + 1 = j
          BY <2>1
    <3> HIDE DEF k
    <3>2. Rank(js, k + 1) = IF k + 1 \in js THEN Rank(js, k) + 1 ELSE Rank(js, k)
          BY <3>1, RankStep
    <3>3. Rank(js, j) = Rank(js, k) + 1
          BY <1>5, <3>1, <3>2
    <3> QED BY <3>3 DEF k
  <2>4. Rank(js, i) \in Nat /\ Rank(js, j - 1) \in Nat
        BY <2>1, RankStep
  <2> QED BY <2>2, <2>3, <2>4
<1> QED BY <1>4, <1>5

(* Every rank up to the last belongs to a place in js.                      *)
LEMMA RankOnto ==
    ASSUME NEW js \in SUBSET (Nat \ {0}), NEW N \in Nat, NEW n \in 1..Rank(js, N)
    PROVE  \E j \in js : j <= N /\ Rank(js, j) = n
<1> DEFINE Fits(m) == \A r \in 1..Rank(js, m) : \E j \in js : j <= m /\ Rank(js, j) = r
           G == {m \in Nat : Fits(m)}
<1>1. 0 \in G
      BY RankStep
<1>2. ASSUME NEW m \in Nat, m \in G PROVE m + 1 \in G
  <2>1. Fits(m)
        BY <1>2
  <2>2. /\ Rank(js, m) \in Nat
        /\ Rank(js, m + 1) = IF m + 1 \in js THEN Rank(js, m) + 1 ELSE Rank(js, m)
        BY RankStep
  <2>3. ASSUME NEW r \in 1..Rank(js, m + 1)
        PROVE  \E j \in js : j <= m + 1 /\ Rank(js, j) = r
    <3>1. CASE r \in 1..Rank(js, m)
      <4>1. PICK j \in js : j <= m /\ Rank(js, j) = r
            BY <2>1, <3>1
      <4>2. j <= m + 1
            BY <4>1
      <4> QED BY <4>1, <4>2
    <3>2. CASE r \notin 1..Rank(js, m)
      <4>1. m + 1 \in js /\ r = Rank(js, m + 1)
            BY <2>2, <3>2
      <4> QED BY <4>1
    <3> QED BY <3>1, <3>2
  <2> QED BY <2>3
<1>3. G = Nat
  <2>1. G \in SUBSET Nat
        OBVIOUS
  <2> HIDE DEF G
  <2> QED BY <1>1, <1>2, <2>1, Induction
<1>4. Fits(N)
      BY <1>3
<1> QED BY <1>4

(* The two kinds of places share the ranks.                                 *)
LEMMA RankBoth ==
    ASSUME NEW N \in Nat, NEW js \in SUBSET (Nat \ {0}), NEW ks \in SUBSET (Nat \ {0}),
           js \cap ks = {}, 1..N \subseteq js \cup ks, NEW j \in 0..N
    PROVE  Rank(js, j) + Rank(ks, j) = j
<1> DEFINE G == {m \in Nat : m <= N => Rank(js, m) + Rank(ks, m) = m}
<1>1. 0 \in G
      BY RankStep
<1>2. ASSUME NEW m \in Nat, m \in G PROVE m + 1 \in G
  <2> SUFFICES ASSUME m + 1 <= N PROVE Rank(js, m + 1) + Rank(ks, m + 1) = m + 1
      OBVIOUS
  <2>1. Rank(js, m) + Rank(ks, m) = m
        BY <1>2
  <2>2. (m + 1 \in js /\ m + 1 \notin ks) \/ (m + 1 \in ks /\ m + 1 \notin js)
    <3>1. m + 1 \in 1..N
          OBVIOUS
    <3> QED BY <3>1
  <2>3. /\ Rank(js, m) \in Nat /\ Rank(ks, m) \in Nat
        /\ Rank(js, m + 1) = IF m + 1 \in js THEN Rank(js, m) + 1 ELSE Rank(js, m)
        /\ Rank(ks, m + 1) = IF m + 1 \in ks THEN Rank(ks, m) + 1 ELSE Rank(ks, m)
        BY RankStep
  <2> QED BY <2>1, <2>2, <2>3
<1>3. G = Nat
  <2>1. G \in SUBSET Nat
        OBVIOUS
  <2> HIDE DEF G
  <2> QED BY <1>1, <1>2, <2>1, Induction
<1> QED BY <1>3

(* a is a list of N elements.                                               *)
Listed(a, N) == a = [k \in 1..N |-> a[k]]

(* c has the elements of s at the places in js, in their order.             *)
KeptFrom(c, s, js, N) ==
    /\ Listed(c, Rank(js, N))
    /\ \A j \in js : Rank(js, j) \in 1..Rank(js, N) /\ c[Rank(js, j)] = s[j]
    /\ \A n \in 1..Rank(js, N) : \E j \in js : Rank(js, j) = n /\ c[n] = s[j]

(* The element at place j of js is the one of its rank in Kept(s, js), and  *)
(* there are no others.                                                     *)
LEMMA KeptFacts ==
    ASSUME NEW N \in Nat, NEW js \in SUBSET (1..N), NEW s
    PROVE  Cardinality(js) = Rank(js, N) /\ KeptFrom(Kept(s, js), s, js, N)
<1>0. js \in SUBSET (Nat \ {0})
      OBVIOUS
<1>1. Cardinality(js) = Rank(js, N)
  <2>1. \A i \in js : i <= N
        OBVIOUS
  <2>2. {i \in js : i <= N} = js
        BY <2>1
  <2> QED BY <2>2 DEF Rank
<1>2. Kept(s, js) = [n \in 1..Rank(js, N) |->
                        s[CHOOSE j \in js : Rank(js, j) = n]]
      BY <1>1 DEF Kept, Rank
<1>3. \A j \in js : Rank(js, j) \in 1..Rank(js, N)
  <2> TAKE j \in js
  <2>1. j \in Nat /\ j <= N /\ 0 < j /\ 0 \in Nat
        BY <1>0
  <2>2. Rank(js, 0) < Rank(js, j) /\ Rank(js, j) <= Rank(js, N)
        BY <1>0, <2>1, RankMono
  <2>3. Rank(js, 0) = 0 /\ Rank(js, j) \in Nat /\ Rank(js, N) \in Nat
        BY <1>0, <2>1, RankStep
  <2> QED BY <2>2, <2>3
<1>4. \A i \in js, j \in js : Rank(js, i) = Rank(js, j) => i = j
  <2> TAKE i \in js, j \in js
  <2>1. i \in Nat /\ j \in Nat
        BY <1>0
  <2>2. i < j => Rank(js, i) < Rank(js, j)
        BY <1>0, <2>1, RankMono
  <2>3. j < i => Rank(js, j) < Rank(js, i)
        BY <1>0, <2>1, RankMono
  <2>4. Rank(js, i) \in Nat /\ Rank(js, j) \in Nat
        BY <1>0, <2>1, RankStep
  <2> QED BY <2>1, <2>2, <2>3, <2>4
<1>5. \A j \in js : Kept(s, js)[Rank(js, j)] = s[j]
  <2> TAKE j \in js
  <2>1. (CHOOSE i \in js : Rank(js, i) = Rank(js, j)) = j
        BY <1>4
  <2> QED BY <1>2, <1>3, <2>1
<1>6. \A n \in 1..Rank(js, N) : \E j \in js : Rank(js, j) = n /\ Kept(s, js)[n] = s[j]
  <2> TAKE n \in 1..Rank(js, N)
  <2>1. PICK j \in js : Rank(js, j) = n
        BY <1>0, RankOnto
  <2> QED BY <1>5, <2>1
<1>7. Listed(Kept(s, js), Rank(js, N))
      BY <1>2 DEF Listed
<1> QED BY <1>1, <1>3, <1>5, <1>6, <1>7 DEF KeptFrom

-----------------------------------------------------------------------------
(* The roles of the tokens, and how an option is spelled.                   *)

(* The roles a token can have.                                              *)
RoleNames == {"option", "argument", "end", "operand", "behind"}

(* The role a token has when getopt_long comes to it.                       *)
Fresh(x, posixly) ==
    IF x = "--" THEN "end"
    ELSE IF x \notin Words THEN "option"
    ELSE IF posixly THEN "behind" ELSE "operand"

(* Roles is well defined: a token has the role it is fresh in, unless the   *)
(* tokens before it make it an argument or an operand.                      *)
LEMMA RoleFacts ==
    ASSUME NEW line \in Seq(Tokens), NEW posixly
    PROVE  LET role == Roles(line, posixly)
           IN  /\ role \in [1..Len(line) -> RoleNames]
               /\ Len(line) > 0 => role[1] = Fresh(line[1], posixly)
               /\ \A j \in 1..(Len(line) - 1) :
                     role[j + 1] =
                        IF role[j] \in {"end", "behind"} THEN "behind"
                        ELSE IF role[j] = "option" /\ Takes(Meant(line[j]))
                             THEN "argument"
                        ELSE Fresh(line[j + 1], posixly)
<1> DEFINE K == Len(line)
           V == RoleNames \cup {"start"}
           A(n, w) == RoleAfter(w, line, n, posixly)
           F == [n \in 1..K |-> [w \in V |-> A(n, w)]]
           R[j \in 0..Len(line)] ==
               IF j = 0 THEN "start" ELSE RoleAfter(R[j - 1], line, j, posixly)
<1>1. K \in Nat
      OBVIOUS
<1>2. \A n, w : A(n, w) \in RoleNames
      BY DEF RoleAfter, RoleNames
<1>3. \A n \in 1..K, w \in V : F[n][w] = A(n, w) /\ A(n, w) \in V
  <2> HIDE DEF A
  <2> QED BY <1>2
<1> HIDE DEF A, K
<1>4. PICK W : Runs(W, F, K, V, "start")
  <2>1. Closed(F, K, V)
    <3> HIDE DEF F, V
    <3> QED BY <1>3 DEF Closed
  <2>2. "start" \in V
        OBVIOUS
  <2> HIDE DEF F, V
  <2> QED BY <1>1, <2>1, <2>2, Recursion
<1>5. W = [n \in 0..K |-> IF n = 0 THEN "start" ELSE A(n, W[n - 1])]
  <2> HIDE DEF F, V
  <2>1. W \in [0..K -> V] /\ W[0] = "start" /\ \A n \in 1..K : W[n] = F[n][W[n - 1]]
        BY <1>4 DEF Runs
  <2>2. ASSUME NEW n \in 1..K PROVE W[n] = A(n, W[n - 1])
    <3>1. n - 1 \in 0..K
          BY <1>1
    <3>2. W[n - 1] \in V
          BY <2>1, <3>1
    <3> QED BY <1>3, <2>1, <3>2
  <2>3. \A n \in 0..K : n # 0 => n \in 1..K
        BY <1>1
  <2>4. W = [n \in 0..K |-> W[n]]
        BY <2>1
  <2> QED BY <2>1, <2>2, <2>3, <2>4
<1>6. R = [n \in 0..K |-> IF n = 0 THEN "start" ELSE A(n, R[n - 1])]
      BY <1>5 DEF R, A, K
<1> HIDE DEF R
<1>7. \A n \in 0..K : R[n] = IF n = 0 THEN "start" ELSE A(n, R[n - 1])
      BY <1>6
<1>8. Roles(line, posixly) = [j \in 1..K |-> R[j]]
      BY DEF Roles, R, K
<1>9. \A n \in 1..K : R[n] = A(n, R[n - 1]) /\ R[n] \in RoleNames
      BY <1>1, <1>2, <1>7
<1> DEFINE role == Roles(line, posixly)
<1>10. role \in [1..K -> RoleNames] /\ \A n \in 1..K : role[n] = R[n]
      BY <1>8, <1>9
<1> HIDE DEF role
<1>11. K > 0 => role[1] = Fresh(line[1], posixly)
  <2> SUFFICES ASSUME K > 0 PROVE role[1] = Fresh(line[1], posixly)
      OBVIOUS
  <2>1. 1 \in 1..K /\ 1 - 1 = 0 /\ 0 \in 0..K
        BY <1>1
  <2>2. R[0] = "start"
        BY <1>7, <2>1
  <2>3. role[1] = A(1, "start")
        BY <1>9, <1>10, <2>1, <2>2
  <2> QED BY <2>3 DEF A, RoleAfter, Fresh
<1>12. ASSUME NEW j \in 1..(K - 1)
       PROVE  role[j + 1] =
                 IF role[j] \in {"end", "behind"} THEN "behind"
                 ELSE IF role[j] = "option" /\ Takes(Meant(line[j])) THEN "argument"
                 ELSE Fresh(line[j + 1], posixly)
  <2>1. j \in 1..K /\ j + 1 \in 1..K /\ (j + 1) - 1 = j
        BY <1>1
  <2>2. role[j + 1] = A(j + 1, role[j])
        BY <1>9, <1>10, <2>1
  <2>3. A(j + 1, role[j]) = IF role[j] \in {"end", "behind"} THEN "behind"
                 ELSE IF role[j] = "option" /\ Takes(Meant(line[j])) THEN "argument"
                 ELSE Fresh(line[j + 1], posixly)
        BY <2>1 DEF A, RoleAfter, Fresh
  <2> QED BY <2>2, <2>3
<1> QED BY <1>10, <1>11, <1>12 DEF role, K

(* No two entries of the table have the same name or letter.                *)
LEMMA LongOptionsDiffer ==
    /\ DOMAIN LongOptions = 1..8
    /\ \A i \in 1..8, k \in 1..8 :
          /\ LongOptions[i][1] = LongOptions[k][1] => i = k
          /\ LongOptions[i][2] = LongOptions[k][2] => i = k
    /\ \A i \in 1..8 : LongOptions[i][2] \in Letters
    /\ \A o : o \in Range(LongOptions) <=> \E i \in 1..8 : o = LongOptions[i]
    /\ \A x : x \in LongNames <=> \E i \in 1..8 : x = LongOptions[i][1]
<1>1. DOMAIN LongOptions = 1..8
      BY DEF LongOptions
<1>2. /\ LongOptions[1] = <<"help", "-h">>
      /\ LongOptions[2] = <<"version", "-V">>
      /\ LongOptions[3] = <<"providers", "-P">>
      /\ LongOptions[4] = <<"modality", "-m">>
      /\ LongOptions[5] = <<"provider", "-p">>
      /\ LongOptions[6] = <<"output-format", "-f">>
      /\ LongOptions[7] = <<"output", "-o">>
      /\ LongOptions[8] = <<"file-list", "-l">>
      BY DEF LongOptions
<1>3. \A i \in 1..8 : i = 1 \/ i = 2 \/ i = 3 \/ i = 4 \/ i = 5 \/ i = 6 \/ i = 7 \/ i = 8
      OBVIOUS
<1>4. \A i \in 1..8, k \in 1..8 : LongOptions[i][1] = LongOptions[k][1] => i = k
      BY <1>2, <1>3
<1>5. \A i \in 1..8, k \in 1..8 : LongOptions[i][2] = LongOptions[k][2] => i = k
      BY <1>2, <1>3
<1>6. \A i \in 1..8 : LongOptions[i][2] \in Letters
      BY <1>2, <1>3 DEF Letters, WithArgument, WithoutArgument
<1>7. \A o : o \in Range(LongOptions) <=> \E i \in 1..8 : o = LongOptions[i]
      BY <1>1 DEF Range
<1>8. \A x : x \in LongNames <=> \E i \in 1..8 : x = LongOptions[i][1]
      BY <1>7 DEF LongNames
<1> QED BY <1>1, <1>4, <1>5, <1>6, <1>7, <1>8

(* getopt_long takes every option for what getopt(3) says it means.         *)
THEOREM SpelledIsMeant ==
    ASSUME NEW x \in OptionTokens
    PROVE  /\ Spelled(x) = Meant(x)
           /\ Meant(x).letters \in Seq(Letters) \ {<<>>}
           /\ Meant(x).arg \in Words \cup {None}
           /\ \A i \in 1..(Len(Meant(x).letters) - 1) : Meant(x).letters[i] \in WithoutArgument
<1> DEFINE l == Longs[x]
           P(i) == LongOptions[i][1] = l.name \/ (l.name \notin LongNames /\ LongOptions[i][1] \in l.begins)
           M == {i \in 1..8 : P(i)}
           S == {o \in Range(LongOptions) :
                    o[1] = l.name \/ (l.name \notin LongNames /\ o[1] \in l.begins)}
           found == {LongOptions[i][2] : i \in M}
<1>1. CASE x \in DOMAIN Longs
  <2>0. /\ l.begins \subseteq LongNames
        /\ l.name \in LongNames => l.name \in l.begins
        /\ l.arg \in Words \cup {None}
        /\ x \notin DOMAIN Shorts
        BY <1>1, LongsAssumption, TokensAssumption
  <2> HIDE DEF l
  <2>1. Matches(l) = M
    <3>1. CASE l.name \in LongNames
      <4>1. \A i \in 1..8 : LongOptions[i][1] = l.name => i \in Scanned(l)
        <5> TAKE i \in 1..8
        <5> HAVE LongOptions[i][1] = l.name
        <5>1. \A k \in 1..(i - 1) : k \in 1..8 /\ k # i
              OBVIOUS
        <5>2. \A k \in 1..(i - 1) : LongOptions[k][1] # l.name
              BY <5>1, LongOptionsDiffer
        <5> QED BY <2>0, <3>1, <5>2, LongOptionsDiffer DEF Scanned
      <4>2. \A i \in Scanned(l) : i \in 1..8
            BY LongOptionsDiffer DEF Scanned
      <4> QED BY <3>1, <4>1, <4>2 DEF Matches
    <3>2. CASE l.name \notin LongNames
      <4>1. \A i \in 1..8 : \A k \in 1..(i - 1) : LongOptions[k][1] # l.name
        <5> TAKE i \in 1..8
        <5>1. \A k \in 1..(i - 1) : k \in 1..8
              OBVIOUS
        <5> QED BY <3>2, <5>1, LongOptionsDiffer
      <4>2. Scanned(l) = {i \in 1..8 : LongOptions[i][1] \in l.begins}
            BY <4>1, LongOptionsDiffer DEF Scanned
      <4>3. \A i \in 1..8 : LongOptions[i][1] # l.name
            BY <3>2, LongOptionsDiffer
      <4> QED BY <3>2, <4>2, <4>3 DEF Matches
    <3> QED BY <3>1, <3>2
  <2>2. S = {LongOptions[i] : i \in M}
        BY LongOptionsDiffer
  <2>3. Cardinality(found) = 1 <=> \E i \in M : M = {i}
    <3>1. IsFiniteSet(found)
      <4> DEFINE T1 == {"-m"} \cup {"-p"} \cup {"-f"}
                 T2 == T1 \cup {"-o"} \cup {"-l"} \cup {"-h"}
                 T == T2 \cup {"-V"} \cup {"-x"} \cup {"-P"}
      <4>1. IsFiniteSet(T)
        <5>1. \A A, c : IsFiniteSet(A) => IsFiniteSet(A \cup {c})
              BY FS_AddElement
        <5>2. IsFiniteSet(T1)
              BY <5>1, FS_Singleton
        <5>3. IsFiniteSet(T2)
          <6> HIDE DEF T1
          <6> QED BY <5>1, <5>2
        <5> HIDE DEF T2
        <5> QED BY <5>1, <5>3
      <4>2. found \subseteq T
            BY LongOptionsDiffer DEF Letters, WithArgument, WithoutArgument
      <4> HIDE DEF T, found
      <4> QED BY <4>1, <4>2, FS_Subset
    <3>2. Cardinality(found) = 1 <=> \E c : found = {c}
      <4> HIDE DEF found
      <4> QED BY <3>1, FS_Singleton
    <3>3. \A i \in M : M = {i} => found = {LongOptions[i][2]}
          OBVIOUS
    <3>4. \A c : found = {c} => \E i \in M : M = {i}
      <4> TAKE c
      <4> HAVE found = {c}
      <4>1. PICK i \in M : LongOptions[i][2] = c
            OBVIOUS
      <4>2. \A k \in M : LongOptions[k][2] = c
            OBVIOUS
      <4>3. \A k \in M : k = i
            BY <4>1, <4>2, LongOptionsDiffer
      <4> QED BY <4>3
    <3> QED BY <3>2, <3>3, <3>4
  <2>4. (\E o \in S : S = {o}) <=> \E i \in M : M = {i}
    <3>1. \A i \in M : M = {i} => S = {LongOptions[i]}
          BY <2>2
    <3>2. \A o : S = {o} => \E i \in M : M = {i}
      <4> TAKE o
      <4> HAVE S = {o}
      <4>1. PICK i \in M : LongOptions[i] = o
            BY <2>2
      <4>2. \A k \in M : LongOptions[k] = o
            BY <2>2
      <4>3. \A k \in M : k = i
            BY <4>1, <4>2, LongOptionsDiffer
      <4> QED BY <4>3
    <3> HIDE DEF S, M
    <3> QED BY <3>1, <3>2, <2>2
  <2>5. Spelled(x) = [letters |-> <<LongLetter(l)>>, arg |-> l.arg]
        BY <1>1 DEF Spelled, l
  <2> DEFINE ok == (\E o \in S : S = {o} /\ (l.arg # None => o[2] \notin WithoutArgument))
             meant == IF ok THEN <<(CHOOSE o \in S : TRUE)[2]>> ELSE <<"-x">>
  <2>6. Meant(x) = [letters |-> meant, arg |-> l.arg]
        BY <2>0 DEF Meant, l
  <2>7. meant = <<LongLetter(l)>> /\ LongLetter(l) \in Letters
    <3>0. LongLetter(l) =
            IF \/ Cardinality(found) # 1
               \/ found \subseteq WithoutArgument /\ l.arg # None
            THEN "-x"
            ELSE CHOOSE letter \in found : TRUE
          BY <2>1 DEF LongLetter
    <3>1. CASE \E i \in M : M = {i}
      <4>1. PICK i \in M : M = {i}
            BY <3>1
      <4>2. S = {LongOptions[i]} /\ found = {LongOptions[i][2]}
            BY <2>2, <4>1
      <4>3. (CHOOSE o \in S : TRUE) = LongOptions[i]
            BY <4>2
      <4>4. (CHOOSE letter \in found : TRUE) = LongOptions[i][2]
            BY <4>2
      <4>5. Cardinality(found) = 1
            BY <2>3, <3>1
      <4>6. LongOptions[i][2] \in Letters /\ "-x" \in Letters
            BY LongOptionsDiffer DEF Letters, WithoutArgument
      <4>7. ok <=> (l.arg # None => LongOptions[i][2] \notin WithoutArgument)
            BY <4>2
      <4>8. found \subseteq WithoutArgument <=> LongOptions[i][2] \in WithoutArgument
            BY <4>2
      <4> HIDE DEF S, found, M, ok
      <4> QED BY <3>0, <4>3, <4>4, <4>5, <4>6, <4>7, <4>8
    <3>2. CASE ~\E i \in M : M = {i}
      <4>1. Cardinality(found) # 1 /\ ~ok
            BY <2>3, <2>4, <3>2
      <4>2. "-x" \in Letters
            BY DEF Letters, WithoutArgument
      <4> HIDE DEF S, found, M, ok
      <4> QED BY <3>0, <4>1, <4>2
    <3> QED BY <3>1, <3>2
  <2> HIDE DEF meant
  <2>8. Spelled(x) = Meant(x)
        BY <2>5, <2>6, <2>7
  <2>9. Meant(x).letters = <<LongLetter(l)>> /\ Meant(x).arg = l.arg
        BY <2>6, <2>7
  <2> QED BY <2>0, <2>7, <2>8, <2>9
<1>2. CASE x \notin DOMAIN Longs
  <2>1. x \in DOMAIN Shorts
        BY <1>2 DEF OptionTokens
  <2>2. Spelled(x) = Shorts[x] /\ Meant(x) = Shorts[x]
        BY <1>2, <2>1 DEF Spelled, Meant
  <2> QED BY <2>1, <2>2, ShortsAssumption
<1> QED BY <1>1, <1>2

-----------------------------------------------------------------------------
(* How the tokens before the one getopt_long is at are laid out in argv.    *)

(* The tokens of the line before o are in a so that the operands among them *)
(* are together, from t, and the options around them, all in their order.   *)
Lay(a, line, ps, qs, t, o) ==
    /\ \A j \in 1..(o - 1) : j \in ps =>
          a[IF Rank(ps, j) < t THEN Rank(ps, j) ELSE Rank(ps, j) + Rank(qs, o - 1)] = line[j]
    /\ \A j \in 1..(o - 1) : j \in qs => a[(t - 1) + Rank(qs, j)] = line[j]

(* ps and qs divide the places of a list of N elements among them.          *)
Split(ps, qs, N) ==
    /\ ps \in SUBSET (1..N) /\ qs \in SUBSET (1..N)
    /\ ps \cap qs = {} /\ ps \cup qs = 1..N

(* Up to any token, options and operands together are as many as the        *)
(* tokens.                                                                  *)
LEMMA RankPair ==
    ASSUME NEW N \in Nat, NEW ps, NEW qs, Split(ps, qs, N), NEW o \in 1..(N + 1)
    PROVE  /\ Rank(ps, o - 1) \in Nat /\ Rank(qs, o - 1) \in Nat
           /\ Rank(ps, o - 1) + Rank(qs, o - 1) = o - 1
           /\ \A j \in 1..(o - 1) :
                 /\ Rank(ps, j) \in Nat /\ Rank(qs, j) \in Nat
                 /\ Rank(ps, j) + Rank(qs, j) = j
                 /\ Rank(ps, j) <= Rank(ps, o - 1) /\ Rank(qs, j) <= Rank(qs, o - 1)
                 /\ j \in ps => Rank(ps, j) > 0
                 /\ j \in qs => Rank(qs, j) > 0
           /\ o <= N => Rank(ps, o) + Rank(qs, o) = o
           /\ o \in ps => /\ Rank(ps, o) = Rank(ps, o - 1) + 1
                          /\ Rank(qs, o) = Rank(qs, o - 1)
           /\ o \in qs => /\ Rank(qs, o) = Rank(qs, o - 1) + 1
                          /\ Rank(ps, o) = Rank(ps, o - 1)
<1> DEFINE m == o - 1
<1>1. m \in Nat /\ m + 1 = o /\ m \in 0..N
      OBVIOUS
<1> HIDE DEF m
<1>2. ps \in SUBSET (Nat \ {0}) /\ qs \in SUBSET (Nat \ {0})
      BY DEF Split
<1>3. ps \cap qs = {} /\ 1..N \subseteq ps \cup qs
      BY DEF Split
<1>4. \A k \in Nat :
         /\ Rank(ps, 0) = 0 /\ Rank(ps, k) \in Nat
         /\ Rank(ps, k + 1) = IF k + 1 \in ps THEN Rank(ps, k) + 1 ELSE Rank(ps, k)
         /\ Rank(qs, 0) = 0 /\ Rank(qs, k) \in Nat
         /\ Rank(qs, k + 1) = IF k + 1 \in qs THEN Rank(qs, k) + 1 ELSE Rank(qs, k)
      BY <1>2, RankStep
<1>5. \A k \in 0..N : Rank(ps, k) + Rank(qs, k) = k
      BY <1>2, <1>3, RankBoth
<1>6. \A i \in Nat, j \in Nat : i <= j =>
         /\ Rank(ps, i) <= Rank(ps, j) /\ (i < j /\ j \in ps => Rank(ps, i) < Rank(ps, j))
         /\ Rank(qs, i) <= Rank(qs, j) /\ (i < j /\ j \in qs => Rank(qs, i) < Rank(qs, j))
      BY <1>2, RankMono
<1>7. ASSUME NEW j \in 1..m
      PROVE  /\ Rank(ps, j) \in Nat /\ Rank(qs, j) \in Nat
             /\ Rank(ps, j) + Rank(qs, j) = j
             /\ Rank(ps, j) <= Rank(ps, m) /\ Rank(qs, j) <= Rank(qs, m)
             /\ j \in ps => Rank(ps, j) > 0
             /\ j \in qs => Rank(qs, j) > 0
  <2>1. j \in Nat /\ j \in 0..N /\ j <= m /\ 0 < j /\ 0 <= j /\ 0 \in Nat
        BY <1>1
  <2>2. Rank(ps, 0) = 0 /\ Rank(qs, 0) = 0 /\ Rank(ps, j) \in Nat /\ Rank(qs, j) \in Nat
        BY <1>4, <2>1
  <2>3. Rank(ps, j) <= Rank(ps, m) /\ Rank(qs, j) <= Rank(qs, m)
        BY <1>1, <1>6, <2>1
  <2>4. (j \in ps => Rank(ps, 0) < Rank(ps, j)) /\ (j \in qs => Rank(qs, 0) < Rank(qs, j))
        BY <1>6, <2>1
  <2>5. Rank(ps, j) + Rank(qs, j) = j
        BY <1>5, <2>1
  <2> QED BY <2>2, <2>3, <2>4, <2>5
<1>8. /\ Rank(ps, m) \in Nat /\ Rank(qs, m) \in Nat /\ Rank(ps, m) + Rank(qs, m) = m
      /\ o <= N => Rank(ps, o) + Rank(qs, o) = o
  <2>1. o \in 0..(N + 1)
        OBVIOUS
  <2> QED BY <1>1, <1>4, <1>5, <2>1
<1>9. /\ o \in ps => Rank(ps, o) = Rank(ps, m) + 1 /\ Rank(qs, o) = Rank(qs, m)
      /\ o \in qs => Rank(qs, o) = Rank(qs, m) + 1 /\ Rank(ps, o) = Rank(ps, m)
  <2>1. ~(o \in ps /\ o \in qs)
        BY <1>3
  <2>2. /\ Rank(ps, m + 1) = IF m + 1 \in ps THEN Rank(ps, m) + 1 ELSE Rank(ps, m)
        /\ Rank(qs, m + 1) = IF m + 1 \in qs THEN Rank(qs, m) + 1 ELSE Rank(qs, m)
        BY <1>1, <1>4
  <2> QED BY <1>1, <2>1, <2>2
<1> QED BY <1>7, <1>8, <1>9 DEF m

(* An option comes to stand behind the rest.                                *)
LEMMA LayOption ==
    ASSUME NEW N \in Nat, NEW ps, NEW qs, Split(ps, qs, N), NEW o \in ps,
           NEW line, NEW a, NEW t \in 1..(Rank(ps, o - 1) + 1),
           Lay(a, line, ps, qs, t, o), a[o] = line[o]
    PROVE  Lay(a, line, ps, qs, t, o + 1)
<1>1. o \in 1..N /\ o \in 1..(N + 1)
      BY DEF Split
<1>2. /\ Rank(ps, o) = Rank(ps, o - 1) + 1 /\ Rank(qs, o) = Rank(qs, o - 1)
      /\ Rank(ps, o) + Rank(qs, o) = o
      /\ Rank(ps, o - 1) \in Nat /\ Rank(qs, o - 1) \in Nat
      BY <1>1, RankPair
<1>3. o \notin qs /\ (o + 1) - 1 = o /\ \A j \in 1..o : j = o \/ j \in 1..(o - 1)
      BY <1>1 DEF Split
<1>4. ~(Rank(ps, o) < t)
      BY <1>2
<1>5. ASSUME NEW j \in 1..o, j \in ps
      PROVE  a[IF Rank(ps, j) < t THEN Rank(ps, j) ELSE Rank(ps, j) + Rank(qs, o)] = line[j]
  <2>1. CASE j = o
        BY <1>2, <1>4, <2>1
  <2>2. CASE j \in 1..(o - 1)
        BY <1>2, <1>5, <2>2 DEF Lay
  <2> QED BY <1>3, <2>1, <2>2
<1>6. ASSUME NEW j \in 1..o, j \in qs
      PROVE  a[(t - 1) + Rank(qs, j)] = line[j]
      BY <1>3, <1>6 DEF Lay
<1> QED BY <1>3, <1>5, <1>6 DEF Lay

(* An operand comes to stand behind the others, which are at the end.       *)
LEMMA LayOperand ==
    ASSUME NEW N \in Nat, NEW ps, NEW qs, Split(ps, qs, N), NEW o \in qs,
           NEW line, NEW a,
           Lay(a, line, ps, qs, Rank(ps, o - 1) + 1, o), a[o] = line[o]
    PROVE  Lay(a, line, ps, qs, Rank(ps, o) + 1, o + 1)
<1>1. o \in 1..N /\ o \in 1..(N + 1)
      BY DEF Split
<1>2. /\ Rank(qs, o) = Rank(qs, o - 1) + 1 /\ Rank(ps, o) = Rank(ps, o - 1)
      /\ Rank(ps, o) + Rank(qs, o) = o
      /\ Rank(ps, o - 1) \in Nat /\ Rank(qs, o - 1) \in Nat
      /\ \A j \in 1..(o - 1) : Rank(ps, j) \in Nat /\ Rank(ps, j) <= Rank(ps, o - 1)
      BY <1>1, RankPair
<1>3. o \notin ps /\ (o + 1) - 1 = o /\ \A j \in 1..o : j = o \/ j \in 1..(o - 1)
      BY <1>1 DEF Split
<1>5. ASSUME NEW j \in 1..o, j \in ps
      PROVE  /\ Rank(ps, j) < Rank(ps, o) + 1
             /\ a[Rank(ps, j)] = line[j]
  <2>1. j \in 1..(o - 1)
        BY <1>3, <1>5
  <2>2. Rank(ps, j) < Rank(ps, o - 1) + 1
        BY <1>2, <2>1
  <2> QED BY <1>2, <1>5, <2>1, <2>2 DEF Lay
<1>6. ASSUME NEW j \in 1..o, j \in qs
      PROVE  a[((Rank(ps, o) + 1) - 1) + Rank(qs, j)] = line[j]
  <2>1. CASE j = o
    <3>1. ((Rank(ps, o) + 1) - 1) + Rank(qs, j) = o
          BY <1>2, <2>1
    <3> QED BY <2>1, <3>1
  <2>2. CASE j \in 1..(o - 1)
        BY <1>2, <1>6, <2>2 DEF Lay
  <2> QED BY <1>3, <2>1, <2>2
<1> QED BY <1>3, <1>5, <1>6 DEF Lay

(* Where there is no operand yet, their place does not matter.              *)
LEMMA LayNone ==
    ASSUME NEW N \in Nat, NEW ps, NEW qs, Split(ps, qs, N), NEW o \in 1..(N + 1),
           NEW line, NEW a, NEW t \in Nat, NEW u \in Nat, Rank(qs, o - 1) = 0,
           Lay(a, line, ps, qs, t, o)
    PROVE  Lay(a, line, ps, qs, u, o)
<1>1. \A j \in 1..(o - 1) : /\ j \notin qs
                            /\ Rank(ps, j) + Rank(qs, o - 1) = Rank(ps, j)
  <2>1. \A j \in 1..(o - 1) : /\ Rank(qs, j) \in Nat /\ Rank(qs, j) <= Rank(qs, o - 1)
                              /\ j \in qs => Rank(qs, j) > 0
                              /\ Rank(ps, j) \in Nat
        BY RankPair
  <2> QED BY <2>1
<1> QED BY <1>1 DEF Lay

(* b has the elements of a, and from o on it is a.                          *)
Reordered(b, a, N, o) ==
    /\ Listed(b, N)
    /\ \A k \in 1..N : \E i \in 1..N : b[k] = a[i]
    /\ \A k \in o..N : b[k] = a[k]

(* permute_args takes the operands behind the options that follow them.     *)
LEMMA LayPermuted ==
    ASSUME NEW N \in Nat, NEW ps, NEW qs, Split(ps, qs, N), NEW o \in 1..(N + 1),
           NEW line, NEW a, Listed(a, N),
           NEW t \in 1..Rank(ps, o - 1), NEW e \in Nat, e = t + Rank(qs, o - 1),
           Rank(qs, o - 1) > 0,
           Lay(a, line, ps, qs, t, o)
    PROVE  LET b == PermuteArgs(a, t, e, o)
           IN  /\ Reordered(b, a, N, o)
               /\ Lay(b, line, ps, qs, Rank(ps, o - 1) + 1, o)
<1> DEFINE b == PermuteArgs(a, t, e, o)
           m == Rank(ps, o - 1)
           n == Rank(qs, o - 1)
<1>1. /\ m \in Nat /\ n \in Nat /\ m + n = o - 1
      /\ \A j \in 1..(o - 1) :
                 /\ Rank(ps, j) \in Nat /\ Rank(qs, j) \in Nat
                 /\ Rank(ps, j) <= m /\ Rank(qs, j) <= n
                 /\ j \in ps => Rank(ps, j) > 0
                 /\ j \in qs => Rank(qs, j) > 0
      BY RankPair
<1>2. t \in 1..m /\ e = t + n /\ n > 0
      OBVIOUS
<1> HIDE DEF m, n
<1>3. t \in Nat /\ e \in Nat /\ o \in Nat /\ t < e /\ e < o
      BY <1>1, <1>2
<1> HIDE DEF b
<1>4. DOMAIN a = 1..N
      BY DEF Listed
<1>4a. t..(o - 1) \subseteq 1..N
      BY <1>1, <1>2
<1>5. /\ Listed(b, N)
      /\ \A k \in 1..N \ (t..(o - 1)) : b[k] = a[k]
      /\ \A k \in t..((t + (o - e)) - 1) : b[k] = a[k + (e - t)]
      /\ \A k \in (t + (o - e))..(o - 1) : b[k] = a[k - (o - e)]
  <2>1. a = [k \in DOMAIN a |-> a[k]]
        BY <1>4 DEF Listed
  <2>2. t..(o - 1) \subseteq DOMAIN a
        BY <1>4, <1>4a
  <2>3. /\ b = [k \in DOMAIN a |-> b[k]]
        /\ \A k \in DOMAIN a \ (t..(o - 1)) : b[k] = a[k]
        /\ \A k \in t..((t + (o - e)) - 1) : b[k] = a[k + (e - t)]
        /\ \A k \in (t + (o - e))..(o - 1) : b[k] = a[k - (o - e)]
        BY <1>3, <2>1, <2>2, PermuteSwaps DEF b
  <2>4. Listed(b, N)
        BY <1>4, <2>3 DEF Listed
  <2> QED BY <1>4, <2>3, <2>4
<1>6. e - t = n /\ t + (o - e) = m + 1 /\ o - e = (m + 1) - t
      BY <1>1, <1>2
<1>7. \A k \in 1..N : \E i \in 1..N : b[k] = a[i]
  <2> TAKE k \in 1..N
  <2>1. CASE k \in t..((t + (o - e)) - 1)
    <3>1. k + (e - t) \in 1..N
          BY <1>1, <1>2, <1>6, <2>1
    <3> QED BY <1>5, <2>1, <3>1
  <2>2. CASE k \in (t + (o - e))..(o - 1)
    <3>1. k - (o - e) \in 1..N
          BY <1>1, <1>2, <1>6, <2>2
    <3> QED BY <1>5, <2>2, <3>1
  <2>3. CASE k \notin t..(o - 1)
        BY <1>4, <1>5, <2>3
  <2>4. k \in t..(o - 1) => k \in t..((t + (o - e)) - 1) \/ k \in (t + (o - e))..(o - 1)
        BY <1>1, <1>2, <1>6
  <2> QED BY <2>1, <2>2, <2>3, <2>4
<1>9. \A k \in o..N : b[k] = a[k]
  <2> TAKE k \in o..N
  <2>1. k \in 1..N /\ k \notin t..(o - 1)
        BY <1>3
  <2> QED BY <1>4, <1>5, <2>1
<1>10. ASSUME NEW j \in 1..(o - 1), j \in ps
       PROVE  Rank(ps, j) < m + 1 /\ b[Rank(ps, j)] = line[j]
  <2> DEFINE r == Rank(ps, j)
  <2>1. r \in 1..m
        BY <1>1, <1>10
  <2>2. a[IF r < t THEN r ELSE r + n] = line[j]
        BY <1>10 DEF Lay, n
  <2> HIDE DEF r
  <2>3. ASSUME r < t PROVE b[r] = line[j]
    <3>1. r \in 1..N /\ r \notin t..(o - 1)
          BY <1>1, <1>2, <2>1, <2>3
    <3> QED BY <1>5, <2>2, <2>3, <3>1
  <2>4. ASSUME ~(r < t) PROVE b[r] = line[j]
    <3>1. r \in t..((t + (o - e)) - 1) /\ r + (e - t) = r + n
          BY <1>1, <1>2, <1>6, <2>1, <2>4
    <3> QED BY <1>5, <2>2, <2>4, <3>1
  <2>5. r < m + 1
        BY <1>1, <2>1
  <2> QED BY <2>3, <2>4, <2>5 DEF r
<1>11. ASSUME NEW j \in 1..(o - 1), j \in qs
       PROVE  b[((m + 1) - 1) + Rank(qs, j)] = line[j]
  <2> DEFINE r == Rank(qs, j)
  <2>1. r \in 1..n
        BY <1>1, <1>11
  <2>2. a[(t - 1) + r] = line[j]
        BY <1>11 DEF Lay
  <2> HIDE DEF r
  <2>3. ((m + 1) - 1) + r \in (t + (o - e))..(o - 1)
        BY <1>1, <1>6, <2>1
  <2>4. (((m + 1) - 1) + r) - (o - e) = (t - 1) + r
        BY <1>1, <1>2, <1>6, <2>1
  <2>5. b[((m + 1) - 1) + r] = line[j]
        BY <1>5, <2>2, <2>3, <2>4
  <2> QED BY <2>5 DEF r
<1>12. Lay(b, line, ps, qs, m + 1, o)
       BY <1>10, <1>11 DEF Lay
<1>13. Reordered(b, a, N, o)
       BY <1>5, <1>7, <1>9 DEF Reordered
<1> QED BY <1>12, <1>13 DEF b, m

(* The ranks of all tokens before o, in one list and in the other.          *)
Ranked(ps, qs, o) ==
    /\ Rank(ps, o - 1) \in Nat /\ Rank(qs, o - 1) \in Nat
    /\ Rank(ps, o - 1) + Rank(qs, o - 1) = o - 1
    /\ \A j \in 1..(o - 1) :
          /\ Rank(ps, j) \in Nat /\ Rank(qs, j) \in Nat
          /\ Rank(ps, j) + Rank(qs, j) = j
          /\ Rank(ps, j) <= Rank(ps, o - 1)

(* The same, as one fact for all tokens.                                    *)
LEMMA RankedEverywhere ==
    ASSUME NEW N \in Nat, NEW ps, NEW qs, Split(ps, qs, N)
    PROVE  \A o \in 1..(N + 1) : Ranked(ps, qs, o)
<1> TAKE o \in 1..(N + 1)
<1>1. /\ Rank(ps, o - 1) \in Nat /\ Rank(qs, o - 1) \in Nat
      /\ Rank(ps, o - 1) + Rank(qs, o - 1) = o - 1
      BY RankPair
<1>1a. \A j \in 1..(o - 1) : /\ Rank(ps, j) \in Nat /\ Rank(qs, j) \in Nat
                             /\ Rank(ps, j) <= Rank(ps, o - 1)
       BY RankPair
<1>2. \A j \in 0..N : Rank(ps, j) + Rank(qs, j) = j
  <2>1. /\ ps \in SUBSET (Nat \ {0}) /\ qs \in SUBSET (Nat \ {0})
        /\ ps \cap qs = {} /\ 1..N \subseteq ps \cup qs
        BY DEF Split
  <2> QED BY <2>1, RankBoth
<1>3. \A j \in 1..(o - 1) : j \in 0..N
      OBVIOUS
<1> QED BY <1>1, <1>1a, <1>2, <1>3 DEF Ranked

(* The rest is operands, where they were typed.                             *)
Untouched(a, line, qs, o, N) == \A k \in o..N : k \in qs /\ a[k] = line[k]

(* With the operands behind all options, a is the one list and the other.   *)
LEMMA LayEnds ==
    ASSUME NEW N \in Nat, NEW ps, NEW qs, Split(ps, qs, N), NEW o \in 1..(N + 1),
           NEW line, NEW a, Listed(a, N),
           Lay(a, line, ps, qs, Rank(ps, o - 1) + 1, o),
           Untouched(a, line, qs, o, N)
    PROVE  /\ a = Kept(line, ps) \o Kept(line, qs)
           /\ Len(Kept(line, ps)) = Rank(ps, o - 1)
<1> DEFINE M == Rank(ps, N)
           m == Rank(ps, o - 1)
<1>0. ps \in SUBSET (1..N) /\ qs \in SUBSET (1..N) /\ ps \cap qs = {}
      BY DEF Split
<1>0a. \A k \in o..N : k \in qs /\ a[k] = line[k]
       BY DEF Untouched
<1>a. \A k \in 1..(N + 1) : Ranked(ps, qs, k)
      BY RankedEverywhere
<1>b. N + 1 \in 1..(N + 1) /\ (N + 1) - 1 = N
      OBVIOUS
<1>1. \A j \in 1..N : /\ Rank(ps, j) \in Nat /\ Rank(qs, j) \in Nat
                      /\ Rank(ps, j) + Rank(qs, j) = j
                      /\ Rank(ps, j) <= M
      BY <1>a, <1>b DEF Ranked
<1>2. /\ \A j \in 1..(o - 1) : Rank(ps, j) \in Nat /\ Rank(ps, j) <= m
      /\ m \in Nat
      BY <1>a DEF Ranked
<1>3. M + Rank(qs, N) = N /\ M \in Nat /\ Rank(qs, N) \in Nat
      BY <1>a, <1>b DEF Ranked
<1>3a. \A js \in SUBSET (1..N) :
          KeptFrom(Kept(line, js), line, js, N)
       BY KeptFacts
<1>4. /\ Listed(Kept(line, ps), M)
      /\ \A n \in 1..M : \E j \in ps : Rank(ps, j) = n /\ Kept(line, ps)[n] = line[j]
      BY <1>0, <1>3a DEF KeptFrom
<1>5. /\ Listed(Kept(line, qs), Rank(qs, N))
      /\ \A n \in 1..Rank(qs, N) :
            \E j \in qs : Rank(qs, j) = n /\ Kept(line, qs)[n] = line[j]
      BY <1>0, <1>3a DEF KeptFrom
<1>6. \A j \in ps : j \in 1..(o - 1) /\ Rank(ps, j) <= m
  <2> TAKE j \in ps
  <2>1. j \in 1..N /\ j \notin o..N
        BY <1>0, <1>0a
  <2>2. j \in 1..(o - 1)
        BY <2>1
  <2> QED BY <1>2, <2>2
<1>7. \A k \in o..N : k \in 1..N
      OBVIOUS
<1>8. M <= m
  <2>1. CASE M = 0
        BY <1>2, <2>1
  <2>2. CASE M # 0
    <3>1. M \in 1..M
          BY <1>3, <2>2
    <3>2. PICK j \in ps : Rank(ps, j) = M
          BY <1>4, <3>1
    <3> QED BY <1>6, <3>2
  <2> QED BY <2>1, <2>2
<1>9. \A k \in (o - 1)..N : Rank(ps, k) >= m
  <2> TAKE k \in (o - 1)..N
  <2>1. o - 1 \in Nat /\ k \in Nat /\ o - 1 <= k
        OBVIOUS
  <2>2. ps \in SUBSET (Nat \ {0})
        BY <1>0
  <2> HIDE DEF m
  <2>3. Rank(ps, o - 1) <= Rank(ps, k)
        BY <2>1, <2>2, RankMono
  <2>4. Rank(ps, k) \in Nat
        BY <2>1, <2>2, RankStep
  <2> QED BY <1>2, <2>3, <2>4 DEF m
<1>10. M = m
  <2>1. N \in (o - 1)..N
        OBVIOUS
  <2>2. M >= m
        BY <1>9, <2>1
  <2> QED BY <1>2, <1>3, <1>8, <2>2
<1>11. \A k \in o..N : M + Rank(qs, k) = k
  <2> TAKE k \in o..N
  <2>1. k \in 1..N /\ k \in (o - 1)..N
        OBVIOUS
  <2>2. Rank(ps, k) >= m /\ Rank(ps, k) <= M /\ Rank(ps, k) + Rank(qs, k) = k
        BY <1>1, <1>9, <2>1
  <2>3. Rank(ps, k) \in Nat /\ Rank(qs, k) \in Nat
        BY <1>1, <2>1
  <2> HIDE DEF M, m
  <2> QED BY <1>2, <1>3, <1>10, <2>2, <2>3
<1> HIDE DEF M, m
<1>12. \A j \in 1..(o - 1) : j \in ps => a[Rank(ps, j)] = line[j]
  <2> TAKE j \in 1..(o - 1)
  <2> HAVE j \in ps
  <2>1. Rank(ps, j) < m + 1
        BY <1>2
  <2> QED BY <2>1 DEF Lay, m
<1>13. \A j \in 1..(o - 1) : j \in qs => a[M + Rank(qs, j)] = line[j]
  <2>1. (m + 1) - 1 = M
        BY <1>2, <1>10
  <2> QED BY <2>1 DEF Lay, m
<1>14. \A k \in 1..M : a[k] = Kept(line, ps)[k]
  <2> TAKE k \in 1..M
  <2>1. PICK j \in ps : Rank(ps, j) = k /\ Kept(line, ps)[k] = line[j]
        BY <1>4
  <2> QED BY <1>6, <1>12, <2>1
<1>15. \A n \in 1..Rank(qs, N) : a[M + n] = Kept(line, qs)[n]
  <2> TAKE n \in 1..Rank(qs, N)
  <2>1. PICK j \in qs : Rank(qs, j) = n /\ Kept(line, qs)[n] = line[j]
        BY <1>5
  <2>2. CASE j \in 1..(o - 1)
        BY <1>13, <2>1, <2>2
  <2>3. CASE j \notin 1..(o - 1)
    <3>1. j \in o..N
          BY <1>0, <2>3
    <3>2. M + n = j
          BY <1>11, <2>1, <3>1
    <3> QED BY <1>0a, <2>1, <3>1, <3>2
  <2> QED BY <2>2, <2>3
<1> DEFINE f == Kept(line, ps)
           h == Kept(line, qs)
           R == Rank(qs, N)
<1>16. f = [n \in 1..M |-> f[n]] /\ h = [n \in 1..R |-> h[n]]
       BY <1>4, <1>5 DEF Listed
<1>17. (\A k \in 1..M : a[k] = f[k]) /\ \A n \in 1..R : a[M + n] = h[n]
       BY <1>14, <1>15
<1> HIDE DEF f, h, R
<1>18. Len(f) = M /\ Len(h) = R
  <2>1. R \in Nat
        BY <1>3 DEF R
  <2> QED BY <1>3, <1>16, <2>1
<1>19. a = f \o h
  <2> DEFINE c == f \o h
  <2>1. R \in Nat /\ M \in Nat /\ M + R = N
        BY <1>3 DEF R
  <2>2. c = [k \in 1..N |-> IF k <= M THEN f[k] ELSE h[k - M]]
        BY <1>16, <1>18, <2>1
  <2>3. \A k \in 1..N : a[k] = IF k <= M THEN f[k] ELSE h[k - M]
    <3> TAKE k \in 1..N
    <3>1. CASE k <= M
          BY <1>17, <2>1, <3>1
    <3>2. CASE ~(k <= M)
      <4>1. k - M \in 1..R /\ M + (k - M) = k
            BY <2>1, <3>2
      <4>2. a[M + (k - M)] = h[k - M]
            BY <1>17, <4>1
      <4> QED BY <3>2, <4>1, <4>2
    <3> QED BY <3>1, <3>2
  <2>4. a = [k \in 1..N |-> a[k]]
        BY DEF Listed
  <2> HIDE DEF c
  <2>5. a = c
        BY <2>2, <2>3, <2>4
  <2> QED BY <2>5 DEF c
<1> QED BY <1>10, <1>18, <1>19 DEF f, h, m

(* getopt_long has come to token o: the operands are together from s on,    *)
(* and e is the end of them where options follow.                           *)
LaidAt(ps, qs, line, a, o, pl, s, e) ==
    /\ s = -1 => Rank(qs, o - 1) = 0 /\ e = -1
    /\ s # -1 => /\ Rank(qs, o - 1) > 0
                 /\ s \in 1..(Rank(ps, o - 1) + 1)
                 /\ e = -1 => s = Rank(ps, o - 1) + 1
                 /\ e # -1 => /\ e = s + Rank(qs, o - 1)
                              /\ pl = 0 => s <= Rank(ps, o - 1)
    /\ Lay(a, line, ps, qs, IF s = -1 THEN 1 ELSE s, o)

(* Where the operands end when an option follows at o.                      *)
EndOf(o, s, e) == IF s # -1 /\ e = -1 THEN o ELSE e

(* A letter of a token that has more leaves the tokens where they are.      *)
LEMMA LaidWithin ==
    ASSUME NEW N \in Nat, NEW ps, NEW qs, Split(ps, qs, N), NEW o \in 1..N,
           NEW line, NEW a, NEW pl, NEW s, NEW e, NEW pl2, pl2 # 0,
           LaidAt(ps, qs, line, a, o, pl, s, e)
    PROVE  LaidAt(ps, qs, line, a, o, pl2, s, EndOf(o, s, e))
<1>1. /\ Rank(ps, o - 1) \in Nat /\ Rank(qs, o - 1) \in Nat
      /\ Rank(ps, o - 1) + Rank(qs, o - 1) = o - 1
  <2>1. o \in 1..(N + 1)
        OBVIOUS
  <2> QED BY <2>1, RankPair
<1>2. s # -1 /\ e = -1 => o = s + Rank(qs, o - 1)
      BY <1>1 DEF LaidAt
<1> QED BY <1>1, <1>2 DEF LaidAt, EndOf

(* An option or argument that getopt_long is done with stands behind what   *)
(* came before it.                                                          *)
LEMMA LaidOption ==
    ASSUME NEW N \in Nat, NEW ps, NEW qs, Split(ps, qs, N), NEW o \in ps,
           NEW line, NEW a, a[o] = line[o], NEW pl, NEW s, NEW e,
           LaidAt(ps, qs, line, a, o, pl, s, e)
    PROVE  LaidAt(ps, qs, line, a, o + 1, 0, s, EndOf(o, s, e))
<1>0. o \in 1..N /\ o \in 1..(N + 1) /\ (o + 1) - 1 = o
      BY DEF Split
<1>1. /\ Rank(ps, o - 1) \in Nat /\ Rank(qs, o - 1) \in Nat
      /\ Rank(ps, o - 1) + Rank(qs, o - 1) = o - 1
      /\ Rank(ps, o) = Rank(ps, o - 1) + 1 /\ Rank(qs, o) = Rank(qs, o - 1)
      BY <1>0, RankPair
<1>2. (IF s = -1 THEN 1 ELSE s) \in 1..(Rank(ps, o - 1) + 1)
      BY <1>1 DEF LaidAt
<1>3. Lay(a, line, ps, qs, IF s = -1 THEN 1 ELSE s, o + 1)
  <2>1. Lay(a, line, ps, qs, IF s = -1 THEN 1 ELSE s, o)
        BY DEF LaidAt
  <2> QED BY <1>2, <2>1, LayOption
<1>4. s # -1 /\ e = -1 => o = s + Rank(qs, o - 1)
      BY <1>0, <1>1 DEF LaidAt
<1> QED BY <1>0, <1>1, <1>3, <1>4 DEF LaidAt, EndOf

(* The operands before o, put behind the options before o.                  *)
LEMMA LaidStop ==
    ASSUME NEW N \in Nat, NEW ps, NEW qs, Split(ps, qs, N), NEW o \in 1..(N + 1),
           NEW line, NEW a, Listed(a, N), NEW s, NEW e,
           LaidAt(ps, qs, line, a, o, 0, s, e)
    PROVE  LET b == IF e = -1 THEN a ELSE PermuteArgs(a, s, e, o)
           IN  /\ Reordered(b, a, N, o)
               /\ Lay(b, line, ps, qs, Rank(ps, o - 1) + 1, o)
               /\ (IF e # -1 THEN o - (e - s) ELSE IF s # -1 THEN s ELSE o)
                     = Rank(ps, o - 1) + 1
               /\ e # -1 => s # -1
<1>1. /\ Rank(ps, o - 1) \in Nat /\ Rank(qs, o - 1) \in Nat
      /\ Rank(ps, o - 1) + Rank(qs, o - 1) = o - 1
      BY RankPair
<1>2. CASE e # -1
  <2>1. /\ s # -1 /\ Rank(qs, o - 1) > 0
        /\ s \in 1..Rank(ps, o - 1) /\ e = s + Rank(qs, o - 1) /\ e \in Nat
        /\ Lay(a, line, ps, qs, s, o)
        BY <1>1, <1>2 DEF LaidAt
  <2> DEFINE b == PermuteArgs(a, s, e, o)
  <2>2. /\ Reordered(b, a, N, o)
        /\ Lay(b, line, ps, qs, Rank(ps, o - 1) + 1, o)
        BY <2>1, LayPermuted
  <2>3. o - (e - s) = Rank(ps, o - 1) + 1
        BY <1>1, <2>1
  <2> HIDE DEF b
  <2> QED BY <1>2, <2>1, <2>2, <2>3 DEF b
<1>3. CASE e = -1
  <2>1. Lay(a, line, ps, qs, Rank(ps, o - 1) + 1, o)
    <3>1. CASE s = -1
      <4>1. Rank(qs, o - 1) = 0 /\ Lay(a, line, ps, qs, 1, o)
            BY <3>1 DEF LaidAt
      <4>2. 1 \in Nat /\ Rank(ps, o - 1) + 1 \in Nat
            BY <1>1
      <4> QED BY <4>1, <4>2, LayNone
    <3>2. CASE s # -1
          BY <1>3, <3>2 DEF LaidAt
    <3> QED BY <3>1, <3>2
  <2>2. (IF s # -1 THEN s ELSE o) = Rank(ps, o - 1) + 1
        BY <1>1, <1>3 DEF LaidAt
  <2>3. Reordered(a, a, N, o)
        BY DEF Reordered
  <2> QED BY <1>3, <2>1, <2>2, <2>3
<1> QED BY <1>2, <1>3

(* So does an operand that it skips: permute_args has put the others before *)
(* it.                                                                      *)
LEMMA LaidOperand ==
    ASSUME NEW N \in Nat, NEW ps, NEW qs, Split(ps, qs, N), NEW o \in qs,
           NEW line, NEW a, Listed(a, N), a[o] = line[o], NEW s, NEW e,
           LaidAt(ps, qs, line, a, o, 0, s, e)
    PROVE  LET b == IF e # -1 THEN PermuteArgs(a, s, e, o) ELSE a
               start == IF e # -1 THEN o - (e - s) ELSE IF s = -1 THEN o ELSE s
           IN  /\ Reordered(b, a, N, o)
               /\ LaidAt(ps, qs, line, b, o + 1, 0, start, -1)
<1> DEFINE b == IF e # -1 THEN PermuteArgs(a, s, e, o) ELSE a
           start == IF e # -1 THEN o - (e - s) ELSE IF s = -1 THEN o ELSE s
<1>0. o \in 1..N /\ o \in 1..(N + 1) /\ (o + 1) - 1 = o /\ o \in o..N
      BY DEF Split
<1>1. /\ Rank(ps, o - 1) \in Nat /\ Rank(qs, o - 1) \in Nat
      /\ Rank(ps, o) = Rank(ps, o - 1) /\ Rank(qs, o) = Rank(qs, o - 1) + 1
      BY <1>0, RankPair
<1>2. b = IF e = -1 THEN a ELSE PermuteArgs(a, s, e, o)
      OBVIOUS
<1>3. /\ Reordered(b, a, N, o)
      /\ Lay(b, line, ps, qs, Rank(ps, o - 1) + 1, o)
      /\ start = Rank(ps, o - 1) + 1
  <2> HIDE DEF b
  <2> QED BY <1>0, <1>2, LaidStop DEF start
<1> HIDE DEF b, start
<1>4. b[o] = line[o]
      BY <1>0, <1>3 DEF Reordered
<1>5. Lay(b, line, ps, qs, Rank(ps, o) + 1, o + 1)
      BY <1>3, <1>4, LayOperand
<1>6. LaidAt(ps, qs, line, b, o + 1, 0, start, -1)
      BY <1>0, <1>1, <1>3, <1>5 DEF LaidAt
<1> QED BY <1>3, <1>6 DEF b, start

(* Where the options and the operands of a line are.                        *)
OptionPlaces(line, px) == Places(Roles(line, px), OptionRoles)
OperandPlaces(line, px) == Places(Roles(line, px), OperandRoles)

(* A token belongs to the options or to the operands.                       *)
LEMMA PlacesSplit ==
    ASSUME NEW line \in Seq(Tokens), NEW px
    PROVE  /\ Split(OptionPlaces(line, px), OperandPlaces(line, px), Len(line))
           /\ \A j \in 1..Len(line) :
                 /\ j \in OptionPlaces(line, px) <=> Roles(line, px)[j] \in OptionRoles
                 /\ j \in OperandPlaces(line, px) <=> Roles(line, px)[j] \in OperandRoles
<1>1. Roles(line, px) \in [1..Len(line) -> RoleNames]
      BY RoleFacts
<1>2. \A r \in RoleNames : /\ r \in OptionRoles \/ r \in OperandRoles
                           /\ ~(r \in OptionRoles /\ r \in OperandRoles)
      BY DEF RoleNames, OptionRoles, OperandRoles
<1> DEFINE role == Roles(line, px)
<1>3. DOMAIN role = 1..Len(line) /\ \A j \in 1..Len(line) : role[j] \in RoleNames
      BY <1>1
<1> HIDE DEF role
<1>4. /\ Places(role, OptionRoles) = {j \in 1..Len(line) : role[j] \in OptionRoles}
      /\ Places(role, OperandRoles) = {j \in 1..Len(line) : role[j] \in OperandRoles}
      BY <1>3 DEF Places
<1> QED BY <1>2, <1>3, <1>4 DEF OptionPlaces, OperandPlaces, Split, role

(* Nothing is an option any more.                                           *)
LEMMA BehindStays ==
    ASSUME NEW line \in Seq(Tokens), NEW px, NEW o \in 1..Len(line),
           Roles(line, px)[o] \in {"end", "behind"}
    PROVE  \A k \in (o + 1)..Len(line) : Roles(line, px)[k] = "behind"
<1> DEFINE role == Roles(line, px)
           N == Len(line)
           S == {n \in Nat : o + n <= N => role[o + n] \in {"end", "behind"}}
<1>0. N \in Nat /\ o \in 1..N /\ role[o] \in {"end", "behind"}
      OBVIOUS
<1>1. \A j \in 1..(N - 1) : role[j] \in {"end", "behind"} => role[j + 1] = "behind"
      BY RoleFacts
<1> HIDE DEF role, N
<1>2. 0 \in S
      BY <1>0
<1>3. ASSUME NEW n \in Nat, n \in S PROVE n + 1 \in S
  <2> SUFFICES ASSUME o + (n + 1) <= N PROVE role[o + (n + 1)] \in {"end", "behind"}
      OBVIOUS
  <2>1. o + n \in 1..(N - 1) /\ o + (n + 1) = (o + n) + 1 /\ o + n <= N
        BY <1>0
  <2>2. role[o + n] \in {"end", "behind"}
        BY <1>3, <2>1
  <2> QED BY <1>1, <2>1, <2>2
<1>4. S = Nat
  <2>1. S \in SUBSET Nat
        OBVIOUS
  <2> HIDE DEF S
  <2> QED BY <1>2, <1>3, <2>1, Induction
<1>5. ASSUME NEW k \in (o + 1)..N PROVE role[k] = "behind"
  <2> DEFINE n == (k - 1) - o
  <2>1. n \in Nat /\ o + n = k - 1 /\ k - 1 \in 1..(N - 1) /\ (k - 1) + 1 = k
        BY <1>0
  <2>2. n \in S
        BY <1>4, <2>1
  <2>3. role[k - 1] \in {"end", "behind"}
        BY <1>0, <2>1, <2>2
  <2> QED BY <1>1, <2>1, <2>3
<1> QED BY <1>5 DEF role, N

(* The roles of the tokens getopt_long comes to next.                       *)
LEMMA NextRoles ==
    ASSUME NEW line \in Seq(Tokens), NEW px, NEW o \in 1..Len(line),
           Roles(line, px)[o] = Fresh(line[o], px)
    PROVE  LET role == Roles(line, px)
               N == Len(line)
           IN  /\ line[o] \in Words /\ ~px =>
                     /\ role[o] = "operand"
                     /\ o < N => role[o + 1] = Fresh(line[o + 1], px)
               /\ line[o] \notin Words \cup {"--"} =>
                     /\ role[o] = "option"
                     /\ o < N /\ ~Takes(Meant(line[o])) =>
                           role[o + 1] = Fresh(line[o + 1], px)
                     /\ o < N /\ Takes(Meant(line[o])) =>
                           /\ role[o + 1] = "argument"
                           /\ o + 1 < N => role[o + 2] = Fresh(line[o + 2], px)
               /\ line[o] = "--" =>
                     role[o] = "end" /\ \A k \in (o + 1)..N : role[k] = "behind"
               /\ line[o] \in Words /\ px => \A k \in o..N : role[k] = "behind"
<1> DEFINE role == Roles(line, px)
           N == Len(line)
<1>1. /\ N \in Nat /\ o \in 1..N
      /\ \A j \in 1..(N - 1) :
            role[j + 1] = IF role[j] \in {"end", "behind"} THEN "behind"
                          ELSE IF role[j] = "option" /\ Takes(Meant(line[j]))
                               THEN "argument"
                          ELSE Fresh(line[j + 1], px)
      BY RoleFacts
<1>2. role[o] = Fresh(line[o], px)
      OBVIOUS
<1>3. role[o] \in {"end", "behind"} => \A k \in (o + 1)..N : role[k] = "behind"
      BY BehindStays
<1>4. Words \cap {"--"} = {}
      BY TokensAssumption
<1> HIDE DEF role, N
<1>5. o < N => o \in 1..(N - 1)
      BY <1>1
<1>6. ASSUME line[o] \in Words, ~px
      PROVE  /\ role[o] = "operand"
             /\ o < N => role[o + 1] = Fresh(line[o + 1], px)
  <2>1. role[o] = "operand"
        BY <1>2, <1>4, <1>6 DEF Fresh
  <2> QED BY <1>1, <1>5, <2>1
<1>7. ASSUME line[o] \notin Words \cup {"--"}
      PROVE  /\ role[o] = "option"
             /\ o < N /\ ~Takes(Meant(line[o])) => role[o + 1] = Fresh(line[o + 1], px)
             /\ o < N /\ Takes(Meant(line[o])) =>
                   /\ role[o + 1] = "argument"
                   /\ o + 1 < N => role[o + 2] = Fresh(line[o + 2], px)
  <2>1. role[o] = "option"
        BY <1>2, <1>7 DEF Fresh
  <2>2. o < N /\ ~Takes(Meant(line[o])) => role[o + 1] = Fresh(line[o + 1], px)
        BY <1>1, <1>5, <2>1
  <2>3. o < N /\ Takes(Meant(line[o])) => role[o + 1] = "argument"
        BY <1>1, <1>5, <2>1
  <2>4. o + 1 < N => o + 1 \in 1..(N - 1) /\ (o + 1) + 1 = o + 2
        BY <1>1
  <2>5. role[o + 1] = "argument" /\ o + 1 < N => role[o + 2] = Fresh(line[o + 2], px)
        BY <1>1, <2>4
  <2> QED BY <2>1, <2>2, <2>3, <2>5
<1>8. ASSUME line[o] = "--"
      PROVE  role[o] = "end" /\ \A k \in (o + 1)..N : role[k] = "behind"
      BY <1>2, <1>3, <1>8 DEF Fresh
<1>9. ASSUME line[o] \in Words, px PROVE \A k \in o..N : role[k] = "behind"
  <2>1. role[o] = "behind"
        BY <1>2, <1>4, <1>9 DEF Fresh
  <2>2. \A k \in o..N : k = o \/ k \in (o + 1)..N
        BY <1>1
  <2> QED BY <1>3, <2>1, <2>2
<1> QED BY <1>6, <1>7, <1>8, <1>9 DEF role, N

-----------------------------------------------------------------------------
(* The line while it is scanned, and after.                                 *)

(* getopt_long is at the first letter of token o, or has returned pl of its *)
(* letters; the tokens from o on are where they were typed.                 *)
At(line, px, a, o, pl) ==
    /\ Listed(a, Len(line))
    /\ \A k \in 1..Len(line) : a[k] \in Tokens
    /\ o \in 1..(Len(line) + 1)
    /\ \A k \in o..Len(line) : a[k] = line[k]
    /\ o <= Len(line) => Roles(line, px)[o] = Fresh(line[o], px)
    /\ pl \in Nat
    /\ pl # 0 => /\ o <= Len(line)
                 /\ line[o] \notin Words \cup {"--"}
                 /\ pl < Len(Meant(line[o]).letters)

(* getopt_long is in the middle of the line, and what it is done with is    *)
(* laid out; under POSIXLY_CORRECT it skips no operand.                     *)
Scans(line, px, a, o, pl, s, e) ==
    /\ At(line, px, a, o, pl)
    /\ px => s = -1
    /\ LaidAt(OptionPlaces(line, px), OperandPlaces(line, px), line, a, o, pl, s, e)

Scanning == Scans(given, posixly_correct, argv, optind, place, nonopt_start, nonopt_end)

(* What the actions of Getopt see of a line that is scanned.                *)
LEMMA HereFacts ==
    ASSUME given \in Argvs, Scanning
    PROVE  /\ given \in Seq(Tokens) /\ Len(given) \in Nat
           /\ argv \in Seq(Tokens) /\ Len(argv) = Len(given)
           /\ optind \in 1..(Len(given) + 1)
           /\ More => /\ optind \in 1..Len(given) /\ Here = given[optind]
                      /\ Here \in Tokens
           /\ ~More => optind = Len(given) + 1
           /\ \A k \in optind..Len(given) : argv[k] = given[k]
           /\ AtEnd <=> optind = Len(given)
<1>1. given \in Seq(Tokens) /\ Len(given) \in Nat
      BY ArgvsAssumption
<1>2. At(given, posixly_correct, argv, optind, place)
      BY DEF Scanning, Scans
<1>3. argv = [k \in 1..Len(given) |-> argv[k]] /\ \A k \in 1..Len(given) : argv[k] \in Tokens
      BY <1>2 DEF At, Listed
<1>4. argv \in Seq(Tokens) /\ Len(argv) = Len(given)
  <2> DEFINE N == Len(given)
             f == [k \in 1..N |-> argv[k]]
  <2>1. N \in Nat
        BY <1>1
  <2>2. \A k \in 1..N : argv[k] \in Tokens
        BY <1>3
  <2>3. argv = f
        BY <1>3
  <2> HIDE DEF N
  <2>4. f \in Seq(Tokens) /\ Len(f) = N
        BY <2>1, <2>2
  <2> HIDE DEF f
  <2> QED BY <2>3, <2>4 DEF N
<1>5. optind \in 1..(Len(given) + 1) /\ \A k \in optind..Len(given) : argv[k] = given[k]
      BY <1>2 DEF At
<1> DEFINE N == Len(given)
<1>6. N \in Nat /\ Len(argv) = N /\ optind \in 1..(N + 1) /\ \A k \in 1..N : argv[k] \in Tokens
      BY <1>1, <1>3, <1>4, <1>5
<1>7. \A k \in optind..N : argv[k] = given[k]
      BY <1>5
<1> HIDE DEF N
<1>8. More => optind \in 1..N /\ Here = given[optind] /\ Here \in Tokens
      BY <1>6, <1>7 DEF More, Here
<1>9. (~More => optind = N + 1) /\ (AtEnd <=> optind = N)
      BY <1>6 DEF More, AtEnd
<1> QED BY <1>1, <1>4, <1>5, <1>8, <1>9 DEF N

(* What the actions of Getopt see of an option.                             *)
LEMMA OptionFacts ==
    ASSUME given \in Argvs, Scanning, IsOption
    PROVE  /\ optind \in 1..Len(given) /\ Here = given[optind]
           /\ Here \in OptionTokens /\ Here \notin Words \cup {"--"}
           /\ Spelled(Here) = Meant(Here)
           /\ Meant(Here).letters \in Seq(Letters) \ {<<>>}
           /\ place \in Nat /\ place + 1 \in 1..Len(Meant(Here).letters)
           /\ Letter = Meant(Here).letters[place + 1]
           /\ LastLetter <=> place + 1 = Len(Meant(Here).letters)
           /\ Separate <=> LastLetter /\ Takes(Meant(Here))
           /\ Roles(given, posixly_correct)[optind] = "option"
<1>1. /\ optind \in 1..Len(given) /\ Here = given[optind] /\ Here \in Tokens
      /\ given \in Seq(Tokens)
      BY HereFacts DEF IsOption
<1>2. Here \notin Words \cup {"--"}
      BY DEF IsOption
<1>3. Here \in OptionTokens
      BY <1>1, <1>2 DEF Tokens
<1>4. /\ Spelled(Here) = Meant(Here) /\ Meant(Here).letters \in Seq(Letters) \ {<<>>}
      BY <1>3, SpelledIsMeant
<1>5. /\ place \in Nat
      /\ place # 0 => place < Len(Meant(Here).letters)
      BY <1>1 DEF Scanning, Scans, At
<1>6. place + 1 \in 1..Len(Meant(Here).letters)
  <2> DEFINE w == Meant(Here).letters
  <2>1. w \in Seq(Letters) /\ w # <<>>
        BY <1>4
  <2>2. place \in Nat /\ (place # 0 => place < Len(w))
        BY <1>5
  <2> HIDE DEF w
  <2>3. Len(w) \in Nat /\ Len(w) # 0
        BY <2>1
  <2>4. place + 1 \in 1..Len(w)
        BY <1>5, <2>2, <2>3
  <2> QED BY <2>4 DEF w
<1>7. Roles(given, posixly_correct)[optind] = "option"
  <2>1. Roles(given, posixly_correct)[optind] = Fresh(given[optind], posixly_correct)
        BY <1>1 DEF Scanning, Scans, At
  <2> QED BY <1>1, <1>2, <2>1 DEF Fresh
<1>8. Letter = Meant(Here).letters[place + 1]
      BY <1>4 DEF Letter
<1>9. LastLetter <=> place + 1 = Len(Meant(Here).letters)
      BY <1>4 DEF LastLetter
<1>10. Separate <=> LastLetter /\ Takes(Meant(Here))
       BY <1>4 DEF Separate
<1> QED BY <1>1, <1>2, <1>3, <1>4, <1>5, <1>6, <1>7, <1>8, <1>9, <1>10

(* OperandsEnd is EndOf, of the variables.                                  *)
LEMMA OperandsEndIs ==
    OperandsEnd = EndOf(optind, nonopt_start, nonopt_end)
BY DEF OperandsEnd, EndOf

(* Skipping an operand keeps the tokens laid out.                           *)
LEMMA SkipScans ==
    ASSUME given \in Argvs, Scanning, SkipOperand
    PROVE  Scanning'
<1> DEFINE line == given
           px == posixly_correct
           N == Len(line)
           ps == OptionPlaces(line, px)
           qs == OperandPlaces(line, px)
           o == optind
           role == Roles(line, px)
<1>1. /\ line \in Seq(Tokens) /\ N \in Nat /\ o \in 1..N
      /\ argv[o] = line[o] /\ line[o] \in Words /\ ~px
      BY HereFacts DEF SkipOperand, Here
<1>2. At(line, px, argv, o, place)
      /\ LaidAt(ps, qs, line, argv, o, place, nonopt_start, nonopt_end)
      BY DEF Scanning, Scans
<1>3. place = 0
      BY <1>1, <1>2 DEF At
<1>4. role[o] = "operand" /\ (o < N => role[o + 1] = Fresh(line[o + 1], px))
  <2>1. role[o] = Fresh(line[o], px)
        BY <1>1, <1>2 DEF At
  <2> QED BY <1>1, <2>1, NextRoles
<1>5. Split(ps, qs, N) /\ o \in qs
  <2>1. \A j \in 1..N : j \in qs <=> role[j] \in OperandRoles
        BY <1>1, PlacesSplit
  <2> QED BY <1>1, <1>4, <2>1, PlacesSplit DEF OperandRoles
<1> DEFINE b == IF nonopt_end # -1
                THEN PermuteArgs(argv, nonopt_start, nonopt_end, o) ELSE argv
           start == IF nonopt_end # -1 THEN o - (nonopt_end - nonopt_start)
                    ELSE IF nonopt_start = -1 THEN o ELSE nonopt_start
<1>6. /\ argv' = b /\ nonopt_start' = start /\ nonopt_end' = -1
      /\ optind' = o + 1 /\ place' = 0
      /\ given' = line /\ posixly_correct' = px
      BY <1>3 DEF SkipOperand
<1>7. /\ Reordered(b, argv, N, o)
      /\ LaidAt(ps, qs, line, b, o + 1, 0, start, -1)
  <2>1. Listed(argv, N)
        BY <1>2 DEF At
  <2>2. LaidAt(ps, qs, line, argv, o, 0, nonopt_start, nonopt_end)
        BY <1>2, <1>3
  <2>3. N \in Nat /\ argv[o] = line[o]
        BY <1>1
  <2> HIDE DEF ps, qs, N, line
  <2> QED BY <1>5, <2>1, <2>2, <2>3, LaidOperand
<1> HIDE DEF b, start
<1>8. At(line, px, b, o + 1, 0)
  <2>1. \A k \in 1..N : b[k] \in Tokens
    <3> TAKE k \in 1..N
    <3>1. PICK i \in 1..N : b[k] = argv[i]
          BY <1>7 DEF Reordered
    <3> QED BY <1>2, <3>1 DEF At
  <2>2. \A k \in (o + 1)..N : b[k] = line[k]
    <3> TAKE k \in (o + 1)..N
    <3>1. k \in o..N
          BY <1>1
    <3> QED BY <1>2, <1>7, <3>1 DEF At, Reordered
  <2>3. Listed(b, N)
        BY <1>7 DEF Reordered
  <2>4. o + 1 \in 1..(N + 1) /\ (o + 1 <= N => o < N) /\ 0 \in Nat
        BY <1>1
  <2> QED BY <1>4, <2>1, <2>2, <2>3, <2>4 DEF At
<1>9. Scans(line, px, b, o + 1, 0, start, -1)
      BY <1>1, <1>7, <1>8 DEF Scans
<1> QED BY <1>6, <1>9 DEF Scanning

(* n tokens are done with the last letter of one.                           *)
LEMMA OptionScans ==
    ASSUME given \in Argvs, Scanning, IsOption,
           NEW n, n = IF Separate /\ ~AtEnd THEN 2 ELSE 1, OptionOf(n)
    PROVE  Scanning'
<1> DEFINE line == given
           px == posixly_correct
           N == Len(line)
           ps == OptionPlaces(line, px)
           qs == OperandPlaces(line, px)
           o == optind
           role == Roles(line, px)
           s == nonopt_start
           e == nonopt_end
<1>1. /\ line \in Seq(Tokens) /\ N \in Nat /\ o \in 1..N /\ argv[o] = line[o]
      /\ \A k \in o..N : argv[k] = line[k]
      /\ AtEnd <=> o = N
  <2>1. More
        BY DEF IsOption
  <2> QED BY <2>1, HereFacts DEF Here
<1>2. /\ At(line, px, argv, o, place)
      /\ LaidAt(ps, qs, line, argv, o, place, s, e)
      /\ px => s = -1
      BY DEF Scanning, Scans
<1>3. /\ Here = line[o] /\ line[o] \notin Words \cup {"--"} /\ place \in Nat
      /\ place + 1 \in 1..Len(Meant(line[o]).letters)
      /\ LastLetter <=> place + 1 = Len(Meant(line[o]).letters)
      /\ Separate <=> LastLetter /\ Takes(Meant(line[o]))
      /\ role[o] = "option"
      BY OptionFacts
<1>4. /\ o < N /\ ~Takes(Meant(line[o])) => role[o + 1] = Fresh(line[o + 1], px)
      /\ o < N /\ Takes(Meant(line[o])) =>
            /\ role[o + 1] = "argument"
            /\ o + 1 < N => role[o + 2] = Fresh(line[o + 2], px)
  <2>1. role[o] = Fresh(line[o], px)
        BY <1>1, <1>2 DEF At
  <2> QED BY <1>1, <1>3, <2>1, NextRoles
<1>5. /\ Split(ps, qs, N)
      /\ \A j \in 1..N : j \in ps <=> role[j] \in OptionRoles
      BY <1>1, PlacesSplit
<1>6. /\ argv' = argv /\ given' = line /\ posixly_correct' = px
      /\ nonopt_start' = s /\ nonopt_end' = EndOf(o, s, e)
      BY OperandsEndIs DEF OptionOf
<1>7. Listed(argv, N) /\ \A k \in 1..N : argv[k] \in Tokens
      BY <1>2 DEF At
<1> HIDE DEF line, px, N, ps, qs, o, role, s, e
<1>8. CASE ~LastLetter
  <2> DEFINE p == place + 1
  <2>1. optind' = o /\ place' = p
        BY <1>8 DEF OptionOf, o
  <2>2. p # 0 /\ p \in Nat /\ p < Len(Meant(line[o]).letters)
        BY <1>3, <1>8
  <2>3. At(line, px, argv, o, p)
        BY <1>1, <1>2, <1>3, <2>2 DEF At, N
  <2> HIDE DEF p
  <2>4. LaidAt(ps, qs, line, argv, o, p, s, EndOf(o, s, e))
        BY <1>1, <1>2, <1>5, <2>2, LaidWithin
  <2>5. Scans(line, px, argv, o, p, s, EndOf(o, s, e))
        BY <1>2, <2>3, <2>4 DEF Scans, ps, qs
  <2> QED BY <1>6, <2>1, <2>5 DEF Scanning
<1>9. LastLetter => optind' = o + n /\ place' = 0
      BY DEF OptionOf, o
<1>10. LaidAt(ps, qs, line, argv, o + 1, 0, s, EndOf(o, s, e))
  <2>1. o \in ps
        BY <1>1, <1>3, <1>5 DEF OptionRoles
  <2> QED BY <1>1, <1>2, <1>5, <2>1, LaidOption
<1>11. CASE LastLetter /\ ~(Separate /\ ~AtEnd)
  <2>1. n = 1
        BY <1>11
  <2>2. optind' = o + 1 /\ place' = 0
        BY <1>9, <1>11, <2>1
  <2>3. o + 1 <= N => role[o + 1] = Fresh(line[o + 1], px)
    <3>1. o + 1 <= N => o < N /\ o # N
          BY <1>1
    <3> QED BY <1>1, <1>3, <1>4, <1>11, <3>1
  <2>4. o + 1 \in 1..(N + 1) /\ 0 \in Nat /\ \A k \in (o + 1)..N : k \in o..N
        BY <1>1
  <2>5. At(line, px, argv, o + 1, 0)
        BY <1>1, <1>7, <2>3, <2>4 DEF At, N, role
  <2>6. Scans(line, px, argv, o + 1, 0, s, EndOf(o, s, e))
        BY <1>2, <1>10, <2>5 DEF Scans, ps, qs
  <2> QED BY <1>6, <2>2, <2>6 DEF Scanning
<1>12. CASE LastLetter /\ Separate /\ ~AtEnd
  <2>1. n = 2 /\ o < N /\ o + 1 \in 1..N
        BY <1>1, <1>12
  <2>2. optind' = o + 2 /\ place' = 0
        BY <1>9, <1>12, <2>1
  <2>3. role[o + 1] = "argument" /\ (o + 1 < N => role[o + 2] = Fresh(line[o + 2], px))
        BY <1>3, <1>4, <1>12, <2>1
  <2> DEFINE i == o + 1
             f == EndOf(o, s, e)
  <2>4. i + 1 = o + 2 /\ EndOf(i, s, f) = f
    <3>1. i + 1 = o + 2 /\ o # -1
          BY <1>1
    <3>2. s # -1 => f # -1
          BY <3>1 DEF EndOf
    <3> HIDE DEF f
    <3> QED BY <3>1, <3>2 DEF EndOf
  <2>5. i \in ps /\ argv[i] = line[i]
        BY <1>1, <1>5, <2>1, <2>3 DEF OptionRoles
  <2>6. LaidAt(ps, qs, line, argv, i, 0, s, f)
        BY <1>10
  <2>7. LaidAt(ps, qs, line, argv, i + 1, 0, s, f)
    <3> HIDE DEF i, f
    <3> QED BY <1>1, <1>5, <2>4, <2>5, <2>6, LaidOption
  <2>8. /\ o + 2 \in 1..(N + 1) /\ 0 \in Nat /\ \A k \in (o + 2)..N : k \in o..N
        /\ o + 2 <= N => o + 1 < N
        BY <1>1, <2>1
  <2>9. At(line, px, argv, o + 2, 0)
        BY <1>1, <1>7, <2>3, <2>8 DEF At, N, role
  <2>10. LaidAt(ps, qs, line, argv, o + 2, 0, s, EndOf(o, s, e))
         BY <2>4, <2>7
  <2>11. Scans(line, px, argv, o + 2, 0, s, EndOf(o, s, e))
         BY <1>2, <2>9, <2>10 DEF Scans, ps, qs
  <2> QED BY <1>6, <2>2, <2>11 DEF Scanning
<1> QED BY <1>8, <1>11, <1>12

(* Arranged, of any line, argv and optind.                                  *)
ArrangedAs(line, px, a, o) ==
    LET first == Kept(line, OptionPlaces(line, px))
    IN  a = first \o Kept(line, OperandPlaces(line, px)) /\ o = Len(first) + 1

(* Arranged, now and in the next state, said of its variables.              *)
LEMMA ArrangedIs ==
    /\ Arranged <=> ArrangedAs(given, posixly_correct, argv, optind)
    /\ Arranged' <=> ArrangedAs(given', posixly_correct', argv', optind')
BY DEF Arranged, ArrangedAs, Operands, NoOperands, Role, OptionPlaces, OperandPlaces

(* Where everything from o on is an operand, getopt_long can stop.          *)
LEMMA StoppedAt ==
    ASSUME NEW line \in Seq(Tokens), NEW px, NEW o \in 1..(Len(line) + 1),
           NEW a, NEW s, NEW e, Listed(a, Len(line)),
           \A k \in o..Len(line) : a[k] = line[k] /\ Roles(line, px)[k] = "behind",
           LaidAt(OptionPlaces(line, px), OperandPlaces(line, px), line, a, o, 0, s, e)
    PROVE  ArrangedAs(line, px, IF e = -1 THEN a ELSE PermuteArgs(a, s, e, o),
                      IF e # -1 THEN o - (e - s) ELSE IF s # -1 THEN s ELSE o)
<1> DEFINE N == Len(line)
           ps == OptionPlaces(line, px)
           qs == OperandPlaces(line, px)
           b == IF e = -1 THEN a ELSE PermuteArgs(a, s, e, o)
           i == IF e # -1 THEN o - (e - s) ELSE IF s # -1 THEN s ELSE o
<1>1. N \in Nat
      OBVIOUS
<1>2. /\ Split(ps, qs, N)
      /\ \A j \in 1..N : j \in qs <=> Roles(line, px)[j] \in OperandRoles
      BY PlacesSplit
<1>3. \A k \in o..N : k \in qs /\ a[k] = line[k]
  <2> TAKE k \in o..N
  <2>1. k \in 1..N
        BY <1>1
  <2>2. a[k] = line[k] /\ Roles(line, px)[k] = "behind"
        OBVIOUS
  <2> QED BY <1>2, <2>1, <2>2 DEF OperandRoles
<1>4. LaidAt(ps, qs, line, a, o, 0, s, e) /\ Listed(a, N) /\ o \in 1..(N + 1)
      OBVIOUS
<1> HIDE DEF N, ps, qs
<1>5. /\ Reordered(b, a, N, o)
      /\ Lay(b, line, ps, qs, Rank(ps, o - 1) + 1, o)
      /\ i = Rank(ps, o - 1) + 1
      BY <1>1, <1>2, <1>4, LaidStop
<1> HIDE DEF b, i
<1>6. Listed(b, N) /\ Untouched(b, line, qs, o, N)
      BY <1>3, <1>5 DEF Reordered, Untouched
<1>7. /\ b = Kept(line, ps) \o Kept(line, qs)
      /\ Len(Kept(line, ps)) = Rank(ps, o - 1)
  <2>1. Split(ps, qs, N) /\ o \in 1..(N + 1)
        BY <1>2, <1>4
  <2>2. Lay(b, line, ps, qs, Rank(ps, o - 1) + 1, o)
        BY <1>5
  <2> QED BY <1>1, <1>6, <2>1, <2>2, LayEnds
<1> QED BY <1>5, <1>7 DEF ArrangedAs, ps, qs, b, i

(* getopt_long returns -1 with the options first and the operands last.     *)
THEOREM StopArranges ==
    ASSUME given \in Argvs, Scanning, NoMoreOptions
    PROVE  Arranged'
<1> DEFINE line == given
           px == posixly_correct
           N == Len(line)
           ps == OptionPlaces(line, px)
           qs == OperandPlaces(line, px)
           o == optind
           s == nonopt_start
           e == nonopt_end
<1>1. /\ line \in Seq(Tokens) /\ N \in Nat /\ o \in 1..(N + 1)
      /\ \A k \in o..N : argv[k] = line[k]
      /\ More => o \in 1..N /\ Here = line[o]
      /\ ~More => o = N + 1
      BY HereFacts
<1>2. /\ At(line, px, argv, o, place) /\ Listed(argv, N)
      /\ LaidAt(ps, qs, line, argv, o, place, s, e)
      /\ px => s = -1
      BY DEF Scanning, Scans, At
<1>3. /\ place # 0 => o <= N /\ line[o] \notin Words \cup {"--"}
      /\ o <= N => Roles(line, px)[o] = Fresh(line[o], px)
      BY <1>2 DEF At
<1> HIDE DEF line, px, N, ps, qs, o, s, e
<1>4. CASE ~More /\ StopAt(e, o)
  <2>1. place = 0 /\ \A k \in o..N : FALSE
        BY <1>1, <1>3, <1>4
  <2>2. LaidAt(ps, qs, line, argv, o, 0, s, e)
        BY <1>2, <2>1
  <2>3. ArrangedAs(line, px, IF e = -1 THEN argv ELSE PermuteArgs(argv, s, e, o),
                   IF e # -1 THEN o - (e - s) ELSE IF s # -1 THEN s ELSE o)
        BY <1>1, <1>2, <2>1, <2>2, StoppedAt DEF ps, qs, N
  <2>4. /\ argv' = IF e = -1 THEN argv ELSE PermuteArgs(argv, s, e, o)
        /\ optind' = IF e # -1 THEN o - (e - s) ELSE IF s # -1 THEN s ELSE o
        /\ given' = line /\ posixly_correct' = px
        BY <1>4 DEF StopAt, s, line, px
  <2> QED BY <2>3, <2>4, ArrangedIs
<1>5. CASE More /\ Here = "--" /\ StopAt(OperandsEnd, o + 1)
  <2>1. o \in 1..N /\ line[o] = "--" /\ o + 1 \in 1..(N + 1) /\ o <= N
        BY <1>1, <1>5
  <2>2. Roles(line, px)[o] = "end" /\ \A k \in (o + 1)..N : Roles(line, px)[k] = "behind"
        BY <1>1, <1>3, <2>1, NextRoles DEF N
  <2>3. Split(ps, qs, N) /\ o \in ps
        BY <1>1, <2>1, <2>2, PlacesSplit DEF ps, qs, N, OptionRoles
  <2> DEFINE i == o + 1
             f == EndOf(o, s, e)
  <2>4. argv[o] = line[o] /\ \A k \in i..N : argv[k] = line[k] /\ Roles(line, px)[k] = "behind"
    <3>1. \A k \in i..N : k \in o..N
          BY <1>1
    <3> QED BY <1>1, <2>1, <2>2, <3>1
  <2>5. LaidAt(ps, qs, line, argv, i, 0, s, f)
        BY <1>1, <1>2, <2>3, <2>4, LaidOption
  <2>6. i \in 1..(N + 1)
        BY <2>1
  <2>7. /\ argv' = IF f = -1 THEN argv ELSE PermuteArgs(argv, s, f, i)
        /\ optind' = IF f # -1 THEN i - (f - s) ELSE IF s # -1 THEN s ELSE i
        /\ given' = line /\ posixly_correct' = px
        BY <1>5, OperandsEndIs DEF StopAt, s, e, o, line, px
  <2> HIDE DEF i, f
  <2>8. ArrangedAs(line, px, IF f = -1 THEN argv ELSE PermuteArgs(argv, s, f, i),
                   IF f # -1 THEN i - (f - s) ELSE IF s # -1 THEN s ELSE i)
        BY <1>1, <1>2, <2>4, <2>5, <2>6, StoppedAt DEF ps, qs, N
  <2> QED BY <2>7, <2>8, ArrangedIs
<1>6. CASE More /\ Here \in Words /\ px /\ UNCHANGED getoptVars
  <2>1. o \in 1..N /\ line[o] \in Words /\ o <= N /\ s = -1 /\ place = 0
        BY <1>1, <1>2, <1>3, <1>6
  <2>2. \A k \in o..N : Roles(line, px)[k] = "behind"
        BY <1>1, <1>3, <1>6, <2>1, NextRoles DEF N
  <2>3. LaidAt(ps, qs, line, argv, o, 0, s, e) /\ e = -1
        BY <1>2, <2>1 DEF LaidAt
  <2>4. ArrangedAs(line, px, IF e = -1 THEN argv ELSE PermuteArgs(argv, s, e, o),
                   IF e # -1 THEN o - (e - s) ELSE IF s # -1 THEN s ELSE o)
        BY <1>1, <1>2, <2>2, <2>3, StoppedAt DEF ps, qs, N
  <2>5. argv' = argv /\ optind' = o /\ given' = line /\ posixly_correct' = px
        BY <1>6 DEF getoptVars, o, line, px
  <2> QED BY <2>1, <2>3, <2>4, <2>5, ArrangedIs
<1> QED BY <1>4, <1>5, <1>6 DEF NoMoreOptions, e, o, px
=============================================================================
