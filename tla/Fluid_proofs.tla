---------------------------- MODULE Fluid_proofs ----------------------------
(***************************************************************************)
(* Proofs about the frames of fluidanimate: the grid, the lists of          *)
(* structures, and where the particles are.                                 *)
(***************************************************************************)
EXTENDS FluidInvariant, FiniteSetTheorems, NaturalsInduction, WellFoundedInduction, TLAPS

-----------------------------------------------------------------------------
(* Numbers.                                                                 *)

LEMMA Sizes ==
  /\ NX \in Nat \ {0} /\ NY \in Nat \ {0} /\ NZ \in Nat \ {0} /\ NThreads \in Nat \ {0}
  /\ PPC \in Nat \ {0} /\ Block \in Nat \ {0} /\ MaxCells \in Nat \ {0} /\ Block <= MaxCells
  /\ XDIVS \in Nat \ {0} /\ ZDIVS \in Nat \ {0} /\ XDIVS * ZDIVS = NThreads /\ Frames \in Nat
BY FluidAssumption

LEMMA SmallestOf ==
  ASSUME NEW T, T \subseteq Nat, T # {}
  PROVE  \E x \in T : \A y \in T : x <= y
<1> DEFINE R == {p \in Nat \X Nat : p[1] < p[2]}
<1>1. IsWellFoundedOn(R, Nat)
  BY NatLessThanWellFounded DEF OpToRel
<1>2. \A x, y \in Nat : <<y, x>> \notin R => x <= y
  OBVIOUS
<1>3. \E x \in T : \A y \in T : <<y, x>> \notin R
  <2> HIDE DEF R
  <2>1. QED BY <1>1, WFMin
<1>4. QED
  <2> HIDE DEF R
  <2>1. QED BY <1>2, <1>3

LEMMA Digits ==
  ASSUME NEW k \in Nat \ {0}, NEW s \in Nat
  PROVE  s \div k \in Nat /\ s % k \in 0 .. k - 1 /\ s = (s % k) + (s \div k) * k
OBVIOUS

LEMMA NotAhead ==
  ASSUME NEW k \in Nat \ {0}, NEW a \in 0 .. k - 1, NEW c \in 0 .. k - 1,
         NEW b \in Int, NEW d \in Int, a + b * k <= c + d * k
  PROVE  b <= d
<1>1. SUFFICES ASSUME b >= d + 1 PROVE FALSE
  OBVIOUS
<1>2. (b - (d + 1)) * k \in Nat
  BY <1>1
<1>3. b * k = (b - (d + 1)) * k + d * k + k
  OBVIOUS
<1>4. d * k \in Int /\ b * k \in Int
  OBVIOUS
<1>5. QED BY <1>2, <1>3, <1>4

LEMMA DigitsUnique ==
  ASSUME NEW k \in Nat \ {0}, NEW a \in 0 .. k - 1, NEW c \in 0 .. k - 1,
         NEW b \in Int, NEW d \in Int, a + b * k = c + d * k
  PROVE  b = d /\ a = c
<1>1. b * k \in Int /\ d * k \in Int
  OBVIOUS
<1>2. b <= d /\ d <= b
  <2>1. a + b * k <= c + d * k /\ c + d * k <= a + b * k
    BY <1>1
  <2>2. QED BY <2>1, NotAhead
<1>3. b = d
  BY <1>2
<1>4. PICK y \in Int : y = b * k
  BY <1>1
<1>5. a + y = c + y
  BY <1>3, <1>4
<1>6. QED BY <1>3, <1>5

LEMMA OfDigits ==
  ASSUME NEW k \in Nat \ {0}, NEW a \in 0 .. k - 1, NEW b \in Nat
  PROVE  /\ a + b * k \in Nat
         /\ (a + b * k) \div k = b /\ (a + b * k) % k = a
<1> DEFINE s == a + b * k
<1> DEFINE c == s % k
<1> DEFINE d == s \div k
<1>1. b * k \in Nat /\ s \in Nat
  <2>1. b * k \in Nat
    OBVIOUS
  <2>2. QED BY <2>1
<1>2. d \in Nat /\ c \in 0 .. k - 1 /\ s = c + d * k
  BY <1>1, Digits
<1>3. a + b * k = c + d * k
  BY <1>2
<1> HIDE DEF c, d
<1>4. b = d /\ a = c
  BY <1>2, <1>3, DigitsUnique
<1>5. QED BY <1>1, <1>4 DEF c, d

LEMMA DivGrows ==
  ASSUME NEW k \in Nat \ {0}, NEW a \in Nat, NEW b \in Nat, a <= b
  PROVE  a \div k <= b \div k
<1>1. a \div k \in Nat /\ a % k \in 0 .. k - 1 /\ a = (a % k) + (a \div k) * k
  BY Digits
<1>2. b \div k \in Nat /\ b % k \in 0 .. k - 1 /\ b = (b % k) + (b \div k) * k
  BY Digits
<1>3. (a % k) + (a \div k) * k <= (b % k) + (b \div k) * k
  BY <1>1, <1>2
<1>4. QED BY <1>1, <1>2, <1>3, NotAhead

\* The place of a particle in a list: the structure and the slot.
LEMMA Bases ==
  /\ Base(0) = 0
  /\ \A i \in Int : Base(i) \in Int /\ Base(i + 1) = Base(i) + PPC
  /\ \A i \in Nat : Base(i) \in Nat
<1>1. PICK k \in Nat : k = PPC
  BY Sizes
<1>2. 0 * k = 0 /\ \A i \in Int : i * k \in Int /\ (i + 1) * k = i * k + k
  OBVIOUS
<1>3. \A i \in Nat : i * k \in Nat
  OBVIOUS
<1>4. QED BY <1>1, <1>2, <1>3 DEF Base

LEMMA BaseOrder ==
  ASSUME NEW i \in Int, NEW k \in Int, NEW a \in 0 .. PPC - 1, NEW b \in 0 .. PPC - 1,
         Base(i) + a <= Base(k) + b
  PROVE  i <= k
<1>1. Base(i) \in Int /\ Base(k) \in Int /\ a \in Int /\ b \in Int
  BY Bases, Sizes
<1>2. a + i * PPC <= b + k * PPC
  BY <1>1 DEF Base
<1>3. QED BY <1>2, Sizes, NotAhead

LEMMA PlaceUnique ==
  ASSUME NEW i \in Int, NEW k \in Int, NEW a \in 0 .. PPC - 1, NEW b \in 0 .. PPC - 1,
         Base(i) + a = Base(k) + b
  PROVE  i = k /\ a = b
<1>1. Base(i) \in Int /\ Base(k) \in Int /\ a \in Int /\ b \in Int
  BY Bases, Sizes
<1>2. a + i * PPC = b + k * PPC
  BY <1>1 DEF Base
<1>3. QED BY <1>2, Sizes, DigitsUnique

LEMMA PlaceOf ==
  ASSUME NEW n \in Nat
  PROVE  n \div PPC \in Nat /\ n % PPC \in 0 .. PPC - 1 /\ n = Base(n \div PPC) + (n % PPC)
<1>1. PICK k \in Nat \ {0} : k = PPC
  BY Sizes
<1>2. n \div k \in Nat /\ n % k \in 0 .. k - 1 /\ n = (n % k) + (n \div k) * k
  BY Digits
<1>3. (n \div k) * k \in Nat
  BY <1>2
<1>4. QED BY <1>1, <1>2, <1>3 DEF Base

-----------------------------------------------------------------------------
(* The grid.                                                                *)

LEMMA CellDigits ==
  ASSUME NEW c \in Cells
  PROVE  /\ X(c) \in 0 .. NX - 1 /\ Y(c) \in 0 .. NY - 1 /\ Z(c) \in 0 .. NZ - 1
         /\ Index(<<X(c), Y(c), Z(c)>>) = c
<1>1. PICK a \in Nat \ {0}, b \in Nat \ {0}, d \in Nat \ {0} : a = NX /\ b = NY /\ d = NZ
  BY Sizes
<1>2. c \in Nat /\ c < a * b * d
  <2>1. a * b * d \in Nat
    OBVIOUS
  <2>2. QED BY <1>1, <2>1 DEF Cells
<1>3. PICK q \in Nat, x \in 0 .. a - 1 : q = c \div a /\ x = c % a /\ c = x + q * a
  BY <1>2, Digits
<1>4. PICK z \in Nat, y \in 0 .. b - 1 : z = q \div b /\ y = q % b /\ q = y + z * b
  BY Digits
<1>5. c = (x + y * a) + z * (a * b)
  <2>1. (y + z * b) * a = y * a + z * (a * b)
    BY SMT
  <2>2. q * a = y * a + z * (a * b)
    BY <1>4, <2>1
  <2>3. PICK e \in Int, f \in Int, g \in Int : e = q * a /\ f = y * a /\ g = z * (a * b)
    OBVIOUS
  <2>4. c = x + e /\ e = f + g
    BY <1>3, <2>2, <2>3
  <2>5. c = (x + f) + g
    BY <2>3, <2>4
  <2>6. QED BY <2>3, <2>5
<1>6. a * b \in Nat \ {0}
  <2>1. (a - 1) * b \in Nat /\ a * b = (a - 1) * b + b
    OBVIOUS
  <2>2. QED BY <2>1
<1>7. x + y * a \in 0 .. (a * b) - 1
  <2>1. (b - 1 - y) * a \in Nat /\ a * b = (b - 1 - y) * a + y * a + a
    OBVIOUS
  <2>2. y * a \in Nat
    OBVIOUS
  <2>3. QED BY <2>1, <2>2
<1>8. c \div (a * b) = z
  BY <1>5, <1>6, <1>7, OfDigits
<1>9. z < d
  <2>1. SUFFICES ASSUME z >= d PROVE FALSE
    OBVIOUS
  <2>2. (z - d) * (a * b) \in Nat
    BY <1>6, <2>1
  <2>3. z * (a * b) = (z - d) * (a * b) + d * (a * b)
    BY <1>6
  <2>4. d * (a * b) = a * b * d
    OBVIOUS
  <2>5. z * (a * b) \in Int /\ a * b * d \in Int
    OBVIOUS
  <2>6. QED BY <1>2, <1>5, <1>7, <2>2, <2>3, <2>4, <2>5
<1>10. X(c) = x /\ Y(c) = y /\ Z(c) = z
  BY <1>1, <1>3, <1>4, <1>8 DEF X, Y, Z
<1>11. Index(<<x, y, z>>) = (z * b + y) * a + x
  BY <1>1 DEF Index
<1>12. (z * b + y) * a + x = c
  <2>1. z * b + y = q
    <3>1. z * b \in Int
      OBVIOUS
    <3>2. QED BY <1>4, <3>1
  <2>2. q * a \in Int
    OBVIOUS
  <2>3. QED BY <1>3, <2>1, <2>2
<1>13. QED BY <1>1, <1>9, <1>10, <1>11, <1>12

LEMMA IndexDigits ==
  ASSUME NEW p \in Domain
  PROVE  /\ Index(p) \in Cells
         /\ X(Index(p)) = p[1] /\ Y(Index(p)) = p[2] /\ Z(Index(p)) = p[3]
<1>1. PICK a \in Nat \ {0}, b \in Nat \ {0}, d \in Nat \ {0} : a = NX /\ b = NY /\ d = NZ
  BY Sizes
<1>2. PICK x \in 0 .. a - 1, y \in 0 .. b - 1, z \in 0 .. d - 1 : x = p[1] /\ y = p[2] /\ z = p[3]
  BY <1>1 DEF Domain
<1>3. PICK q \in Nat : q = y + z * b
  <2>1. z * b \in Nat
    OBVIOUS
  <2>2. QED BY <2>1
<1>4. PICK c \in Nat : c = x + q * a
  <2>1. q * a \in Nat
    OBVIOUS
  <2>2. QED BY <2>1
<1>5. Index(p) = c
  <2>1. Index(p) = (z * b + y) * a + x
    BY <1>1, <1>2 DEF Index
  <2>2. z * b + y = q
    <3>1. z * b \in Int
      OBVIOUS
    <3>2. QED BY <1>3, <3>1
  <2>3. q * a \in Int
    OBVIOUS
  <2>4. QED BY <1>4, <2>1, <2>2, <2>3
<1>6. c \div a = q /\ c % a = x
  BY <1>4, OfDigits
<1>7. q \div b = z /\ q % b = y
  BY <1>3, OfDigits
<1>8. c = (x + y * a) + z * (a * b)
  <2>1. (y + z * b) * a = y * a + z * (a * b)
    BY SMT
  <2>2. y * a \in Int /\ z * (a * b) \in Int
    OBVIOUS
  <2>3. QED BY <1>3, <1>4, <2>1, <2>2
<1>9. a * b \in Nat \ {0}
  <2>1. (a - 1) * b \in Nat /\ a * b = (a - 1) * b + b
    OBVIOUS
  <2>2. QED BY <2>1
<1>10. x + y * a \in 0 .. (a * b) - 1
  <2>1. (b - 1 - y) * a \in Nat /\ a * b = (b - 1 - y) * a + y * a + a
    OBVIOUS
  <2>2. y * a \in Nat
    OBVIOUS
  <2>3. QED BY <2>1, <2>2
<1>11. c \div (a * b) = z
  BY <1>8, <1>9, <1>10, OfDigits
<1>12. c < a * b * d
  <2>1. (d - 1 - z) * (a * b) \in Nat
    BY <1>9
  <2>2. d * (a * b) = (d - 1 - z) * (a * b) + z * (a * b) + a * b
    BY <1>9
  <2>3. d * (a * b) = a * b * d
    OBVIOUS
  <2>4. z * (a * b) \in Int /\ a * b * d \in Int /\ a * b \in Int
    OBVIOUS
  <2>5. QED BY <1>8, <1>10, <2>1, <2>2, <2>3, <2>4
<1>13. c \in Cells
  <2>1. a * b * d \in Int
    OBVIOUS
  <2>2. QED BY <1>1, <1>12, <2>1 DEF Cells
<1>14. QED BY <1>1, <1>2, <1>5, <1>6, <1>7, <1>11, <1>13 DEF X, Y, Z

LEMMA Bounds ==
  ASSUME NEW side \in Nat \ {0}, NEW n \in Nat \ {0}
  PROVE  /\ Bound(side, n, 0) = 0 /\ Bound(side, n, n) = side
         /\ \A i \in Nat : Bound(side, n, i) \in Nat /\ Bound(side, n, i) <= Bound(side, n, i + 1)
<1>1. PICK k \in Nat \ {0} : k = 2 * n
  BY SMT
<1>2. n \in 0 .. k - 1
  BY <1>1
<1>3. Bound(side, n, 0) = 0
  <2>1. 2 * side * 0 + n = n + 0 * k
    OBVIOUS
  <2>2. (n + 0 * k) \div k = 0
    BY <1>2, OfDigits
  <2>3. Bound(side, n, 0) = (2 * side * 0 + n) \div k
    BY <1>1 DEF Bound
  <2>4. QED BY <2>1, <2>2, <2>3
<1>4. Bound(side, n, n) = side
  <2>1. 2 * side * n + n = n + side * k
    <3>1. 2 * side * n = side * (2 * n)
      OBVIOUS
    <3>2. side * k \in Int /\ side * k = side * (2 * n)
      BY <1>1
    <3>3. QED BY <3>1, <3>2
  <2>2. (n + side * k) \div k = side
    BY <1>2, OfDigits
  <2>3. Bound(side, n, n) = (2 * side * n + n) \div k
    BY <1>1 DEF Bound
  <2>4. QED BY <2>1, <2>2, <2>3
<1>5. ASSUME NEW i \in Nat PROVE Bound(side, n, i) \in Nat /\ Bound(side, n, i) <= Bound(side, n, i + 1)
  <2>1. 2 * side * i \in Nat /\ 2 * side * (i + 1) = 2 * side * i + 2 * side
    OBVIOUS
  <2>2. PICK a \in Nat, b \in Nat : a = 2 * side * i + n /\ b = 2 * side * (i + 1) + n /\ a <= b
    BY <2>1
  <2>3. a \div k \in Nat /\ a \div k <= b \div k
    BY <2>2, Digits, DivGrows
  <2>4. Bound(side, n, i) = a \div k /\ Bound(side, n, i + 1) = b \div k
    BY <1>1, <2>2 DEF Bound
  <2>5. QED BY <2>3, <2>4
<1>6. QED BY <1>3, <1>4, <1>5

LEMMA BoundsGrow ==
  ASSUME NEW side \in Nat \ {0}, NEW n \in Nat \ {0}, NEW i \in Nat, NEW k \in Nat, i <= k
  PROVE  Bound(side, n, i) <= Bound(side, n, k)
<1> DEFINE T == {m \in Nat : i <= m /\ ~(Bound(side, n, i) <= Bound(side, n, m))}
<1>1. SUFFICES ASSUME T # {} PROVE FALSE
  OBVIOUS
<1>2. T \subseteq Nat
  OBVIOUS
<1>3. PICK m \in T : \A y \in T : m <= y
  <2> HIDE DEF T
  <2>1. QED BY <1>1, <1>2, SmallestOf
<1>4. m \in Nat /\ i <= m /\ ~(Bound(side, n, i) <= Bound(side, n, m))
  OBVIOUS
<1>5. \A j \in Nat : Bound(side, n, j) \in Nat /\ Bound(side, n, j) <= Bound(side, n, j + 1)
  BY Bounds
<1>6. m # i
  <2>1. Bound(side, n, i) \in Nat
    BY <1>5
  <2>2. QED BY <1>4, <2>1
<1>7. m - 1 \in Nat /\ i <= m - 1 /\ (m - 1) + 1 = m
  BY <1>4, <1>6
<1>8. m - 1 \notin T
  <2> HIDE DEF T
  <2>1. QED BY <1>3, <1>4, <1>7
<1>9. Bound(side, n, i) <= Bound(side, n, m - 1)
  BY <1>7, <1>8
<1>10. Bound(side, n, m - 1) <= Bound(side, n, (m - 1) + 1)
  BY <1>5, <1>7
<1>11. Bound(side, n, i) \in Nat /\ Bound(side, n, m - 1) \in Nat /\ Bound(side, n, m) \in Nat
  BY <1>4, <1>5, <1>7
<1>12. QED BY <1>4, <1>7, <1>9, <1>10, <1>11

\* Every cell of a side is in exactly one of its parts.
LEMMA InOnePart ==
  ASSUME NEW side \in Nat \ {0}, NEW n \in Nat \ {0}, NEW x \in 0 .. side - 1
  PROVE  /\ \E i \in 0 .. n - 1 : x \in Bound(side, n, i) .. Bound(side, n, i + 1) - 1
         /\ \A i, k \in 0 .. n - 1 :
              /\ x \in Bound(side, n, i) .. Bound(side, n, i + 1) - 1
              /\ x \in Bound(side, n, k) .. Bound(side, n, k + 1) - 1
              => i = k
<1>0. \A j \in Nat : Bound(side, n, j) \in Nat
  BY Bounds
<1>1. \E i \in 0 .. n - 1 : x \in Bound(side, n, i) .. Bound(side, n, i + 1) - 1
  <2> DEFINE T == {m \in Nat : x < Bound(side, n, m)}
  <2>1. n \in T
    BY Bounds
  <2>2. T \subseteq Nat /\ T # {}
    BY <2>1
  <2>3. PICK m \in T : \A y \in T : m <= y
    <3> HIDE DEF T
    <3>1. QED BY <2>2, SmallestOf
  <2>4. m \in Nat /\ x < Bound(side, n, m) /\ m <= n
    BY <2>1, <2>3
  <2>5. m # 0
    BY <2>4, Bounds
  <2>6. m - 1 \in Nat /\ m - 1 \in 0 .. n - 1 /\ (m - 1) + 1 = m
    BY <2>4, <2>5
  <2>7. m - 1 \notin T
    <3> HIDE DEF T
    <3>1. QED BY <2>3, <2>4, <2>6
  <2>8. Bound(side, n, m - 1) <= x
    BY <1>0, <2>6, <2>7
  <2>9. Bound(side, n, m - 1) \in Nat /\ Bound(side, n, m) \in Nat
    BY <1>0, <2>4, <2>6
  <2>10. x \in Bound(side, n, m - 1) .. Bound(side, n, (m - 1) + 1) - 1
    BY <2>4, <2>6, <2>8, <2>9
  <2>11. QED BY <2>6, <2>10
<1>2. ASSUME NEW i \in 0 .. n - 1, NEW k \in 0 .. n - 1, i < k,
             x \in Bound(side, n, i) .. Bound(side, n, i + 1) - 1,
             x \in Bound(side, n, k) .. Bound(side, n, k + 1) - 1
      PROVE  FALSE
  <2>1. Bound(side, n, i + 1) <= Bound(side, n, k)
    BY <1>2, BoundsGrow
  <2>2. Bound(side, n, i) \in Nat /\ Bound(side, n, i + 1) \in Nat /\ Bound(side, n, k) \in Nat /\ Bound(side, n, k + 1) \in Nat
    BY <1>0
  <2>3. QED BY <1>2, <2>1, <2>2
<1>3. ASSUME NEW i \in 0 .. n - 1, NEW k \in 0 .. n - 1,
             x \in Bound(side, n, i) .. Bound(side, n, i + 1) - 1,
             x \in Bound(side, n, k) .. Bound(side, n, k + 1) - 1
      PROVE  i = k
  <2>1. ~(i < k) /\ ~(k < i)
    BY <1>2, <1>3
  <2>2. QED BY <2>1
<1>4. QED BY <1>1, <1>3

\* Every cell belongs to the grid of one thread.
LEMMA Owners ==
  ASSUME NEW c \in Cells
  PROVE  OwnerOf(c) \in Threads /\ Owns(OwnerOf(c), c) /\ \A t \in Threads : Owns(t, c) => t = OwnerOf(c)
<1> DEFINE InX(i) == X(c) \in Bound(NX, XDIVS, i) .. Bound(NX, XDIVS, i + 1) - 1
<1> DEFINE InZ(i) == Z(c) \in Bound(NZ, ZDIVS, i) .. Bound(NZ, ZDIVS, i + 1) - 1
<1>1. \A t : Owns(t, c) <=> InX(t \div ZDIVS) /\ InZ(t % ZDIVS)
  BY DEF Owns
<1>2. X(c) \in 0 .. NX - 1 /\ Z(c) \in 0 .. NZ - 1
  BY CellDigits
<1>3. PICK a \in Nat \ {0}, b \in Nat \ {0} : a = XDIVS /\ b = ZDIVS /\ a * b = NThreads
  BY Sizes
<1>4. /\ \E i \in 0 .. a - 1 : InX(i)
      /\ \A i, k \in 0 .. a - 1 : InX(i) /\ InX(k) => i = k
  <2>1. NX \in Nat \ {0} /\ XDIVS \in Nat \ {0}
    BY Sizes
  <2>2. /\ \E i \in 0 .. XDIVS - 1 : InX(i)
        /\ \A i, k \in 0 .. XDIVS - 1 : InX(i) /\ InX(k) => i = k
    BY <1>2, <2>1, InOnePart
  <2>3. QED BY <1>3, <2>2
<1>5. /\ \E i \in 0 .. b - 1 : InZ(i)
      /\ \A i, k \in 0 .. b - 1 : InZ(i) /\ InZ(k) => i = k
  <2>1. NZ \in Nat \ {0} /\ ZDIVS \in Nat \ {0}
    BY Sizes
  <2>2. /\ \E i \in 0 .. ZDIVS - 1 : InZ(i)
        /\ \A i, k \in 0 .. ZDIVS - 1 : InZ(i) /\ InZ(k) => i = k
    BY <1>2, <2>1, InOnePart
  <2>3. QED BY <1>3, <2>2
<1> HIDE DEF InX, InZ
<1>6. \A t \in Threads : t \in Nat /\ t \div b \in 0 .. a - 1 /\ t % b \in 0 .. b - 1 /\ t = (t % b) + (t \div b) * b
  <2>1. TAKE t \in Threads
  <2>2. t \in Nat /\ t < a * b
    BY <1>3 DEF Threads
  <2>3. t \div b \in Nat /\ t % b \in 0 .. b - 1 /\ t = (t % b) + (t \div b) * b
    BY <2>2, Digits
  <2>4. PICK q \in Nat, r \in 0 .. b - 1 : q = t \div b /\ r = t % b
    BY <2>3
  <2>5. r + q * b = t /\ 0 + a * b = a * b /\ r + q * b <= 0 + a * b
    <3>1. q * b \in Int /\ a * b \in Int
      OBVIOUS
    <3>2. QED BY <2>2, <2>3, <2>4, <3>1
  <2>6. q < a
    <3>1. SUFFICES ASSUME q >= a PROVE FALSE
      OBVIOUS
    <3>2. (q - a) * b \in Nat
      BY <3>1
    <3>3. q * b = (q - a) * b + a * b
      OBVIOUS
    <3>4. q * b \in Int /\ a * b \in Int
      OBVIOUS
    <3>5. QED BY <2>2, <2>5, <3>2, <3>3, <3>4
  <2>7. QED BY <2>2, <2>3, <2>4, <2>6
<1>7. PICK i \in 0 .. a - 1, j \in 0 .. b - 1 : InX(i) /\ InZ(j)
  BY <1>4, <1>5
<1>8. PICK t \in Nat : t = j + i * b
  <2>1. i * b \in Nat
    OBVIOUS
  <2>2. QED BY <2>1
<1>9. t \div b = i /\ t % b = j
  BY <1>8, OfDigits
<1>10. t \in Threads
  <2>1. (a - 1 - i) * b \in Nat /\ a * b = (a - 1 - i) * b + i * b + b
    OBVIOUS
  <2>2. i * b \in Int /\ a * b \in Int
    OBVIOUS
  <2>3. t < a * b
    BY <1>8, <2>1, <2>2
  <2>4. QED BY <1>3, <2>2, <2>3 DEF Threads
<1>11. Owns(t, c)
  BY <1>1, <1>3, <1>7, <1>9
<1>12. \A u, w \in Threads : Owns(u, c) /\ Owns(w, c) => u = w
  <2>1. SUFFICES ASSUME NEW u \in Threads, NEW w \in Threads, Owns(u, c), Owns(w, c) PROVE u = w
    OBVIOUS
  <2>2. u \div b = w \div b /\ u % b = w % b
    BY <1>1, <1>3, <1>4, <1>5, <1>6, <2>1
  <2>3. QED BY <1>6, <2>2
<1>13. QED BY <1>10, <1>11, <1>12 DEF OwnerOf

LEMMA Grids ==
  ASSUME NEW t \in Threads
  PROVE  Grid(t) = {c \in Cells : OwnerOf(c) = t}
BY Owners DEF Grid

LEMMA CellAtInside ==
  ASSUME NEW p \in Domain
  PROVE  /\ CellAt(p) \in Cells /\ Near(p, CellAt(p))
         /\ p = <<X(CellAt(p)), Y(CellAt(p)), Z(CellAt(p))>>
<1>1. PICK a \in Nat \ {0}, b \in Nat \ {0}, d \in Nat \ {0} : a = NX /\ b = NY /\ d = NZ
  BY Sizes
<1>2. PICK x \in 0 .. a - 1, y \in 0 .. b - 1, z \in 0 .. d - 1 : p = <<x, y, z>>
  BY <1>1 DEF Domain
<1>3. CellAt(p) = Index(p)
  BY <1>1, <1>2 DEF CellAt, Clamp
<1>4. QED BY <1>2, <1>3, IndexDigits DEF Near

LEMMA CellIsAround ==
  ASSUME NEW c \in Cells
  PROVE  <<X(c), Y(c), Z(c)>> \in Domain /\ CellAt(<<X(c), Y(c), Z(c)>>) = c
<1>1. <<X(c), Y(c), Z(c)>> \in Domain
  BY CellDigits DEF Domain
<1>2. PICK a \in Nat \ {0}, b \in Nat \ {0}, d \in Nat \ {0} : a = NX /\ b = NY /\ d = NZ
  BY Sizes
<1>3. X(c) \in 0 .. a - 1 /\ Y(c) \in 0 .. b - 1 /\ Z(c) \in 0 .. d - 1 /\ Index(<<X(c), Y(c), Z(c)>>) = c
  BY <1>2, CellDigits
<1>4. QED BY <1>1, <1>2, <1>3 DEF CellAt, Clamp

\* What enters a cell that is not in the border comes from the same grid.
LEMMA InsideAGrid ==
  ASSUME NEW p \in Domain, NEW d \in Cells, Near(p, d), ~border[CellAt(p)]
  PROVE  OwnerOf(d) = OwnerOf(CellAt(p))
<1> DEFINE c == CellAt(p)
<1>1. c \in Cells /\ p = <<X(c), Y(c), Z(c)>>
  BY CellAtInside
<1>2. X(d) \in Int /\ Y(d) \in Int /\ Z(d) \in Int /\ X(c) \in Int /\ Y(c) \in Int /\ Z(c) \in Int
  <2> HIDE DEF c
  <2>1. ASSUME NEW e \in Cells PROVE X(e) \in Int /\ Y(e) \in Int /\ Z(e) \in Int
    <3>1. X(e) \in 0 .. NX - 1 /\ Y(e) \in 0 .. NY - 1 /\ Z(e) \in 0 .. NZ - 1
      BY CellDigits
    <3>2. QED BY <3>1
  <2>2. QED BY <1>1, <2>1
<1>3. X(c) - X(d) \in -1 .. 1 /\ Y(c) - Y(d) \in -1 .. 1 /\ Z(c) - Z(d) \in -1 .. 1
  BY <1>1 DEF Near
<1> HIDE DEF c
<1>4. <<X(d), Y(d), Z(d)>> \in Around(c)
  <2>1. PICK i \in -1 .. 1, j \in -1 .. 1, k \in -1 .. 1 :
          i = X(d) - X(c) /\ j = Y(d) - Y(c) /\ k = Z(d) - Z(c)
    BY <1>2, <1>3
  <2>2. <<X(d), Y(d), Z(d)>> = <<X(c) + i, Y(c) + j, Z(c) + k>>
    BY <1>2, <2>1
  <2>3. QED BY <2>2 DEF Around
<1>5. CellAt(<<X(d), Y(d), Z(d)>>) \in Grid(OwnerOf(c))
  BY <1>1, <1>4 DEF border, c
<1>6. d \in Grid(OwnerOf(c))
  BY <1>5, CellIsAround
<1>7. QED BY <1>1, <1>6, Grids, Owners DEF c

LEMMA MirrorInside ==
  ASSUME NEW n \in Nat \ {0}, NEW i \in 0 .. n - 1, NEW v \in Int, v - i \in -1 .. 1
  PROVE  Mirror(v, i, n) \in 0 .. n - 1 /\ Mirror(v, i, n) - i \in -1 .. 1
BY DEF Mirror

LEMMA Mirrored ==
  ASSUME NEW c \in Cells, NEW p \in Int \X Int \X Int, Near(p, c)
  PROVE  LET q == <<Mirror(p[1], X(c), NX), Mirror(p[2], Y(c), NY), Mirror(p[3], Z(c), NZ)>>
         IN  q \in Domain /\ Near(q, c)
<1>1. p[1] \in Int /\ p[2] \in Int /\ p[3] \in Int
  OBVIOUS
<1>2. X(c) \in 0 .. NX - 1 /\ Y(c) \in 0 .. NY - 1 /\ Z(c) \in 0 .. NZ - 1
  BY CellDigits
<1>3. Mirror(p[1], X(c), NX) \in 0 .. NX - 1 /\ Mirror(p[1], X(c), NX) - X(c) \in -1 .. 1
  BY <1>1, <1>2, Sizes, MirrorInside DEF Near
<1>4. Mirror(p[2], Y(c), NY) \in 0 .. NY - 1 /\ Mirror(p[2], Y(c), NY) - Y(c) \in -1 .. 1
  BY <1>1, <1>2, Sizes, MirrorInside DEF Near
<1>5. Mirror(p[3], Z(c), NZ) \in 0 .. NZ - 1 /\ Mirror(p[3], Z(c), NZ) - Z(c) \in -1 .. 1
  BY <1>1, <1>2, Sizes, MirrorInside DEF Near
<1>6. QED BY <1>3, <1>4, <1>5 DEF Domain, Near

LEMMA NextSource ==
  ASSUME NEW t \in Threads, NEW c \in Int
  PROVE  LET s == SourceFrom(t, c)
         IN  \/ s = NoSource /\ \A d \in Grid(t) : d < c
             \/ /\ s # NoSource /\ s.cell \in Grid(t) /\ s.cell >= c
                /\ s = [cell |-> s.cell, struct |-> <<cells2, s.cell>>, j |-> 0]
                /\ \A d \in Grid(t) : d >= c => d >= s.cell
<1> DEFINE ahead == {d \in Grid(t) : d >= c}
<1>1. Grid(t) \subseteq Cells /\ Cells \subseteq Nat
  BY DEF Grid, Cells
<1>2. CASE ahead = {}
  <2>1. SourceFrom(t, c) = NoSource
    BY <1>2 DEF SourceFrom
  <2>2. ASSUME NEW d \in Grid(t) PROVE d < c
    <3>1. d \in Nat
      BY <1>1
    <3>2. d \notin ahead
      <4> HIDE DEF ahead
      <4>1. QED BY <1>2
    <3>3. ~(d >= c)
      BY <3>2
    <3>4. QED BY <3>1, <3>3
  <2>3. QED BY <2>1, <2>2
<1>3. CASE ahead # {}
  <2>1. ahead \subseteq Nat
    BY <1>1
  <2>2. \E x \in ahead : \A y \in ahead : x <= y
    <3> HIDE DEF ahead
    <3>1. QED BY <1>3, <2>1, SmallestOf
  <2>3. Min(ahead) \in ahead /\ \A y \in ahead : Min(ahead) <= y
    <3> HIDE DEF ahead
    <3>1. QED BY <2>2 DEF Min
  <2>4. PICK m \in Nat : m = Min(ahead)
    BY <2>1, <2>3
  <2>5. SourceFrom(t, c) = [cell |-> m, struct |-> <<cells2, m>>, j |-> 0]
    BY <1>3, <2>4 DEF SourceFrom
  <2>6. m # -1
    BY <2>4
  <2>7. SourceFrom(t, c) # NoSource
    BY <2>5, <2>6 DEF NoSource
  <2>8. m \in Grid(t) /\ m >= c /\ \A d \in Grid(t) : d >= c => d >= m
    <3>1. m \in ahead /\ \A y \in ahead : m <= y
      BY <2>3, <2>4
    <3>2. \A d \in Grid(t) : d >= c => d >= m
      <4>1. TAKE d \in Grid(t)
      <4>2. HAVE d >= c
      <4>3. m <= d /\ d \in Nat
        BY <1>1, <3>1, <4>2
      <4>4. QED BY <2>4, <4>3
    <3>3. QED BY <3>1, <3>2
  <2>9. QED BY <2>5, <2>7, <2>8
<1>4. QED BY <1>2, <1>3

-----------------------------------------------------------------------------
(* Walking down a list.                                                     *)

LEMMA WalksExist ==
  ASSUME NEW next \in [Structs -> Structs], NEW s \in Structs, NEW n \in Nat
  PROVE  \E f : Walk(f, next, s, n)
<1> DEFINE Bad == {m \in Nat : ~\E f : Walk(f, next, s, m)}
<1>1. SUFFICES ASSUME Bad # {} PROVE FALSE
  OBVIOUS
<1>2. Bad \subseteq Nat
  OBVIOUS
<1>3. PICK m \in Bad : \A y \in Bad : m <= y
  <2> HIDE DEF Bad
  <2>1. QED BY <1>1, <1>2, SmallestOf
<1>4. m # 0
  <2>1. Walk([k \in 0 .. 0 |-> s], next, s, 0)
    BY DEF Walk
  <2>2. ~\E f : Walk(f, next, s, m)
    OBVIOUS
  <2>3. QED BY <2>1, <2>2
<1>5. m - 1 \in Nat
  BY <1>3, <1>4
<1>6. m - 1 \notin Bad
  <2> HIDE DEF Bad
  <2>1. QED BY <1>2, <1>3, <1>5
<1>7. PICK f : Walk(f, next, s, m - 1)
  BY <1>5, <1>6
<1> DEFINE g == [k \in 0 .. m |-> IF k = m THEN next[f[m - 1]] ELSE f[k]]
<1>8. Walk(g, next, s, m)
  <2>1. m \in Nat \ {0} /\ f \in [0 .. m - 1 -> Structs] /\ f[0] = s
    BY <1>3, <1>4, <1>7 DEF Walk
  <2>2. g \in [0 .. m -> Structs] /\ g[0] = s
    BY <2>1
  <2>3. ASSUME NEW i \in 1 .. m PROVE g[i] = next[g[i - 1]]
    <3>1. CASE i = m
      BY <2>1, <3>1
    <3>2. CASE i # m
      <4>1. i \in 1 .. m - 1 /\ i - 1 \in 0 .. m /\ i - 1 # m /\ i \in 0 .. m
        BY <2>1, <3>2
      <4>2. f[i] = next[f[i - 1]]
        BY <1>7, <4>1 DEF Walk
      <4>3. QED BY <3>2, <4>1, <4>2
    <3>3. QED BY <3>1, <3>2
  <2> HIDE DEF g
  <2>4. QED BY <2>2, <2>3 DEF Walk
<1>9. ~\E f2 : Walk(f2, next, s, m)
  OBVIOUS
<1>10. QED BY <1>8, <1>9

LEMMA WalksAgree ==
  ASSUME NEW next, NEW s, NEW n \in Nat, NEW m \in Nat, n <= m, NEW f, NEW g,
         Walk(f, next, s, n), Walk(g, next, s, m)
  PROVE  \A k \in 0 .. n : f[k] = g[k]
<1> DEFINE Bad == {k \in 0 .. n : f[k] # g[k]}
<1>1. SUFFICES ASSUME Bad # {} PROVE FALSE
  OBVIOUS
<1>2. Bad \subseteq Nat /\ Bad \subseteq 0 .. n
  OBVIOUS
<1>3. PICK k \in Bad : \A y \in Bad : k <= y
  <2> HIDE DEF Bad
  <2>1. QED BY <1>1, <1>2, SmallestOf
<1>4. k # 0
  BY DEF Walk
<1>5. k \in 1 .. n /\ k \in 1 .. m /\ k - 1 \in 0 .. n /\ k - 1 \notin Bad
  BY <1>2, <1>3, <1>4
<1>6. f[k] = g[k]
  BY <1>5 DEF Walk
<1>7. QED BY <1>3, <1>6

LEMMA AlongIsWalk ==
  ASSUME NEW h, h.next \in [Structs -> Structs], NEW s \in Structs, NEW k \in Nat,
         NEW f, Walk(f, h.next, s, k)
  PROVE  Along(h, s, k) = f[k]
<1> DEFINE F(g) == [i \in 0 .. k |-> IF i = 0 THEN s ELSE h.next[g[i - 1]]]
<1>1. f = F(f)
  BY DEF Walk
<1> DEFINE t == CHOOSE g : g = F(g)
<1>2. t = F(t)
  <2> HIDE DEF F
  <2>1. QED BY <1>1
<1>3. Along(h, s, k) = t[k]
  BY DEF Along
<1> HIDE DEF t
<1> DEFINE Bad == {i \in 0 .. k : f[i] # t[i]}
<1>4. SUFFICES ASSUME Bad # {} PROVE FALSE
  BY <1>3
<1>5. Bad \subseteq Nat /\ Bad \subseteq 0 .. k
  OBVIOUS
<1>6. PICK m \in Bad : \A y \in Bad : m <= y
  <2> HIDE DEF Bad, F
  <2>1. QED BY <1>4, <1>5, SmallestOf
<1>7. \A i \in 0 .. k : t[i] = IF i = 0 THEN s ELSE h.next[t[i - 1]]
  BY <1>2
<1>8. m # 0
  BY <1>7 DEF Walk
<1>9. m \in 1 .. k /\ m - 1 \in 0 .. k /\ m - 1 \notin Bad
  <2> HIDE DEF F
  <2>1. QED BY <1>5, <1>6, <1>8
<1>10. f[m] = t[m]
  <2>1. f[m - 1] = t[m - 1]
    BY <1>9
  <2> HIDE DEF F, Bad
  <2>2. QED BY <1>7, <1>8, <1>9, <2>1 DEF Walk
<1>11. QED BY <1>6, <1>10

LEMMA AlongSteps ==
  ASSUME NEW h, h.next \in [Structs -> Structs], NEW s \in Structs, NEW k \in Nat
  PROVE  /\ Along(h, s, 0) = s /\ Along(h, s, k) \in Structs
         /\ Along(h, s, k + 1) = h.next[Along(h, s, k)]
<1>1. PICK f : Walk(f, h.next, s, k)
  BY WalksExist
<1>2. k + 1 \in Nat
  OBVIOUS
<1>3. PICK g : Walk(g, h.next, s, k + 1)
  BY <1>2, WalksExist
<1>4. PICK e : Walk(e, h.next, s, 0)
  BY WalksExist
<1>5. Along(h, s, 0) = e[0] /\ e[0] = s
  <2>1. 0 \in Nat
    OBVIOUS
  <2>2. Along(h, s, 0) = e[0]
    BY <1>4, <2>1, AlongIsWalk
  <2>3. QED BY <1>4, <2>2 DEF Walk
<1>6. Along(h, s, k) = f[k] /\ f[k] \in Structs
  BY <1>1, AlongIsWalk DEF Walk
<1>7. Along(h, s, k + 1) = g[k + 1]
  BY <1>2, <1>3, AlongIsWalk
<1>8. f[k] = g[k]
  <2>1. k <= k + 1 /\ k \in 0 .. k
    OBVIOUS
  <2>2. \A i \in 0 .. k : f[i] = g[i]
    BY <1>1, <1>2, <1>3, <2>1, WalksAgree
  <2>3. QED BY <2>1, <2>2
<1>9. g[k + 1] = h.next[g[k]]
  <2>1. k + 1 \in 1 .. k + 1 /\ (k + 1) - 1 = k
    OBVIOUS
  <2>2. g[k + 1] = h.next[g[(k + 1) - 1]]
    BY <1>3, <2>1 DEF Walk
  <2>3. QED BY <2>1, <2>2
<1>10. QED BY <1>5, <1>6, <1>7, <1>8, <1>9

\* Along a list the labels stay and the places count up, to its end.
LEMMA AlongList ==
  ASSUME NEW h, NEW own, NEW idx, h.next \in [Structs -> Structs], Chained(h, own, idx),
         NEW s \in Structs, own[s] # Null, NEW k \in Nat
  PROVE  LET r == Along(h, s, k)
         IN  /\ r \in Structs
             /\ r # Null => own[r] = own[s] /\ idx[r] = idx[s] + k
             /\ r = Null => \A q \in Structs : own[q] = own[s] => idx[q] < idx[s] + k
<1> DEFINE R(m) == Along(h, s, m)
<1> DEFINE Good(m) == /\ R(m) # Null => own[R(m)] = own[s] /\ idx[R(m)] = idx[s] + m
                      /\ R(m) = Null => \A q \in Structs : own[q] = own[s] => idx[q] < idx[s] + m
<1> DEFINE Bad == {m \in Nat : ~Good(m)}
<1>0. \A m \in Nat : R(m) \in Structs /\ R(0) = s /\ R(m + 1) = h.next[R(m)]
  BY AlongSteps
<1>1. SUFFICES ASSUME Bad # {} PROVE FALSE
  BY <1>0
<1>2. Bad \subseteq Nat
  OBVIOUS
<1>3. PICK m \in Bad : \A y \in Bad : m <= y
  <2> HIDE DEF Bad
  <2>1. QED BY <1>1, <1>2, SmallestOf
<1>4. own \in [Structs -> Labels] /\ idx \in [Structs -> Int] /\ own[Null] = Null /\ h.next[Null] = Null
  BY DEF Chained, Strung, Pooling
<1> HIDE DEF R
<1>5. m # 0
  <2>1. R(0) = s /\ s # Null /\ idx[s] \in Int
    BY <1>0, <1>4
  <2>2. Good(0)
    BY <2>1
  <2>3. ~Good(m)
    BY <1>3
  <2>4. QED BY <2>2, <2>3
<1>6. PICK n \in Nat : m = n + 1 /\ n \notin Bad
  <2>1. m - 1 \in Nat /\ m = (m - 1) + 1
    BY <1>3, <1>5
  <2> HIDE DEF Bad
  <2>2. m - 1 \notin Bad
    BY <1>2, <1>3, <2>1
  <2>3. QED BY <2>1, <2>2
<1>7. Good(n)
  BY <1>6
<1>8. R(m) = h.next[R(n)] /\ R(n) \in Structs /\ R(m) \in Structs /\ idx[s] \in Int
  BY <1>0, <1>3, <1>4, <1>6
<1>9. CASE R(n) = Null
  <2>1. R(m) = Null
    BY <1>4, <1>8, <1>9
  <2>2. ASSUME NEW q \in Structs, own[q] = own[s] PROVE idx[q] < idx[s] + m
    <3>1. idx[q] < idx[s] + n /\ idx[q] \in Int
      BY <1>4, <1>7, <1>9, <2>2
    <3>2. QED BY <1>6, <1>8, <3>1
  <2>3. QED BY <1>3, <2>1, <2>2
<1>10. CASE R(n) # Null
  <2>1. own[R(n)] = own[s] /\ idx[R(n)] = idx[s] + n /\ own[R(n)] # Null
    BY <1>7, <1>10
  <2>2. CASE R(m) # Null
    <3>1. own[R(m)] = own[s] /\ idx[R(m)] = idx[R(n)] + 1
      BY <1>8, <2>1, <2>2 DEF Chained, Strung, Pooling
    <3>2. idx[R(m)] = idx[s] + m
      BY <1>6, <1>8, <2>1, <3>1
    <3>3. QED BY <1>3, <2>2, <3>1, <3>2
  <2>3. CASE R(m) = Null
    <3>1. ASSUME NEW q \in Structs, own[q] = own[s] PROVE idx[q] < idx[s] + m
      <4>1. idx[q] <= idx[R(n)] /\ idx[q] \in Int
        BY <1>4, <1>8, <2>1, <2>3, <3>1 DEF Chained, Strung, Pooling
      <4>2. QED BY <1>6, <1>8, <2>1, <4>1
    <3>2. QED BY <1>3, <2>3, <3>1
  <2>4. QED BY <2>2, <2>3
<1>11. QED BY <1>9, <1>10

\* The structure at a place of a list.
LEMMA AlongFinds ==
  ASSUME NEW h, NEW own, NEW idx, h.next \in [Structs -> Structs], Chained(h, own, idx),
         NEW s \in Structs, own[s] # Null, NEW r \in Structs, own[r] = own[s],
         NEW k \in Nat, idx[r] = idx[s] + k
  PROVE  Along(h, s, k) = r
<1> DEFINE q == Along(h, s, k)
<1>1. q \in Structs /\ (q # Null => own[q] = own[s] /\ idx[q] = idx[s] + k)
      /\ (q = Null => idx[r] < idx[s] + k)
  BY AlongList
<1>2. idx[s] \in Int
  BY DEF Chained, Strung, Pooling
<1>3. q # Null
  BY <1>1, <1>2
<1>4. own[q] = own[r] /\ idx[q] = idx[r] /\ own[r] # Null
  BY <1>1, <1>3
<1> HIDE DEF q
<1>5. q = r
  BY <1>1, <1>4 DEF Chained, Strung, Pooling
<1>6. QED BY <1>5 DEF q

-----------------------------------------------------------------------------
(* The heap.                                                                *)

LEMMA StructKinds ==
  /\ Null \in Structs /\ Null \notin Heads /\ Heads \subseteq Structs
  /\ \A t \in Threads : \A n \in 1 .. MaxCells :
       <<3 + t, n>> \in Structs /\ <<3 + t, n>> \notin Heads /\ <<3 + t, n>> # Null
  /\ \A s \in Structs : s = Null \/ s \in Heads \/ \E t \in Threads : \E n \in 1 .. MaxCells : s = <<3 + t, n>>
  /\ \A t \in Threads : PoolLabel(t) \notin Heads /\ PoolLabel(t) # Null
  /\ \A t, u \in Threads : PoolLabel(t) = PoolLabel(u) => t = u
<1>1. \A t \in Threads : t \in Nat
  BY Sizes DEF Threads
<1>3. MaxCells \in Nat
  BY Sizes
<1>4. Null \in Structs /\ Null \notin Heads /\ Heads \subseteq Structs
  BY DEF Null, Heads, Structs
<1>5. \A t \in Threads : \A n \in 1 .. MaxCells :
       <<3 + t, n>> \in Structs /\ <<3 + t, n>> \notin Heads /\ <<3 + t, n>> # Null
  BY <1>1, <1>3 DEF Null, Heads, Structs
<1>6. \A s \in Structs : s = Null \/ s \in Heads \/ \E t \in Threads : \E n \in 1 .. MaxCells : s = <<3 + t, n>>
  BY DEF Structs
<1>7. \A t \in Threads : PoolLabel(t) \notin Heads /\ PoolLabel(t) # Null
  BY <1>1 DEF PoolLabel, Null, Heads
<1>8. \A t, u \in Threads : PoolLabel(t) = PoolLabel(u) => t = u
  BY <1>1 DEF PoolLabel
<1>9. QED BY <1>4, <1>5, <1>6, <1>7, <1>8

LEMMA UsedStructs ==
  ASSUME NEW h, HeapOK(h)
  PROVE  /\ \A s \in UsedOf(h) : s \in Structs \ Heads /\ s # Null
         /\ \A t \in Threads : \A n \in 1 .. MaxCells : <<3 + t, n>> \in UsedOf(h) <=> n <= h.used[t]
         /\ \A s \in Structs \ Heads : s # Null /\ s \notin UsedOf(h) =>
              \E t \in Threads : \E n \in 1 .. MaxCells : s = <<3 + t, n>> /\ n > h.used[t]
<1>1. \A t \in Threads : t \in Nat /\ h.used[t] \in Nat /\ h.used[t] <= MaxCells
  BY Sizes DEF Threads, HeapOK
<1>2. MaxCells \in Nat
  BY Sizes
<1>3. ASSUME NEW s \in UsedOf(h) PROVE s \in Structs \ Heads /\ s # Null
  <2>1. PICK t \in Threads : \E n \in 1 .. h.used[t] : s = <<3 + t, n>>
    BY DEF UsedOf
  <2>0. PICK n \in 1 .. h.used[t] : s = <<3 + t, n>>
    BY <2>1
  <2>2. n \in 1 .. MaxCells
    BY <1>1, <1>2
  <2>3. QED BY <2>0, <2>2, StructKinds
<1>4. ASSUME NEW t \in Threads, NEW n \in 1 .. MaxCells
      PROVE  <<3 + t, n>> \in UsedOf(h) <=> n <= h.used[t]
  <2>1. CASE n <= h.used[t]
    <3>1. n \in 1 .. h.used[t]
      BY <1>1, <2>1
    <3>2. QED BY <2>1, <3>1 DEF UsedOf
  <2>2. ASSUME <<3 + t, n>> \in UsedOf(h) PROVE n <= h.used[t]
    <3>0. PICK u \in Threads : \E m \in 1 .. h.used[u] : <<3 + t, n>> = <<3 + u, m>>
      BY <2>2 DEF UsedOf
    <3>1. PICK m \in 1 .. h.used[u] : <<3 + t, n>> = <<3 + u, m>>
      BY <3>0
    <3>2. t = u /\ n = m
      BY <1>1, <3>1
    <3>3. QED BY <1>1, <3>1, <3>2
  <2>3. QED BY <2>1, <2>2
<1>5. ASSUME NEW s \in Structs \ Heads, s # Null, s \notin UsedOf(h)
      PROVE  \E t \in Threads : \E n \in 1 .. MaxCells : s = <<3 + t, n>> /\ n > h.used[t]
  <2>1. PICK t \in Threads, n \in 1 .. MaxCells : s = <<3 + t, n>>
    BY <1>5, StructKinds
  <2>2. ~(n <= h.used[t])
    BY <1>4, <1>5, <2>1
  <2>3. n > h.used[t]
    BY <1>1, <2>2
  <2>4. QED BY <2>1, <2>3
<1>6. QED BY <1>3, <1>4, <1>5

\* What is labelled is in use.
LEMMA LabelledIsUsed ==
  ASSUME NEW h, HeapOK(h), NEW own, NEW idx, Chained(h, own, idx), NEW s \in Structs, own[s] # Null
  PROVE  s \in Heads \/ s \in UsedOf(h)
<1>1. s # Null
  BY DEF Chained, Strung, Pooling
<1>2. ASSUME s \notin Heads, s \notin UsedOf(h) PROVE FALSE
  <2>1. PICK t \in Threads, n \in 1 .. MaxCells : s = <<3 + t, n>> /\ n > h.used[t]
    BY <1>1, <1>2, UsedStructs
  <2>2. QED BY <2>1 DEF Chained, Strung, Pooling
<1>3. QED BY <1>2

\* The next structure of a list is none of another.
LEMMA NextKeepsLabel ==
  ASSUME NEW h, NEW own, NEW idx, Chained(h, own, idx), NEW s \in Structs, own[s] # Null, h.next[s] # Null
  PROVE  own[h.next[s]] = own[s] /\ idx[h.next[s]] = idx[s] + 1
BY DEF Chained, Strung, Pooling

\* An unlabelled structure of a heap is put after the last one of a list.
LEMMA AppendChained ==
  ASSUME NEW h, HeapOK(h), NEW own, NEW idx, Chained(h, own, idx),
         NEW s \in UsedOf(h), own[s] = Null, h.next[s] = Null,
         NEW l \in Heads, NEW e \in Structs, own[e] = l, h.next[e] = Null
  PROVE  /\ HeapOK(Linked(h, e, s))
         /\ Chained(Linked(h, e, s), [own EXCEPT ![s] = l], [idx EXCEPT ![s] = idx[e] + 1])
<1> DEFINE h2 == Linked(h, e, s)
<1> DEFINE own2 == [own EXCEPT ![s] = l]
<1> DEFINE idx2 == [idx EXCEPT ![s] = idx[e] + 1]
<1>1. s \in Structs /\ s \notin Heads /\ s # Null /\ l # Null /\ e # s /\ e # Null
  BY UsedStructs, StructKinds DEF Chained, Strung, Pooling
<1>2. /\ h2.next = [h.next EXCEPT ![e] = s]
      /\ h2.pool = h.pool /\ h2.alloc = h.alloc /\ h2.used = h.used
  BY DEF Linked, HeapOK
<1>3. h.next \in [Structs -> Structs] /\ own \in [Structs -> Labels] /\ idx \in [Structs -> Int]
  BY DEF HeapOK, Chained, Strung, Pooling
<1>4. HeapOK(h2)
  BY <1>1 DEF Linked, HeapOK
<1>5. own2 \in [Structs -> Labels] /\ idx2 \in [Structs -> Int]
  BY <1>1, <1>3 DEF Labels
<1>6. /\ h2.next[e] = s /\ \A r \in Structs \ {e} : h2.next[r] = h.next[r]
      /\ own2[s] = l /\ \A r \in Structs \ {s} : own2[r] = own[r]
      /\ idx2[s] = idx[e] + 1 /\ \A r \in Structs \ {s} : idx2[r] = idx[r]
  BY <1>1, <1>2, <1>3
<1>7. own2[Null] = Null /\ h2.next[Null] = Null
  BY <1>1, <1>6, StructKinds DEF Chained, Strung, Pooling
<1> HIDE DEF h2, own2, idx2
<1>8. ASSUME NEW r \in Structs, own2[r] # Null, h2.next[r] # Null
      PROVE  own2[h2.next[r]] = own2[r] /\ idx2[h2.next[r]] = idx2[r] + 1
  <2>1. CASE r = e
    BY <1>1, <1>6, <2>1
  <2>2. CASE r # e
    <3>1. h2.next[r] = h.next[r] /\ r # s
      BY <1>6, <1>8, <2>2
    <3>2. own[r] # Null /\ h.next[r] # Null /\ h.next[r] \in Structs
      BY <1>3, <1>6, <1>8, <3>1
    <3>3. own[h.next[r]] = own[r] /\ idx[h.next[r]] = idx[r] + 1
      BY <3>2, NextKeepsLabel
    <3>4. h.next[r] # s
      BY <3>2, <3>3
    <3>5. QED BY <1>6, <3>1, <3>2, <3>3, <3>4
  <2>3. QED BY <2>1, <2>2
<1>9. \A r \in Structs : own[r] = l => idx[r] <= idx[e] /\ idx[r] \in Int /\ idx[e] \in Int
  BY <1>1, <1>3 DEF Chained, Strung, Pooling
<1>10. ASSUME NEW r \in Structs, NEW q \in Structs, own2[r] # Null, own2[q] = own2[r], h2.next[r] = Null
       PROVE  idx2[q] <= idx2[r]
  <2>1. r # e
    BY <1>1, <1>6, <1>10
  <2>2. CASE r = s
    BY <1>6, <1>9, <1>10, <2>2
  <2>3. CASE r # s
    <3>1. own[r] # l
      <4>1. SUFFICES ASSUME own[r] = l PROVE FALSE
        OBVIOUS
      <4>2. idx[e] <= idx[r] /\ idx[r] <= idx[e]
        BY <1>1, <1>6, <1>9, <1>10, <2>1, <2>3, <4>1 DEF Chained, Strung, Pooling
      <4>3. idx[r] = idx[e]
        BY <1>9, <4>1, <4>2
      <4>4. QED BY <1>1, <2>1, <4>1, <4>3 DEF Chained, Strung, Pooling
    <3>2. q # s
      BY <1>6, <1>10, <2>3, <3>1
    <3>3. QED BY <1>6, <1>10, <2>1, <2>3, <3>2 DEF Chained, Strung, Pooling
  <2>4. QED BY <2>2, <2>3
<1>11. ASSUME NEW r \in Structs, NEW q \in Structs, own2[r] # Null, own2[q] = own2[r], idx2[q] = idx2[r]
       PROVE  q = r
  <2>1. ASSUME NEW a \in Structs, a # s, own[a] = l PROVE idx2[a] # idx2[s]
    BY <1>6, <1>9, <2>1
  <2>2. CASE r = s /\ q # s
    BY <1>6, <1>11, <2>1, <2>2
  <2>3. CASE q = s /\ r # s
    BY <1>6, <1>11, <2>1, <2>3
  <2>4. CASE q # s /\ r # s
    BY <1>6, <1>11, <2>4 DEF Chained, Strung, Pooling
  <2>5. QED BY <2>2, <2>3, <2>4
<1>12. \A r \in Heads : own2[r] # Null => own2[r] = r /\ idx2[r] = 0
  BY <1>1, <1>6, StructKinds DEF Chained, Strung, Pooling
<1>13. \A r \in Structs \ Heads : own2[r] \in Heads => idx2[r] > 0
  <2>1. idx[e] >= 0 /\ idx[e] \in Int
    <3>1. idx[e] \in Int
      BY <1>3
    <3>2. CASE e \in Heads
      <4>1. idx[e] = 0
        BY <1>1, <3>2 DEF Chained, Strung, Pooling
      <4>2. QED BY <4>1
    <3>3. CASE e \notin Heads
      <4>1. idx[e] > 0
        BY <3>3 DEF Chained, Strung, Pooling
      <4>2. QED BY <3>1, <4>1
    <3>4. QED BY <3>1, <3>2, <3>3
  <2>2. QED BY <1>1, <1>6, <2>1 DEF Chained, Strung, Pooling
<1>14. ASSUME NEW t \in Threads, NEW n \in 1 .. MaxCells, n > h2.used[t] PROVE own2[<<3 + t, n>>] = Null
  <2>1. h.used[t] \in Nat /\ ~(n <= h.used[t])
    BY <1>2, <1>14 DEF HeapOK
  <2>2. <<3 + t, n>> # s /\ <<3 + t, n>> \in Structs
    BY <2>1, UsedStructs, StructKinds
  <2>3. QED BY <1>2, <1>6, <1>14, <2>2 DEF Chained, Strung, Pooling
<1>15. ASSUME NEW t \in Threads
       PROVE  IF h2.pool[t] = Null THEN \A r \in Structs : own2[r] # PoolLabel(t)
              ELSE /\ own2[h2.pool[t]] = PoolLabel(t)
                   /\ \A r \in Structs : own2[r] = PoolLabel(t) => idx2[h2.pool[t]] <= idx2[r]
  <2>1. PoolLabel(t) # l /\ PoolLabel(t) # Null
    BY StructKinds
  <2>2. h2.pool[t] = h.pool[t] /\ h.pool[t] \in Structs
    BY <1>2 DEF HeapOK
  <2>3. CASE h.pool[t] = Null
    <3>1. \A r \in Structs : own[r] # PoolLabel(t)
      BY <2>3 DEF Chained, Strung, Pooling
    <3>2. QED BY <1>6, <2>1, <2>2, <2>3, <3>1
  <2>4. CASE h.pool[t] # Null
    <3>1. /\ own[h.pool[t]] = PoolLabel(t)
          /\ \A r \in Structs : own[r] = PoolLabel(t) => idx[h.pool[t]] <= idx[r]
      BY <2>4 DEF Chained, Strung, Pooling
    <3>2. QED BY <1>6, <2>1, <2>2, <2>4, <3>1
  <2>5. QED BY <2>3, <2>4
<1>16. Chained(h2, own2, idx2)
  BY ONLY <1>5, <1>7, <1>8, <1>10, <1>11, <1>12, <1>13, <1>14, <1>15 DEF Chained, Strung, Pooling
<1>17. QED BY <1>4, <1>16 DEF h2, own2, idx2

\* The first structure of a list is taken out of it.
LEMMA DropStrung ==
  ASSUME NEW next \in [Structs -> Structs], NEW used, NEW own, NEW idx, Strung(next, used, own, idx),
         NEW s \in Structs, own[s] # Null, \A r \in Structs : own[r] = own[s] => idx[s] <= idx[r],
         NEW next2, next2[Null] = Null, \A r \in Structs : own[r] # Null /\ r # s => next2[r] = next[r]
  PROVE  Strung(next2, used, [own EXCEPT ![s] = Null], idx)
<1> DEFINE own2 == [own EXCEPT ![s] = Null]
<1>1. own \in [Structs -> Labels] /\ idx \in [Structs -> Int] /\ Null \in Labels
  BY DEF Strung, Labels
<1>2. own2 \in [Structs -> Labels]
  BY <1>1
<1>3. own2[s] = Null /\ \A r \in Structs \ {s} : own2[r] = own[r]
  BY <1>1
<1> HIDE DEF own2
<1>4. Null \in Structs
  BY StructKinds
<1>5. own2[Null] = Null
  BY <1>3, <1>4 DEF Strung
<1>6. ASSUME NEW r \in Structs, own2[r] # Null, next2[r] # Null
      PROVE  own2[next2[r]] = own2[r] /\ idx[next2[r]] = idx[r] + 1
  <2>1. r # s /\ own[r] # Null /\ own2[r] = own[r] /\ next2[r] = next[r] /\ next[r] \in Structs
    BY <1>3, <1>6
  <2>2. own[next[r]] = own[r] /\ idx[next[r]] = idx[r] + 1
    BY <1>6, <2>1 DEF Strung
  <2>3. next[r] # s
    <3>1. SUFFICES ASSUME next[r] = s PROVE FALSE
      OBVIOUS
    <3>2. idx[s] <= idx[r] /\ idx[s] = idx[r] + 1 /\ idx[r] \in Int
      BY <1>1, <2>2, <3>1
    <3>3. QED BY <3>2
  <2>4. QED BY <1>3, <2>1, <2>2, <2>3
<1>7. ASSUME NEW r \in Structs, NEW q \in Structs, own2[r] # Null, own2[q] = own2[r]
      PROVE  /\ next2[r] = Null => idx[q] <= idx[r]
             /\ idx[q] = idx[r] => q = r
  <2>1. r # s /\ q # s /\ own[r] # Null /\ own[q] = own[r] /\ next2[r] = next[r]
    BY <1>3, <1>7
  <2>2. QED BY <2>1 DEF Strung
<1>8. /\ \A r \in Heads : own2[r] # Null => own2[r] = r /\ idx[r] = 0
      /\ \A r \in Structs \ Heads : own2[r] \in Heads => idx[r] > 0
  BY <1>3, StructKinds DEF Strung
<1>9. \A t \in Threads : \A n \in 1 .. MaxCells : n > used[t] => own2[<<3 + t, n>>] = Null
  BY <1>3, StructKinds DEF Strung
<1>10. Strung(next2, used, own2, idx)
  BY ONLY next2[Null] = Null, <1>1, <1>2, <1>5, <1>6, <1>7, <1>8, <1>9 DEF Strung
<1>11. QED BY <1>10 DEF own2

\* cellpool_getcell, when the pool is not empty.
LEMMA PopChained ==
  ASSUME NEW h, HeapOK(h), NEW own, NEW idx, Chained(h, own, idx),
         NEW t \in Threads, h.pool[t] # Null
  PROVE  LET s  == h.pool[t]
             h2 == Linked(Pooled(h, t, h.next[s]), s, Null)
         IN  /\ HeapOK(h2) /\ Chained(h2, [own EXCEPT ![s] = Null], idx)
             /\ s \in UsedOf(h) /\ own[s] = PoolLabel(t) /\ h2.next[s] = Null
             /\ \A r \in Structs \ {s} : h2.next[r] = h.next[r]
             /\ h2.used = h.used
<1> DEFINE s == h.pool[t]
<1> DEFINE h2 == Linked(Pooled(h, t, h.next[s]), s, Null)
<1> DEFINE own2 == [own EXCEPT ![s] = Null]
<1>1. h.next \in [Structs -> Structs] /\ h.pool \in [Threads -> Structs] /\ s \in Structs /\ s # Null
  BY DEF HeapOK
<1>2. /\ h2.next = [h.next EXCEPT ![s] = Null] /\ h2.pool = [h.pool EXCEPT ![t] = h.next[s]]
      /\ h2.used = h.used /\ h2.alloc = h.alloc
  BY DEF Linked, Pooled, HeapOK
<1>3. own[s] = PoolLabel(t) /\ \A r \in Structs : own[r] = own[s] => idx[s] <= idx[r]
  BY <1>1 DEF Chained, Pooling
<1>4. PoolLabel(t) # Null /\ PoolLabel(t) \notin Heads /\ Null \in Structs
  BY StructKinds
<1>5. s \in UsedOf(h)
  <2>1. s \notin Heads
    BY <1>3, <1>4 DEF Chained, Strung
  <2>2. QED BY <1>1, <1>3, <1>4, <2>1, LabelledIsUsed
<1>6. /\ h2.next \in [Structs -> Structs] /\ h2.pool \in [Threads -> Structs]
      /\ h2.next[s] = Null /\ (\A r \in Structs \ {s} : h2.next[r] = h.next[r])
      /\ h2.pool[t] = h.next[s] /\ (\A u \in Threads \ {t} : h2.pool[u] = h.pool[u])
  BY <1>1, <1>2, <1>4
<1>7. HeapOK(h2)
  BY <1>1, <1>4 DEF Linked, Pooled, HeapOK
<1> HIDE DEF h2, s
<1>8. own \in [Structs -> Labels] /\ idx \in [Structs -> Int] /\ Strung(h.next, h.used, own, idx)
      /\ own[Null] = Null /\ h.next[Null] = Null
  BY DEF Chained, Strung
<1>9. Strung(h2.next, h2.used, own2, idx)
  <2>1. h2.next[Null] = Null
    BY <1>4, <1>6, <1>8
  <2>2. \A r \in Structs : own[r] # Null /\ r # s => h2.next[r] = h.next[r]
    BY <1>6
  <2>3. own[s] # Null
    BY <1>3, <1>4
  <2>4. Strung(h2.next, h.used, [own EXCEPT ![s] = Null], idx)
    BY <1>1, <1>3, <1>8, <2>1, <2>2, <2>3, DropStrung
  <2>5. QED BY <1>2, <2>4
<1>10. own2[s] = Null /\ \A r \in Structs \ {s} : own2[r] = own[r]
  BY <1>1, <1>8
<1> HIDE DEF own2
<1>11. ASSUME NEW u \in Threads
       PROVE  IF h2.pool[u] = Null THEN \A r \in Structs : own2[r] # PoolLabel(u)
              ELSE /\ own2[h2.pool[u]] = PoolLabel(u)
                   /\ \A r \in Structs : own2[r] = PoolLabel(u) => idx[h2.pool[u]] <= idx[r]
  <2>1. PoolLabel(u) # Null /\ (u # t => PoolLabel(u) # PoolLabel(t))
    BY StructKinds
  <2>2. CASE u # t
    <3>1. h2.pool[u] = h.pool[u] /\ h.pool[u] \in Structs
      BY <1>1, <1>6, <2>2
    <3>2. \A r \in Structs : own2[r] = PoolLabel(u) <=> own[r] = PoolLabel(u)
      BY <1>3, <1>10, <2>1, <2>2
    <3>3. QED BY <3>1, <3>2 DEF Chained, Pooling
  <2>3. CASE u = t /\ h.next[s] = Null
    <3>1. ASSUME NEW r \in Structs, own2[r] = PoolLabel(t) PROVE FALSE
      <4>1. r # s /\ own[r] = own[s] /\ own[s] # Null
        BY <1>3, <1>4, <1>10, <3>1
      <4>2. idx[r] <= idx[s] /\ idx[s] <= idx[r]
        BY <1>1, <1>3, <1>8, <2>3, <4>1 DEF Strung
      <4>3. idx[r] = idx[s]
        BY <1>1, <1>8, <4>2
      <4>4. QED BY <1>1, <1>8, <4>1, <4>3 DEF Strung
    <3>2. QED BY <1>6, <2>3, <3>1
  <2>4. CASE u = t /\ h.next[s] # Null
    <3>1. own[h.next[s]] = own[s] /\ idx[h.next[s]] = idx[s] + 1 /\ h.next[s] \in Structs
      BY <1>1, <1>3, <1>4, <2>4, NextKeepsLabel
    <3>2. h.next[s] # s /\ idx[s] \in Int
      BY <1>1, <1>8, <3>1
    <3>3. ASSUME NEW r \in Structs, own2[r] = PoolLabel(t) PROVE idx[s] + 1 <= idx[r]
      <4>1. r # s /\ own[r] = own[s] /\ own[s] # Null
        BY <1>3, <1>4, <1>10, <3>3
      <4>2. idx[s] <= idx[r] /\ idx[r] # idx[s] /\ idx[r] \in Int
        BY <1>1, <1>3, <1>8, <4>1 DEF Strung
      <4>3. QED BY <3>2, <4>2
    <3>4. QED BY <1>3, <1>6, <1>10, <2>4, <3>1, <3>2, <3>3
  <2>5. QED BY <2>2, <2>3, <2>4
<1>12. Chained(h2, own2, idx)
  BY ONLY <1>9, <1>11 DEF Chained, Pooling
<1>13. QED BY <1>2, <1>3, <1>5, <1>6, <1>7, <1>12 DEF h2, own2, s

\* Another block: its structures are those of a pool that was empty.
LEMMA BlockChained ==
  ASSUME NEW h, HeapOK(h), NEW own, NEW idx, Chained(h, own, idx),
         NEW t \in Threads, h.pool[t] = Null, h.used[t] + h.alloc[t] <= MaxCells
  PROVE  LET h2   == AllocBlock(h, t)
             Fresh(s) == s[1] = 3 + t /\ s[2] \in h.used[t] + 1 .. h.used[t] + h.alloc[t]
             own2 == [s \in Structs |-> IF Fresh(s) THEN PoolLabel(t) ELSE own[s]]
             idx2 == [s \in Structs |-> IF Fresh(s) THEN s[2] ELSE idx[s]]
         IN  /\ HeapOK(h2) /\ Chained(h2, own2, idx2) /\ h2.pool[t] # Null
             /\ \A s \in Structs : Fresh(s) => own[s] = Null /\ s \notin UsedOf(h)
             /\ \A s \in Structs : ~Fresh(s) => h2.next[s] = h.next[s]
             /\ \A s \in UsedOf(h2) : s \in UsedOf(h) \/ Fresh(s)
<1> DEFINE from == h.used[t]
<1> DEFINE to == h.used[t] + h.alloc[t]
<1> DEFINE h2 == AllocBlock(h, t)
<1> DEFINE Fresh(s) == s[1] = 3 + t /\ s[2] \in from + 1 .. to
<1> DEFINE own2 == [s \in Structs |-> IF Fresh(s) THEN PoolLabel(t) ELSE own[s]]
<1> DEFINE idx2 == [s \in Structs |-> IF Fresh(s) THEN s[2] ELSE idx[s]]
<1>1. /\ h.next \in [Structs -> Structs] /\ h.pool \in [Threads -> Structs]
      /\ h.alloc \in [Threads -> Nat \ {0}] /\ h.used \in [Threads -> Nat]
      /\ \A u \in Threads : h.used[u] <= MaxCells
  BY DEF HeapOK
<1>2. from \in Nat /\ to \in Nat /\ from < to /\ to <= MaxCells /\ t \in Nat /\ MaxCells \in Nat
      /\ h.alloc[t] \in Nat \ {0} /\ 2 * h.alloc[t] \in Nat \ {0}
  <2>1. h.alloc[t] \in Nat \ {0} /\ h.used[t] \in Nat
    BY <1>1
  <2>2. QED BY <2>1, Sizes DEF Threads
<1>3. /\ h2.next = [s \in Structs |-> IF Fresh(s) THEN (IF s[2] < to THEN <<3 + t, s[2] + 1>> ELSE Null)
                                      ELSE h.next[s]]
      /\ h2.pool = [h.pool EXCEPT ![t] = <<3 + t, from + 1>>]
      /\ h2.alloc = [h.alloc EXCEPT ![t] = 2 * @]
      /\ h2.used = [h.used EXCEPT ![t] = to]
      /\ h2 = [next |-> h2.next, pool |-> h2.pool, alloc |-> h2.alloc, used |-> h2.used]
  BY DEF AllocBlock
<1>4. ASSUME NEW s \in Structs, Fresh(s)
      PROVE  s = <<3 + t, s[2]>> /\ s \notin Heads /\ s # Null /\ s[2] \in 1 .. MaxCells /\ s[2] > from
  <2>1. s[2] \in 1 .. MaxCells /\ s[2] > from
    BY <1>2, <1>4
  <2>2. s # Null /\ s \notin Heads
    BY <1>2, <1>4 DEF Null, Heads
  <2>3. PICK u \in Threads, n \in 1 .. MaxCells : s = <<3 + u, n>>
    BY <2>2, StructKinds
  <2>4. QED BY <1>4, <2>1, <2>2, <2>3
<1>5. \A n \in from + 1 .. to : <<3 + t, n>> \in Structs /\ Fresh(<<3 + t, n>>) /\ <<3 + t, n>> # Null
  <2>1. \A n \in from + 1 .. to : n \in 1 .. MaxCells
    BY <1>2
  <2>2. QED BY <2>1, StructKinds
<1>6. Null \in Structs /\ ~Fresh(Null)
  BY <1>2, StructKinds DEF Null
<1>7. from + 1 \in from + 1 .. to
  BY <1>2
<1>8. ASSUME NEW s \in Structs
      PROVE  h2.next[s] = IF Fresh(s) THEN (IF s[2] < to THEN <<3 + t, s[2] + 1>> ELSE Null) ELSE h.next[s]
  BY <1>3
<1>9. ASSUME NEW s \in Structs, Fresh(s), s[2] < to
      PROVE  /\ s[2] + 1 \in from + 1 .. to
             /\ <<3 + t, s[2] + 1>> \in Structs /\ <<3 + t, s[2] + 1>> # Null
  <2>1. PICK n \in from + 1 .. to : n = s[2] + 1
    BY <1>2, <1>9
  <2>2. QED BY <1>5, <2>1
<1>10. own \in [Structs -> Labels] /\ idx \in [Structs -> Int]
  BY DEF Chained, Strung
<1>11. own2 \in [Structs -> Labels] /\ idx2 \in [Structs -> Int]
  <2>1. PoolLabel(t) \in Labels
    BY DEF Labels
  <2>2. \A s \in Structs : Fresh(s) => s[2] \in Int
    BY <1>4
  <2>3. QED BY <1>10, <2>1, <2>2
<1>12. \A s \in Structs : /\ own2[s] = (IF Fresh(s) THEN PoolLabel(t) ELSE own[s])
                          /\ idx2[s] = (IF Fresh(s) THEN s[2] ELSE idx[s])
  OBVIOUS
<1>13. /\ h2.pool[t] = <<3 + t, from + 1>> /\ (\A u \in Threads \ {t} : h2.pool[u] = h.pool[u])
       /\ h2.used[t] = to /\ (\A u \in Threads \ {t} : h2.used[u] = h.used[u])
  BY <1>1, <1>3
<1>14. HeapOK(h2)
  <2>1. ASSUME NEW s \in Structs PROVE h2.next[s] \in Structs
    <3>1. CASE Fresh(s) /\ s[2] < to
      BY <1>8, <1>9, <3>1
    <3>2. CASE ~(Fresh(s) /\ s[2] < to)
      BY <1>1, <1>6, <1>8, <3>2
    <3>3. QED BY <3>1, <3>2
  <2>2. h2.next \in [Structs -> Structs]
    BY <1>3, <2>1
  <2>3. h2.pool \in [Threads -> Structs]
    BY <1>1, <1>3, <1>5, <1>7
  <2>4. h2.alloc \in [Threads -> Nat \ {0}]
    BY <1>1, <1>2, <1>3
  <2>5. h2.used \in [Threads -> Nat]
    BY <1>1, <1>2, <1>3
  <2>6. \A u \in Threads : h2.used[u] <= MaxCells
    BY <1>1, <1>2, <1>13
  <2> HIDE DEF h2
  <2>7. QED BY <1>3, <2>2, <2>3, <2>4, <2>5, <2>6 DEF HeapOK
<1>15. PoolLabel(t) # Null /\ PoolLabel(t) \notin Heads
  BY StructKinds
<1>16. \A s \in Structs : Fresh(s) => own[s] = Null /\ s \notin UsedOf(h)
  <2>1. SUFFICES ASSUME NEW s \in Structs, Fresh(s) PROVE own[s] = Null /\ s \notin UsedOf(h)
    OBVIOUS
  <2>2. s = <<3 + t, s[2]>> /\ s[2] \in 1 .. MaxCells /\ s[2] > h.used[t]
    BY <1>4, <2>1
  <2>3. PICK n \in 1 .. MaxCells : n = s[2]
    BY <2>2
  <2>4. s = <<3 + t, n>> /\ n > h.used[t] /\ ~(n <= h.used[t])
    <3>1. s = <<3 + t, n>> /\ n > from
      BY <2>2, <2>3
    <3>2. ~(n <= from)
      BY <1>2, <3>1
    <3>3. QED BY <3>1, <3>2
  <2>5. own[<<3 + t, n>>] = Null
    BY <2>4 DEF Chained, Strung
  <2>6. <<3 + t, n>> \notin UsedOf(h)
    BY <2>4, UsedStructs
  <2>7. QED BY <2>4, <2>5, <2>6
<1>17. \A s \in Structs : own[s] # PoolLabel(t)
  BY DEF Chained, Pooling
<1> HIDE DEF own2, idx2, h2
<1>18. ASSUME NEW s \in Structs, own2[s] # Null, h2.next[s] # Null
       PROVE  own2[h2.next[s]] = own2[s] /\ idx2[h2.next[s]] = idx2[s] + 1
  <2>1. CASE Fresh(s)
    <3>1. s[2] < to /\ h2.next[s] = <<3 + t, s[2] + 1>>
      BY <1>8, <1>18, <2>1
    <3>2. s[2] + 1 \in from + 1 .. to
      BY <1>9, <2>1, <3>1
    <3>3. h2.next[s] \in Structs /\ Fresh(h2.next[s]) /\ h2.next[s][2] = s[2] + 1
      BY <1>5, <3>1, <3>2
    <3>4. QED BY <1>12, <2>1, <3>3
  <2>2. CASE ~Fresh(s)
    <3>1. own[s] # Null /\ h.next[s] # Null /\ h2.next[s] = h.next[s] /\ h.next[s] \in Structs
      BY <1>1, <1>8, <1>12, <1>18, <2>2
    <3>2. own[h.next[s]] = own[s] /\ idx[h.next[s]] = idx[s] + 1
      BY <3>1, NextKeepsLabel
    <3>3. ~Fresh(h.next[s])
      BY <1>16, <3>1, <3>2
    <3>4. QED BY <1>12, <2>2, <3>1, <3>2, <3>3
  <2>3. QED BY <2>1, <2>2
<1>19. ASSUME NEW s \in Structs, NEW r \in Structs, own2[s] # Null, own2[r] = own2[s]
       PROVE  /\ h2.next[s] = Null => idx2[r] <= idx2[s]
              /\ idx2[r] = idx2[s] => r = s
  <2>1. CASE Fresh(s)
    <3>1. own2[s] = PoolLabel(t)
      BY <1>12, <2>1
    <3>2. Fresh(r)
      BY <1>12, <1>17, <1>19, <3>1
    <3>3. idx2[r] = r[2] /\ idx2[s] = s[2] /\ s = <<3 + t, s[2]>> /\ r = <<3 + t, r[2]>>
      BY <1>4, <1>12, <2>1, <3>2
    <3>4. r[2] \in from + 1 .. to /\ s[2] \in from + 1 .. to
      BY <2>1, <3>2
    <3>5. h2.next[s] = Null => s[2] = to
      <4>1. h2.next[s] = Null /\ s[2] < to => FALSE
        BY <1>8, <1>9, <2>1
      <4>2. QED BY <1>2, <3>4, <4>1
    <3>6. QED BY <1>2, <3>3, <3>4, <3>5
  <2>2. CASE ~Fresh(s)
    <3>1. own2[s] = own[s] /\ h2.next[s] = h.next[s] /\ idx2[s] = idx[s]
      BY <1>8, <1>12, <2>2
    <3>2. ~Fresh(r)
      BY <1>12, <1>17, <1>19, <3>1
    <3>3. own2[r] = own[r] /\ idx2[r] = idx[r]
      BY <1>12, <3>2
    <3>4. QED BY <1>19, <3>1, <3>3 DEF Chained, Strung
  <2>3. QED BY <2>1, <2>2
<1>20. /\ \A s \in Heads : own2[s] # Null => own2[s] = s /\ idx2[s] = 0
       /\ \A s \in Structs \ Heads : own2[s] \in Heads => idx2[s] > 0
  <2>1. \A s \in Heads : s \in Structs /\ ~Fresh(s)
    BY <1>4, StructKinds
  <2>2. QED BY <1>12, <1>15, <2>1 DEF Chained, Strung
<1>21. ASSUME NEW u \in Threads, NEW n \in 1 .. MaxCells, n > h2.used[u] PROVE own2[<<3 + u, n>>] = Null
  <2>1. <<3 + u, n>> \in Structs /\ u \in Nat
    BY StructKinds DEF Threads
  <2>2. ~Fresh(<<3 + u, n>>) /\ n > h.used[u]
    <3>1. CASE u = t
      BY <1>2, <1>13, <1>21, <3>1
    <3>2. CASE u # t
      BY <1>2, <1>13, <1>21, <2>1, <3>2
    <3>3. QED BY <3>1, <3>2
  <2>3. own[<<3 + u, n>>] = Null
    BY <2>2 DEF Chained, Strung
  <2>4. QED BY <1>12, <2>1, <2>2, <2>3
<1>22. Strung(h2.next, h2.used, own2, idx2)
  <2>1. own2[Null] = Null /\ h2.next[Null] = Null
    BY <1>6, <1>8, <1>12 DEF Chained, Strung
  <2>2. QED BY ONLY <1>11, <1>18, <1>19, <1>20, <1>21, <2>1 DEF Strung
<1>23. ASSUME NEW u \in Threads
       PROVE  IF h2.pool[u] = Null THEN \A r \in Structs : own2[r] # PoolLabel(u)
              ELSE /\ own2[h2.pool[u]] = PoolLabel(u)
                   /\ \A r \in Structs : own2[r] = PoolLabel(u) => idx2[h2.pool[u]] <= idx2[r]
  <2>1. CASE u = t
    <3>1. h2.pool[t] \in Structs /\ Fresh(h2.pool[t]) /\ h2.pool[t] # Null /\ h2.pool[t][2] = from + 1
      BY <1>5, <1>7, <1>13
    <3>2. ASSUME NEW r \in Structs, own2[r] = PoolLabel(t) PROVE from + 1 <= idx2[r]
      <4>1. Fresh(r) /\ r[2] \in from + 1 .. to
        BY <1>12, <1>17, <3>2
      <4>2. QED BY <1>2, <1>12, <4>1
    <3>3. QED BY <1>12, <2>1, <3>1, <3>2
  <2>2. CASE u # t
    <3>1. h2.pool[u] = h.pool[u] /\ h.pool[u] \in Structs /\ PoolLabel(u) # PoolLabel(t) /\ PoolLabel(u) # Null
      BY <1>1, <1>13, <2>2, StructKinds
    <3>2. \A r \in Structs : own[r] = PoolLabel(u) => ~Fresh(r)
      BY <1>16, <3>1
    <3>3. \A r \in Structs : own2[r] = PoolLabel(u) => own[r] = PoolLabel(u) /\ idx2[r] = idx[r]
      BY <1>12, <3>1
    <3>4. QED BY <1>12, <3>1, <3>2, <3>3 DEF Chained, Pooling
  <2>3. QED BY <2>1, <2>2
<1>24. Chained(h2, own2, idx2) /\ h2.pool[t] # Null
  <2>1. h2.pool[t] # Null
    BY <1>5, <1>7, <1>13
  <2>2. Chained(h2, own2, idx2)
    BY ONLY <1>22, <1>23 DEF Chained, Pooling
  <2>3. QED BY <2>1, <2>2
<1>25. ASSUME NEW s \in UsedOf(h2) PROVE s \in UsedOf(h) \/ Fresh(s)
  <2>1. PICK u \in Threads : \E n \in 1 .. h2.used[u] : s = <<3 + u, n>>
    BY DEF UsedOf
  <2>2. PICK n \in 1 .. h2.used[u] : s = <<3 + u, n>>
    BY <2>1
  <2>3. CASE n \in 1 .. h.used[u]
    BY <2>2, <2>3 DEF UsedOf
  <2>4. CASE n \notin 1 .. h.used[u]
    <3>1. u = t
      BY <1>13, <2>4
    <3>2. n \in from + 1 .. to
      BY <1>2, <1>13, <2>4, <3>1
    <3>3. QED BY <2>2, <3>1, <3>2
  <2>5. QED BY <2>3, <2>4
<1>26. \A s \in Structs : ~Fresh(s) => h2.next[s] = h.next[s]
  BY <1>8
<1>27. QED BY <1>14, <1>16, <1>24, <1>25, <1>26 DEF h2, own2, idx2

\* cellpool_returncell: an unlabelled structure becomes the first of a pool.
LEMMA ReturnChained ==
  ASSUME NEW h, HeapOK(h), NEW own, NEW idx, Chained(h, own, idx),
         NEW t \in Threads, NEW s \in UsedOf(h), own[s] = Null
  PROVE  LET h2   == Returned(h, t, s)
             own2 == [own EXCEPT ![s] = PoolLabel(t)]
             idx2 == [idx EXCEPT ![s] = IF h.pool[t] = Null THEN 0 ELSE idx[h.pool[t]] - 1]
         IN  /\ HeapOK(h2) /\ Chained(h2, own2, idx2) /\ h2.used = h.used
             /\ \A r \in Structs \ {s} : h2.next[r] = h.next[r]
<1> DEFINE m == IF h.pool[t] = Null THEN 0 ELSE idx[h.pool[t]] - 1
<1> DEFINE h2 == Returned(h, t, s)
<1> DEFINE own2 == [own EXCEPT ![s] = PoolLabel(t)]
<1> DEFINE idx2 == [idx EXCEPT ![s] = m]
<1>1. h.next \in [Structs -> Structs] /\ h.pool \in [Threads -> Structs] /\ h.pool[t] \in Structs
  BY DEF HeapOK
<1>2. s \in Structs /\ s # Null /\ s \notin Heads
  BY UsedStructs
<1>3. /\ h2.next = [h.next EXCEPT ![s] = h.pool[t]] /\ h2.pool = [h.pool EXCEPT ![t] = s]
      /\ h2.used = h.used /\ h2.alloc = h.alloc
  BY DEF Returned, Linked, Pooled, HeapOK
<1>4. HeapOK(h2)
  BY <1>1, <1>2 DEF Returned, Linked, Pooled, HeapOK
<1>5. own \in [Structs -> Labels] /\ idx \in [Structs -> Int] /\ Strung(h.next, h.used, own, idx)
      /\ own[Null] = Null /\ h.next[Null] = Null
  BY DEF Chained, Strung
<1>6. PoolLabel(t) # Null /\ PoolLabel(t) \notin Heads /\ Null \in Structs /\ PoolLabel(t) \in Labels
  BY StructKinds DEF Labels
<1>7. m \in Int
  BY <1>1, <1>5
<1>8. /\ h2.next[s] = h.pool[t] /\ (\A r \in Structs \ {s} : h2.next[r] = h.next[r])
      /\ h2.pool[t] = s /\ (\A u \in Threads \ {t} : h2.pool[u] = h.pool[u])
  BY <1>1, <1>2, <1>3
<1>9. /\ own2[s] = PoolLabel(t) /\ (\A r \in Structs \ {s} : own2[r] = own[r])
      /\ idx2[s] = m /\ (\A r \in Structs \ {s} : idx2[r] = idx[r])
  BY <1>2, <1>5
<1>10. own2 \in [Structs -> Labels] /\ idx2 \in [Structs -> Int]
  BY <1>2, <1>5, <1>6, <1>7
<1>11. h.pool[t] = Null => \A r \in Structs : own[r] # PoolLabel(t)
  BY DEF Chained, Pooling
<1>12. h.pool[t] # Null =>
         /\ own[h.pool[t]] = PoolLabel(t) /\ idx[h.pool[t]] = m + 1
         /\ \A r \in Structs : own[r] = PoolLabel(t) => m < idx[r]
  <2>1. SUFFICES ASSUME h.pool[t] # Null
                 PROVE  /\ own[h.pool[t]] = PoolLabel(t) /\ idx[h.pool[t]] = m + 1
                        /\ \A r \in Structs : own[r] = PoolLabel(t) => m < idx[r]
    OBVIOUS
  <2>2. idx[h.pool[t]] \in Int /\ m = idx[h.pool[t]] - 1
    BY <1>1, <1>5, <2>1
  <2>3. /\ own[h.pool[t]] = PoolLabel(t)
        /\ \A r \in Structs : own[r] = PoolLabel(t) => idx[h.pool[t]] <= idx[r] /\ idx[r] \in Int
    BY <1>5, <2>1 DEF Chained, Pooling
  <2> HIDE DEF m
  <2>4. QED BY <2>2, <2>3
<1> HIDE DEF h2, own2, idx2, m
<1>13. h.pool[t] # s
  BY <1>2, <1>6, <1>12
<1>14. ASSUME NEW r \in Structs, own2[r] # Null, h2.next[r] # Null
       PROVE  own2[h2.next[r]] = own2[r] /\ idx2[h2.next[r]] = idx2[r] + 1
  <2>1. CASE r = s
    <3>1. h.pool[t] # Null /\ h2.next[s] = h.pool[t]
      BY <1>8, <1>14, <2>1
    <3>2. own2[h.pool[t]] = own[h.pool[t]] /\ idx2[h.pool[t]] = idx[h.pool[t]]
      BY <1>1, <1>9, <1>13
    <3>3. QED BY <1>9, <1>12, <2>1, <3>1, <3>2
  <2>2. CASE r # s
    <3>1. own[r] # Null /\ own2[r] = own[r] /\ h2.next[r] = h.next[r] /\ h.next[r] # Null /\ h.next[r] \in Structs
      BY <1>1, <1>8, <1>9, <1>14, <2>2
    <3>2. own[h.next[r]] = own[r] /\ idx[h.next[r]] = idx[r] + 1
      BY <3>1, NextKeepsLabel
    <3>3. h.next[r] # s
      BY <3>1, <3>2
    <3>4. QED BY <1>9, <2>2, <3>1, <3>2, <3>3
  <2>3. QED BY <2>1, <2>2
<1>15. ASSUME NEW r \in Structs, NEW q \in Structs, own2[r] # Null, own2[q] = own2[r]
       PROVE  /\ h2.next[r] = Null => idx2[q] <= idx2[r]
              /\ idx2[q] = idx2[r] => q = r
  <2>1. CASE r = s /\ q = s
    BY <1>7, <1>9, <2>1
  <2>2. CASE r = s /\ q # s
    <3>1. own[q] = PoolLabel(t) /\ idx2[q] = idx[q] /\ idx2[r] = m /\ idx[q] \in Int
      BY <1>5, <1>9, <1>15, <2>2
    <3>2. h.pool[t] # Null
      BY <1>11, <3>1
    <3>3. h2.next[r] # Null /\ m < idx[q]
      BY <1>8, <1>12, <2>2, <3>1, <3>2
    <3>4. QED BY <1>7, <3>1, <3>3
  <2>3. CASE r # s /\ q = s
    <3>1. own[r] = PoolLabel(t) /\ idx2[r] = idx[r] /\ idx2[q] = m /\ idx[r] \in Int
      BY <1>5, <1>9, <1>15, <2>3
    <3>2. m < idx[r]
      BY <1>11, <1>12, <3>1
    <3>3. QED BY <1>7, <3>1, <3>2
  <2>4. CASE r # s /\ q # s
    <3>1. own[r] # Null /\ own[q] = own[r] /\ h2.next[r] = h.next[r] /\ idx2[r] = idx[r] /\ idx2[q] = idx[q]
      BY <1>8, <1>9, <1>15, <2>4
    <3>2. QED BY <1>5, <3>1 DEF Strung
  <2>5. QED BY <2>1, <2>2, <2>3, <2>4
<1>16. /\ \A r \in Heads : own2[r] # Null => own2[r] = r /\ idx2[r] = 0
       /\ \A r \in Structs \ Heads : own2[r] \in Heads => idx2[r] > 0
  BY <1>2, <1>5, <1>6, <1>9, StructKinds DEF Strung
<1>17. ASSUME NEW u \in Threads, NEW n \in 1 .. MaxCells, n > h2.used[u] PROVE own2[<<3 + u, n>>] = Null
  <2>1. h.used[u] \in Nat /\ ~(n <= h.used[u]) /\ n > h.used[u]
    BY <1>3, <1>17 DEF HeapOK
  <2>2. <<3 + u, n>> # s /\ <<3 + u, n>> \in Structs
    BY <2>1, UsedStructs, StructKinds
  <2>3. own[<<3 + u, n>>] = Null
    BY <1>5, <2>1 DEF Strung
  <2>4. QED BY <1>9, <2>2, <2>3
<1>18. Strung(h2.next, h2.used, own2, idx2)
  <2>1. own2[Null] = Null /\ h2.next[Null] = Null
    BY <1>2, <1>5, <1>6, <1>8, <1>9
  <2>2. QED BY ONLY <1>10, <1>14, <1>15, <1>16, <1>17, <2>1 DEF Strung
<1>19. ASSUME NEW u \in Threads
       PROVE  IF h2.pool[u] = Null THEN \A r \in Structs : own2[r] # PoolLabel(u)
              ELSE /\ own2[h2.pool[u]] = PoolLabel(u)
                   /\ \A r \in Structs : own2[r] = PoolLabel(u) => idx2[h2.pool[u]] <= idx2[r]
  <2>1. CASE u = t
    <3>1. \A r \in Structs \ {s} : own[r] = PoolLabel(t) => m <= idx[r]
      <4>1. \A r \in Structs : idx[r] \in Int
        BY <1>5
      <4>2. QED BY <1>7, <1>11, <1>12, <4>1
    <3>2. \A r \in Structs : own2[r] = PoolLabel(t) => m <= idx2[r]
      BY <1>7, <1>9, <3>1
    <3>3. QED BY <1>2, <1>8, <1>9, <2>1, <3>2
  <2>2. CASE u # t
    <3>1. h2.pool[u] = h.pool[u] /\ h.pool[u] \in Structs /\ PoolLabel(u) # PoolLabel(t) /\ PoolLabel(u) # Null
      BY <1>1, <1>8, <2>2, StructKinds
    <3>2. \A r \in Structs : own2[r] = PoolLabel(u) <=> own[r] = PoolLabel(u) /\ r # s
      BY <1>9, <3>1
    <3>3. own[s] # PoolLabel(u)
      BY <3>1
    <3>4. QED BY <1>9, <3>1, <3>2, <3>3 DEF Chained, Pooling
  <2>3. QED BY <2>1, <2>2
<1>20. Chained(h2, own2, idx2)
  BY ONLY <1>18, <1>19 DEF Chained, Pooling
<1>21. QED BY <1>3, <1>4, <1>8, <1>20 DEF h2, own2, idx2, m

\* cellpool_getcell: the structure it returns is in no list any more, and the
\* lists of cells are as before.
LEMMA GotChained ==
  ASSUME NEW h, HeapOK(h), NEW own, NEW idx, Chained(h, own, idx), NEW t \in Threads, HasRoom(h, t)
  PROVE  LET g == Got(h, t)
         IN  /\ HeapOK(g.heap) /\ g.cell \in UsedOf(g.heap) /\ g.heap.next[g.cell] = Null
             /\ own[g.cell] \notin Heads
             /\ \E own2, idx2 :
                  /\ Chained(g.heap, own2, idx2) /\ own2[g.cell] = Null
                  /\ SameCells(h.next, own, idx, g.heap.next, own2, idx2)
                  /\ AllLabelled(h, own) => \A s \in UsedOf(g.heap) \ {g.cell} : own2[s] # Null
<1> DEFINE b == IF h.pool[t] = Null THEN AllocBlock(h, t) ELSE h
<1>1. PICK own1, idx1 :
        /\ HeapOK(b) /\ Chained(b, own1, idx1) /\ b.pool[t] # Null
        /\ SameCells(h.next, own, idx, b.next, own1, idx1)
        /\ \A s \in Structs : own1[s] = PoolLabel(t) => own[s] \notin Heads
        /\ AllLabelled(h, own) => AllLabelled(b, own1)
  <2>1. CASE h.pool[t] = Null
    <3>1. h.used[t] + h.alloc[t] <= MaxCells
      BY <2>1 DEF HasRoom
    <3> DEFINE Fresh(s) == s[1] = 3 + t /\ s[2] \in h.used[t] + 1 .. h.used[t] + h.alloc[t]
    <3> DEFINE own2 == [s \in Structs |-> IF Fresh(s) THEN PoolLabel(t) ELSE own[s]]
    <3> DEFINE idx2 == [s \in Structs |-> IF Fresh(s) THEN s[2] ELSE idx[s]]
    <3>2. /\ HeapOK(b) /\ Chained(b, own2, idx2) /\ b.pool[t] # Null
          /\ \A s \in Structs : Fresh(s) => own[s] = Null /\ s \notin UsedOf(h)
          /\ \A s \in Structs : ~Fresh(s) => b.next[s] = h.next[s]
          /\ \A s \in UsedOf(b) : s \in UsedOf(h) \/ Fresh(s)
      BY <2>1, <3>1, BlockChained
    <3>3. \A s \in Structs : /\ own2[s] = (IF Fresh(s) THEN PoolLabel(t) ELSE own[s])
                             /\ idx2[s] = (IF Fresh(s) THEN s[2] ELSE idx[s])
      OBVIOUS
    <3>4. UsedOf(b) \subseteq Structs
      BY <3>2, UsedStructs
    <3>5. Null \notin Heads /\ PoolLabel(t) \notin Heads /\ PoolLabel(t) # Null
      BY StructKinds
    <3>6. \A s \in Structs : own2[s] = PoolLabel(t) => own[s] \notin Heads
      BY <3>2, <3>3, <3>5
    <3> HIDE DEF own2, idx2, Fresh, b
    <3>7. SameCells(h.next, own, idx, b.next, own2, idx2)
      BY <3>2, <3>3, <3>5 DEF SameCells
    <3>8. AllLabelled(h, own) => AllLabelled(b, own2)
      BY <3>2, <3>3, <3>4, <3>5 DEF AllLabelled
    <3>9. QED BY <3>2, <3>6, <3>7, <3>8
  <2>2. CASE h.pool[t] # Null
    <3>1. b = h
      BY <2>2
    <3>2. \A s \in Structs : own[s] = PoolLabel(t) => own[s] \notin Heads
      BY StructKinds
    <3>3. SameCells(h.next, own, idx, b.next, own, idx)
      BY <3>1 DEF SameCells
    <3> HIDE DEF b
    <3>4. QED BY <2>2, <3>1, <3>2, <3>3
  <2>3. QED BY <2>1, <2>2
<1> DEFINE s == b.pool[t]
<1> DEFINE h2 == Linked(Pooled(b, t, b.next[s]), s, Null)
<1> DEFINE own2 == [own1 EXCEPT ![s] = Null]
<1>2. Got(h, t).cell = s /\ Got(h, t).heap = h2
  BY DEF Got
<1> HIDE DEF b
<1>3. /\ HeapOK(h2) /\ Chained(h2, own2, idx1)
      /\ s \in UsedOf(b) /\ own1[s] = PoolLabel(t) /\ h2.next[s] = Null
      /\ \A r \in Structs \ {s} : h2.next[r] = b.next[r]
      /\ h2.used = b.used
  BY <1>1, PopChained
<1>4. UsedOf(h2) = UsedOf(b)
  <2> HIDE DEF h2
  <2>1. QED BY <1>3 DEF UsedOf
<1>5. s \in Structs /\ UsedOf(b) \subseteq Structs
  BY <1>1, <1>3, UsedStructs
<1>6. own[s] \notin Heads /\ PoolLabel(t) \notin Heads /\ Null \notin Heads
  BY <1>1, <1>3, <1>5, StructKinds
<1>7. own1 \in [Structs -> Labels]
  BY <1>1 DEF Chained, Strung
<1>8. own2[s] = Null /\ \A r \in Structs \ {s} : own2[r] = own1[r]
  BY <1>5, <1>7
<1> HIDE DEF h2, own2, s
<1>9. SameCells(h.next, own, idx, h2.next, own2, idx1)
  BY <1>1, <1>3, <1>6, <1>8 DEF SameCells
<1>10. AllLabelled(h, own) => \A r \in UsedOf(h2) \ {s} : own2[r] # Null
  BY <1>1, <1>4, <1>5, <1>8 DEF AllLabelled
<1>11. QED BY <1>2, <1>3, <1>4, <1>6, <1>8, <1>9, <1>10

\* Where the next particle of a list goes: after the last structure when that is
\* full, otherwise into it.
LEMMA LastPlace ==
  ASSUME NEW i \in Nat, NEW n \in Nat, i = 0 \/ Base(i) < n, n <= Base(i + 1)
  PROVE  IF n % PPC = 0 /\ n # 0 THEN n = Base(i + 1) ELSE Base(i) + (n % PPC) = n
<1>1. PICK k \in Nat \ {0} : k = PPC
  BY Sizes
<1>2. PICK q \in Nat, m \in 0 .. k - 1 : m = n % k /\ n = Base(q) + m
  BY <1>1, PlaceOf
<1>3. /\ Base(0) = 0 /\ Base(i) \in Nat /\ Base(q) \in Nat /\ Base(i + 1) = Base(i) + k
      /\ 0 \in 0 .. k - 1 /\ i + 1 \in Nat
  BY <1>1, Bases
<1>4. q <= i + 1
  <2>1. Base(q) + m <= Base(i + 1) + 0
    BY <1>2, <1>3
  <2>2. QED BY <1>1, <1>2, <1>3, <2>1, BaseOrder
<1>5. i <= q
  <2>1. CASE i = 0
    BY <2>1
  <2>2. CASE i # 0
    <3>1. Base(i) + 0 <= Base(q) + m
      BY <1>2, <1>3, <2>2
    <3>2. QED BY <1>1, <1>2, <1>3, <3>1, BaseOrder
  <2>3. QED BY <2>1, <2>2
<1>6. CASE n % k = 0 /\ n # 0
  <2>1. m = 0 /\ n = Base(q)
    BY <1>2, <1>3, <1>6
  <2>2. q # i
    <3>1. CASE i = 0
      BY <1>3, <1>6, <2>1, <3>1
    <3>2. CASE i # 0
      BY <1>3, <2>1, <3>2
    <3>3. QED BY <3>1, <3>2
  <2>3. q = i + 1
    BY <1>4, <1>5, <2>2
  <2>4. QED BY <1>1, <1>6, <2>1, <2>3
<1>7. CASE n = 0
  <2>1. i = 0
    BY <1>3, <1>7
  <2>2. q = 0
    <3>0. Base(q) + m = 0 /\ Base(0) + 0 = 0
      <4>1. Base(q) + m = n
        BY <1>2
      <4>2. Base(0) = 0
        BY Bases
      <4>3. QED BY <1>7, <4>1, <4>2
    <3>1. Base(q) + m <= Base(0) + 0
      BY <3>0
    <3>2. q <= 0
      BY <1>1, <1>2, <1>3, <3>1, BaseOrder
    <3>3. QED BY <3>2
  <2>3. QED BY <1>1, <1>2, <1>7, <2>1, <2>2
<1>8. CASE n % k # 0
  <2>1. q # i + 1
    BY <1>2, <1>3, <1>8
  <2>2. q = i
    BY <1>4, <1>5, <2>1
  <2>3. QED BY <1>1, <1>2, <1>8, <2>2
<1>9. QED BY <1>6, <1>7, <1>8

LEMMA PlacesCountUp ==
  ASSUME NEW next, NEW used, NEW own, NEW idx, Strung(next, used, own, idx), NEW s \in Structs, own[s] \in Heads
  PROVE  idx[s] \in Nat
<1>1. idx[s] \in Int /\ own[s] # Null
  BY StructKinds DEF Strung
<1>2. CASE s \in Heads
  <2>1. idx[s] = 0
    BY <1>1, <1>2 DEF Strung
  <2>2. QED BY <2>1
<1>3. CASE s \notin Heads
  <2>1. idx[s] > 0
    BY <1>3 DEF Strung
  <2>2. QED BY <1>1, <2>1
<1>4. QED BY <1>2, <1>3

\* One more particle in a list, in the last structure or in another one.
LEMMA AddLists ==
  ASSUME NEW h, HeapOK(h), NEW own, NEW idx, Chained(h, own, idx),
         NEW live, NEW entry \in [Heads -> Structs], NEW first \in [Heads -> Nat], NEW size \in [Heads -> Nat],
         live \subseteq Heads, Listed(h, own, idx, live, entry, first, size),
         NEW l \in live, NEW e \in Structs, own[e] = l, h.next[e] = Null, NEW t \in Threads,
         NEW full \in BOOLEAN, full <=> size[l] % PPC = 0 /\ size[l] # 0, full => HasRoom(h, t)
  PROVE  Extends(h, own, idx, live, entry, first, size, l, e, full, IF full THEN Got(h, t).cell ELSE e,
                 IF full THEN Linked(Got(h, t).heap, e, Got(h, t).cell) ELSE h)
<1> DEFINE got == Got(h, t)
<1> DEFINE size2 == Increased(size, l)
<1> DEFINE n == size[l]
<1>1. /\ l \in Heads /\ n \in Nat /\ first[l] \in Nat /\ Null \notin Heads
      /\ Strung(h.next, h.used, own, idx) /\ h.next \in [Structs -> Structs]
  BY StructKinds DEF Chained, HeapOK
<1>2. idx[e] \in Nat /\ (idx[e] = 0 \/ Base(idx[e]) < n) /\ n <= Base(idx[e] + 1) /\ first[l] < Base(idx[e] + 1)
  BY <1>1, PlacesCountUp DEF Listed
<1>3. size2[l] = n + 1 /\ (\A k \in Heads \ {l} : size2[k] = size[k])
  BY <1>1 DEF Increased, With
<1>4. IF full THEN n = Base(idx[e] + 1) ELSE Base(idx[e]) + (n % PPC) = n
  <2>1. IF n % PPC = 0 /\ n # 0 THEN n = Base(idx[e] + 1) ELSE Base(idx[e]) + (n % PPC) = n
    BY <1>1, <1>2, LastPlace
  <2> HIDE DEF n
  <2>2. QED BY <2>1 DEF n
<1>5. \A i \in Nat : Base(i) \in Nat /\ Base(i + 1) = Base(i) + PPC
  BY Bases
<1>6. PPC \in Nat \ {0} /\ n % PPC \in 0 .. PPC - 1
  BY <1>1, Sizes, PlaceOf
<1>7. entry[l] # Null /\ own[entry[l]] = l
  BY DEF Listed
<1>8. n \in Nat /\ Base(idx[e]) \in Nat
  BY <1>1, <1>2, <1>5
<1>9. CASE ~full
  <2>1. Base(idx[e]) + (n % PPC) = n
    BY <1>4, <1>9
  <2>2. n + 1 <= Base(idx[e] + 1)
    <3>1. Base(idx[e] + 1) = Base(idx[e]) + PPC
      BY <1>2, <1>5
    <3>2. QED BY <1>6, <1>8, <2>1, <3>1
  <2> HIDE DEF n
  <2>3. ASSUME NEW s \in Structs, own[s] \in Heads
        PROVE  /\ own[s] \in live
               /\ idx[s] = 0 \/ Base(idx[s]) < size2[own[s]]
               /\ h.next[s] = Null => size2[own[s]] <= Base(idx[s] + 1)
               /\ first[own[s]] < Base(idx[s] + 1)
    <3>1. /\ own[s] \in live
          /\ idx[s] = 0 \/ Base(idx[s]) < size[own[s]]
          /\ h.next[s] = Null => size[own[s]] <= Base(idx[s] + 1)
          /\ first[own[s]] < Base(idx[s] + 1)
      BY <2>3 DEF Listed
    <3>2. CASE own[s] # l
      BY <1>3, <2>3, <3>1, <3>2
    <3>3. CASE own[s] = l
      <4>1. idx[s] \in Nat /\ Base(idx[s]) \in Nat /\ idx[e] \in Nat
        BY <1>1, <1>2, <1>5, <2>3, PlacesCountUp
      <4>2. idx[s] = 0 \/ Base(idx[s]) < n + 1
        BY <1>8, <3>1, <3>3, <4>1 DEF n
      <4>3. h.next[s] = Null => s = e
        <5>1. SUFFICES ASSUME h.next[s] = Null PROVE s = e
          OBVIOUS
        <5>2. idx[e] <= idx[s] /\ idx[s] <= idx[e]
          BY <1>1, <2>3, <3>3, <5>1 DEF Strung
        <5>3. idx[s] = idx[e]
          BY <4>1, <5>2
        <5>4. QED BY <1>1, <3>3, <5>3 DEF Strung
      <4>4. QED BY <1>3, <2>2, <3>1, <3>3, <4>2, <4>3
    <3>4. QED BY <3>2, <3>3
  <2>4. ASSUME NEW k \in live
        PROVE  IF entry[k] = Null THEN size2[k] <= first[k] /\ \A s \in Structs : own[s] # k
                                  ELSE own[entry[k]] = k /\ Base(idx[entry[k]]) <= first[k]
    <3>1. entry[k] = Null => k # l
      BY <1>7
    <3>2. entry[k] = Null => size2[k] = size[k]
      BY <1>3, <3>1
    <3>3. QED BY <3>2 DEF Listed
  <2> HIDE DEF size2
  <2>5. Listed(h, own, idx, live, entry, first, size2)
    BY ONLY <2>3, <2>4 DEF Listed
  <2>6. QED BY <1>9, <2>1, <2>5 DEF n, size2, Extends
<1>10. CASE full
  <2>1. HasRoom(h, t)
    BY <1>10
  <2>2. /\ HeapOK(got.heap) /\ got.cell \in UsedOf(got.heap) /\ got.heap.next[got.cell] = Null
        /\ own[got.cell] \notin Heads
        /\ \E own1, idx1 :
             /\ Chained(got.heap, own1, idx1) /\ own1[got.cell] = Null
             /\ SameCells(h.next, own, idx, got.heap.next, own1, idx1)
             /\ AllLabelled(h, own) => \A s \in UsedOf(got.heap) \ {got.cell} : own1[s] # Null
    BY <2>1, GotChained
  <2> DEFINE g == got.heap
  <2> DEFINE to == got.cell
  <2> HIDE DEF got
  <2>3. PICK own1, idx1 :
          /\ Chained(g, own1, idx1) /\ own1[to] = Null
          /\ SameCells(h.next, own, idx, g.next, own1, idx1)
          /\ AllLabelled(h, own) => \A s \in UsedOf(g) \ {to} : own1[s] # Null
    BY <2>2
  <2> HIDE DEF g, to
  <2>4. HeapOK(g) /\ to \in UsedOf(g) /\ g.next[to] = Null /\ own[to] \notin Heads
    BY <2>2 DEF g, to
  <2>5. own1[e] = l /\ g.next[e] = Null /\ idx1[e] = idx[e]
    BY <1>1, <2>3 DEF SameCells
  <2> DEFINE h2 == Linked(g, e, to)
  <2> DEFINE own2 == [own1 EXCEPT ![to] = l]
  <2> DEFINE idx2 == [idx1 EXCEPT ![to] = idx1[e] + 1]
  <2>6. HeapOK(h2) /\ Chained(h2, own2, idx2)
    BY <1>1, <2>3, <2>4, <2>5, AppendChained
  <2>7. to \in Structs /\ UsedOf(g) \subseteq Structs
    BY <2>4, UsedStructs
  <2>8. /\ own2[to] = l /\ (\A s \in Structs \ {to} : own2[s] = own1[s])
        /\ idx2[to] = idx[e] + 1 /\ (\A s \in Structs \ {to} : idx2[s] = idx1[s])
    BY <2>3, <2>5, <2>7 DEF Chained, Strung
  <2>9. h2.next[e] = to /\ (\A s \in Structs \ {e} : h2.next[s] = g.next[s]) /\ h2.used = g.used
    BY <2>4 DEF Linked, HeapOK
  <2>10. e # to
    BY <1>1, <2>4
  <2> HIDE DEF own2, idx2, h2, size2, n
  <2>11. \A s \in Structs : own[s] \in Heads =>
           s # to /\ own2[s] = own[s] /\ idx2[s] = idx[s] /\ (s # e => h2.next[s] = h.next[s])
    BY <2>3, <2>4, <2>8, <2>9 DEF SameCells
  <2>12. \A s \in Structs : own2[s] \in Heads /\ s # to => own[s] = own2[s]
    BY <2>3, <2>8 DEF SameCells
  <2>13. ASSUME NEW s \in Structs, own2[s] \in Heads
         PROVE  /\ own2[s] \in live
                /\ idx2[s] = 0 \/ Base(idx2[s]) < size2[own2[s]]
                /\ h2.next[s] = Null => size2[own2[s]] <= Base(idx2[s] + 1)
                /\ first[own2[s]] < Base(idx2[s] + 1)
    <3>1. CASE s = to
      <4>1. own2[s] = l /\ idx2[s] = idx[e] + 1 /\ idx[e] + 1 \in Nat
        BY <1>2, <2>8, <3>1
      <4>2. Base(idx2[s]) = n /\ Base(idx2[s] + 1) = n + PPC
        BY <1>4, <1>5, <1>10, <4>1
      <4>3. first[l] < n
        BY <1>2, <1>4, <1>10
      <4>4. QED BY <1>1, <1>3, <1>6, <1>8, <4>1, <4>2, <4>3
    <3>2. CASE s # to
      <4>1. own2[s] = own[s] /\ own[s] \in Heads /\ idx2[s] = idx[s]
        BY <2>11, <2>12, <2>13, <3>2
      <4>2. /\ own[s] \in live
            /\ idx[s] = 0 \/ Base(idx[s]) < size[own[s]]
            /\ h.next[s] = Null => size[own[s]] <= Base(idx[s] + 1)
            /\ first[own[s]] < Base(idx[s] + 1)
        BY <4>1 DEF Listed
      <4>3. CASE own[s] # l
        <5>1. h2.next[s] = h.next[s] /\ size2[own[s]] = size[own[s]]
          BY <1>3, <2>11, <4>1, <4>3
        <5>2. QED BY <4>1, <4>2, <5>1
      <4>4. CASE own[s] = l
        <5>1. idx[s] \in Nat /\ Base(idx[s]) \in Nat
          BY <1>1, <1>5, <4>1, PlacesCountUp
        <5>2. idx[s] = 0 \/ Base(idx[s]) < n + 1
          BY <1>8, <4>2, <4>4, <5>1 DEF n
        <5>3. h2.next[s] # Null
          <6>1. SUFFICES ASSUME h2.next[s] = Null PROVE FALSE
            OBVIOUS
          <6>2. s # e
            BY <2>4, <2>7, <2>9, <6>1, UsedStructs
          <6>3. h.next[s] = Null
            BY <2>11, <4>1, <6>1, <6>2
          <6>4. idx[e] <= idx[s] /\ idx[s] <= idx[e]
            BY <1>1, <4>4, <6>3 DEF Strung
          <6>5. idx[s] = idx[e]
            BY <1>2, <5>1, <6>4
          <6>6. QED BY <1>1, <4>4, <6>2, <6>5 DEF Strung
        <5>4. QED BY <1>3, <4>1, <4>2, <4>4, <5>2, <5>3
      <4>5. QED BY <4>3, <4>4
    <3>3. QED BY <3>1, <3>2
  <2>14. ASSUME NEW k \in live
         PROVE  IF entry[k] = Null THEN size2[k] <= first[k] /\ \A s \in Structs : own2[s] # k
                                   ELSE own2[entry[k]] = k /\ Base(idx2[entry[k]]) <= first[k]
    <3>1. CASE entry[k] = Null
      <4>1. k # l /\ k \in Heads
        BY <1>7, <3>1
      <4>2. size2[k] = size[k] /\ size[k] <= first[k] /\ \A s \in Structs : own[s] # k
        BY <1>3, <3>1, <4>1 DEF Listed
      <4>3. \A s \in Structs : own2[s] # k
        BY <2>8, <2>12, <4>1, <4>2
      <4>4. QED BY <3>1, <4>2, <4>3
    <3>2. CASE entry[k] # Null
      <4>1. own[entry[k]] = k /\ Base(idx[entry[k]]) <= first[k] /\ k \in Heads
        BY <3>2 DEF Listed
      <4>2. entry[k] \in Structs
        BY <4>1
      <4>3. QED BY <2>11, <3>2, <4>1, <4>2
    <3>3. QED BY <3>1, <3>2
  <2>15. Listed(h2, own2, idx2, live, entry, first, size2)
    BY ONLY <2>13, <2>14 DEF Listed
  <2>16. Base(idx2[to]) + (n % PPC) = n
    <3>1. n % PPC = 0
      BY <1>10 DEF n
    <3>2. QED BY <1>4, <1>8, <1>10, <2>8, <3>1
  <2>17. h2.next[to] = Null
    BY <2>4, <2>7, <2>9, <2>10
  <2>18. AllLabelled(h, own) => AllLabelled(h2, own2)
    <3>1. UsedOf(h2) = UsedOf(g)
      BY <2>9 DEF UsedOf
    <3>2. QED BY <1>1, <2>3, <2>7, <2>8, <3>1 DEF AllLabelled
  <2>19. QED
    BY <1>10, <2>4, <2>6, <2>7, <2>8, <2>11, <2>12, <2>15, <2>16, <2>17, <2>18 DEF h2, size2, n, to, g, got, Extends
<1>11. QED BY <1>9, <1>10

LEMMA BaseLess ==
  ASSUME NEW i \in Nat, NEW k \in Nat, Base(i) < Base(k + 1)
  PROVE  i <= k
<1>1. k + 1 \in Nat /\ 0 \in 0 .. PPC - 1 /\ Base(i) \in Nat /\ Base(k + 1) \in Nat
  BY Bases, Sizes
<1>2. Base(i) + 0 <= Base(k + 1) + 0
  BY <1>1
<1>3. i <= k + 1
  BY <1>1, <1>2, BaseOrder
<1>4. i # k + 1
  BY <1>1
<1>5. QED BY <1>3, <1>4

LEMMA BaseGrows ==
  ASSUME NEW i \in Nat, NEW k \in Nat, i <= k
  PROVE  Base(i) <= Base(k)
<1>1. 0 \in 0 .. PPC - 1 /\ Base(i) \in Nat /\ Base(k) \in Nat
  BY Bases, Sizes
<1>2. SUFFICES ASSUME Base(k) < Base(i) PROVE FALSE
  BY <1>1
<1>3. Base(k) + 0 <= Base(i) + 0
  BY <1>1, <1>2
<1>4. k <= i
  BY <1>1, <1>3, BaseOrder
<1>5. i = k
  BY <1>4
<1>6. QED BY <1>1, <1>2, <1>5

LEMMA PlaceIn ==
  ASSUME NEW i \in Nat, NEW j \in Nat, Base(i) <= j, j < Base(i + 1)
  PROVE  Base(i) + (j % PPC) = j /\ j \div PPC = i
<1>1. PICK k \in Nat \ {0} : k = PPC
  BY Sizes
<1>2. PICK q \in Nat, m \in 0 .. k - 1 : q = j \div k /\ m = j % k /\ j = Base(q) + m
  BY <1>1, PlaceOf
<1>3. Base(i) \in Nat /\ Base(q) \in Nat /\ Base(i + 1) \in Nat /\ 0 \in 0 .. k - 1
  BY <1>1, Bases
<1>4. i <= q
  <2>1. Base(i) + 0 <= Base(q) + m
    BY <1>2, <1>3
  <2>2. QED BY <1>1, <1>3, <2>1, BaseOrder
<1>5. q <= i
  <2>1. Base(q) < Base(i + 1)
    BY <1>2, <1>3
  <2>2. QED BY <2>1, BaseLess
<1>6. i = q
  BY <1>4, <1>5
<1>7. QED BY <1>1, <1>2, <1>6

\* A structure is taken out at the front of the list of a cell, and given back
\* to a pool or not.
LEMMA TakeOut ==
  ASSUME NEW h, HeapOK(h), NEW own, NEW idx, Chained(h, own, idx),
         NEW s \in Structs, own[s] \in Heads, \A r \in Structs : own[r] = own[s] => idx[s] <= idx[r],
         NEW t \in Threads, NEW back \in BOOLEAN, back => s \notin Heads
  PROVE  LET h2 == IF back THEN Returned(h, t, s) ELSE h
         IN  /\ HeapOK(h2)
             /\ \E own2, idx2 :
                  /\ Chained(h2, own2, idx2) /\ own2[s] \notin Heads
                  /\ \A r \in Structs \ {s} : own2[r] = own[r] /\ idx2[r] = idx[r] /\ h2.next[r] = h.next[r]
                  /\ AllLabelled(h, own) /\ (back \/ s \in Heads) => AllLabelled(h2, own2)
<1>0. Strung(h.next, h.used, own, idx) /\ h.next \in [Structs -> Structs] /\ own \in [Structs -> Labels]
  BY DEF Chained, Strung, HeapOK
<1>1. own[s] # Null /\ Null \notin Heads /\ (\A u \in Threads : PoolLabel(u) \notin Heads /\ PoolLabel(u) # Null)
  BY StructKinds
<1>2. s \in Heads \/ s \in UsedOf(h)
  BY <1>1, LabelledIsUsed
<1> DEFINE own1 == [own EXCEPT ![s] = Null]
<1>3. own1[s] = Null /\ \A r \in Structs \ {s} : own1[r] = own[r]
  BY <1>0
<1>4. Strung(h.next, h.used, own1, idx)
  <2>1. h.next[Null] = Null
    BY <1>0 DEF Strung
  <2>2. QED BY <1>0, <1>1, <2>1, DropStrung
<1> HIDE DEF own1
<1>5. Chained(h, own1, idx)
  <2>1. \A u \in Threads : own[s] # PoolLabel(u)
    BY <1>1
  <2>2. \A u \in Threads : \A r \in Structs : own1[r] = PoolLabel(u) <=> own[r] = PoolLabel(u)
    BY <1>1, <1>3, <2>1
  <2>3. Pooling(h.pool, own, idx) /\ h.pool \in [Threads -> Structs]
    BY DEF Chained, HeapOK
  <2>4. Pooling(h.pool, own1, idx)
    BY <2>2, <2>3 DEF Pooling
  <2>5. QED BY <1>4, <2>4 DEF Chained
<1>6. UsedOf(h) \subseteq Structs \ Heads
  BY UsedStructs
<1>7. CASE ~back
  <2>1. AllLabelled(h, own) /\ s \in Heads => AllLabelled(h, own1)
    BY <1>3, <1>6 DEF AllLabelled
  <2>2. QED BY <1>1, <1>3, <1>5, <1>7, <2>1
<1>8. CASE back
  <2>1. s \in UsedOf(h)
    BY <1>2, <1>8
  <2> DEFINE h2 == Returned(h, t, s)
  <2> DEFINE own2 == [own1 EXCEPT ![s] = PoolLabel(t)]
  <2> DEFINE idx2 == [idx EXCEPT ![s] = IF h.pool[t] = Null THEN 0 ELSE idx[h.pool[t]] - 1]
  <2>2. /\ HeapOK(h2) /\ Chained(h2, own2, idx2) /\ h2.used = h.used
        /\ \A r \in Structs \ {s} : h2.next[r] = h.next[r]
    BY <1>3, <1>5, <2>1, ReturnChained
  <2>3. own1 \in [Structs -> Labels] /\ idx \in [Structs -> Int]
    BY <1>4 DEF Strung
  <2>4. own2[s] = PoolLabel(t) /\ \A r \in Structs \ {s} : own2[r] = own[r] /\ idx2[r] = idx[r]
    BY <1>3, <2>3
  <2>5. UsedOf(h2) = UsedOf(h)
    <3> HIDE DEF h2
    <3>1. QED BY <2>2 DEF UsedOf
  <2> HIDE DEF h2, own2, idx2
  <2>6. AllLabelled(h, own) => AllLabelled(h2, own2)
    BY <1>1, <1>6, <2>4, <2>5 DEF AllLabelled
  <2>7. QED BY <1>1, <1>8, <2>2, <2>4, <2>6 DEF h2
<1>9. QED BY <1>7, <1>8

\* The structures left of a list begin with its entry.
LEMMA EntryIsFirst ==
  ASSUME NEW h, NEW own, NEW idx, Chained(h, own, idx),
         NEW live, NEW entry \in [Heads -> Structs], NEW first \in [Heads -> Nat], NEW size \in [Heads -> Nat],
         live \subseteq Heads, Listed(h, own, idx, live, entry, first, size),
         NEW l \in live, entry[l] # Null
  PROVE  /\ own[entry[l]] = l /\ idx[entry[l]] \in Nat
         /\ Base(idx[entry[l]]) <= first[l] /\ first[l] < Base(idx[entry[l]] + 1)
         /\ \A r \in Structs : own[r] = l => idx[entry[l]] <= idx[r] /\ idx[r] \in Nat
<1>1. own[entry[l]] = l /\ Base(idx[entry[l]]) <= first[l] /\ entry[l] \in Structs /\ l \in Heads /\ first[l] \in Nat
  BY DEF Listed
<1>2. Strung(h.next, h.used, own, idx)
  BY DEF Chained
<1>3. ASSUME NEW r \in Structs, own[r] = l PROVE idx[r] \in Nat /\ first[l] < Base(idx[r] + 1)
  BY <1>1, <1>2, <1>3, PlacesCountUp DEF Listed
<1>4. ASSUME NEW r \in Structs, own[r] = l PROVE idx[entry[l]] <= idx[r]
  <2>1. idx[entry[l]] \in Nat /\ idx[r] \in Nat /\ idx[r] + 1 \in Nat
    BY <1>1, <1>3, <1>4
  <2>2. Base(idx[entry[l]]) \in Nat /\ Base(idx[r] + 1) \in Nat
    BY <2>1, Bases
  <2>3. Base(idx[entry[l]]) < Base(idx[r] + 1)
    BY <1>1, <1>3, <1>4, <2>2
  <2>4. QED BY <2>1, <2>3, BaseLess
<1>5. QED BY <1>1, <1>3, <1>4

\* The first particle of a list is read, and its structure left at its end.
LEMMA AdvanceLists ==
  ASSUME NEW h, HeapOK(h), NEW own, NEW idx, Chained(h, own, idx),
         NEW live, NEW entry \in [Heads -> Structs], NEW first \in [Heads -> Nat], NEW size \in [Heads -> Nat],
         live \subseteq Heads, Listed(h, own, idx, live, entry, first, size),
         NEW l \in live, first[l] < size[l], NEW t \in Threads
  PROVE  LET end == first[l] % PPC = PPC - 1
         IN  Reads(h, own, idx, live, entry, first, size, l, IF end THEN h.next[entry[l]] ELSE entry[l],
                   IF end /\ entry[l] \notin Heads THEN Returned(h, t, entry[l]) ELSE h)
<1> DEFINE s == entry[l]
<1> DEFINE j == first[l]
<1> DEFINE end == j % PPC = PPC - 1
<1> DEFINE next == IF end THEN h.next[s] ELSE s
<1>1. l \in Heads /\ s \in Structs /\ j \in Nat /\ size[l] \in Nat /\ Null \notin Heads
  BY StructKinds
<1>2. s # Null
  <2>1. s = Null => size[l] <= j
    BY DEF Listed
  <2>2. QED BY <1>1, <2>1
<1>3. /\ own[s] = l /\ idx[s] \in Nat /\ Base(idx[s]) <= j /\ j < Base(idx[s] + 1)
      /\ \A r \in Structs : own[r] = l => idx[s] <= idx[r] /\ idx[r] \in Nat
  BY <1>2, EntryIsFirst
<1>4. Base(idx[s]) + (j % PPC) = j
  BY <1>1, <1>3, PlaceIn
<1>5. h.next \in [Structs -> Structs] /\ next \in Structs /\ Strung(h.next, h.used, own, idx)
  BY <1>1 DEF HeapOK, Chained
<1>6. \A i \in Nat : Base(i) \in Nat /\ Base(i + 1) = Base(i) + PPC
  BY Bases
<1>7. j % PPC \in 0 .. PPC - 1 /\ PPC \in Nat \ {0}
  BY <1>1, Sizes, PlaceOf
<1> DEFINE entry2 == With(entry, l, next)
<1> DEFINE first2 == With(first, l, j + 1)
<1>8. /\ entry2[l] = next /\ (\A k \in Heads \ {l} : entry2[k] = entry[k])
      /\ first2[l] = j + 1 /\ (\A k \in Heads \ {l} : first2[k] = first[k])
  BY <1>1 DEF With
<1> HIDE DEF entry2, first2, j, s, end, next
<1>9. CASE ~end
  <2>1. next = s
    BY <1>9 DEF next
  <2>2. ASSUME NEW r \in Structs, own[r] = l PROVE j + 1 < Base(idx[r] + 1)
    <3>1. j + 1 < Base(idx[s] + 1)
      <4>0. PICK m \in 0 .. PPC - 1 : m = j % PPC
        BY <1>7
      <4>1. m # PPC - 1 /\ Base(idx[s]) + m = j
        BY <1>4, <1>9, <4>0 DEF end
      <4>2. Base(idx[s]) \in Nat /\ Base(idx[s] + 1) = Base(idx[s]) + PPC
        BY <1>3, <1>6
      <4>3. QED BY <1>1, <1>7, <4>1, <4>2
    <3>2. Base(idx[s] + 1) <= Base(idx[r] + 1) /\ Base(idx[s] + 1) \in Nat /\ Base(idx[r] + 1) \in Nat
      <4>1. idx[s] + 1 \in Nat /\ idx[r] + 1 \in Nat /\ idx[s] + 1 <= idx[r] + 1
        BY <1>3, <2>2
      <4>2. QED BY <1>6, <4>1, BaseGrows
    <3>3. QED BY <1>1, <3>1, <3>2
  <2>3. Listed(h, own, idx, live, entry2, first2, size)
    <3>1. ASSUME NEW r \in Structs, own[r] \in Heads
          PROVE  /\ own[r] \in live
                 /\ idx[r] = 0 \/ Base(idx[r]) < size[own[r]]
                 /\ h.next[r] = Null => size[own[r]] <= Base(idx[r] + 1)
                 /\ first2[own[r]] < Base(idx[r] + 1)
      BY <1>8, <2>2, <3>1 DEF Listed
    <3>2. ASSUME NEW k \in live
          PROVE  IF entry2[k] = Null THEN size[k] <= first2[k] /\ \A r \in Structs : own[r] # k
                                     ELSE own[entry2[k]] = k /\ Base(idx[entry2[k]]) <= first2[k]
      <4>1. CASE k = l
        <5>1. Base(idx[s]) <= j + 1
          BY <1>1, <1>3, <1>6
        <5>2. QED BY <1>2, <1>3, <1>8, <2>1, <4>1, <5>1
      <4>2. CASE k # l
        BY <1>8, <4>2 DEF Listed
      <4>3. QED BY <4>1, <4>2
    <3>3. QED BY ONLY <3>1, <3>2 DEF Listed
  <2>4. QED BY <1>1, <1>3, <1>4, <1>5, <1>9, <2>3 DEF entry2, first2, j, s, end, next, Reads
<1>10. CASE end
  <2> DEFINE back == s \notin Heads
  <2> DEFINE h2 == IF back THEN Returned(h, t, s) ELSE h
  <2>1. /\ HeapOK(h2)
        /\ \E own2, idx2 :
             /\ Chained(h2, own2, idx2) /\ own2[s] \notin Heads
             /\ \A r \in Structs \ {s} : own2[r] = own[r] /\ idx2[r] = idx[r] /\ h2.next[r] = h.next[r]
             /\ AllLabelled(h, own) /\ (back \/ s \in Heads) => AllLabelled(h2, own2)
    <3>1. back \in BOOLEAN /\ (back => s \notin Heads)
      OBVIOUS
    <3>2. own[s] \in Heads /\ \A r \in Structs : own[r] = own[s] => idx[s] <= idx[r]
      BY <1>1, <1>3
    <3> HIDE DEF back
    <3>3. QED BY <1>1, <3>1, <3>2, TakeOut
  <2>2. PICK own2, idx2 :
          /\ Chained(h2, own2, idx2) /\ own2[s] \notin Heads
          /\ \A r \in Structs \ {s} : own2[r] = own[r] /\ idx2[r] = idx[r] /\ h2.next[r] = h.next[r]
          /\ AllLabelled(h, own) /\ (back \/ s \in Heads) => AllLabelled(h2, own2)
    BY <2>1
  <2>3. AllLabelled(h, own) => AllLabelled(h2, own2)
    BY <2>2
  <2> HIDE DEF h2
  <2>4. next = h.next[s] /\ j + 1 = Base(idx[s] + 1)
    <3>0. PICK m \in 0 .. PPC - 1 : m = j % PPC
      BY <1>7
    <3>1. m = PPC - 1 /\ Base(idx[s]) + m = j
      BY <1>4, <1>10, <3>0 DEF end
    <3>2. Base(idx[s]) \in Nat /\ Base(idx[s] + 1) = Base(idx[s]) + PPC
      BY <1>3, <1>6
    <3>3. j + 1 = Base(idx[s] + 1)
      BY <1>1, <1>7, <3>1, <3>2
    <3>4. QED BY <1>10, <3>3 DEF next
  <2>5. ASSUME NEW r \in Structs, own2[r] = l
        PROVE  /\ r # s /\ own[r] = l /\ idx2[r] = idx[r] /\ idx[r] \in Nat /\ idx[s] + 1 <= idx[r]
               /\ h2.next[r] = h.next[r]
    <3>1. r # s
      BY <1>1, <2>2, <2>5
    <3>2. own[r] = l /\ idx2[r] = idx[r] /\ h2.next[r] = h.next[r]
      BY <2>2, <2>5, <3>1
    <3>3. idx[s] <= idx[r] /\ idx[r] \in Nat
      BY <1>3, <3>2
    <3>4. idx[s] # idx[r]
      BY <1>1, <1>3, <1>5, <3>1, <3>2 DEF Strung
    <3>5. QED BY <1>3, <3>1, <3>2, <3>3, <3>4
  <2>6. ASSUME NEW r \in Structs, own2[r] \in Heads
        PROVE  /\ own2[r] \in live
               /\ idx2[r] = 0 \/ Base(idx2[r]) < size[own2[r]]
               /\ h2.next[r] = Null => size[own2[r]] <= Base(idx2[r] + 1)
               /\ first2[own2[r]] < Base(idx2[r] + 1)
    <3>1. r # s
      BY <2>2, <2>6
    <3>2. own2[r] = own[r] /\ idx2[r] = idx[r] /\ h2.next[r] = h.next[r]
      BY <2>2, <3>1
    <3>3. /\ own[r] \in live
          /\ idx[r] = 0 \/ Base(idx[r]) < size[own[r]]
          /\ h.next[r] = Null => size[own[r]] <= Base(idx[r] + 1)
          /\ first[own[r]] < Base(idx[r] + 1)
      BY <2>6, <3>2 DEF Listed
    <3>4. CASE own2[r] = l
      <4>1. idx[r] \in Nat /\ idx[s] + 1 <= idx[r] /\ idx[s] + 1 \in Nat
        BY <1>3, <2>5, <3>4
      <4>2. Base(idx[s] + 1) <= Base(idx[r]) /\ Base(idx[s] + 1) \in Nat /\ Base(idx[r]) \in Nat
        BY <1>6, <4>1, BaseGrows
      <4>3. Base(idx[r] + 1) = Base(idx[r]) + PPC
        BY <1>6, <4>1
      <4>4. j + 1 < Base(idx[r] + 1)
        BY <1>7, <2>4, <4>2, <4>3
      <4>5. QED BY <1>8, <3>2, <3>3, <3>4, <4>4
    <3>5. CASE own2[r] # l
      BY <1>8, <2>6, <3>2, <3>3, <3>5
    <3>6. QED BY <3>4, <3>5
  <2>7. ASSUME NEW k \in live
        PROVE  IF entry2[k] = Null THEN size[k] <= first2[k] /\ \A r \in Structs : own2[r] # k
                                   ELSE own2[entry2[k]] = k /\ Base(idx2[entry2[k]]) <= first2[k]
    <3>1. CASE k = l /\ next = Null
      <4>1. size[l] <= Base(idx[s] + 1)
        BY <1>1, <1>3, <2>4, <3>1 DEF Listed
      <4>2. ASSUME NEW r \in Structs, own2[r] = l PROVE FALSE
        <5>1. own[r] = l /\ idx[r] \in Nat /\ idx[s] + 1 <= idx[r]
          BY <2>5, <4>2
        <5>2. idx[r] <= idx[s]
          BY <1>1, <1>3, <1>5, <2>4, <3>1, <5>1 DEF Strung
        <5>3. QED BY <1>3, <5>1, <5>2
      <4>3. QED BY <1>8, <2>4, <3>1, <4>1, <4>2
    <3>2. CASE k = l /\ next # Null
      <4>1. own[next] = l /\ idx[next] = idx[s] + 1
        BY <1>1, <1>3, <2>4, <3>2, NextKeepsLabel
      <4>2. next # s
        BY <1>3, <4>1
      <4>3. own2[next] = l /\ idx2[next] = idx[s] + 1
        BY <1>5, <2>2, <4>1, <4>2
      <4>4. Base(idx2[next]) <= j + 1
        <5>1. j + 1 \in Nat
          BY <1>1
        <5>2. QED BY <2>4, <4>3, <5>1
      <4>5. QED BY <1>8, <3>2, <4>3, <4>4
    <3>3. CASE k # l
      <4>1. entry2[k] = entry[k] /\ first2[k] = first[k] /\ entry[k] \in Structs
        BY <1>8, <3>3
      <4>2. CASE entry[k] = Null
        <5>1. size[k] <= first[k] /\ \A r \in Structs : own[r] # k
          BY <4>2 DEF Listed
        <5>2. \A r \in Structs : own2[r] # k
          BY <2>2, <5>1
        <5>3. QED BY <4>1, <4>2, <5>1, <5>2
      <4>3. CASE entry[k] # Null
        <5>1. own[entry[k]] = k /\ Base(idx[entry[k]]) <= first[k]
          BY <4>3 DEF Listed
        <5>2. entry[k] # s
          BY <1>3, <3>3, <5>1
        <5>3. QED BY <2>2, <4>1, <4>3, <5>1, <5>2
      <4>4. QED BY <4>2, <4>3
    <3>4. QED BY <3>1, <3>2, <3>3
  <2>8. Listed(h2, own2, idx2, live, entry2, first2, size)
    BY ONLY <2>6, <2>7 DEF Listed
  <2>9. \A r \in Structs : own2[r] \in Heads => own2[r] = own[r] /\ idx2[r] = idx[r] /\ h2.next[r] = h.next[r]
    BY <2>2
  <2>10. \A r \in Structs : own[r] \in Heads => own2[r] = own[r] \/ (own[r] = l /\ Base(idx[r] + 1) <= j + 1)
    <3>1. Base(idx[s] + 1) <= j + 1
      BY <1>1, <2>4
    <3>2. QED BY <1>3, <2>2, <3>1
  <2>11. QED
    BY <1>1, <1>3, <1>4, <1>5, <1>10, <2>1, <2>2, <2>3, <2>8, <2>9, <2>10 DEF h2, entry2, first2, j, s, end, next, Reads
<1>11. QED BY <1>9, <1>10

\* A list that has been read to its end is no longer in use; what is left of it
\* is one structure at most.
LEMMA FinishLists ==
  ASSUME NEW h, HeapOK(h), NEW own, NEW idx, Chained(h, own, idx),
         NEW live, NEW entry \in [Heads -> Structs], NEW first \in [Heads -> Nat], NEW size \in [Heads -> Nat],
         live \subseteq Heads, Listed(h, own, idx, live, entry, first, size),
         NEW l \in live, size[l] <= first[l], NEW t \in Threads, NEW give \in BOOLEAN
  PROVE  Finishes(h, own, idx, live, entry, first, size, l, give,
                  IF give /\ entry[l] # Null /\ entry[l] \notin Heads THEN Returned(h, t, entry[l]) ELSE h)
<1> DEFINE s == entry[l]
<1> DEFINE h2 == IF give /\ s # Null /\ s \notin Heads THEN Returned(h, t, s) ELSE h
<1>1. l \in Heads /\ s \in Structs /\ first[l] \in Nat /\ size[l] \in Nat /\ Null \notin Heads
  BY StructKinds
<1>2. Strung(h.next, h.used, own, idx)
  BY DEF Chained
<1>3. CASE s = Null
  <2>1. \A r \in Structs : own[r] # l
    BY <1>3 DEF Listed
  <2>2. Listed(h, own, idx, live \ {l}, entry, first, size)
    BY <2>1 DEF Listed
  <2>3. h2 = h
    BY <1>3
  <2> HIDE DEF h2, s
  <2>4. QED BY <2>2, <2>3 DEF h2, s, Finishes
<1>4. CASE s # Null
  <2>1. /\ own[s] = l /\ idx[s] \in Nat /\ Base(idx[s]) <= first[l] /\ first[l] < Base(idx[s] + 1)
        /\ \A r \in Structs : own[r] = l => idx[s] <= idx[r] /\ idx[r] \in Nat
    BY <1>4, EntryIsFirst
  <2> HIDE DEF s
  <2>2. ASSUME NEW r \in Structs, own[r] = l PROVE r = s
    <3>1. idx[r] = 0 \/ Base(idx[r]) < size[l]
      BY <1>1, <2>2 DEF Listed
    <3>2. idx[r] \in Nat /\ Base(idx[r]) \in Nat /\ Base(idx[s] + 1) \in Nat
      BY <2>1, <2>2, Bases
    <3>3. idx[r] <= idx[s]
      <4>1. CASE idx[r] = 0
        BY <2>1, <4>1
      <4>2. CASE Base(idx[r]) < size[l]
        <5>1. Base(idx[r]) < Base(idx[s] + 1)
          BY <1>1, <2>1, <3>2, <4>2
        <5>2. QED BY <2>1, <3>2, <5>1, BaseLess
      <4>3. QED BY <3>1, <4>1, <4>2
    <3>4. idx[r] = idx[s]
      BY <2>1, <2>2, <3>2, <3>3
    <3>5. QED BY <1>1, <1>2, <2>1, <2>2, <3>4 DEF Strung
  <2> DEFINE back == give /\ s \notin Heads
  <2>3. h2 = IF back THEN Returned(h, t, s) ELSE h
    BY <1>4 DEF s
  <2>4. back \in BOOLEAN /\ (back => s \notin Heads) /\ (give => back \/ s \in Heads)
    OBVIOUS
  <2>5. own[s] \in Heads /\ \A r \in Structs : own[r] = own[s] => idx[s] <= idx[r]
    BY <1>1, <2>1
  <2> HIDE DEF h2, back
  <2> DEFINE h3 == IF back THEN Returned(h, t, s) ELSE h
  <2>6. /\ HeapOK(h3)
        /\ \E own2, idx2 :
             /\ Chained(h3, own2, idx2) /\ own2[s] \notin Heads
             /\ \A r \in Structs \ {s} : own2[r] = own[r] /\ idx2[r] = idx[r] /\ h3.next[r] = h.next[r]
             /\ AllLabelled(h, own) /\ (back \/ s \in Heads) => AllLabelled(h3, own2)
    BY <1>1, <2>4, <2>5, TakeOut
  <2> HIDE DEF h3
  <2>7. h3 = h2
    BY <2>3 DEF h3
  <2>8. PICK own2, idx2 :
          /\ Chained(h2, own2, idx2) /\ own2[s] \notin Heads
          /\ \A r \in Structs \ {s} : own2[r] = own[r] /\ idx2[r] = idx[r] /\ h2.next[r] = h.next[r]
          /\ AllLabelled(h, own) /\ (back \/ s \in Heads) => AllLabelled(h2, own2)
    BY <2>6, <2>7
  <2>9. AllLabelled(h, own) /\ give => AllLabelled(h2, own2)
    BY <2>4, <2>8
  <2>10. \A r \in Structs : own2[r] \in Heads => r # s /\ own2[r] = own[r] /\ idx2[r] = idx[r] /\ h2.next[r] = h.next[r]
    BY <2>8
  <2>11. \A r \in Structs : own[r] \in Heads /\ own[r] # l => own2[r] = own[r]
    BY <2>1, <2>8
  <2>12. Listed(h2, own2, idx2, live \ {l}, entry, first, size)
    <3>1. ASSUME NEW r \in Structs, own2[r] \in Heads
          PROVE  /\ own2[r] \in live \ {l}
                 /\ idx2[r] = 0 \/ Base(idx2[r]) < size[own2[r]]
                 /\ h2.next[r] = Null => size[own2[r]] <= Base(idx2[r] + 1)
                 /\ first[own2[r]] < Base(idx2[r] + 1)
      <4>1. own[r] # l
        BY <2>2, <2>10, <3>1
      <4>2. QED BY <2>10, <3>1, <4>1 DEF Listed
    <3>2. ASSUME NEW k \in live \ {l}
          PROVE  IF entry[k] = Null THEN size[k] <= first[k] /\ \A r \in Structs : own2[r] # k
                                    ELSE own2[entry[k]] = k /\ Base(idx2[entry[k]]) <= first[k]
      <4>1. entry[k] \in Structs /\ k \in Heads
        OBVIOUS
      <4>2. CASE entry[k] = Null
        <5>1. size[k] <= first[k] /\ \A r \in Structs : own[r] # k
          BY <4>2 DEF Listed
        <5>2. \A r \in Structs : own2[r] # k
          BY <2>10, <4>1, <5>1
        <5>3. QED BY <4>2, <5>1, <5>2
      <4>3. CASE entry[k] # Null
        <5>1. own[entry[k]] = k /\ Base(idx[entry[k]]) <= first[k]
          BY <4>3 DEF Listed
        <5>2. own2[entry[k]] = k
          BY <2>11, <4>1, <5>1
        <5>3. QED BY <2>10, <4>1, <4>3, <5>1, <5>2
      <4>4. QED BY <4>2, <4>3
    <3>3. QED BY ONLY <3>1, <3>2 DEF Listed
  <2>13. HeapOK(h2)
    BY <2>6, <2>7
  <2>14. QED BY <2>8, <2>9, <2>10, <2>11, <2>12, <2>13 DEF h2, s, Finishes
<1>5. QED BY <1>3, <1>4

\* Heads that are in no list become empty lists.
LEMMA ClearLists ==
  ASSUME NEW h, HeapOK(h), NEW own, NEW idx, Chained(h, own, idx),
         NEW live, NEW entry \in [Heads -> Structs], NEW first, NEW size, live \subseteq Heads,
         Listed(h, own, idx, live, entry, first, size),
         NEW set \in SUBSET Heads, set \cap live = {},
         NEW entry2, NEW first2, NEW size2,
         \A l \in live : entry2[l] = entry[l] /\ first2[l] = first[l] /\ size2[l] = size[l],
         \A l \in set : entry2[l] = l /\ first2[l] = 0 /\ size2[l] = 0
  PROVE  Clears(h, own, idx, live, set, entry2, first2, size2)
<1> DEFINE h2 == Emptied(h, set)
<1> DEFINE own2 == [s \in Structs |-> IF s \in set THEN s ELSE own[s]]
<1> DEFINE idx2 == [s \in Structs |-> IF s \in set THEN 0 ELSE idx[s]]
<1>1. /\ Heads \subseteq Structs /\ Null \notin Heads /\ Null \in Structs
      /\ h.next \in [Structs -> Structs] /\ own \in [Structs -> Labels] /\ idx \in [Structs -> Int]
      /\ \A t \in Threads : PoolLabel(t) \notin Heads
      /\ set \subseteq Structs /\ Heads \subseteq Labels
  BY StructKinds DEF HeapOK, Chained, Strung, Labels
<1>2. /\ h2.next = [s \in Structs |-> IF s \in set THEN Null ELSE h.next[s]]
      /\ h2.pool = h.pool /\ h2.used = h.used /\ h2.alloc = h.alloc
  BY DEF Emptied, HeapOK
<1>3. HeapOK(h2)
  BY <1>1 DEF Emptied, HeapOK
<1>4. own2 \in [Structs -> Labels] /\ idx2 \in [Structs -> Int]
  BY <1>1
<1>5. \A s \in Structs : IF s \in set THEN own2[s] = s /\ idx2[s] = 0 /\ h2.next[s] = Null
                                      ELSE own2[s] = own[s] /\ idx2[s] = idx[s] /\ h2.next[s] = h.next[s]
  BY <1>2
<1>6. \A s \in Structs : own[s] \notin set
  BY DEF Listed
<1>7. \A s \in set : own[s] = Null
  BY <1>1, <1>6 DEF Chained, Strung
<1> HIDE DEF h2, own2, idx2
<1>8. Strung(h2.next, h2.used, own2, idx2)
  <2>1. own2[Null] = Null /\ h2.next[Null] = Null
    BY <1>1, <1>5 DEF Chained, Strung
  <2>2. ASSUME NEW s \in Structs, own2[s] # Null, h2.next[s] # Null
        PROVE  own2[h2.next[s]] = own2[s] /\ idx2[h2.next[s]] = idx2[s] + 1
    <3>1. s \notin set
      BY <1>5, <2>2
    <3>2. own2[s] = own[s] /\ idx2[s] = idx[s] /\ h2.next[s] = h.next[s] /\ h.next[s] \in Structs
      BY <1>1, <1>5, <3>1
    <3>3. own[h.next[s]] = own[s] /\ idx[h.next[s]] = idx[s] + 1
      BY <2>2, <3>2, NextKeepsLabel
    <3>4. h.next[s] \notin set
      BY <1>7, <2>2, <3>2, <3>3
    <3>5. QED BY <1>5, <3>2, <3>3, <3>4
  <2>3. ASSUME NEW s \in Structs, NEW r \in Structs, own2[s] # Null, own2[r] = own2[s]
        PROVE  (h2.next[s] = Null => idx2[r] <= idx2[s]) /\ (idx2[r] = idx2[s] => r = s)
    <3>1. CASE s \in set
      <4>1. own2[r] = s
        BY <1>5, <2>3, <3>1
      <4>2. r \in set
        BY <1>5, <1>6, <3>1, <4>1
      <4>3. r = s
        BY <1>5, <4>1, <4>2
      <4>4. QED BY <1>5, <3>1, <4>3
    <3>2. CASE s \notin set
      <4>1. r \notin set
        BY <1>5, <1>6, <2>3, <3>2
      <4>2. QED BY <1>5, <2>3, <3>2, <4>1 DEF Chained, Strung
    <3>3. QED BY <3>1, <3>2
  <2>4. /\ \A s \in Heads : own2[s] # Null => own2[s] = s /\ idx2[s] = 0
        /\ \A s \in Structs \ Heads : own2[s] \in Heads => idx2[s] > 0
    BY <1>1, <1>5 DEF Chained, Strung
  <2>5. \A t \in Threads : \A n \in 1 .. MaxCells : n > h2.used[t] => own2[<<3 + t, n>>] = Null
    <3>1. ASSUME NEW t \in Threads, NEW n \in 1 .. MaxCells
          PROVE  <<3 + t, n>> \in Structs /\ <<3 + t, n>> \notin set
      <4>1. <<3 + t, n>> \in Structs /\ <<3 + t, n>> \notin Heads
        BY StructKinds
      <4>2. QED BY <4>1
    <3>2. QED BY <1>2, <1>5, <3>1 DEF Chained, Strung
  <2>6. QED BY ONLY <1>4, <2>1, <2>2, <2>3, <2>4, <2>5 DEF Strung
<1>9. Chained(h2, own2, idx2)
  <2>1. \A t \in Threads : \A r \in Structs : own2[r] = PoolLabel(t) => own[r] = PoolLabel(t) /\ r \notin set
    BY <1>1, <1>5
  <2>2. \A t \in Threads : \A r \in Structs : own[r] = PoolLabel(t) => own2[r] = PoolLabel(t) /\ idx2[r] = idx[r]
    <3>1. \A t \in Threads : PoolLabel(t) # Null
      BY StructKinds
    <3>2. QED BY <1>5, <1>7, <3>1
  <2>3. Pooling(h2.pool, own2, idx2)
    <3>1. ASSUME NEW t \in Threads
          PROVE  IF h2.pool[t] = Null THEN \A s \in Structs : own2[s] # PoolLabel(t)
                 ELSE /\ own2[h2.pool[t]] = PoolLabel(t)
                      /\ \A s \in Structs : own2[s] = PoolLabel(t) => idx2[h2.pool[t]] <= idx2[s]
      <4>1. h2.pool[t] = h.pool[t] /\ h.pool[t] \in Structs
        BY <1>2 DEF HeapOK
      <4>2. IF h.pool[t] = Null THEN \A s \in Structs : own[s] # PoolLabel(t)
            ELSE /\ own[h.pool[t]] = PoolLabel(t)
                 /\ \A s \in Structs : own[s] = PoolLabel(t) => idx[h.pool[t]] <= idx[s]
        BY DEF Chained, Pooling
      <4>3. QED BY <2>1, <2>2, <4>1, <4>2
    <3>2. QED BY ONLY <3>1 DEF Pooling
  <2>4. QED BY <1>8, <2>3 DEF Chained
<1>10. Listed(h2, own2, idx2, live \cup set, entry2, first2, size2)
  <2>1. ASSUME NEW r \in Structs, own2[r] \in Heads
        PROVE  /\ own2[r] \in live \cup set
               /\ idx2[r] = 0 \/ Base(idx2[r]) < size2[own2[r]]
               /\ h2.next[r] = Null => size2[own2[r]] <= Base(idx2[r] + 1)
               /\ first2[own2[r]] < Base(idx2[r] + 1)
    <3>1. CASE r \in set
      <4>1. own2[r] = r /\ idx2[r] = 0 /\ size2[r] = 0 /\ first2[r] = 0
        BY <1>5, <3>1
      <4>2. Base(0 + 1) = PPC /\ PPC > 0 /\ PPC \in Nat
        BY Bases, Sizes
      <4>3. QED BY <3>1, <4>1, <4>2
    <3>2. CASE r \notin set
      <4>1. own[r] \in live
        BY <1>5, <2>1, <3>2 DEF Listed
      <4>2. QED BY <1>5, <2>1, <3>2, <4>1 DEF Listed
    <3>3. QED BY <3>1, <3>2
  <2>2. ASSUME NEW k \in live \cup set
        PROVE  IF entry2[k] = Null THEN size2[k] <= first2[k] /\ \A r \in Structs : own2[r] # k
                                   ELSE own2[entry2[k]] = k /\ Base(idx2[entry2[k]]) <= first2[k]
    <3>1. CASE k \in set
      <4>1. entry2[k] = k /\ first2[k] = 0 /\ k # Null /\ own2[k] = k /\ idx2[k] = 0
        BY <1>1, <1>5, <3>1
      <4>2. Base(0) = 0
        BY Bases
      <4>3. QED BY <4>1, <4>2
    <3>2. CASE k \in live
      <4>1. entry2[k] = entry[k] /\ first2[k] = first[k] /\ size2[k] = size[k] /\ k \notin set /\ k \in Heads
        BY <3>2
      <4>2. CASE entry[k] = Null
        <5>1. size[k] <= first[k] /\ \A r \in Structs : own[r] # k
          BY <3>2, <4>2 DEF Listed
        <5>2. \A r \in Structs : own2[r] # k
          BY <1>5, <4>1, <5>1
        <5>3. QED BY <4>1, <4>2, <5>1, <5>2
      <4>3. CASE entry[k] # Null
        <5>1. own[entry[k]] = k /\ Base(idx[entry[k]]) <= first[k]
          BY <3>2, <4>3 DEF Listed
        <5>2. entry[k] \in Structs
          BY <4>1
        <5>3. entry[k] \notin set
          BY <1>1, <1>7, <4>1, <5>1
        <5>4. QED BY <1>5, <4>1, <4>3, <5>1, <5>2, <5>3
      <4>4. QED BY <4>2, <4>3
    <3>3. QED BY <3>1, <3>2
  <2>3. QED BY ONLY <2>1, <2>2 DEF Listed
<1>11. AllLabelled(h, own) => AllLabelled(h2, own2)
  <2>1. UsedOf(h2) = UsedOf(h)
    BY <1>2 DEF UsedOf
  <2>2. UsedOf(h) \subseteq Structs
    BY UsedStructs
  <2>3. QED BY <1>1, <1>5, <2>1, <2>2 DEF AllLabelled
<1>12. QED BY <1>3, <1>5, <1>7, <1>9, <1>10, <1>11 DEF h2, Clears

-----------------------------------------------------------------------------
(* The particles in their places.                                           *)

\* A place of a list has one structure and one slot.
LEMMA PlaceInList ==
  ASSUME NEW next, NEW used, NEW own, NEW idx, Strung(next, used, own, idx),
         NEW v \in Slots, NEW w \in Slots, own[v[1]] \in Heads, own[w[1]] = own[v[1]],
         Base(idx[v[1]]) + v[2] = Base(idx[w[1]]) + w[2]
  PROVE  v = w
<1>1. /\ v[1] \in Structs /\ w[1] \in Structs /\ v[2] \in 0 .. PPC - 1 /\ w[2] \in 0 .. PPC - 1
      /\ v = <<v[1], v[2]>> /\ w = <<w[1], w[2]>>
  BY DEF Slots
<1>2. idx[v[1]] \in Int /\ idx[w[1]] \in Int /\ own[v[1]] # Null
  BY <1>1, StructKinds DEF Strung
<1>3. idx[v[1]] = idx[w[1]] /\ v[2] = w[2]
  BY <1>1, <1>2, PlaceUnique
<1>4. v[1] = w[1]
  BY <1>1, <1>2, <1>3 DEF Strung
<1>5. QED BY <1>1, <1>3, <1>4

\* The place of one more particle.
LEMMA PlacesAdded ==
  ASSUME NEW own, NEW idx, NEW next2, NEW used2, NEW own2, NEW idx2, Strung(next2, used2, own2, idx2),
         NEW size \in [Heads -> Nat], NEW rest \in [Heads -> Nat], NEW l \in Heads, rest[l] <= size[l],
         NEW to \in Structs, own2[to] = l, Base(idx2[to]) + (size[l] % PPC) = size[l],
         own[to] \in Heads \/ size[l] % PPC = 0,
         \A s \in Structs : own[s] \in Heads => own2[s] = own[s] /\ idx2[s] = idx[s],
         \A s \in Structs : own2[s] \in Heads /\ s # to => own[s] = own2[s]
  PROVE  NewPlace(own, idx, own2, idx2, rest, size, l, to)
<1> DEFINE n == size[l]
<1> DEFINE m == size[l] % PPC
<1> DEFINE A == Places(own, idx, rest, size)
<1> DEFINE size2 == Increased(size, l)
<1> DEFINE B == Places(own2, idx2, rest, size2)
<1>1. n \in Nat /\ m \in 0 .. PPC - 1 /\ PPC \in Nat \ {0} /\ \A k \in Heads : rest[k] \in Nat /\ size[k] \in Nat
  BY Sizes, PlaceOf
<1>2. Base(idx2[to]) + m = n
  OBVIOUS
<1>3. own[to] \in Heads \/ m = 0
  OBVIOUS
<1>4. size2[l] = n + 1 /\ \A k \in Heads \ {l} : size2[k] = size[k]
  BY DEF Increased, With
<1>5. rest[l] <= n
  OBVIOUS
<1> HIDE DEF n, m, size2
<1>6. <<to, m>> \in Slots
  BY <1>1 DEF Slots
<1>7. <<to, m>> \notin A
  <2>1. SUFFICES ASSUME <<to, m>> \in A PROVE FALSE
    OBVIOUS
  <2>2. own[to] \in Heads /\ Base(idx[to]) + m \in rest[own[to]] .. size[own[to]] - 1
    BY <2>1 DEF Places
  <2>3. own[to] = l /\ idx[to] = idx2[to] /\ n = size[l]
    BY <2>2 DEF n
  <2>4. n \in rest[l] .. n - 1
    BY <1>2, <2>2, <2>3
  <2>5. QED BY <1>1, <2>4
<1>8. ASSUME NEW s \in Structs, own2[s] \in Heads PROVE Base(idx2[s]) \in Nat
  BY <1>8, PlacesCountUp, Bases
<1>9. ASSUME NEW v \in B PROVE v \in A \cup {<<to, m>>}
  <2>1. v \in Slots /\ own2[v[1]] \in Heads /\ Base(idx2[v[1]]) + v[2] \in rest[own2[v[1]]] .. size2[own2[v[1]]] - 1
    BY DEF Places, Slots
  <2>2. v[1] \in Structs /\ v[2] \in 0 .. PPC - 1
    BY <2>1 DEF Slots
  <2>3. CASE own2[v[1]] = l /\ Base(idx2[v[1]]) + v[2] = n
    <3>1. Base(idx2[v[1]]) + v[2] = Base(idx2[<<to, m>>[1]]) + <<to, m>>[2]
      BY <1>2, <2>3
    <3>2. own2[<<to, m>>[1]] = own2[v[1]]
      BY <2>3
    <3>3. v = <<to, m>>
      BY <1>6, <2>1, <3>1, <3>2, PlaceInList
    <3>4. QED BY <3>3
  <2>4. CASE ~(own2[v[1]] = l /\ Base(idx2[v[1]]) + v[2] = n)
    <3>1. Base(idx2[v[1]]) + v[2] \in rest[own2[v[1]]] .. size[own2[v[1]]] - 1
      <4>1. CASE own2[v[1]] # l
        BY <1>4, <2>1, <4>1
      <4>2. CASE own2[v[1]] = l
        <5>1. Base(idx2[v[1]]) + v[2] \in rest[l] .. n /\ Base(idx2[v[1]]) + v[2] # n
          BY <1>1, <1>4, <2>1, <2>4, <4>2
        <5>2. n = size[l]
          BY DEF n
        <5>3. QED BY <1>1, <4>2, <5>1, <5>2
      <4>3. QED BY <4>1, <4>2
    <3>2. own[v[1]] = own2[v[1]]
      <4>1. CASE v[1] # to
        BY <2>1, <2>2, <4>1
      <4>2. CASE v[1] = to /\ own[to] \in Heads
        BY <4>2
      <4>3. CASE v[1] = to /\ m = 0
        <5>1. own2[v[1]] = l /\ Base(idx2[v[1]]) = n /\ n = size[l]
          <6>1. Base(idx2[to]) \in Nat
            BY <1>8
          <6>2. QED BY <1>2, <4>3, <6>1 DEF n
        <5>2. n + v[2] \in rest[l] .. n - 1
          BY <3>1, <5>1
        <5>3. FALSE
          BY <1>1, <2>2, <5>2
        <5>4. QED BY <5>3
      <4>4. QED BY <1>3, <4>1, <4>2, <4>3
    <3>3. idx2[v[1]] = idx[v[1]]
      BY <2>1, <2>2, <3>2
    <3>4. QED BY <2>1, <3>1, <3>2, <3>3 DEF Places, Slots
  <2>5. QED BY <2>3, <2>4
<1>10. ASSUME NEW v \in A PROVE v \in B
  <2>1. v \in Slots /\ own[v[1]] \in Heads /\ Base(idx[v[1]]) + v[2] \in rest[own[v[1]]] .. size[own[v[1]]] - 1
    BY DEF Places, Slots
  <2>2. own2[v[1]] = own[v[1]] /\ idx2[v[1]] = idx[v[1]]
    BY <2>1 DEF Slots
  <2>3. Base(idx2[v[1]]) + v[2] \in rest[own2[v[1]]] .. size2[own2[v[1]]] - 1
    <3>1. CASE own[v[1]] # l
      BY <1>4, <2>1, <2>2, <3>1
    <3>2. CASE own[v[1]] = l
      <4>1. size[l] = n /\ size2[l] = n + 1
        BY <1>4 DEF n
      <4>2. QED BY <1>1, <2>1, <2>2, <3>2, <4>1
    <3>3. QED BY <3>1, <3>2
  <2>4. QED BY <2>1, <2>2, <2>3 DEF Places, Slots
<1>11. <<to, m>> \in B
  <2>1. n \in rest[l] .. size2[l] - 1
    BY <1>1, <1>4, <1>5
  <2>2. QED BY <1>2, <1>6, <2>1 DEF Places, Slots
<1>12. B = A \cup {<<to, m>>}
  BY <1>9, <1>10, <1>11
<1>13. QED BY <1>6, <1>7, <1>12 DEF n, m, size2, NewPlace

\* The place of the particle that is read next.
LEMMA PlacesRead ==
  ASSUME NEW next, NEW used, NEW own, NEW idx, Strung(next, used, own, idx),
         NEW size \in [Heads -> Nat], NEW rest \in [Heads -> Nat], NEW l \in Heads, rest[l] < size[l],
         NEW s \in Structs, own[s] = l, Base(idx[s]) + (rest[l] % PPC) = rest[l]
  PROVE  OldPlace(own, idx, rest, size, l, s)
<1> DEFINE n == rest[l]
<1> DEFINE m == rest[l] % PPC
<1> DEFINE A == Places(own, idx, rest, size)
<1> DEFINE rest2 == Increased(rest, l)
<1> DEFINE B == Places(own, idx, rest2, size)
<1>1. n \in Nat /\ m \in 0 .. PPC - 1 /\ PPC \in Nat \ {0} /\ \A k \in Heads : rest[k] \in Nat /\ size[k] \in Nat
  BY Sizes, PlaceOf
<1>2. Base(idx[s]) + m = n /\ n < size[l]
  OBVIOUS
<1>3. rest2[l] = n + 1 /\ \A k \in Heads \ {l} : rest2[k] = rest[k]
  BY DEF Increased, With
<1>4. n = rest[l]
  OBVIOUS
<1> HIDE DEF n, m, rest2
<1>5. <<s, m>> \in Slots
  BY <1>1 DEF Slots
<1>6. <<s, m>> \in A
  <2>1. n \in rest[l] .. size[l] - 1
    BY <1>1, <1>2, <1>4
  <2>2. QED BY <1>2, <1>5, <2>1 DEF Places, Slots
<1>7. ASSUME NEW v \in B PROVE v \in A \ {<<s, m>>}
  <2>1. v \in Slots /\ own[v[1]] \in Heads /\ Base(idx[v[1]]) + v[2] \in rest2[own[v[1]]] .. size[own[v[1]]] - 1
    BY DEF Places, Slots
  <2>2. Base(idx[v[1]]) + v[2] \in rest[own[v[1]]] .. size[own[v[1]]] - 1
    <3>1. CASE own[v[1]] # l
      BY <1>3, <2>1, <3>1
    <3>2. CASE own[v[1]] = l
      BY <1>1, <1>3, <1>4, <2>1, <3>2
    <3>3. QED BY <3>1, <3>2
  <2>3. v # <<s, m>>
    <3>1. SUFFICES ASSUME v = <<s, m>> PROVE FALSE
      OBVIOUS
    <3>2. n \in n + 1 .. size[l] - 1
      BY <1>2, <1>3, <2>1, <3>1
    <3>3. QED BY <1>1, <3>2
  <2>4. QED BY <2>1, <2>2, <2>3 DEF Places, Slots
<1>8. ASSUME NEW v \in A, v # <<s, m>> PROVE v \in B
  <2>1. v \in Slots /\ own[v[1]] \in Heads /\ Base(idx[v[1]]) + v[2] \in rest[own[v[1]]] .. size[own[v[1]]] - 1
    BY DEF Places, Slots
  <2>2. Base(idx[v[1]]) + v[2] \in rest2[own[v[1]]] .. size[own[v[1]]] - 1
    <3>1. CASE own[v[1]] # l
      BY <1>3, <2>1, <3>1
    <3>2. CASE own[v[1]] = l
      <4>1. Base(idx[v[1]]) + v[2] # n
        <5>1. SUFFICES ASSUME Base(idx[v[1]]) + v[2] = n PROVE FALSE
          OBVIOUS
        <5>2. Base(idx[v[1]]) + v[2] = Base(idx[<<s, m>>[1]]) + <<s, m>>[2]
          BY <1>2, <5>1
        <5>3. own[<<s, m>>[1]] = own[v[1]]
          BY <3>2
        <5>4. v = <<s, m>>
          BY <1>5, <2>1, <5>2, <5>3, PlaceInList
        <5>5. QED BY <1>8, <5>4
      <4>2. Base(idx[v[1]]) + v[2] \in n .. size[l] - 1
        BY <1>4, <2>1, <3>2
      <4>3. QED BY <1>1, <1>3, <3>2, <4>1, <4>2
    <3>3. QED BY <3>1, <3>2
  <2>3. QED BY <2>1, <2>2 DEF Places, Slots
<1>9. B = A \ {<<s, m>>}
  BY <1>7, <1>8
<1>10. QED BY <1>5, <1>6, <1>9 DEF n, m, rest2, OldPlace

\* Reading on leaves the places from there on as they are.
LEMMA PlacesAdvanced ==
  ASSUME NEW next, NEW used, NEW own, NEW idx, Strung(next, used, own, idx), NEW own2, NEW idx2,
         NEW size \in [Heads -> Nat], NEW rest \in [Heads -> Nat], NEW l \in Heads,
         \A r \in Structs : own2[r] \in Heads => own2[r] = own[r] /\ idx2[r] = idx[r],
         \A r \in Structs : own[r] \in Heads =>
           own2[r] = own[r] \/ (own[r] = l /\ Base(idx[r] + 1) <= rest[l])
  PROVE  Places(own2, idx2, rest, size) = Places(own, idx, rest, size)
<1> DEFINE A == Places(own, idx, rest, size)
<1> DEFINE B == Places(own2, idx2, rest, size)
<1>1. ASSUME NEW v \in B PROVE v \in A
  <2>1. v[1] \in Structs /\ own2[v[1]] \in Heads
    BY DEF Places
  <2>2. own2[v[1]] = own[v[1]] /\ idx2[v[1]] = idx[v[1]]
    BY <2>1
  <2>3. QED BY <2>2 DEF Places
<1>2. ASSUME NEW v \in A PROVE v \in B
  <2>1. v[1] \in Structs /\ v[2] \in 0 .. PPC - 1 /\ own[v[1]] \in Heads
        /\ Base(idx[v[1]]) + v[2] \in rest[own[v[1]]] .. size[own[v[1]]] - 1
    BY DEF Places
  <2>2. own2[v[1]] = own[v[1]]
    <3>1. SUFFICES ASSUME own2[v[1]] # own[v[1]] PROVE FALSE
      OBVIOUS
    <3>2. own[v[1]] = l /\ Base(idx[v[1]] + 1) <= rest[l]
      BY <2>1, <3>1
    <3>3. idx[v[1]] \in Nat
      BY <2>1, PlacesCountUp
    <3>4. Base(idx[v[1]]) \in Nat /\ Base(idx[v[1]] + 1) = Base(idx[v[1]]) + PPC /\ PPC \in Nat \ {0}
      BY <3>3, Bases, Sizes
    <3>5. rest[l] \in Nat /\ size[l] \in Nat
      OBVIOUS
    <3>6. QED BY <2>1, <3>2, <3>4, <3>5
  <2>3. idx2[v[1]] = idx[v[1]]
    BY <2>1, <2>2
  <2>4. QED BY <2>2, <2>3 DEF Places
<1>3. QED BY <1>1, <1>2

\* A particle goes from one place to another, or is put into a new one.
LEMMA MovePlaced ==
  ASSUME NEW sl \in [Structs -> [0 .. PPC - 1 -> Int]], NEW A \in SUBSET Slots, NEW loc, NEW P, P \subseteq Int,
         Placed(sl, A, loc, P), NEW old \in A, NEW new \in Slots, new \notin A
  PROVE  LET p   == sl[old[1]][old[2]]
             sl2 == Written(sl, new, p)
         IN  /\ p \in P /\ loc[p] = old
             /\ sl2 \in [Structs -> [0 .. PPC - 1 -> Int]]
             /\ \A v \in Slots : sl2[v[1]][v[2]] = IF v = new THEN p ELSE sl[v[1]][v[2]]
             /\ Placed(sl2, (A \ {old}) \cup {new}, With(loc, p, new), P)
<1> DEFINE p == sl[old[1]][old[2]]
<1> DEFINE sl2 == [sl EXCEPT ![new[1]] = [@ EXCEPT ![new[2]] = p]]
<1> DEFINE loc2 == [loc EXCEPT ![p] = new]
<1> DEFINE B == (A \ {old}) \cup {new}
<1>1. p \in P /\ loc[p] = old /\ p \in Int
  BY DEF Placed
<1>2. new[1] \in Structs /\ new[2] \in 0 .. PPC - 1 /\ new = <<new[1], new[2]>>
  BY DEF Slots
<1> HIDE DEF p
<1>3. sl2 \in [Structs -> [0 .. PPC - 1 -> Int]]
  BY <1>1, <1>2
<1>4. ASSUME NEW v \in Slots PROVE sl2[v[1]][v[2]] = IF v = new THEN p ELSE sl[v[1]][v[2]]
  <2>1. v[1] \in Structs /\ v[2] \in 0 .. PPC - 1 /\ v = <<v[1], v[2]>>
    BY DEF Slots
  <2>2. CASE v[1] # new[1]
    BY <1>2, <2>1, <2>2
  <2>3. CASE v[1] = new[1] /\ v[2] # new[2]
    BY <1>2, <2>1, <2>3
  <2>4. CASE v[1] = new[1] /\ v[2] = new[2]
    <3>1. v = new
      BY <1>2, <2>1, <2>4
    <3>2. QED BY <1>2, <2>1, <2>4, <3>1
  <2>5. QED BY <2>2, <2>3, <2>4
<1>5. loc \in [P -> A] /\ (\A q \in P : sl[loc[q][1]][loc[q][2]] = q)
      /\ \A v \in A : sl[v[1]][v[2]] \in P /\ loc[sl[v[1]][v[2]]] = v
  BY DEF Placed
<1>6. loc2[p] = new /\ \A q \in P \ {p} : loc2[q] = loc[q]
  BY <1>1, <1>5
<1>7. \A q \in P \ {p} : loc[q] # old
  BY <1>5 DEF p
<1>8. loc2 \in [P -> B]
  <2>1. \A q \in P : loc2[q] \in B
    BY <1>5, <1>6, <1>7
  <2>2. loc2 = [q \in P |-> loc2[q]]
    BY <1>5
  <2> HIDE DEF B, loc2
  <2>3. QED BY <2>1, <2>2
<1> HIDE DEF sl2, loc2
<1>9. ASSUME NEW q \in P PROVE sl2[loc2[q][1]][loc2[q][2]] = q
  <2>1. CASE q = p
    BY <1>4, <1>6, <2>1
  <2>2. CASE q # p
    <3>0. loc2[q] = loc[q]
      BY <1>6, <2>2
    <3>1. loc[q] \in A /\ loc[q] # new
      <4>1. loc[q] \in A
        BY <1>5
      <4>2. QED BY <4>1
    <3>2. sl2[loc[q][1]][loc[q][2]] = sl[loc[q][1]][loc[q][2]]
      BY <1>4, <3>1
    <3>3. QED BY <1>5, <3>0, <3>1, <3>2
  <2>3. QED BY <2>1, <2>2
<1>10. ASSUME NEW v \in B PROVE sl2[v[1]][v[2]] \in P /\ loc2[sl2[v[1]][v[2]]] = v
  <2>1. CASE v = new
    BY <1>1, <1>4, <1>6, <2>1
  <2>2. CASE v # new
    <3>1. v \in A /\ v # old
      BY <2>2
    <3>2. sl2[v[1]][v[2]] = sl[v[1]][v[2]]
      BY <1>4, <2>2, <3>1
    <3>3. sl[v[1]][v[2]] \in P /\ loc[sl[v[1]][v[2]]] = v
      BY <1>5, <3>1
    <3>4. sl[v[1]][v[2]] # p
      BY <1>1, <3>1, <3>3
    <3>5. QED BY <1>6, <3>2, <3>3, <3>4
  <2>3. QED BY <2>1, <2>2
<1>11. Placed(sl2, B, loc2, P)
  <2> HIDE DEF B
  <2>1. QED BY ONLY <1>8, <1>9, <1>10 DEF Placed
<1>12. QED BY <1>1, <1>3, <1>4, <1>11 DEF sl2, loc2, p, Written, With

LEMMA AddPlaced ==
  ASSUME NEW sl \in [Structs -> [0 .. PPC - 1 -> Int]], NEW A \in SUBSET Slots, NEW loc, NEW P, P \subseteq Int,
         Placed(sl, A, loc, P), NEW p \in Int, p \notin P, NEW new \in Slots, new \notin A
  PROVE  /\ Written(sl, new, p) \in [Structs -> [0 .. PPC - 1 -> Int]]
         /\ Placed(Written(sl, new, p), A \cup {new}, AddedTo(loc, P, p, new), P \cup {p})
<1> DEFINE sl2 == [sl EXCEPT ![new[1]] = [@ EXCEPT ![new[2]] = p]]
<1> DEFINE loc2 == [q \in P \cup {p} |-> IF q = p THEN new ELSE loc[q]]
<1> DEFINE B == A \cup {new}
<1> DEFINE Q == P \cup {p}
<1>2. new[1] \in Structs /\ new[2] \in 0 .. PPC - 1 /\ new = <<new[1], new[2]>>
  BY DEF Slots
<1>3. sl2 \in [Structs -> [0 .. PPC - 1 -> Int]]
  BY <1>2
<1>4. ASSUME NEW v \in Slots PROVE sl2[v[1]][v[2]] = IF v = new THEN p ELSE sl[v[1]][v[2]]
  <2>1. v[1] \in Structs /\ v[2] \in 0 .. PPC - 1 /\ v = <<v[1], v[2]>>
    BY DEF Slots
  <2>2. CASE v[1] # new[1]
    BY <1>2, <2>1, <2>2
  <2>3. CASE v[1] = new[1] /\ v[2] # new[2]
    BY <1>2, <2>1, <2>3
  <2>4. CASE v[1] = new[1] /\ v[2] = new[2]
    <3>1. v = new
      BY <1>2, <2>1, <2>4
    <3>2. QED BY <1>2, <2>1, <2>4, <3>1
  <2>5. QED BY <2>2, <2>3, <2>4
<1>5. loc \in [P -> A] /\ (\A q \in P : sl[loc[q][1]][loc[q][2]] = q)
      /\ \A v \in A : sl[v[1]][v[2]] \in P /\ loc[sl[v[1]][v[2]]] = v
  BY DEF Placed
<1>6. loc2[p] = new /\ \A q \in P : loc2[q] = loc[q]
  OBVIOUS
<1>7. loc2 \in [Q -> B]
  BY <1>5
<1> HIDE DEF sl2, loc2
<1>8. ASSUME NEW q \in Q PROVE sl2[loc2[q][1]][loc2[q][2]] = q
  <2>1. CASE q = p
    BY <1>4, <1>6, <2>1
  <2>2. CASE q # p
    <3>1. q \in P /\ loc2[q] = loc[q] /\ loc[q] \in A /\ loc[q] # new
      BY <1>5, <1>6, <2>2
    <3>2. sl2[loc[q][1]][loc[q][2]] = sl[loc[q][1]][loc[q][2]]
      BY <1>4, <3>1
    <3>3. QED BY <1>5, <3>1, <3>2
  <2>3. QED BY <2>1, <2>2
<1>9. ASSUME NEW v \in B PROVE sl2[v[1]][v[2]] \in Q /\ loc2[sl2[v[1]][v[2]]] = v
  <2>1. CASE v = new
    BY <1>4, <1>6, <2>1
  <2>2. CASE v # new
    <3>1. v \in A
      BY <2>2
    <3>2. sl2[v[1]][v[2]] = sl[v[1]][v[2]]
      BY <1>4, <2>2, <3>1
    <3>3. QED BY <1>5, <1>6, <3>1, <3>2
  <2>3. QED BY <2>1, <2>2
<1>10. Placed(sl2, B, loc2, Q)
  <2> HIDE DEF B, Q
  <2>1. QED BY ONLY <1>7, <1>8, <1>9 DEF Placed
<1>11. QED BY <1>3, <1>10 DEF sl2, loc2, Written, AddedTo

-----------------------------------------------------------------------------
(* The structures of a list, from its head on.                              *)

LEMMA HeadOfList ==
  ASSUME NEW h, NEW own, NEW idx, Chained(h, own, idx),
         NEW live, NEW entry, NEW first, NEW size,
         live \subseteq Heads, Listed(h, own, idx, live, entry, first, size),
         NEW l \in live, entry[l] = l
  PROVE  l \in Structs /\ l # Null /\ own[l] = l /\ idx[l] = 0
<1>1. l \in Heads /\ l \in Structs /\ l # Null
  BY StructKinds
<1>2. own[l] = l
  BY <1>1 DEF Listed
<1>3. QED BY <1>1, <1>2 DEF Chained, Strung

LEMMA StructAt ==
  ASSUME NEW h, HeapOK(h), NEW own, NEW idx, Chained(h, own, idx),
         NEW live, NEW entry, NEW first, NEW size \in [Heads -> Nat],
         live \subseteq Heads, Listed(h, own, idx, live, entry, first, size),
         NEW l \in live, entry[l] = l, NEW n \in Nat, n < size[l]
  PROVE  LET r == Along(h, l, n \div PPC)
         IN  r \in Structs /\ own[r] = l /\ idx[r] = n \div PPC
<1>1. l \in Structs /\ l # Null /\ own[l] = l /\ idx[l] = 0 /\ l \in Heads /\ Null \notin Heads
  BY HeadOfList, StructKinds
<1>2. h.next \in [Structs -> Structs]
  BY DEF HeapOK
<1>3. PICK q \in Nat : q = n \div PPC /\ n = Base(q) + (n % PPC) /\ n % PPC \in 0 .. PPC - 1
  BY PlaceOf
<1> DEFINE R(k) == Along(h, l, k)
<1>4. ASSUME NEW k \in Nat
      PROVE  /\ R(k) \in Structs
             /\ R(k) # Null => own[R(k)] = l /\ idx[R(k)] = k
  <2>1. /\ R(k) \in Structs
        /\ R(k) # Null => own[R(k)] = own[l] /\ idx[R(k)] = idx[l] + k
    BY <1>1, <1>2, AlongList
  <2>2. QED BY <1>1, <2>1
<1>5. ASSUME NEW k \in Nat PROVE R(0) = l /\ R(k) \in Structs /\ R(k + 1) = h.next[R(k)]
  <2>1. l \in Structs
    BY <1>1
  <2>2. k \in Nat
    OBVIOUS
  <2>3. QED BY ONLY <1>2, <2>1, <2>2, AlongSteps
<1> HIDE DEF R
<1>6. R(q) # Null
  <2>1. SUFFICES ASSUME R(q) = Null PROVE FALSE
    OBVIOUS
  <2> DEFINE T == {k \in Nat : R(k) = Null}
  <2>2. T \subseteq Nat /\ T # {}
    BY <2>1
  <2>3. PICK k \in T : \A y \in T : k <= y
    <3> HIDE DEF T
    <3>1. QED BY <2>2, SmallestOf
  <2>4. k \in Nat /\ R(k) = Null /\ k <= q
    BY <2>1, <2>3
  <2>5. k # 0
    BY <1>1, <1>5, <2>4
  <2>6. PICK m \in Nat : k = m + 1
    <3>1. k - 1 \in Nat /\ k = (k - 1) + 1
      BY <2>4, <2>5
    <3>2. QED BY <3>1
  <2>7. R(m) # Null
    <3>1. m \notin T
      <4> HIDE DEF T
      <4>1. QED BY <2>3, <2>6
    <3>2. QED BY <3>1
  <2>8. R(m) \in Structs /\ own[R(m)] = l /\ idx[R(m)] = m /\ h.next[R(m)] = Null
    BY <1>4, <1>5, <2>4, <2>6, <2>7
  <2>9. size[l] <= Base(m + 1)
    BY <1>1, <2>8 DEF Listed
  <2>10. Base(m + 1) <= Base(q) /\ Base(m + 1) \in Nat /\ Base(q) \in Nat
    BY <2>4, <2>6, BaseGrows, Bases
  <2>11. Base(q) <= n
    <3>1. PICK d \in 0 .. PPC - 1 : n = Base(q) + d
      BY <1>3
    <3>2. QED BY <2>10, <3>1
  <2>12. size[l] \in Nat
    BY <1>1
  <2>13. QED BY <2>9, <2>10, <2>11, <2>12
<1>7. QED BY <1>3, <1>4, <1>6 DEF R

\* InitSim hops to the last structure of a list.
LEMMA LastOfList ==
  ASSUME NEW h, HeapOK(h), NEW own, NEW idx, Chained(h, own, idx),
         NEW live, NEW entry, NEW first, NEW size \in [Heads -> Nat],
         live \subseteq Heads, Listed(h, own, idx, live, entry, first, size),
         NEW l \in live, entry[l] = l
  PROVE  LET e == Along(h, l, Hops(size[l]))
         IN  e \in Structs /\ own[e] = l /\ h.next[e] = Null
<1>1. l \in Structs /\ l # Null /\ own[l] = l /\ idx[l] = 0 /\ l \in Heads /\ Null \notin Heads
  BY HeadOfList, StructKinds
<1>2. h.next \in [Structs -> Structs] /\ size[l] \in Nat
  BY <1>1 DEF HeapOK
<1>3. ASSUME NEW e \in Structs, own[e] = l, NEW i \in Nat, idx[e] = i, size[l] <= Base(i + 1)
      PROVE  h.next[e] = Null
  <2>1. SUFFICES ASSUME h.next[e] # Null PROVE FALSE
    OBVIOUS
  <2>2. own[h.next[e]] = l /\ idx[h.next[e]] = i + 1 /\ h.next[e] \in Structs
    BY <1>1, <1>2, <1>3, <2>1, NextKeepsLabel
  <2>3. i + 1 # 0 /\ i + 1 \in Nat
    OBVIOUS
  <2>4. Base(i + 1) < size[l]
    BY <1>1, <2>2, <2>3 DEF Listed
  <2>5. Base(i + 1) \in Nat
    BY <2>3, Bases
  <2>6. QED BY <1>2, <1>3, <2>4, <2>5
<1>4. CASE size[l] = 0
  <2>1. Hops(size[l]) = 0
    BY <1>4 DEF Hops
  <2>2. Along(h, l, 0) = l
    BY <1>1, <1>2, AlongSteps
  <2>3. size[l] <= Base(0 + 1)
    <3>1. Base(0 + 1) \in Nat
      BY Bases
    <3>2. QED BY <1>4, <3>1
  <2>4. 0 \in Nat
    OBVIOUS
  <2>5. h.next[l] = Null
    BY <1>1, <1>3, <2>3, <2>4
  <2>6. QED BY <1>1, <2>1, <2>2, <2>5
<1>5. CASE size[l] # 0
  <2>1. PICK n \in Nat : n = size[l] - 1
    BY <1>2, <1>5
  <2>2. Hops(size[l]) = n \div PPC
    BY <1>5, <2>1 DEF Hops
  <2>3. PICK q \in Nat, d \in 0 .. PPC - 1 : q = n \div PPC /\ n = Base(q) + d
    BY PlaceOf
  <2> DEFINE e == Along(h, l, n \div PPC)
  <2>4. e \in Structs /\ own[e] = l /\ idx[e] = n \div PPC
    <3>1. n < size[l]
      BY <1>2, <2>1
    <3>2. QED BY <3>1, StructAt
  <2> HIDE DEF e
  <2>5. Base(q + 1) = Base(q) + PPC /\ Base(q) \in Nat /\ PPC \in Nat
    BY Bases, Sizes
  <2>6. size[l] <= Base(q + 1)
    BY <1>2, <2>1, <2>3, <2>5
  <2>7. h.next[e] = Null
    BY <1>3, <2>3, <2>4, <2>6
  <2>8. QED BY <2>2, <2>4, <2>7 DEF e
<1>6. QED BY <1>4, <1>5

-----------------------------------------------------------------------------
(* Loading the file.                                                        *)

LEMMA FirstLists ==
  /\ FirstHeads \subseteq Heads /\ FirstEntry \in [Heads -> Structs] /\ Zeros \in [Heads -> Nat]
  /\ \A number \in [Cells -> Nat] : SizeOf(number) \in [Heads -> Nat]
  /\ \A l \in FirstHeads : FirstEntry[l] = l /\ Zeros[l] = 0
  /\ \A c \in Cells : <<1, c>> \in FirstHeads
BY StructKinds DEF FirstHeads, FirstEntry, Zeros, SizeOf, Heads

LEMMA OneMore ==
  ASSUME NEW number \in [Cells -> Nat], NEW c \in Cells
  PROVE  /\ SizeOf(number)[<<1, c>>] = number[c]
         /\ SizeOf([number EXCEPT ![c] = number[c] + 1]) = Increased(SizeOf(number), <<1, c>>)
<1>1. <<1, c>> \in Heads
  BY DEF Heads
<1>2. SizeOf(number)[<<1, c>>] = number[c]
  BY <1>1 DEF SizeOf
<1> DEFINE f == SizeOf([number EXCEPT ![c] = number[c] + 1])
<1> DEFINE g == Increased(SizeOf(number), <<1, c>>)
<1>3. ASSUME NEW l \in Heads PROVE f[l] = g[l]
  <2>1. PICK i \in {1, 2}, d \in Cells : l = <<i, d>>
    BY DEF Heads
  <2>2. CASE l = <<1, c>>
    BY <1>1, <2>2 DEF SizeOf, Increased, With
  <2>3. CASE l # <<1, c>>
    <3>1. g[l] = SizeOf(number)[l]
      BY <2>3 DEF SizeOf, Increased, With
    <3>2. i = 1 => d # c
      BY <2>1, <2>3
    <3>3. QED BY <2>1, <3>1, <3>2 DEF SizeOf
  <2>4. QED BY <2>2, <2>3
<1>4. f = [l \in Heads |-> f[l]] /\ g = [l \in Heads |-> g[l]]
  BY DEF SizeOf, Increased, With
<1> HIDE DEF f, g
<1>5. f = g
  BY <1>3, <1>4
<1>6. QED BY <1>2, <1>5 DEF f, g

LEMMA LoadStep ==
  ASSUME NEW start \in Seq(Domain), NEW p \in 1 .. Len(start), NEW state, LoadedOK(state, start, p - 1),
         NEW after, after = Load(start, state, p),
         \A t \in Threads : after.heap.used[t] <= MaxCells
  PROVE  LoadedOK(after, start, p)
<1>1. PICK c \in Cells : c = CellAt(start[p])
  <2>1. start[p] \in Domain
    OBVIOUS
  <2>2. QED BY <2>1, CellAtInside
<1>2. PICK h : h = state.heap
  OBVIOUS
<1>3. PICK number, t, sl : number = state.num /\ t = state.pool_id /\ sl = state.slots
  OBVIOUS
<1>4. Filled(h, number, sl, start, p - 1) /\ t \in Threads
  BY <1>2, <1>3 DEF LoadedOK
<1>5. number \in [Cells -> Nat] /\ HeapOK(h)
  BY <1>4 DEF Filled
<1>6. PICK np \in Nat : np = number[c]
  BY <1>5
<1>7. PICK e : e = Along(h, <<1, c>>, Hops(np))
  OBVIOUS
<1>8. PICK full \in BOOLEAN : full <=> np % PPC = 0 /\ np # 0
  OBVIOUS
<1>9. PICK to : to = IF full THEN Got(h, t).cell ELSE e
  OBVIOUS
<1>10. PICK h2 : h2 = IF full THEN Linked(Got(h, t).heap, e, Got(h, t).cell) ELSE h
  OBVIOUS
<1>11. PICK sl2 : sl2 = [sl EXCEPT ![to] = [@ EXCEPT ![np % PPC] = p]]
  OBVIOUS
<1>12. PICK number2 : number2 = [number EXCEPT ![c] = np + 1]
  OBVIOUS
<1>13. /\ after.num = number2 /\ after.heap = h2 /\ after.slots = sl2
       /\ after.pool_id = (IF full THEN (t + 1) % NThreads ELSE t)
  BY ONLY <1>1, <1>2, <1>3, <1>6, <1>7, <1>8, <1>9, <1>10, <1>11, <1>12, after = Load(start, state, p) DEF Load
<1>14. full => HasRoom(h, t)
  <2>1. SUFFICES ASSUME full, h.pool[t] = Null PROVE h.used[t] + h.alloc[t] <= MaxCells
    BY DEF HasRoom
  <2>2. h2 = Linked(Got(h, t).heap, e, Got(h, t).cell)
    BY <1>10, <2>1
  <2>3. Got(h, t).heap.used = AllocBlock(h, t).used
    BY <2>1 DEF Got, AllocBlock, Linked, Pooled
  <2>4. AllocBlock(h, t).used = [h.used EXCEPT ![t] = h.used[t] + h.alloc[t]]
    BY DEF AllocBlock
  <2>5. h2.used = Got(h, t).heap.used
    <3>2. DOMAIN Got(h, t).heap = {"next", "pool", "alloc", "used"}
      BY <2>1 DEF Got, AllocBlock, Linked, Pooled
    <3>3. QED BY <2>2, <3>2 DEF Linked
  <2>6. h2.used[t] = h.used[t] + h.alloc[t]
    BY <1>4, <1>5, <2>3, <2>4, <2>5 DEF HeapOK
  <2>7. after.heap.used[t] <= MaxCells
    BY <1>4
  <2>8. QED BY <1>13, <2>6, <2>7
<1>15. p \in Nat \ {0} /\ t \in Threads
  BY <1>4
<1>16. Filled(h2, number2, sl2, start, p)
  <2> number \in [Cells -> Nat] /\ HeapOK(h) /\ sl \in [Structs -> [0 .. PPC - 1 -> Int]]
    BY <1>4 DEF Filled
  <2> PICK own, idx, loc :
         /\ Chained(h, own, idx) /\ AllLabelled(h, own)
         /\ Listed(h, own, idx, FirstHeads, FirstEntry, Zeros, SizeOf(number))
         /\ Placed(sl, Places(own, idx, Zeros, SizeOf(number)), loc, 1 .. p - 1)
         /\ \A q \in 1 .. p - 1 : own[loc[q][1]] = <<1, CellAt(start[q])>>
    BY <1>4 DEF Filled, Filling
  <2> p \in Nat \ {0} /\ t \in Threads /\ np = number[c] /\ np \in Nat /\ c \in Cells /\ c = CellAt(start[p])
    BY <1>1, <1>6, <1>15
  <2> /\ e = Along(h, <<1, c>>, Hops(np)) /\ (full <=> np % PPC = 0 /\ np # 0) /\ full \in BOOLEAN
      /\ full => HasRoom(h, t)
    BY ONLY <1>7, <1>8, <1>14
  <2> /\ to = IF full THEN Got(h, t).cell ELSE e
      /\ h2 = IF full THEN Linked(Got(h, t).heap, e, Got(h, t).cell) ELSE h
      /\ sl2 = [sl EXCEPT ![to] = [@ EXCEPT ![np % PPC] = p]]
      /\ number2 = [number EXCEPT ![c] = np + 1]
    BY ONLY <1>9, <1>10, <1>11, <1>12
  <2>1. PICK l \in Heads : l = <<1, c>> /\ l \in FirstHeads /\ FirstEntry[l] = l /\ Zeros[l] = 0
    BY FirstLists
  <2>2. PICK size \in [Heads -> Nat] : size = SizeOf(number)
    BY FirstLists
  <2>3. size[l] = np /\ SizeOf(number2) = Increased(size, l)
    BY <2>1, <2>2, OneMore
  <2>4. np \in Nat
    OBVIOUS
  <2>5. FirstHeads \subseteq Heads /\ FirstEntry \in [Heads -> Structs] /\ Zeros \in [Heads -> Nat]
    BY FirstLists
  <2>6. Listed(h, own, idx, FirstHeads, FirstEntry, Zeros, size)
    BY <2>2
  <2>7. e \in Structs /\ own[e] = l /\ h.next[e] = Null
    <3>1. LET x == Along(h, l, Hops(size[l])) IN x \in Structs /\ own[x] = l /\ h.next[x] = Null
      <4>1. l \in FirstHeads /\ FirstEntry[l] = l
        BY <2>1
      <4>2. HeapOK(h) /\ Chained(h, own, idx)
        OBVIOUS
      <4>3. size \in [Heads -> Nat] /\ FirstHeads \subseteq Heads
        BY <2>5
      <4>4. QED BY ONLY <2>6, <4>1, <4>2, <4>3, LastOfList
    <3>2. QED BY <2>1, <2>3, <3>1
  <2>8. full <=> size[l] % PPC = 0 /\ size[l] # 0
    BY <2>3
  <2>9. Extends(h, own, idx, FirstHeads, FirstEntry, Zeros, size, l, e, full, to, h2)
    <3>1. l \in FirstHeads
      BY <2>1
    <3>2. HeapOK(h) /\ Chained(h, own, idx)
      OBVIOUS
    <3>3. size \in [Heads -> Nat] /\ t \in Threads /\ full \in BOOLEAN
      OBVIOUS
    <3>4. full => HasRoom(h, t)
      OBVIOUS
    <3>5. Extends(h, own, idx, FirstHeads, FirstEntry, Zeros, size, l, e, full, IF full THEN Got(h, t).cell ELSE e,
                  IF full THEN Linked(Got(h, t).heap, e, Got(h, t).cell) ELSE h)
      BY ONLY <2>5, <2>6, <2>7, <2>8, <3>1, <3>2, <3>3, <3>4, AddLists
    <3>6. QED BY <3>5
  <2> DEFINE size2 == Increased(size, l)
  <2> HIDE DEF size2
  <2>10. /\ HeapOK(h2) /\ to \in Structs
         /\ \E own2, idx2 :
              /\ Chained(h2, own2, idx2)
              /\ Listed(h2, own2, idx2, FirstHeads, FirstEntry, Zeros, size2)
              /\ own2[to] = l /\ Base(idx2[to]) + (size[l] % PPC) = size[l]
              /\ \A s \in Structs : own[s] \in Heads => own2[s] = own[s] /\ idx2[s] = idx[s]
              /\ \A s \in Structs : own2[s] \in Heads /\ s # to => own[s] = own2[s]
              /\ AllLabelled(h, own) => AllLabelled(h2, own2)
    BY ONLY <2>9 DEF Extends, size2
  <2>11. PICK own2, idx2 :
              /\ Chained(h2, own2, idx2)
              /\ Listed(h2, own2, idx2, FirstHeads, FirstEntry, Zeros, size2)
              /\ own2[to] = l /\ Base(idx2[to]) + (size[l] % PPC) = size[l]
              /\ \A s \in Structs : own[s] \in Heads => own2[s] = own[s] /\ idx2[s] = idx[s]
              /\ \A s \in Structs : own2[s] \in Heads /\ s # to => own[s] = own2[s]
              /\ AllLabelled(h, own) => AllLabelled(h2, own2)
    BY <2>10
  <2>12. PICK new : new = <<to, size[l] % PPC>>
    OBVIOUS
  <2>13. PICK A : A = Places(own, idx, Zeros, size)
    OBVIOUS
  <2>14. new \in Slots /\ new \notin A /\ Places(own2, idx2, Zeros, size2) = A \cup {new}
    <3>1. own[to] \in Heads \/ size[l] % PPC = 0
      BY <2>7, <2>8
    <3>2. Zeros[l] <= size[l] /\ Strung(h2.next, h2.used, own2, idx2)
      BY <2>1, <2>3, <2>4, <2>11 DEF Chained
    <3>3. NewPlace(own, idx, own2, idx2, Zeros, size, l, to)
      <4>1. /\ size \in [Heads -> Nat] /\ Zeros \in [Heads -> Nat] /\ l \in Heads /\ to \in Structs
            /\ own2[to] = l /\ Base(idx2[to]) + (size[l] % PPC) = size[l]
        BY <2>5, <2>10, <2>11
      <4>2. /\ \A s \in Structs : own[s] \in Heads => own2[s] = own[s] /\ idx2[s] = idx[s]
            /\ \A s \in Structs : own2[s] \in Heads /\ s # to => own[s] = own2[s]
        BY <2>11
      <4>3. QED BY ONLY <3>1, <3>2, <4>1, <4>2, PlacesAdded
    <3>4. QED BY ONLY <2>12, <2>13, <3>3 DEF size2, NewPlace
  <2>15. A \subseteq Slots
    BY <2>13 DEF Places, Slots
  <2>16. Placed(sl, A, loc, 1 .. p - 1)
    BY <2>2, <2>13
  <2> DEFINE P == 1 .. p - 1
  <2> DEFINE sl3 == Written(sl, new, p)
  <2> DEFINE loc2 == AddedTo(loc, P, p, new)
  <2>17. /\ sl3 \in [Structs -> [0 .. PPC - 1 -> Int]]
         /\ Placed(sl3, A \cup {new}, loc2, P \cup {p})
    <3>1. p \in Int /\ p \notin P /\ P \subseteq Int
      OBVIOUS
    <3>2. Placed(sl, A, loc, P)
      BY <2>16
    <3>3. sl \in [Structs -> [0 .. PPC - 1 -> Int]]
      OBVIOUS
    <3>4. new \in Slots /\ new \notin A
      BY <2>14
    <3> HIDE DEF P
    <3>5. QED BY ONLY <2>15, <3>1, <3>2, <3>3, <3>4, AddPlaced DEF sl3, loc2
  <2>18. P \cup {p} = 1 .. p
    OBVIOUS
  <2>19. sl3 = sl2
    BY <2>3, <2>12 DEF Written
  <2> HIDE DEF sl3
  <2>20. ASSUME NEW q \in 1 .. p PROVE own2[loc2[q][1]] = <<1, CellAt(start[q])>>
    <3>1. CASE q = p
      <4>1. loc2[q] = new
        BY <2>18, <3>1 DEF AddedTo
      <4>2. own2[new[1]] = <<1, c>> /\ c = CellAt(start[p])
        BY <2>1, <2>11, <2>12
      <4>3. QED BY <3>1, <4>1, <4>2
    <3>2. CASE q # p
      <4>1. q \in P /\ loc2[q] = loc[q]
        BY <3>2 DEF AddedTo
      <4>2. own[loc[q][1]] = <<1, CellAt(start[q])>>
        BY <4>1
      <4>3. loc[q] \in A
        BY <2>16, <4>1 DEF Placed
      <4>4. loc[q][1] \in Structs /\ own[loc[q][1]] \in Heads
        BY <2>13, <4>3 DEF Places
      <4>5. QED BY <2>11, <4>1, <4>2, <4>4
    <3>3. QED BY <3>1, <3>2
  <2> HIDE DEF loc2
  <2>21. Placed(sl2, Places(own2, idx2, Zeros, size2), loc2, 1 .. p)
    BY <2>14, <2>17, <2>18, <2>19
  <2>22. SizeOf(number2) = size2
    BY <2>3 DEF size2
  <2>23. number2 \in [Cells -> Nat]
    BY <2>4
  <2>24. HeapOK(h2) /\ number2 \in [Cells -> Nat] /\ sl2 \in [Structs -> [0 .. PPC - 1 -> Int]]
    BY <2>10, <2>17, <2>19, <2>23
  <2>25. /\ Chained(h2, own2, idx2) /\ AllLabelled(h2, own2)
         /\ Listed(h2, own2, idx2, FirstHeads, FirstEntry, Zeros, SizeOf(number2))
         /\ Placed(sl2, Places(own2, idx2, Zeros, SizeOf(number2)), loc2, 1 .. p)
    <3>1. AllLabelled(h, own)
      OBVIOUS
    <3>2. QED BY ONLY <2>11, <2>21, <2>22, <3>1
  <2>26. \A q \in 1 .. p : own2[loc2[q][1]] = <<1, CellAt(start[q])>>
    BY <2>20
  <2>27. QED
    <3>1. Filling(h2, number2, sl2, start, p, own2, idx2, loc2)
      BY ONLY <2>25, <2>26 DEF Filling
    <3>2. QED BY ONLY <2>24, <3>1 DEF Filled
<1>17. after.pool_id \in Threads
  <2>1. NThreads \in Nat \ {0} /\ t \in 0 .. NThreads - 1
    BY <1>4, Sizes DEF Threads
  <2>2. (t + 1) % NThreads \in 0 .. NThreads - 1
    BY <2>1
  <2>3. QED BY <1>13, <2>1, <2>2 DEF Threads
<1>18. QED BY <1>13, <1>16, <1>17 DEF LoadedOK

LEMMA FreshLabels ==
  /\ FreshOwn[Null] = Null /\ FreshIdx[Null] = 0 /\ FreshHeap.next[Null] = Null
  /\ \A s \in Heads : /\ FreshOwn[s] = IF s[1] = 1 THEN s ELSE Null
                      /\ FreshIdx[s] = 0 /\ FreshHeap.next[s] = Null
  /\ \A t \in Threads : \A n \in 1 .. MaxCells :
       /\ FreshOwn[<<3 + t, n>>] = IF n <= Block THEN PoolLabel(t) ELSE Null
       /\ FreshIdx[<<3 + t, n>>] = n
       /\ FreshHeap.next[<<3 + t, n>>] = IF n < Block THEN <<3 + t, n + 1>> ELSE Null
<1>1. FreshHeap.next = [s \in Structs |-> IF s[1] > 2 /\ s[2] < Block THEN <<s[1], s[2] + 1>> ELSE Null]
  BY DEF FreshHeap
<1>2. FreshOwn[Null] = Null /\ FreshIdx[Null] = 0 /\ FreshHeap.next[Null] = Null
  <2>1. Null \in Structs /\ Null[1] = 0
    BY StructKinds DEF Null
  <2>2. QED BY <1>1, <2>1 DEF FreshOwn, FreshIdx
<1>3. ASSUME NEW s \in Heads
      PROVE  /\ FreshOwn[s] = IF s[1] = 1 THEN s ELSE Null
             /\ FreshIdx[s] = 0 /\ FreshHeap.next[s] = Null
  <2>1. s \in Structs /\ (s[1] = 1 \/ s[1] = 2)
    BY StructKinds DEF Heads
  <2>2. QED BY <1>1, <2>1 DEF FreshOwn, FreshIdx
<1>4. ASSUME NEW t \in Threads, NEW n \in 1 .. MaxCells
      PROVE  /\ FreshOwn[<<3 + t, n>>] = IF n <= Block THEN PoolLabel(t) ELSE Null
             /\ FreshIdx[<<3 + t, n>>] = n
             /\ FreshHeap.next[<<3 + t, n>>] = IF n < Block THEN <<3 + t, n + 1>> ELSE Null
  <2>1. t \in Nat
    BY Sizes DEF Threads
  <2>2. <<3 + t, n>> \in Structs
    BY StructKinds
  <2>3. PICK s : s = <<3 + t, n>>
    OBVIOUS
  <2>4. s[1] = 3 + t /\ s[2] = n /\ s[1] > 2 /\ s[1] # 1
    BY <2>1, <2>3
  <2>5. FreshOwn[s] = IF n <= Block THEN <<3 + t, 0>> ELSE Null
    BY <2>2, <2>3, <2>4 DEF FreshOwn
  <2>6. FreshIdx[s] = n
    BY <2>2, <2>3, <2>4 DEF FreshIdx
  <2>7. FreshHeap.next[s] = IF n < Block THEN <<3 + t, n + 1>> ELSE Null
    BY <1>1, <2>2, <2>3, <2>4
  <2>8. QED BY <2>3, <2>5, <2>6, <2>7 DEF PoolLabel
<1>5. QED BY <1>2, <1>3, <1>4

LEMMA FreshChained ==
  HeapOK(FreshHeap) /\ Chained(FreshHeap, FreshOwn, FreshIdx) /\ AllLabelled(FreshHeap, FreshOwn)
<1>1. PICK h : h = FreshHeap
  OBVIOUS
<1>2. PICK own, idx : own = FreshOwn /\ idx = FreshIdx
  OBVIOUS
<1>3. Block \in Nat /\ MaxCells \in Nat /\ 1 <= Block /\ Block <= MaxCells
  BY Sizes
<1>4. /\ own[Null] = Null /\ idx[Null] = 0 /\ h.next[Null] = Null
      /\ \A s \in Heads : own[s] = (IF s[1] = 1 THEN s ELSE Null) /\ idx[s] = 0 /\ h.next[s] = Null
      /\ \A t \in Threads : \A n \in 1 .. MaxCells :
           /\ own[<<3 + t, n>>] = IF n <= Block THEN PoolLabel(t) ELSE Null
           /\ idx[<<3 + t, n>>] = n
           /\ h.next[<<3 + t, n>>] = IF n < Block THEN <<3 + t, n + 1>> ELSE Null
  BY <1>1, <1>2, FreshLabels
<1> DEFINE InBlock(s, t) == \E n \in 1 .. Block : /\ s = <<3 + t, n>> /\ idx[s] = n
                                                  /\ h.next[s] = IF n < Block THEN <<3 + t, n + 1>> ELSE Null
<1> HIDE DEF InBlock
<1>5. ASSUME NEW s \in Structs
      PROVE  /\ own[s] \in Labels /\ idx[s] \in Int /\ h.next[s] \in Structs
             /\ own[s] \in Heads => own[s] = s /\ s \in Heads /\ idx[s] = 0 /\ h.next[s] = Null
             /\ \A t \in Threads : own[s] = PoolLabel(t) => InBlock(s, t)
  <2>1. CASE s = Null
    BY <1>4, <2>1, StructKinds DEF Labels
  <2>2. CASE s \in Heads
    BY <1>4, <2>2, StructKinds DEF Labels
  <2>3. ASSUME NEW t \in Threads, NEW n \in 1 .. MaxCells, s = <<3 + t, n>>
        PROVE  /\ own[s] \in Labels /\ idx[s] \in Int /\ h.next[s] \in Structs
               /\ own[s] \notin Heads
               /\ \A u \in Threads : own[s] = PoolLabel(u) => InBlock(s, u)
    <3>1. /\ own[s] = IF n <= Block THEN PoolLabel(t) ELSE Null
          /\ idx[s] = n
          /\ h.next[s] = IF n < Block THEN <<3 + t, n + 1>> ELSE Null
      BY <1>4, <2>3
    <3>2. own[s] \in Labels /\ own[s] \notin Heads
      BY <3>1, StructKinds DEF Labels
    <3>3. h.next[s] \in Structs
      <4>1. CASE n < Block
        <5>1. n + 1 \in 1 .. MaxCells
          BY <1>3, <4>1
        <5>2. <<3 + t, n + 1>> \in Structs
          BY <5>1, StructKinds
        <5>3. QED BY <3>1, <4>1, <5>2
      <4>2. CASE ~(n < Block)
        BY <3>1, <4>2, StructKinds
      <4>3. QED BY <4>1, <4>2
    <3>4. ASSUME NEW u \in Threads, own[s] = PoolLabel(u)
          PROVE  InBlock(s, u)
      <4>1. n <= Block
        BY <3>1, <3>4, StructKinds
      <4>2. u = t
        BY <3>1, <3>4, <4>1, StructKinds
      <4>3. n \in 1 .. Block
        BY <1>3, <4>1
      <4>4. QED BY <2>3, <3>1, <4>2, <4>3 DEF InBlock
    <3>5. QED BY <3>1, <3>2, <3>3, <3>4
  <2>4. QED BY <2>1, <2>2, <2>3, StructKinds
<1>6. h.next \in [Structs -> Structs] /\ own \in [Structs -> Labels] /\ idx \in [Structs -> Int]
  <2>1. h.next = [s \in Structs |-> h.next[s]]
    BY <1>1 DEF FreshHeap
  <2>2. own = [s \in Structs |-> own[s]] /\ idx = [s \in Structs |-> idx[s]]
    BY <1>2 DEF FreshOwn, FreshIdx
  <2>3. QED BY <1>5, <2>1, <2>2
<1>7. ASSUME NEW t \in Threads
      PROVE  h.pool[t] = <<3 + t, 1>> /\ h.used[t] = Block /\ <<3 + t, 1>> \in Structs /\ <<3 + t, 1>> # Null
  BY <1>1, <1>3, StructKinds DEF FreshHeap
<1>8. HeapOK(h)
  <2>1. h = [next |-> h.next, pool |-> h.pool, alloc |-> h.alloc, used |-> h.used]
    BY <1>1 DEF FreshHeap
  <2>2. h.pool \in [Threads -> Structs]
    <3>1. h.pool = [t \in Threads |-> h.pool[t]]
      BY <1>1 DEF FreshHeap
    <3>2. QED BY <1>7, <3>1
  <2>3. h.alloc \in [Threads -> Nat \ {0}] /\ h.used \in [Threads -> Nat]
    BY <1>1, <1>3 DEF FreshHeap
  <2>4. QED BY <1>3, <1>6, <1>7, <2>1, <2>2, <2>3 DEF HeapOK
<1>9. ASSUME NEW s \in Structs, own[s] # Null
      PROVE  own[s] \in Heads \/ \E t \in Threads : own[s] = PoolLabel(t)
  BY <1>5, <1>9 DEF Labels
<1>10. Strung(h.next, h.used, own, idx)
  <2>1. ASSUME NEW s \in Structs, own[s] # Null, h.next[s] # Null
        PROVE  own[h.next[s]] = own[s] /\ idx[h.next[s]] = idx[s] + 1
    <3>1. PICK t \in Threads : own[s] = PoolLabel(t)
      BY <1>5, <1>9, <2>1
    <3>2. PICK n \in 1 .. Block : s = <<3 + t, n>> /\ idx[s] = n /\ h.next[s] = IF n < Block THEN <<3 + t, n + 1>> ELSE Null
      BY <1>5, <3>1 DEF InBlock
    <3>3. n < Block /\ h.next[s] = <<3 + t, n + 1>>
      BY <2>1, <3>2
    <3>4. n + 1 \in 1 .. MaxCells /\ n + 1 <= Block
      BY <1>3, <3>3
    <3>5. own[<<3 + t, n + 1>>] = PoolLabel(t) /\ idx[<<3 + t, n + 1>>] = n + 1
      BY <1>4, <3>4
    <3>6. QED BY <3>1, <3>2, <3>3, <3>5
  <2>2. ASSUME NEW s \in Structs, NEW r \in Structs, own[s] # Null, own[r] = own[s]
        PROVE  (h.next[s] = Null => idx[r] <= idx[s]) /\ (idx[r] = idx[s] => r = s)
    <3>1. CASE own[s] \in Heads
      BY <1>5, <2>2, <3>1
    <3>2. ASSUME NEW t \in Threads, own[s] = PoolLabel(t)
          PROVE  (h.next[s] = Null => idx[r] <= idx[s]) /\ (idx[r] = idx[s] => r = s)
      <4>1. PICK n \in 1 .. Block : s = <<3 + t, n>> /\ idx[s] = n /\ h.next[s] = IF n < Block THEN <<3 + t, n + 1>> ELSE Null
        BY <1>5, <3>2 DEF InBlock
      <4>2. PICK m \in 1 .. Block : r = <<3 + t, m>> /\ idx[r] = m
        <5>1. InBlock(r, t)
          BY <1>5, <2>2, <3>2
        <5>2. QED BY <5>1 DEF InBlock
      <4>3. h.next[s] = Null => n = Block
        <5>1. <<3 + t, n + 1>> # Null \/ n = Block
          <6>1. CASE n # Block
            <7>1. n + 1 \in 1 .. MaxCells
              BY <1>3, <6>1
            <7>2. QED BY <7>1, StructKinds
          <6>2. QED BY <6>1
        <5>2. QED BY <1>3, <4>1, <5>1
      <4>4. QED BY <1>3, <4>1, <4>2, <4>3
    <3>3. QED BY <1>9, <2>2, <3>1, <3>2
  <2>3. \A s \in Heads : own[s] # Null => own[s] = s /\ idx[s] = 0
    BY <1>4
  <2>4. \A s \in Structs \ Heads : own[s] \in Heads => idx[s] > 0
    BY <1>5
  <2>5. ASSUME NEW t \in Threads, NEW n \in 1 .. MaxCells, n > h.used[t] PROVE own[<<3 + t, n>>] = Null
    <3>1. own[<<3 + t, n>>] = IF n <= Block THEN PoolLabel(t) ELSE Null
      BY <1>4
    <3>2. n > Block
      BY <1>7, <2>5
    <3>3. QED BY <1>3, <3>1, <3>2
  <2>6. QED BY <1>4, <1>6, <2>1, <2>2, <2>3, <2>4, <2>5 DEF Strung
<1>11. Pooling(h.pool, own, idx)
  <2>1. ASSUME NEW t \in Threads
        PROVE  /\ h.pool[t] # Null /\ own[h.pool[t]] = PoolLabel(t)
               /\ \A s \in Structs : own[s] = PoolLabel(t) => idx[h.pool[t]] <= idx[s]
    <3>1. 1 \in 1 .. MaxCells /\ 1 <= Block
      BY <1>3
    <3>2. own[<<3 + t, 1>>] = PoolLabel(t) /\ idx[<<3 + t, 1>>] = 1
      BY <1>4, <3>1
    <3>3. ASSUME NEW s \in Structs, own[s] = PoolLabel(t) PROVE 1 <= idx[s]
      <4>1. PICK n \in 1 .. Block : idx[s] = n
        <5>1. InBlock(s, t)
          BY <1>5, <3>3
        <5>2. QED BY <5>1 DEF InBlock
      <4>2. QED BY <1>3, <4>1
    <3>4. QED BY <1>7, <3>2, <3>3
  <2>2. QED BY <2>1 DEF Pooling
<1>12. AllLabelled(h, own)
  <2>1. ASSUME NEW s \in UsedOf(h) PROVE own[s] # Null
    <3>1. s \in Structs \ Heads /\ s # Null
      BY <1>8, UsedStructs
    <3>2. PICK t \in Threads : \E n \in 1 .. MaxCells : s = <<3 + t, n>>
      BY <3>1, StructKinds
    <3>3. PICK n \in 1 .. MaxCells : s = <<3 + t, n>>
      BY <3>2
    <3>4. n <= h.used[t]
      BY <1>8, <3>3, UsedStructs
    <3>5. own[s] = PoolLabel(t)
      BY <1>4, <1>7, <3>3, <3>4
    <3>6. QED BY <3>5, StructKinds
  <2>2. QED BY <2>1 DEF AllLabelled
<1>13. QED BY <1>1, <1>2, <1>8, <1>10, <1>11, <1>12 DEF Chained

LEMMA FirstLoaded ==
  ASSUME NEW start
  PROVE  LoadedOK(FirstState, start, 0)
<1>1. PICK number : number = [c \in Cells |-> 0]
  OBVIOUS
<1>2. PICK sl : sl = FirstState.slots
  OBVIOUS
<1>3. FirstState.heap = FreshHeap /\ FirstState.num = number /\ FirstState.slots = sl /\ FirstState.pool_id = 0
  BY <1>1, <1>2 DEF FirstState
<1>4. HeapOK(FreshHeap) /\ Chained(FreshHeap, FreshOwn, FreshIdx) /\ AllLabelled(FreshHeap, FreshOwn)
  BY FreshChained
<1>5. number \in [Cells -> Nat] /\ sl \in [Structs -> [0 .. PPC - 1 -> Int]]
  BY <1>1, <1>2 DEF FirstState, Blank
<1>6. PICK size \in [Heads -> Nat] : size = SizeOf(number)
  BY <1>5, FirstLists
<1>7. \A l \in Heads : size[l] = 0
  BY <1>1, <1>6 DEF SizeOf, Heads
<1>8. FirstHeads \subseteq Heads /\ \A l \in FirstHeads : l[1] = 1
  BY DEF FirstHeads, Heads
<1>9. Base(0) = 0 /\ Base(0 + 1) \in Nat \ {0}
  BY Sizes DEF Base
<1>10. ASSUME NEW s \in Structs, FreshOwn[s] \in Heads
       PROVE  FreshOwn[s] = s /\ s \in FirstHeads /\ FreshIdx[s] = 0
  <2>1. s \in Heads
    <3>1. CASE s = Null
      BY <1>10, <3>1, FreshLabels, StructKinds
    <3>2. ASSUME NEW t \in Threads, NEW n \in 1 .. MaxCells, s = <<3 + t, n>> PROVE FALSE
      <4>1. FreshOwn[s] = IF n <= Block THEN PoolLabel(t) ELSE Null
        BY <3>2, FreshLabels
      <4>2. QED BY <1>10, <4>1, StructKinds
    <3>3. QED BY <3>1, <3>2, StructKinds
  <2>2. FreshOwn[s] = (IF s[1] = 1 THEN s ELSE Null) /\ FreshIdx[s] = 0
    BY <2>1, FreshLabels
  <2>3. s[1] = 1 /\ FreshOwn[s] = s
    BY <1>10, <2>2, StructKinds
  <2>4. s \in FirstHeads
    BY <2>1, <2>3 DEF Heads, FirstHeads
  <2>5. QED BY <2>2, <2>3, <2>4
<1>11. Listed(FreshHeap, FreshOwn, FreshIdx, FirstHeads, FirstEntry, Zeros, size)
  <2>1. ASSUME NEW s \in Structs, FreshOwn[s] \in Heads
        PROVE  /\ FreshOwn[s] \in FirstHeads
               /\ FreshIdx[s] = 0 \/ Base(FreshIdx[s]) < size[FreshOwn[s]]
               /\ FreshHeap.next[s] = Null => size[FreshOwn[s]] <= Base(FreshIdx[s] + 1)
               /\ Zeros[FreshOwn[s]] < Base(FreshIdx[s] + 1)
    <3>1. FreshOwn[s] = s /\ s \in FirstHeads /\ FreshIdx[s] = 0
      BY <1>10, <2>1
    <3>2. size[s] = 0 /\ Zeros[s] = 0
      BY <1>7, <1>8, <3>1, FirstLists
    <3>3. QED BY <1>9, <3>1, <3>2
  <2>2. ASSUME NEW l \in FirstHeads
        PROVE  IF FirstEntry[l] = Null THEN size[l] <= Zeros[l] /\ \A s \in Structs : FreshOwn[s] # l
               ELSE FreshOwn[FirstEntry[l]] = l /\ Base(FreshIdx[FirstEntry[l]]) <= Zeros[l]
    <3>1. FirstEntry[l] = l /\ Zeros[l] = 0 /\ l # Null
      BY <1>8, FirstLists, StructKinds
    <3>2. FreshOwn[l] = l /\ FreshIdx[l] = 0
      BY <1>8, FreshLabels
    <3>3. QED BY <1>9, <3>1, <3>2
  <2>3. QED BY ONLY <2>1, <2>2 DEF Listed
<1>12. Places(FreshOwn, FreshIdx, Zeros, size) = {}
  <2>1. ASSUME NEW v \in Places(FreshOwn, FreshIdx, Zeros, size) PROVE FALSE
    <3>1. /\ v[1] \in Structs /\ FreshOwn[v[1]] \in Heads
          /\ Base(FreshIdx[v[1]]) + v[2] \in Zeros[FreshOwn[v[1]]] .. size[FreshOwn[v[1]]] - 1
      BY DEF Places
    <3>2. Zeros[FreshOwn[v[1]]] = 0 /\ size[FreshOwn[v[1]]] = 0
      BY <1>7, <3>1 DEF Zeros
    <3>3. QED BY <3>1, <3>2
  <2>2. QED BY <2>1
<1>13. PICK loc : loc = [p \in {} |-> Null]
  OBVIOUS
<1>14. 1 .. 0 = {}
  OBVIOUS
<1>15. Placed(sl, Places(FreshOwn, FreshIdx, Zeros, size), loc, 1 .. 0)
  BY <1>12, <1>13, <1>14 DEF Placed
<1>16. \A p \in 1 .. 0 : FreshOwn[loc[p][1]] = <<1, CellAt(start[p])>>
  BY <1>14
<1>17. Filling(FreshHeap, number, sl, start, 0, FreshOwn, FreshIdx, loc)
  BY ONLY <1>4, <1>6, <1>11, <1>15, <1>16 DEF Filling
<1>18. Filled(FreshHeap, number, sl, start, 0)
  BY ONLY <1>4, <1>5, <1>17 DEF Filled
<1>19. 0 \in Threads
  BY Sizes DEF Threads
<1>20. QED BY <1>3, <1>18, <1>19 DEF LoadedOK

\* The particles are put in one after the other.
LEMMA LoadsExist ==
  ASSUME NEW start, NEW n \in Nat
  PROVE  \E f : Loads(f, start, n)
<1> DEFINE Bad == {m \in Nat : ~\E f : Loads(f, start, m)}
<1>1. SUFFICES ASSUME Bad # {} PROVE FALSE
  OBVIOUS
<1>2. Bad \subseteq Nat
  OBVIOUS
<1>3. PICK m \in Bad : \A y \in Bad : m <= y
  <2> HIDE DEF Bad
  <2>1. QED BY <1>1, <1>2, SmallestOf
<1>4. m # 0
  <2>1. Loads([k \in 0 .. 0 |-> FirstState], start, 0)
    BY DEF Loads
  <2>2. ~\E f : Loads(f, start, m)
    OBVIOUS
  <2>3. QED BY <2>1, <2>2
<1>5. m - 1 \in Nat
  BY <1>3, <1>4
<1>6. m - 1 \notin Bad
  <2> HIDE DEF Bad
  <2>1. QED BY <1>2, <1>3, <1>5
<1>7. PICK f : Loads(f, start, m - 1)
  BY <1>5, <1>6
<1> DEFINE g == [k \in 0 .. m |-> IF k = m THEN Load(start, f[m - 1], m) ELSE f[k]]
<1>8. Loads(g, start, m)
  <2>1. m \in Nat \ {0} /\ f[0] = FirstState
    BY <1>3, <1>4, <1>7 DEF Loads
  <2>2. g[0] = FirstState /\ g = [k \in 0 .. m |-> g[k]]
    BY <2>1
  <2>3. ASSUME NEW i \in 1 .. m PROVE g[i] = Load(start, g[i - 1], i)
    <3>1. CASE i = m
      <4>1. g[i] = Load(start, f[m - 1], m) /\ g[i - 1] = f[m - 1]
        BY <2>1, <3>1
      <4>2. QED BY <3>1, <4>1
    <3>2. CASE i # m
      <4>1. i \in 1 .. m - 1 /\ i - 1 \in 0 .. m /\ i - 1 # m /\ i \in 0 .. m
        BY <2>1, <3>2
      <4>2. f[i] = Load(start, f[i - 1], i)
        BY <1>7, <4>1 DEF Loads
      <4>3. QED BY <3>2, <4>1, <4>2
    <3>3. QED BY <3>1, <3>2
  <2> HIDE DEF g
  <2>4. QED BY <2>2, <2>3 DEF Loads
<1>9. ~\E f2 : Loads(f2, start, m)
  OBVIOUS
<1>10. QED BY <1>8, <1>9

LEMMA LoadingLoads ==
  ASSUME NEW start, Len(start) \in Nat
  PROVE  Loads(Loading(start), start, Len(start))
<1>1. PICK n \in Nat : n = Len(start)
  OBVIOUS
<1> DEFINE F(g) == [i \in 0 .. n |-> IF i = 0 THEN FirstState ELSE Load(start, g[i - 1], i)]
<1>2. PICK f : Loads(f, start, n)
  BY LoadsExist
<1>3. f = F(f)
  <2>1. f = [i \in 0 .. n |-> f[i]]
    BY <1>2 DEF Loads
  <2>2. ASSUME NEW i \in 0 .. n PROVE f[i] = IF i = 0 THEN FirstState ELSE Load(start, f[i - 1], i)
    <3>1. CASE i = 0
      BY <1>2, <3>1 DEF Loads
    <3>2. CASE i # 0
      <4>1. i \in 1 .. n
        BY <3>2
      <4>2. QED BY <1>2, <3>2, <4>1 DEF Loads
    <3>3. QED BY <3>1, <3>2
  <2>3. F(f) = [i \in 0 .. n |-> f[i]]
    BY <2>2
  <2>4. QED BY <2>1, <2>3
<1> DEFINE t == CHOOSE g : g = F(g)
<1>4. t = F(t)
  <2> HIDE DEF F
  <2>1. QED BY <1>3
<1>5. Loading(start) = t
  BY <1>1 DEF Loading, FirstState
<1> HIDE DEF t
<1>6. Loads(t, start, n)
  BY <1>4 DEF Loads
<1>7. QED BY <1>1, <1>5, <1>6

LEMMA LoadedAll ==
  ASSUME NEW start \in Starts
  PROVE  LoadedOK(Loaded(start), start, Len(start)) /\ start \in Seq(Domain)
<1>1. start \in Seq(Domain) /\ Len(start) \in Nat
  BY FluidAssumption
<1>2. PICK f : f = Loading(start)
  OBVIOUS
<1>3. PICK n \in Nat : n = Len(start)
  BY <1>1
<1>4. Loads(f, start, n)
  BY <1>1, <1>2, <1>3, LoadingLoads
<1>5. \A m \in 0 .. n : \A t \in Threads : f[m].heap.used[t] <= MaxCells
  BY <1>2, <1>3, RoomToLoad
<1> DEFINE Bad == {m \in 0 .. n : ~LoadedOK(f[m], start, m)}
<1>6. Bad = {}
  <2>1. SUFFICES ASSUME Bad # {} PROVE FALSE
    OBVIOUS
  <2>2. Bad \subseteq Nat
    OBVIOUS
  <2>3. PICK m \in Bad : \A y \in Bad : m <= y
    <3> HIDE DEF Bad
    <3>1. QED BY <2>1, <2>2, SmallestOf
  <2>4. m # 0
    <3>1. f[0] = FirstState
      BY <1>4 DEF Loads
    <3>2. LoadedOK(f[0], start, 0)
      BY <3>1, FirstLoaded
    <3>3. QED BY <3>2
  <2>5. m \in 1 .. n /\ m - 1 \in 0 .. n /\ m - 1 < m
    BY <2>4
  <2>6. LoadedOK(f[m - 1], start, m - 1)
    <3>1. m - 1 \notin Bad
      <4> HIDE DEF Bad
      <4>1. QED BY <2>2, <2>3, <2>5
    <3>2. QED BY <2>5, <3>1
  <2>7. f[m] = Load(start, f[m - 1], m)
    BY <1>4, <2>5 DEF Loads
  <2>8. \A t \in Threads : f[m].heap.used[t] <= MaxCells
    BY <1>5, <2>5
  <2>9. m \in 1 .. Len(start)
    BY <1>3, <2>5
  <2>10. LoadedOK(f[m], start, m)
    BY ONLY <1>1, <2>6, <2>7, <2>8, <2>9, LoadStep
  <2>11. QED BY <2>10
<1>7. LoadedOK(f[n], start, n)
  BY <1>6
<1>8. QED BY <1>1, <1>2, <1>3, <1>7 DEF Loaded

-----------------------------------------------------------------------------
(* The first states.                                                        *)

LEMMA InitHolds == Init => IInv
<1> SUFFICES ASSUME Init PROVE IInv
  OBVIOUS
<1>1. PICK start \in Starts : LET state == Loaded(start)
                              IN  /\ where = start
                                  /\ num = [a \in {1, 2} |-> IF a = 1 THEN state.num ELSE [c \in Cells |-> 0]]
                                  /\ heap = state.heap /\ slots = state.slots
  BY DEF Init
<1>2. LoadedOK(Loaded(start), start, Len(start)) /\ start \in Seq(Domain)
  BY LoadedAll
<1>3. PICK number : number = Loaded(start).num
  OBVIOUS
<1>4. PICK n \in Nat : n = Len(start) /\ Particles = 1 .. n
  BY <1>1, <1>2 DEF Particles
<1>5. Filled(heap, number, slots, start, n)
  BY <1>1, <1>2, <1>3, <1>4 DEF LoadedOK
<1>6. number \in [Cells -> Nat] /\ HeapOK(heap) /\ slots \in [Structs -> [0 .. PPC - 1 -> Int]]
  BY <1>5 DEF Filled
<1>7. PICK own, idx, loc : Filling(heap, number, slots, start, n, own, idx, loc)
  BY <1>5 DEF Filled
<1>8. num = [a \in {1, 2} |-> IF a = 1 THEN number ELSE [c \in Cells |-> 0]]
  BY <1>1, <1>3
<1>9. /\ build \in Builds /\ main = "frames" /\ frame = 0 /\ cells = 1 /\ last = [c \in Cells |-> Null]
      /\ at = [t \in Threads |-> <<9, "out">>] /\ src = [t \in Threads |-> NoSource]
      /\ dst = [t \in Threads |-> NoTarget] /\ mutex = [c \in Cells |-> NoThread]
  BY DEF Init
<1>10. \A t \in Threads : at[t] = <<9, "out">> /\ at[t] # <<1, "in">> /\ src[t] = NoSource /\ src[t].cell = -1
  BY <1>9 DEF NoSource
<1>11. ASSUME NEW p \in Particles PROVE where[p] \in Domain /\ where[p] \in Int \X Int \X Int
  <2>1. where[p] \in Domain
    BY <1>1, <1>2, <1>4
  <2>2. Domain \subseteq Int \X Int \X Int
    BY Sizes DEF Domain
  <2>3. QED BY <2>1, <2>2
<1>12. TypeOK
  <2>1. build \in {"mutex", "kernels"} /\ main \in {"frames", "clean", "end"} /\ frame \in Nat /\ cells \in {1, 2}
    BY <1>9, FluidAssumption
  <2>2. num \in [{1, 2} -> [Cells -> Nat]]
    BY <1>6, <1>8
  <2>3. last \in [Cells -> Structs] /\ mutex \in [Cells -> Threads \cup {NoThread}]
    BY <1>9, StructKinds
  <2>4. Particles \subseteq Int /\ IsFiniteSet(Particles)
    BY <1>4, FS_Interval
  <2>5. where \in [Particles -> Int \X Int \X Int]
    <3>1. where = [p \in Particles |-> where[p]]
      BY <1>1, <1>2, <1>4
    <3>2. QED BY <1>11, <3>1
  <2>6. at \in [Threads -> Labelings]
    BY <1>9 DEF Labelings
  <2>7. src \in [Threads -> [cell : Cells \cup {-1}, struct : Structs, j : Nat]]
    BY <1>9, StructKinds DEF NoSource
  <2>8. dst \in [Threads -> [cell : Cells \cup {-1}, struct : Structs, np : Nat]]
    BY <1>9, StructKinds DEF NoTarget
  <2>9. QED BY ONLY <1>6, <2>1, <2>2, <2>3, <2>4, <2>5, <2>6, <2>7, <2>8 DEF TypeOK
<1>13. InStep
  BY <1>9, <1>10 DEF InStep
<1>14. Reading
  BY <1>10 DEF Reading, Inner
<1>15. SavedAll
  BY <1>9 DEF SavedAll
<1>16. ASSUME NEW l \in Heads PROVE ~IsSource(l) /\ OwnerOf(l[2]) \in Threads /\ l[2] \in Cells /\ l[1] \in {1, 2}
  <2>1. l[2] \in Cells /\ l[1] \in {1, 2}
    BY DEF Heads
  <2>2. OwnerOf(l[2]) \in Threads
    BY <2>1, Owners
  <2>3. src[OwnerOf(l[2])].cell = -1
    BY <1>10, <2>2
  <2>4. l[2] # -1
    BY <2>1 DEF Cells
  <2>5. QED BY <2>1, <2>2, <2>3, <2>4 DEF IsSource
<1>17. LiveHeads = FirstHeads
  <2>1. ASSUME NEW l \in Heads PROVE l \in LiveHeads <=> l[1] = 1
    <3>1. PICK t \in Threads : t = OwnerOf(l[2])
      BY <1>16
    <3>2. Unread(t) = {}
      BY <1>10 DEF Unread
    <3>3. at[t] # <<1, "in">> /\ cells = 1 /\ ~IsSource(l)
      BY <1>9, <1>10, <1>16
    <3>4. QED BY <3>1, <3>2, <3>3 DEF LiveHeads
  <2>2. \A l \in Heads : l \in FirstHeads <=> l[1] = 1
    BY DEF FirstHeads, Heads
  <2>3. LiveHeads \subseteq Heads /\ FirstHeads \subseteq Heads
    BY DEF LiveHeads, FirstHeads, Heads
  <2>4. QED BY <2>1, <2>2, <2>3
<1>18. Entry = FirstEntry /\ First = Zeros
  BY <1>16 DEF Entry, First, FirstEntry, Zeros
<1>19. Rest = Zeros
  BY <1>16, <1>18 DEF Rest, Zeros
<1>20. Size = SizeOf(number)
  <2>1. ASSUME NEW l \in Heads PROVE num[l[1]][l[2]] = IF l[1] = 1 THEN number[l[2]] ELSE 0
    BY <1>8, <1>16
  <2>2. QED BY <2>1 DEF Size, SizeOf
<1>21. Reserved = {}
  BY <1>10 DEF Reserved
<1>22. Labelled(own, idx)
  <2>1. Used = UsedOf(heap)
    BY DEF Used, UsedOf
  <2>2. QED BY <1>7, <1>17, <1>18, <1>20, <2>1 DEF Filling, Labelled, AllLabelled
<1>23. Stored(own, idx, loc)
  <2>1. Placed(slots, Places(own, idx, Zeros, SizeOf(number)), loc, 1 .. n)
    BY <1>7 DEF Filling
  <2>2. QED BY <1>4, <1>19, <1>20, <1>21, <2>1 DEF Stored
<1>24. Located(own, loc)
  <2>1. ASSUME NEW p \in Particles PROVE Position(p, own[loc[p][1]])
    <3>1. PICK c \in Cells : c = CellAt(where[p]) /\ Near(where[p], c)
      BY <1>11, CellAtInside
    <3>2. own[loc[p][1]] = <<1, c>>
      BY <1>1, <1>4, <1>7, <3>1 DEF Filling
    <3>3. PICK t \in Threads : t = OwnerOf(c)
      BY Owners
    <3>4. at[t] = <<9, "out">>
      BY <1>10
    <3>5. Position(p, <<1, c>>)
      BY <1>9, <1>11, <3>1, <3>3, <3>4 DEF Position
    <3>6. QED BY <3>2, <3>5
  <2>2. QED BY <2>1 DEF Located
<1>25. Adding(own, idx)
  <2>1. \A c \in Cells : at[OwnerOf(c)] = <<9, "out">>
    BY <1>10, Owners
  <2>2. QED BY <1>10, <2>1 DEF Adding
<1>26. Working
  BY <1>22, <1>23, <1>24, <1>25 DEF Working
<1>27. QED BY <1>9, <1>12, <1>13, <1>14, <1>15, <1>26 DEF IInv

-----------------------------------------------------------------------------
(* Steps that leave the lists alone.                                        *)

\* What the invariant does not speak of may change.
LEMMA OtherVariables ==
  ASSUME IInv, UNCHANGED <<build, main, frame, cells, sim_vars, where, at, lane_vars, file>>
  PROVE  IInv'
<1> USE DEF sim_vars, lane_vars
<1>1. TypeOK'
  BY DEF IInv, TypeOK, Particles
<1>2. InStep' /\ Reading'
  BY DEF IInv, InStep, AllAt, Reading, Left, Particle, cells2
<1>3. Working => Working'
  <2>1. SUFFICES ASSUME Working PROVE Working'
    OBVIOUS
  <2>2. PICK own, idx, loc : Labelled(own, idx) /\ Stored(own, idx, loc) /\ Located(own, loc) /\ Adding(own, idx)
    BY <2>1 DEF Working
  <2>3. LiveHeads' = LiveHeads /\ Entry' = Entry /\ First' = First /\ Rest' = Rest /\ Size' = Size /\ Reserved' = Reserved
    BY DEF LiveHeads, Entry, First, Rest, Size, Reserved, IsSource, Unread
  <2>4. Labelled(own, idx)'
    BY <2>2, <2>3 DEF Labelled, Used
  <2>5. Stored(own, idx, loc)'
    BY <2>2, <2>3 DEF Stored, Particles
  <2>6. Located(own, loc)' /\ Adding(own, idx)'
    BY <2>2 DEF Located, Position, Particles, Adding
  <2>7. QED BY <2>4, <2>5, <2>6 DEF Working
<1>4. Ended => Ended'
  BY DEF Ended, Used
<1>5. SavedAll'
  BY DEF IInv, SavedAll, Particles
<1>6. QED BY <1>1, <1>2, <1>3, <1>4, <1>5 DEF IInv

LEMMA CalmLists ==
  ASSUME UNCHANGED <<build, cells, sim_vars, lane_vars>>, \A t \in Threads : at'[t] = at[t] \/ Calm(at[t], at'[t]),
         Particles' = Particles, NEW own, NEW idx, NEW loc,
         Labelled(own, idx), Stored(own, idx, loc), Adding(own, idx)
  PROVE  Labelled(own, idx)' /\ Stored(own, idx, loc)' /\ Adding(own, idx)'
<1> USE DEF sim_vars, lane_vars
<1>1. ASSUME NEW l \in Heads PROVE (l \in LiveHeads)' <=> l \in LiveHeads
  <2>1. PICK t \in Threads : t = OwnerOf(l[2])
    BY Owners DEF Heads
  <2>2. Unread(t)' = Unread(t)
    BY DEF Unread, Calm
  <2>3. (at'[t] # <<1, "in">>) <=> (at[t] # <<1, "in">>)
    BY DEF Calm
  <2>4. IsSource(l)' <=> IsSource(l)
    BY DEF IsSource
  <2>5. QED BY <2>1, <2>2, <2>3, <2>4 DEF LiveHeads
<1>2. LiveHeads' = LiveHeads
  <2>1. LiveHeads \subseteq Heads /\ LiveHeads' \subseteq Heads
    BY DEF LiveHeads
  <2>2. QED BY <1>1, <2>1
<1>3. Entry' = Entry /\ First' = First /\ Size' = Size
  BY DEF Entry, First, Size, IsSource
<1>4. \A t \in Threads : \A x \in Inner : at'[t] = x <=> at[t] = x
  BY DEF Calm
<1>5. Rest' = Rest
  <2>1. ASSUME NEW l \in Heads PROVE (at[OwnerOf(l[2])] = <<2, "w2">>)' <=> at[OwnerOf(l[2])] = <<2, "w2">>
    <3>1. PICK t \in Threads : t = OwnerOf(l[2])
      BY Owners DEF Heads
    <3>2. QED BY <1>4, <3>1 DEF Inner
  <2>2. \A l \in Heads : IsSource(l)' <=> IsSource(l)
    BY DEF IsSource
  <2>3. QED BY <1>3, <2>1, <2>2 DEF Rest
<1>6. Reserved' = Reserved
  <2>1. {u \in Threads : at[u] = <<2, "copy">>}' = {u \in Threads : at[u] = <<2, "copy">>}
    BY <1>4 DEF Inner
  <2>2. QED BY <2>1 DEF Reserved
<1>7. Labelled(own, idx)'
  BY <1>2, <1>3 DEF Labelled, Used
<1>8. Stored(own, idx, loc)'
  BY <1>3, <1>5, <1>6 DEF Stored
<1>9. Adding(own, idx)'
  <2>1. ASSUME NEW c \in Cells, at'[OwnerOf(c)] = <<1, "out">> \/ at'[OwnerOf(c)][1] = 2
        PROVE  own[last[c]] = <<cells, c>> /\ heap.next[last[c]] = Null
    <3>1. PICK t \in Threads : t = OwnerOf(c)
      BY Owners
    <3>2. at[t] = <<1, "out">> \/ at[t][1] = 2
      BY <2>1, <3>1 DEF Calm
    <3>3. QED BY <3>1, <3>2 DEF Adding
  <2>2. \A t \in Threads : (at'[t] = <<2, "add">> <=> at[t] = <<2, "add">>) /\ (at'[t] = <<2, "copy">> <=> at[t] = <<2, "copy">>)
    BY <1>4 DEF Inner
  <2>3. QED BY <2>1, <2>2 DEF Adding
<1>10. QED BY <1>7, <1>8, <1>9

\* Two threads of the same frame are in the same stage.
LEMMA StageOf ==
  ASSUME IInv, NEW t \in Threads, at[t] # <<9, "out">>
  PROVE  main = "frames" /\ Working /\ \A u \in Threads : at[u] \in Labelings /\ at[u][1] = at[t][1]
BY DEF IInv, InStep, AllAt, TypeOK

\* Position does not depend on the stage, but for the particles' moves.
LEMMA SamePosition ==
  ASSUME UNCHANGED <<cells, where>>, NEW l \in Heads, NEW p, Position(p, l),
         LET a == at[OwnerOf(l[2])]
         IN  /\ a' \notin {<<8, "out">>, <<9, "in">>} => a \notin {<<8, "out">>, <<9, "in">>}
             /\ a'[1] \in 2 .. 7 \/ a' \in {<<1, "out">>, <<8, "in">>} =>
                  a[1] \in 2 .. 7 \/ a \in {<<1, "out">>, <<8, "in">>}
  PROVE  Position(p, l)'
BY DEF Position

\* A particle is in the list of a cell.
LEMMA InACell ==
  ASSUME NEW own, NEW idx, NEW loc, Stored(own, idx, loc), NEW p \in Particles
  PROVE  own[loc[p][1]] \in Heads /\ loc[p] \in Slots
BY DEF Stored, Placed, Places, Slots

LEMMA PassStep ==
  ASSUME IInv, NEW t \in Threads, NEW s \in 3 .. 9, Pass(t, s),
         UNCHANGED <<build, main, frame, cells, sim_vars, lane_vars, file>>,
         where' \in [Particles -> Int \X Int \X Int],
         \A own, idx, loc : Labelled(own, idx) /\ Stored(own, idx, loc) /\ Located(own, loc) => Located(own, loc)'
  PROVE  IInv'
<1>1. at[t] = <<s, "in">> /\ at' = [at EXCEPT ![t] = <<s, "out">>]
  BY DEF Pass
<1>2. at[t] # <<9, "out">> /\ at \in [Threads -> Labelings]
  BY <1>1 DEF IInv, TypeOK
<1>3. main = "frames" /\ Working /\ \A u \in Threads : at[u] \in Labelings /\ at[u][1] = s
  BY <1>1, <1>2, StageOf
<1>4. \A x \in Inner : x[1] = 2
  BY DEF Inner
<1>5. at'[t] = <<s, "out">> /\ \A u \in Threads : u # t => at'[u] = at[u]
  BY <1>1, <1>2
<1>6. ASSUME NEW u \in Threads
      PROVE  at[u] \notin Inner /\ at'[u] \notin Inner /\ src[u] = NoSource /\ at'[u][1] = s
  BY <1>3, <1>4, <1>5 DEF IInv, Reading
<1>7. Particles' = Particles
  BY DEF Particles
<1>8. TypeOK'
  <2>1. <<s, "out">> \in Labelings
    BY DEF Labelings
  <2>2. at' \in [Threads -> Labelings]
    BY <1>1, <1>2, <2>1
  <2>3. QED BY <1>7, <2>2 DEF IInv, TypeOK, sim_vars, lane_vars
<1>9. InStep'
  BY <1>3, <1>6 DEF InStep
<1>10. Reading'
  <2>1. src' = src
    BY DEF lane_vars
  <2>2. QED BY <1>6, <2>1 DEF Reading, Inner
<1>11. \A u \in Threads : at'[u] = at[u] \/ Calm(at[u], at'[u])
  <2>1. Calm(at[t], at'[t])
    BY <1>1, <1>5, <1>6 DEF Calm
  <2>2. QED BY <1>5, <2>1
<1>12. Working'
  <2>1. PICK own, idx, loc : Labelled(own, idx) /\ Stored(own, idx, loc) /\ Located(own, loc) /\ Adding(own, idx)
    BY <1>3 DEF Working
  <2>2. Labelled(own, idx)' /\ Stored(own, idx, loc)' /\ Adding(own, idx)'
    BY <1>7, <1>11, <2>1, CalmLists
  <2>3. Located(own, loc)'
    BY <2>1
  <2>4. QED BY <2>2, <2>3 DEF Working
<1>13. SavedAll'
  BY <1>3 DEF SavedAll
<1>14. QED BY <1>3, <1>8, <1>9, <1>10, <1>12, <1>13 DEF IInv

LEMMA KernelStages ==
  ASSUME IInv, NEW t \in Threads,
         \/ InitDensitiesAndForces(t) \/ ComputeDensities(t) \/ ComputeDensities2(t)
         \/ ComputeForces(t) \/ ProcessCollisions(t)
  PROVE  IInv'
<1>1. PICK s \in 3 .. 7 : Pass(t, s)
  BY DEF InitDensitiesAndForces, ComputeDensities, ComputeDensities2, ComputeForces, ProcessCollisions
<1>2. UNCHANGED <<build, main, frame, cells, sim_vars, where, lane_vars, file>>
  BY DEF InitDensitiesAndForces, ComputeDensities, ComputeDensities2, ComputeForces, ProcessCollisions
<1>3. s \in 3 .. 9 /\ where' \in [Particles -> Int \X Int \X Int]
  BY <1>2 DEF IInv, TypeOK
<1>4. ASSUME NEW u \in Threads PROVE at'[u] = at[u] \/ (u = t /\ at[u] = <<s, "in">> /\ at'[u] = <<s, "out">>)
  BY <1>1 DEF Pass, IInv, TypeOK
<1>5. ASSUME NEW own, NEW idx, NEW loc, Labelled(own, idx) /\ Stored(own, idx, loc) /\ Located(own, loc)
      PROVE  Located(own, loc)'
  <2>1. ASSUME NEW p \in Particles PROVE Position(p, own[loc[p][1]])'
    <3>1. PICK l \in Heads : l = own[loc[p][1]]
      BY <1>5, InACell
    <3>2. PICK u \in Threads : u = OwnerOf(l[2])
      BY Owners DEF Heads
    <3>3. Position(p, l)
      BY <1>5, <3>1 DEF Located
    <3>4. /\ at'[u] \notin {<<8, "out">>, <<9, "in">>} => at[u] \notin {<<8, "out">>, <<9, "in">>}
          /\ at'[u][1] \in 2 .. 7 \/ at'[u] \in {<<1, "out">>, <<8, "in">>} =>
               at[u][1] \in 2 .. 7 \/ at[u] \in {<<1, "out">>, <<8, "in">>}
      BY <1>4
    <3>5. QED BY <1>2, <3>1, <3>2, <3>3, <3>4, SamePosition
  <2>2. Particles' = Particles
    BY <1>2 DEF Particles
  <2>3. QED BY <2>1, <2>2 DEF Located
<1>6. QED BY <1>1, <1>2, <1>3, <1>5, PassStep

\* An accumulator has heard of all threads.
LEMMA Accumulated ==
  ASSUME IInv, NEW s \in 1 .. 8, AllAt(s), at' = [t \in Threads |-> <<s + 1, "in">>],
         UNCHANGED <<build, main, frame, cells, sim_vars, where, lane_vars, file>>
  PROVE  IInv'
<1>1. \A u \in Threads : at[u] = <<s, "out">> /\ at'[u] = <<s + 1, "in">>
  BY DEF AllAt
<1>2. main = "frames" /\ Working
  <2>1. 0 \in Threads
    BY Sizes DEF Threads
  <2>2. at[0] # <<9, "out">>
    BY <1>1, <2>1
  <2>3. QED BY <2>1, <2>2, StageOf
<1>3. \A u \in Threads : at[u] \notin Inner /\ at'[u] \notin Inner /\ src[u] = NoSource
  BY <1>1 DEF IInv, Reading, Inner
<1>4. Particles' = Particles
  BY DEF Particles
<1>5. TypeOK'
  <2>1. <<s + 1, "in">> \in Labelings
    BY DEF Labelings
  <2>2. at' \in [Threads -> Labelings]
    BY <2>1
  <2>3. QED BY <1>4, <2>2 DEF IInv, TypeOK, sim_vars, lane_vars
<1>6. InStep'
  BY <1>1, <1>2 DEF InStep
<1>7. Reading'
  <2>1. src' = src
    BY DEF lane_vars
  <2>2. QED BY <1>1, <1>3, <2>1 DEF Reading, Inner
<1>8. \A u \in Threads : at'[u] = at[u] \/ Calm(at[u], at'[u])
  BY <1>1, <1>3 DEF Calm
<1>9. Working'
  <2>1. PICK own, idx, loc : Labelled(own, idx) /\ Stored(own, idx, loc) /\ Located(own, loc) /\ Adding(own, idx)
    BY <1>2 DEF Working
  <2>2. Labelled(own, idx)' /\ Stored(own, idx, loc)' /\ Adding(own, idx)'
    BY <1>4, <1>8, <2>1, CalmLists
  <2>3. ASSUME NEW p \in Particles PROVE Position(p, own[loc[p][1]])'
    <3>1. PICK l \in Heads : l = own[loc[p][1]]
      BY <2>1, InACell
    <3>2. PICK u \in Threads : u = OwnerOf(l[2])
      BY Owners DEF Heads
    <3>3. Position(p, l)
      BY <2>1, <3>1 DEF Located
    <3>4. /\ at'[u] \notin {<<8, "out">>, <<9, "in">>} => at[u] \notin {<<8, "out">>, <<9, "in">>}
          /\ at'[u][1] \in 2 .. 7 \/ at'[u] \in {<<1, "out">>, <<8, "in">>} =>
               at[u][1] \in 2 .. 7 \/ at[u] \in {<<1, "out">>, <<8, "in">>}
      BY <1>1
    <3>5. QED BY <3>1, <3>2, <3>3, <3>4, SamePosition
  <2>4. Located(own, loc)'
    BY <1>4, <2>3 DEF Located
  <2>5. QED BY <2>2, <2>4 DEF Working
<1>10. SavedAll'
  BY <1>2 DEF SavedAll
<1>11. QED BY <1>2, <1>5, <1>6, <1>7, <1>9, <1>10 DEF IInv

-----------------------------------------------------------------------------
(* Between two rebuilds: the lists are the cells', from the heads on.       *)

LEMMA BetweenRebuilds ==
  ASSUME IInv, \A t \in Threads : at[t][1] \in 3 .. 9
  PROVE  /\ LiveHeads = {cells} \X Cells /\ Reserved = {}
         /\ Entry = FirstEntry /\ First = Zeros /\ Rest = Zeros
<1>1. \A t \in Threads : at[t] \notin Inner /\ at[t] \notin {<<1, "in">>, <<1, "out">>, <<2, "in">>}
  BY DEF Inner
<1>2. \A t \in Threads : src[t] = NoSource /\ src[t].cell = -1
  BY <1>1 DEF IInv, Reading, NoSource
<1>3. ASSUME NEW l \in Heads PROVE ~IsSource(l) /\ OwnerOf(l[2]) \in Threads /\ (l \in LiveHeads <=> l[1] = cells)
  <2>1. l[2] \in Cells
    BY DEF Heads
  <2>2. PICK t \in Threads : t = OwnerOf(l[2])
    BY <2>1, Owners
  <2>3. ~IsSource(l)
    BY <1>2, <2>1, <2>2 DEF IsSource, Cells
  <2>4. Unread(t) = {}
    BY <1>1, <1>2 DEF Unread
  <2>5. QED BY <1>1, <2>2, <2>3, <2>4 DEF LiveHeads
<1>4. LiveHeads = {cells} \X Cells
  <2>1. cells \in {1, 2}
    BY DEF IInv, TypeOK
  <2>2. LiveHeads \subseteq Heads /\ {cells} \X Cells \subseteq Heads
    BY <2>1 DEF LiveHeads, Heads
  <2>3. \A l \in Heads : l[1] = cells <=> l \in {cells} \X Cells
    BY DEF Heads
  <2>4. QED BY <1>3, <2>2, <2>3
<1>5. Reserved = {}
  BY <1>1 DEF Reserved, Inner
<1>6. Entry = FirstEntry /\ First = Zeros
  BY <1>3 DEF Entry, First, FirstEntry, Zeros
<1>7. Rest = Zeros
  BY <1>3, <1>6 DEF Rest, Zeros
<1>8. QED BY <1>4, <1>5, <1>6, <1>7

\* A particle of a cell's content is located there.
LEMMA ContentPlace ==
  ASSUME IInv, \A t \in Threads : at[t][1] \in 3 .. 9,
         NEW own, NEW idx, NEW loc, Labelled(own, idx), Stored(own, idx, loc),
         NEW c \in Cells, NEW j \in 1 .. num[cells][c]
  PROVE  LET p == Content(cells, c)[j]
             r == StructOf(cells, c, j - 1)
         IN  /\ p \in Particles /\ loc[p] = <<r, (j - 1) % PPC>>
             /\ r \in Structs /\ own[r] = <<cells, c>> /\ idx[r] = (j - 1) \div PPC
<1>1. cells \in {1, 2} /\ num[cells][c] \in Nat /\ HeapOK(heap) /\ Size \in [Heads -> Nat]
  BY DEF IInv, TypeOK, Size, Heads
<1>2. PICK l \in Heads : l = <<cells, c>>
  BY <1>1 DEF Heads
<1>3. /\ LiveHeads = {cells} \X Cells /\ Reserved = {}
      /\ Entry = FirstEntry /\ First = Zeros /\ Rest = Zeros
  BY BetweenRebuilds
<1>4. l \in LiveHeads /\ Entry[l] = l /\ Size[l] = num[cells][c] /\ Rest[l] = 0 /\ LiveHeads \subseteq Heads
  BY <1>2, <1>3 DEF FirstEntry, Zeros, Size, LiveHeads
<1>5. PICK n \in Nat : n = j - 1 /\ n < Size[l]
  BY <1>1, <1>4
<1>6. Chained(heap, own, idx) /\ Listed(heap, own, idx, LiveHeads, Entry, First, Size)
  BY DEF Labelled
<1>7. PICK r : r = StructOf(cells, c, n)
  OBVIOUS
<1>8. r \in Structs /\ own[r] = l /\ idx[r] = n \div PPC
  <2>1. LET q == Along(heap, l, n \div PPC) IN q \in Structs /\ own[q] = l /\ idx[q] = n \div PPC
    BY ONLY <1>1, <1>4, <1>5, <1>6, StructAt
  <2>2. r = Along(heap, l, n \div PPC)
    BY <1>2, <1>7 DEF StructOf
  <2>3. QED BY <2>1, <2>2
<1>9. PICK k \in 0 .. PPC - 1 : k = n % PPC /\ n = Base(n \div PPC) + k
  BY PlaceOf
<1>10. PICK v : v = <<r, k>>
  OBVIOUS
<1>11. v \in Places(own, idx, Rest, Size)
  <2>1. Base(idx[r]) + k \in Rest[l] .. Size[l] - 1
    BY <1>1, <1>4, <1>5, <1>8, <1>9
  <2>2. QED BY <1>8, <1>10, <2>1 DEF Places
<1>12. slots[v[1]][v[2]] \in Particles /\ loc[slots[v[1]][v[2]]] = v
  BY <1>3, <1>11 DEF Stored, Placed
<1>13. Content(cells, c)[j] = slots[r][k]
  BY <1>5, <1>7, <1>9 DEF Content
<1>14. QED BY <1>2, <1>5, <1>7, <1>8, <1>9, <1>10, <1>12, <1>13

\* A located particle is in the content of its cell.
LEMMA PlaceContent ==
  ASSUME IInv, \A t \in Threads : at[t][1] \in 3 .. 9,
         NEW own, NEW idx, NEW loc, Labelled(own, idx), Stored(own, idx, loc), NEW p \in Particles
  PROVE  \E c \in Cells : own[loc[p][1]] = <<cells, c>> /\ \E j \in 1 .. num[cells][c] : Content(cells, c)[j] = p
<1>1. cells \in {1, 2} /\ HeapOK(heap) /\ Size \in [Heads -> Nat]
  BY DEF IInv, TypeOK, Size, Heads
<1>2. /\ LiveHeads = {cells} \X Cells /\ Reserved = {}
      /\ Entry = FirstEntry /\ First = Zeros /\ Rest = Zeros
  BY BetweenRebuilds
<1>3. Chained(heap, own, idx) /\ Listed(heap, own, idx, LiveHeads, Entry, First, Size)
  BY DEF Labelled
<1>4. loc[p] \in Places(own, idx, Rest, Size) /\ slots[loc[p][1]][loc[p][2]] = p
  BY <1>2 DEF Stored, Placed
<1>5. PICK r \in Structs, k \in 0 .. PPC - 1 : loc[p] = <<r, k>> /\ own[r] \in Heads
                                             /\ Base(idx[r]) + k \in Rest[own[r]] .. Size[own[r]] - 1
  BY <1>4 DEF Places
<1>6. own[r] \in LiveHeads
  BY <1>3, <1>5 DEF Listed
<1>7. PICK c \in Cells : own[r] = <<cells, c>>
  BY <1>2, <1>6
<1>8. PICK n \in Nat : n = Base(idx[r]) + k /\ n < num[cells][c]
  <2>1. Rest[own[r]] = 0 /\ Size[own[r]] = num[cells][c] /\ num[cells][c] \in Nat
    BY <1>1, <1>2, <1>5, <1>7 DEF Zeros, Size
  <2>2. QED BY <1>5, <2>1
<1>9. num[cells][c] \in Nat
  BY <1>1 DEF IInv, TypeOK
<1>10. PICK j \in 1 .. num[cells][c] : j = n + 1 /\ j - 1 = n
  BY <1>8, <1>9
<1>11. PICK q : q = StructOf(cells, c, n)
  OBVIOUS
<1>12. q \in Structs /\ own[q] = <<cells, c>> /\ idx[q] = n \div PPC
  BY <1>10, <1>11, ContentPlace
<1>13. Strung(heap.next, heap.used, own, idx)
  BY <1>3 DEF Chained
<1>14. idx[r] \in Nat
  BY <1>5, <1>13, PlacesCountUp
<1>15. PICK d \in 0 .. PPC - 1 : d = n % PPC /\ n = Base(n \div PPC) + d /\ n \div PPC \in Nat
  BY PlaceOf
<1>16. n \div PPC = idx[r] /\ d = k
  <2>1. Base(n \div PPC) + d = Base(idx[r]) + k
    BY <1>8, <1>15
  <2>2. QED BY <1>14, <1>15, <2>1, PlaceUnique
<1>17. q = r
  <2>1. own[r] # Null /\ own[q] = own[r] /\ idx[q] = idx[r]
    BY <1>5, <1>7, <1>12, <1>16, StructKinds
  <2>2. QED BY <1>12, <1>13, <2>1 DEF Strung
<1>18. Content(cells, c)[j] = slots[q][d]
  BY <1>10, <1>11, <1>15 DEF Content
<1>19. QED BY <1>4, <1>5, <1>7, <1>10, <1>16, <1>17, <1>18

\* The particles of a thread are those located in the cells of its grid.
LEMMA ParticlesOfGrid ==
  ASSUME IInv, \A t \in Threads : at[t][1] \in 3 .. 9,
         NEW own, NEW idx, NEW loc, Labelled(own, idx), Stored(own, idx, loc),
         NEW t \in Threads, NEW p \in Particles
  PROVE  /\ CellOf(p) \in Cells /\ own[loc[p][1]] = <<cells, CellOf(p)>>
         /\ p \in ParticlesOf(t) <=> OwnerOf(CellOf(p)) = t
<1> DEFINE Has(c) == \E j \in 1 .. num[cells][c] : Content(cells, c)[j] = p
<1>1. PICK c \in Cells : own[loc[p][1]] = <<cells, c>> /\ Has(c)
  BY PlaceContent
<1>2. ASSUME NEW d \in Cells, Has(d) PROVE d = c
  <2>1. PICK j \in 1 .. num[cells][d] : Content(cells, d)[j] = p
    BY <1>2
  <2>2. LET q == Content(cells, d)[j]
            r == StructOf(cells, d, j - 1)
        IN  loc[q] = <<r, (j - 1) % PPC>> /\ own[r] = <<cells, d>>
    BY ContentPlace
  <2>3. own[loc[p][1]] = <<cells, d>>
    BY <2>1, <2>2
  <2>4. <<cells, d>> = <<cells, c>>
    BY <1>1, <2>3
  <2>5. QED BY <2>4
<1>3. CellOf(p) = c
  <2>1. CellOf(p) = CHOOSE d \in Cells : Has(d)
    BY DEF CellOf
  <2> HIDE DEF Has
  <2>2. QED BY <1>1, <1>2, <2>1
<1>4. p \in ParticlesOf(t) <=> \E d \in Grid(t) : Has(d)
  BY DEF ParticlesOf
<1> HIDE DEF Has
<1>5. Grid(t) = {d \in Cells : OwnerOf(d) = t}
  BY Grids
<1>6. QED BY <1>1, <1>2, <1>3, <1>4, <1>5

LEMMA AdvanceParticlesStep ==
  ASSUME IInv, NEW t \in Threads, AdvanceParticles(t)
  PROVE  IInv'
<1>1. Pass(t, 8) /\ at[t] = <<8, "in">> /\ UNCHANGED <<build, main, frame, cells, sim_vars, lane_vars, file>>
  BY DEF AdvanceParticles, Pass
<1>2. PICK move \in [ParticlesOf(t) -> Moves] :
        where' = [p \in Particles |-> IF p \in ParticlesOf(t) THEN Plus(where[p], move[p]) ELSE where[p]]
  BY DEF AdvanceParticles
<1>3. \A u \in Threads : at[u][1] = 8
  <2>1. at[t] # <<9, "out">>
    BY <1>1
  <2>2. QED BY <1>1, <2>1, StageOf
<1>4. at'[t] = <<8, "out">> /\ \A u \in Threads : u # t => at'[u] = at[u]
  BY <1>1 DEF Pass, IInv, TypeOK
<1>5. where \in [Particles -> Int \X Int \X Int]
  BY DEF IInv, TypeOK
<1>6. ASSUME NEW p \in Particles, p \in ParticlesOf(t)
      PROVE  \E i \in -1 .. 1, j \in -1 .. 1, k \in -1 .. 1 :
               where'[p] = <<where[p][1] + i, where[p][2] + j, where[p][3] + k>>
  <2>1. move[p] \in (-1 .. 1) \X (-1 .. 1) \X (-1 .. 1)
    BY <1>6, FluidAssumption
  <2>2. where'[p] = Plus(where[p], move[p])
    BY <1>2, <1>6
  <2>3. PICK i \in -1 .. 1, j \in -1 .. 1, k \in -1 .. 1 : move[p] = <<i, j, k>>
    BY <2>1
  <2>4. where'[p] = <<where[p][1] + i, where[p][2] + j, where[p][3] + k>>
    BY <2>2, <2>3 DEF Plus
  <2>5. QED BY <2>4
<1>7. where' \in [Particles -> Int \X Int \X Int]
  <2>1. ASSUME NEW p \in Particles PROVE where'[p] \in Int \X Int \X Int
    <3>1. CASE p \in ParticlesOf(t)
      <4>1. PICK i \in -1 .. 1, j \in -1 .. 1, k \in -1 .. 1 :
               where'[p] = <<where[p][1] + i, where[p][2] + j, where[p][3] + k>>
        BY <1>6, <3>1
      <4>2. where[p][1] \in Int /\ where[p][2] \in Int /\ where[p][3] \in Int
        BY <1>5
      <4>3. QED BY <4>1, <4>2
    <3>2. CASE p \notin ParticlesOf(t)
      BY <1>2, <1>5, <3>2
    <3>3. QED BY <3>1, <3>2
  <2>2. where' = [p \in Particles |-> where'[p]]
    BY <1>2
  <2>3. QED BY <2>1, <2>2
<1>8. ASSUME NEW own, NEW idx, NEW loc, Labelled(own, idx) /\ Stored(own, idx, loc) /\ Located(own, loc)
      PROVE  Located(own, loc)'
  <2>1. ASSUME NEW p \in Particles PROVE Position(p, own[loc[p][1]])'
    <3>1. PICK c \in Cells : c = CellOf(p) /\ own[loc[p][1]] = <<cells, c>> /\ (p \in ParticlesOf(t) <=> OwnerOf(c) = t)
      BY <1>3, <1>8, ParticlesOfGrid
    <3>2. PICK u \in Threads : u = OwnerOf(c)
      BY Owners
    <3>3. Position(p, <<cells, c>>)
      BY <1>8, <3>1 DEF Located
    <3>4. CASE u # t
      <4>1. p \notin ParticlesOf(t) /\ at'[u] = at[u]
        BY <1>4, <3>1, <3>2, <3>4
      <4>2. where'[p] = where[p]
        BY <1>2, <4>1
      <4>3. cells' = cells
        BY <1>1
      <4>4. Position(p, <<cells, c>>)'
        BY <3>2, <3>3, <4>1, <4>2, <4>3 DEF Position
      <4>5. QED BY <3>1, <4>3, <4>4
    <3>5. CASE u = t
      <4>1. CellAt(where[p]) = c /\ where[p] \in Domain
        <5>1. at[OwnerOf(<<cells, c>>[2])] = <<8, "in">>
          BY <1>1, <3>2, <3>5
        <5>2. <<8, "in">> \notin {<<8, "out">>, <<9, "in">>} /\ <<cells, c>>[1] = cells /\ <<cells, c>>[2] = c
          OBVIOUS
        <5>3. QED BY <3>3, <5>1, <5>2 DEF Position
      <4>2. where[p] = <<X(c), Y(c), Z(c)>>
        BY <4>1, CellAtInside
      <4>3. PICK i \in -1 .. 1, j \in -1 .. 1, k \in -1 .. 1 :
               where'[p] = <<where[p][1] + i, where[p][2] + j, where[p][3] + k>>
        BY <1>6, <3>1, <3>2, <3>5
      <4>4. X(c) \in Int /\ Y(c) \in Int /\ Z(c) \in Int
        <5>1. where[p] \in Int \X Int \X Int
          BY <1>5
        <5>2. QED BY <4>2, <5>1
      <4>5. where'[p] = <<X(c) + i, Y(c) + j, Z(c) + k>>
        BY <4>2, <4>3
      <4>6. Near(where'[p], c)
        BY <4>4, <4>5 DEF Near
      <4>7. at'[OwnerOf(c)] = <<8, "out">> /\ cells' = cells
        BY <1>1, <1>4, <3>2, <3>5
      <4>8. Position(p, <<cells, c>>)'
        <5>1. /\ <<8, "out">> \in {<<8, "out">>, <<9, "in">>} /\ <<8, "out">> \notin {<<1, "out">>, <<8, "in">>}
              /\ <<8, "out">>[1] \notin 2 .. 7
          OBVIOUS
        <5>2. QED BY <4>6, <4>7, <5>1 DEF Position
      <4>9. QED BY <3>1, <4>7, <4>8
    <3>6. QED BY <3>4, <3>5
  <2>2. Particles' = Particles
    BY <1>2 DEF Particles
  <2>3. QED BY <2>1, <2>2 DEF Located
<1>9. 8 \in 3 .. 9
  OBVIOUS
<1>10. QED BY ONLY <1>1, <1>7, <1>8, <1>9, IInv, t \in Threads, PassStep

LEMMA ProcessCollisions2Step ==
  ASSUME IInv, NEW t \in Threads, ProcessCollisions2(t)
  PROVE  IInv'
<1>1. Pass(t, 9) /\ at[t] = <<9, "in">> /\ UNCHANGED <<build, main, frame, cells, sim_vars, lane_vars, file>>
  BY DEF ProcessCollisions2, Pass
<1> DEFINE Back(p, c) == <<Mirror(where[p][1], X(c), NX), Mirror(where[p][2], Y(c), NY), Mirror(where[p][3], Z(c), NZ)>>
<1>2. where' = [p \in Particles |-> IF p \in ParticlesOf(t) THEN Back(p, CellOf(p)) ELSE where[p]]
  BY DEF ProcessCollisions2
<1>3. \A u \in Threads : at[u][1] = 9
  <2>1. at[t] # <<9, "out">>
    BY <1>1
  <2>2. QED BY <1>1, <2>1, StageOf
<1>4. at'[t] = <<9, "out">> /\ \A u \in Threads : u # t => at'[u] = at[u]
  BY <1>1 DEF Pass, IInv, TypeOK
<1>5. where \in [Particles -> Int \X Int \X Int]
  BY DEF IInv, TypeOK
<1>6. ASSUME NEW c \in Cells, NEW p \in Particles, Near(where[p], c)
      PROVE  Back(p, c) \in Domain /\ Near(Back(p, c), c)
  <2>1. where[p] \in Int \X Int \X Int
    BY <1>5
  <2>2. QED BY <1>6, <2>1, Mirrored
<1> HIDE DEF Back
<1>7. PICK own0, idx0, loc0 : Labelled(own0, idx0) /\ Stored(own0, idx0, loc0) /\ Located(own0, loc0)
  <2>1. Working
    BY <1>1, StageOf
  <2>2. QED BY <2>1 DEF Working
<1>8. ASSUME NEW p \in Particles, p \in ParticlesOf(t)
      PROVE  /\ CellOf(p) \in Cells /\ Near(where[p], CellOf(p))
             /\ where'[p] = Back(p, CellOf(p)) /\ where'[p] \in Domain /\ Near(where'[p], CellOf(p))
  <2>1. CellOf(p) \in Cells /\ own0[loc0[p][1]] = <<cells, CellOf(p)>>
    BY <1>3, <1>7, ParticlesOfGrid
  <2>2. Near(where[p], CellOf(p))
    BY <1>7, <2>1 DEF Located, Position
  <2>3. QED BY <1>2, <1>6, <1>8, <2>1, <2>2
<1>9. where' \in [Particles -> Int \X Int \X Int]
  <2>1. ASSUME NEW p \in Particles PROVE where'[p] \in Int \X Int \X Int
    <3>1. Domain \subseteq Int \X Int \X Int
      BY Sizes DEF Domain
    <3>2. QED BY <1>2, <1>5, <1>8, <3>1
  <2>2. where' = [p \in Particles |-> where'[p]]
    BY <1>2
  <2>3. QED BY <2>1, <2>2
<1>10. ASSUME NEW own, NEW idx, NEW loc, Labelled(own, idx) /\ Stored(own, idx, loc) /\ Located(own, loc)
       PROVE  Located(own, loc)'
  <2>1. ASSUME NEW p \in Particles PROVE Position(p, own[loc[p][1]])'
    <3>1. PICK c \in Cells : c = CellOf(p) /\ own[loc[p][1]] = <<cells, c>> /\ (p \in ParticlesOf(t) <=> OwnerOf(c) = t)
      BY <1>3, <1>10, ParticlesOfGrid
    <3>2. PICK u \in Threads : u = OwnerOf(c)
      BY Owners
    <3>3. Position(p, <<cells, c>>) /\ cells' = cells
      BY <1>1, <1>10, <3>1 DEF Located
    <3>4. CASE u # t
      <4>1. p \notin ParticlesOf(t) /\ at'[u] = at[u]
        BY <1>4, <3>1, <3>2, <3>4
      <4>2. where'[p] = where[p]
        BY <1>2, <4>1
      <4>3. Position(p, <<cells, c>>)'
        BY <3>2, <3>3, <4>1, <4>2 DEF Position
      <4>4. QED BY <3>1, <3>3, <4>3
    <3>5. CASE u = t
      <4>1. where'[p] \in Domain /\ Near(where'[p], c)
        BY <1>8, <3>1, <3>2, <3>5
      <4>2. at'[OwnerOf(c)] = <<9, "out">>
        BY <1>4, <3>2, <3>5
      <4>3. Position(p, <<cells, c>>)'
        BY <4>1, <4>2 DEF Position
      <4>4. QED BY <3>1, <3>3, <4>3
    <3>6. QED BY <3>4, <3>5
  <2>2. Particles' = Particles
    BY <1>2 DEF Particles
  <2>3. QED BY <2>1, <2>2 DEF Located
<1>11. 9 \in 3 .. 9
  OBVIOUS
<1>12. QED BY ONLY <1>1, <1>9, <1>10, <1>11, IInv, t \in Threads, PassStep

LEMMA AccumulatorStep ==
  ASSUME IInv, Accumulator
  PROVE  IInv'
<1>1. PICK s \in 1 .. 8 : AllAt(s) /\ at' = [t \in Threads |-> <<s + 1, "in">>]
  BY DEF Accumulator, SimpleAccumulator, AdvancedAccumulator, Modified
<1>2. UNCHANGED <<build, main, frame, cells, sim_vars, where, lane_vars, file>>
  BY DEF Accumulator, SimpleAccumulator, AdvancedAccumulator, Modified
<1>3. QED BY <1>1, <1>2, Accumulated

LEMMA ModificationKernelStep ==
  ASSUME IInv, NEW s \in Modified, ModificationKernel(s)
  PROVE  IInv'
BY OtherVariables DEF ModificationKernel

-----------------------------------------------------------------------------
(* A new frame.                                                             *)

LEMMA AdvanceFrameStep ==
  ASSUME IInv, AdvanceFrameMT
  PROVE  IInv'
<1>1. /\ main = "frames" /\ frame' = frame + 1 /\ cells' = 3 - cells
      /\ \A t \in Threads : at[t] = <<9, "out">>
      /\ at' = [t \in Threads |-> <<1, "in">>]
      /\ build' = build /\ main' = main /\ num' = num /\ heap' = heap /\ slots' = slots /\ last' = last
      /\ where' = where /\ src' = src /\ dst' = dst /\ mutex' = mutex /\ file' = file
  BY DEF AdvanceFrameMT, AllAt, cells2, sim_vars, lane_vars
<1>2. TypeOK /\ Reading /\ Working /\ cells \in {1, 2} /\ cells' \in {1, 2} /\ cells' # cells
  BY <1>1 DEF IInv, TypeOK
<1>3. \A t \in Threads : at'[t] = <<1, "in">> /\ src[t] = NoSource /\ src'[t] = NoSource /\ src'[t].cell = -1
  BY <1>1, <1>2 DEF Reading, Inner, NoSource
<1>4. TypeOK'
  <2>1. at' \in [Threads -> Labelings]
    BY <1>1 DEF Labelings
  <2>2. frame' \in Nat
    BY <1>1, <1>2 DEF TypeOK
  <2>3. QED BY <1>1, <1>2, <2>1, <2>2 DEF TypeOK, Particles
<1>5. InStep' /\ Reading' /\ SavedAll'
  <2>1. InStep' /\ SavedAll'
    BY <1>1, <1>3 DEF InStep, SavedAll
  <2>2. Reading'
    BY <1>3 DEF Reading, Inner
  <2>3. QED BY <2>1, <2>2
<1>6. /\ LiveHeads = {cells} \X Cells /\ Reserved = {}
      /\ Entry = FirstEntry /\ First = Zeros /\ Rest = Zeros
  BY <1>1, BetweenRebuilds
<1>7. ASSUME NEW l \in Heads PROVE ~IsSource(l)' /\ ((l \in LiveHeads)' <=> l[1] = cells)
  <2>1. l[2] \in Cells /\ l[1] \in {1, 2}
    BY DEF Heads
  <2>2. PICK t \in Threads : t = OwnerOf(l[2])
    BY <2>1, Owners
  <2>3. ~IsSource(l)'
    BY <1>3, <2>1, <2>2 DEF IsSource, Cells
  <2>4. Unread(t)' = Grid(t)
    BY <1>3 DEF Unread
  <2>5. l[2] \in Grid(t)
    BY <2>1, <2>2, Grids
  <2>6. (l \in LiveHeads)' <=> IF l[1] = cells' THEN at'[t] # <<1, "in">> ELSE l[2] \in Grid(t)
    BY <2>2, <2>3, <2>4 DEF LiveHeads
  <2>7. QED BY <1>2, <1>3, <2>1, <2>3, <2>5, <2>6
<1>8. LiveHeads' = LiveHeads
  <2>1. LiveHeads' \subseteq Heads /\ {cells} \X Cells \subseteq Heads
    BY <1>2 DEF LiveHeads, Heads
  <2>2. \A l \in Heads : l[1] = cells <=> l \in {cells} \X Cells
    BY DEF Heads
  <2>3. QED BY <1>6, <1>7, <2>1, <2>2
<1>9. Entry' = FirstEntry /\ First' = Zeros
  BY <1>7 DEF Entry, First, FirstEntry, Zeros
<1>10. Rest' = Zeros
  BY <1>7, <1>9 DEF Rest, Zeros
<1>11. Reserved' = {} /\ Size' = Size
  BY <1>1, <1>3 DEF Reserved, Size
<1>12. PICK own, idx, loc : Labelled(own, idx) /\ Stored(own, idx, loc) /\ Located(own, loc) /\ Adding(own, idx)
  BY <1>2 DEF Working
<1>13. Labelled(own, idx)'
  BY <1>1, <1>6, <1>8, <1>9, <1>11, <1>12 DEF Labelled, Used
<1>14. Stored(own, idx, loc)'
  BY <1>1, <1>6, <1>10, <1>11, <1>12 DEF Stored, Particles
<1>15. Located(own, loc)'
  <2>1. ASSUME NEW p \in Particles PROVE Position(p, own[loc[p][1]])'
    <3>1. PICK l \in Heads : l = own[loc[p][1]] /\ l \in LiveHeads
      <4>1. loc[p] \in Places(own, idx, Rest, Size)
        BY <1>12 DEF Stored, Placed
      <4>2. own[loc[p][1]] \in Heads /\ loc[p][1] \in Structs
        BY <4>1 DEF Places
      <4>3. own[loc[p][1]] \in LiveHeads
        BY <1>12, <4>2 DEF Labelled, Listed
      <4>4. QED BY <4>2, <4>3
    <3>2. PICK t \in Threads : t = OwnerOf(l[2])
      BY Owners DEF Heads
    <3>3. Position(p, l)
      BY <1>12, <3>1 DEF Located
    <3>4. at[OwnerOf(l[2])] = <<9, "out">> /\ l[1] # cells'
      BY <1>1, <1>2, <1>6, <3>1, <3>2
    <3>5. Near(where[p], l[2]) /\ where[p] \in Domain
      <4>1. <<9, "out">> \notin {<<8, "out">>, <<9, "in">>}
        OBVIOUS
      <4>2. QED BY <3>3, <3>4, <4>1 DEF Position
    <3>6. Position(p, l)'
      BY <1>1, <3>4, <3>5 DEF Position
    <3>7. QED BY <3>1, <3>6
  <2>2. Particles' = Particles
    BY <1>1 DEF Particles
  <2>3. QED BY <2>1, <2>2 DEF Located
<1>16. Adding(own, idx)'
  <2>1. \A c \in Cells : at'[OwnerOf(c)] = <<1, "in">>
    BY <1>3, Owners
  <2>2. QED BY <1>3, <2>1 DEF Adding
<1>17. Working'
  BY <1>13, <1>14, <1>15, <1>16 DEF Working
<1>18. QED BY <1>1, <1>4, <1>5, <1>17 DEF IInv

LEMMA ClearParticlesStep ==
  ASSUME IInv, NEW t \in Threads, ClearParticles(t)
  PROVE  IInv'
<1> DEFINE set == {cells} \X Grid(t)
<1>1. /\ at[t] = <<1, "in">> /\ at' = [at EXCEPT ![t] = <<1, "out">>]
      /\ num' = [num EXCEPT ![cells] = [c \in Cells |-> IF Owns(t, c) THEN 0 ELSE num[cells][c]]]
      /\ heap' = [heap EXCEPT !.next = [s \in Structs |->
                    IF s[1] = cells /\ Owns(t, s[2]) THEN Null ELSE heap.next[s]]]
      /\ last' = [c \in Cells |-> IF Owns(t, c) THEN <<cells, c>> ELSE last[c]]
      /\ build' = build /\ main' = main /\ frame' = frame /\ cells' = cells /\ slots' = slots
      /\ where' = where /\ src' = src /\ dst' = dst /\ mutex' = mutex /\ file' = file
  BY DEF ClearParticles, Pass, lane_vars
<1>2. TypeOK /\ Reading /\ InStep /\ cells \in {1, 2} /\ HeapOK(heap) /\ num \in [{1, 2} -> [Cells -> Nat]]
  BY DEF IInv, TypeOK
<1>3. main = "frames" /\ Working /\ \A u \in Threads : at[u] \in Labelings /\ at[u][1] = 1
  <2>1. at[t] # <<9, "out">>
    BY <1>1
  <2>2. QED BY <1>1, <2>1, StageOf
<1>4. at'[t] = <<1, "out">> /\ \A u \in Threads : u # t => at'[u] = at[u]
  BY <1>1, <1>2 DEF TypeOK
<1>5. ASSUME NEW u \in Threads
      PROVE  /\ at[u] \in {<<1, "in">>, <<1, "out">>} /\ at'[u] \in {<<1, "in">>, <<1, "out">>}
             /\ src[u] = NoSource /\ src'[u] = NoSource /\ src[u].cell = -1 /\ src'[u].cell = -1
  <2>1. at[u] \in {<<1, "in">>, <<1, "out">>}
    <3>1. at[u] \in Labelings /\ at[u][1] = 1
      BY <1>3
    <3>2. QED BY <3>1 DEF Labelings, Inner
  <2>2. at'[u] \in {<<1, "in">>, <<1, "out">>}
    BY <1>4, <2>1
  <2>3. src[u] = NoSource
    BY <1>2, <2>1 DEF Reading, Inner
  <2>4. QED BY <1>1, <2>1, <2>2, <2>3 DEF NoSource
<1>6. Grid(t) = {c \in Cells : OwnerOf(c) = t} /\ \A c \in Cells : Owns(t, c) <=> c \in Grid(t)
  BY Grids DEF Grid
<1>7. set \subseteq Heads /\ \A s \in Heads : s \in set <=> s[1] = cells /\ OwnerOf(s[2]) = t
  BY <1>2, <1>6 DEF Heads
<1>8. num' \in [{1, 2} -> [Cells -> Nat]] /\ \A l \in Heads : num'[l[1]][l[2]] = IF l \in set THEN 0 ELSE num[l[1]][l[2]]
  <2>1. [c \in Cells |-> IF Owns(t, c) THEN 0 ELSE num[cells][c]] \in [Cells -> Nat]
    BY <1>2
  <2>2. num' \in [{1, 2} -> [Cells -> Nat]]
    BY <1>1, <1>2, <2>1
  <2>3. ASSUME NEW l \in Heads PROVE num'[l[1]][l[2]] = IF l \in set THEN 0 ELSE num[l[1]][l[2]]
    <3>1. l[1] \in {1, 2} /\ l[2] \in Cells
      BY DEF Heads
    <3>2. CASE l[1] = cells
      <4>1. num'[cells] = [c \in Cells |-> IF Owns(t, c) THEN 0 ELSE num[cells][c]]
        BY <1>1, <1>2
      <4>2. num'[cells][l[2]] = IF Owns(t, l[2]) THEN 0 ELSE num[cells][l[2]]
        BY <3>1, <4>1
      <4>3. QED BY <1>6, <1>7, <3>1, <3>2, <4>2
    <3>3. CASE l[1] # cells
      BY <1>1, <1>2, <1>7, <3>1, <3>3
    <3>4. QED BY <3>2, <3>3
  <2>4. QED BY <2>2, <2>3
<1>9. heap' = Emptied(heap, set)
  <2>1. ASSUME NEW s \in Structs PROVE (s[1] = cells /\ Owns(t, s[2])) <=> s \in set
    <3>1. CASE s = Null
      BY <1>2, <1>7, <3>1, StructKinds DEF Null
    <3>2. CASE s \in Heads
      <4>1. s[2] \in Cells
        BY <3>2 DEF Heads
      <4>2. QED BY <1>6, <1>7, <3>2, <4>1
    <3>3. ASSUME NEW u \in Threads, NEW n \in 1 .. MaxCells, s = <<3 + u, n>>
          PROVE  s[1] # cells /\ s \notin set
      <4>1. u \in Nat
        BY Sizes DEF Threads
      <4>2. s \notin Heads
        BY <3>3, StructKinds
      <4>3. QED BY <1>2, <1>7, <3>3, <4>1, <4>2
    <3>4. QED BY <3>1, <3>2, <3>3, StructKinds
  <2>2. [s \in Structs |-> IF s[1] = cells /\ Owns(t, s[2]) THEN Null ELSE heap.next[s]]
          = [s \in Structs |-> IF s \in set THEN Null ELSE heap.next[s]]
    <3> HIDE DEF set
    <3>1. QED BY <2>1
  <2>3. QED BY <1>1, <2>2 DEF Emptied
<1>10. ASSUME NEW c \in Cells PROVE last'[c] = IF <<cells, c>> \in set THEN <<cells, c>> ELSE last[c]
  BY <1>1, <1>6
<1>11. last' \in [Cells -> Structs]
  <2>1. \A c \in Cells : <<cells, c>> \in Structs
    BY <1>2, StructKinds DEF Heads
  <2>2. QED BY <1>1, <1>2, <2>1 DEF TypeOK
<1> HIDE DEF set
<1>12. ASSUME NEW l \in Heads
       PROVE  /\ ~IsSource(l) /\ ~IsSource(l)' /\ ((l \in LiveHeads)' <=> l \in LiveHeads \cup set)
              /\ l \in set => l \notin LiveHeads
  <2>1. l[2] \in Cells
    BY DEF Heads
  <2>2. PICK u \in Threads : u = OwnerOf(l[2])
    BY <2>1, Owners
  <2>3. ~IsSource(l) /\ ~IsSource(l)'
    BY <1>5, <2>1, <2>2 DEF IsSource, Cells
  <2>4. Unread(u)' = Grid(u) /\ Unread(u) = Grid(u)
    BY <1>5 DEF Unread
  <2>5. l[2] \in Grid(u)
    BY <2>1, <2>2, Grids
  <2>6. (l \in LiveHeads)' <=> (l[1] = cells => at'[u] # <<1, "in">>)
    BY <1>1, <2>2, <2>3, <2>4, <2>5 DEF LiveHeads
  <2>7. l \in LiveHeads <=> (l[1] = cells => at[u] # <<1, "in">>)
    BY <2>2, <2>3, <2>4, <2>5 DEF LiveHeads
  <2>8. l \in set <=> l[1] = cells /\ u = t
    BY <1>7, <2>2
  <2>9. QED BY <1>1, <1>4, <2>3, <2>6, <2>7, <2>8
<1>13. LiveHeads' = LiveHeads \cup set /\ set \cap LiveHeads = {} /\ LiveHeads \subseteq Heads
  <2>1. LiveHeads \subseteq Heads /\ LiveHeads' \subseteq Heads
    BY DEF LiveHeads
  <2>2. QED BY <1>7, <1>12, <2>1
<1>14. /\ Entry = FirstEntry /\ First = Zeros /\ Rest = Zeros
       /\ Entry' = FirstEntry /\ First' = Zeros /\ Rest' = Zeros
  <2>1. Entry = FirstEntry /\ First = Zeros /\ Entry' = FirstEntry /\ First' = Zeros
    BY <1>12 DEF Entry, First, FirstEntry, Zeros
  <2>2. Rest = Zeros /\ Rest' = Zeros
    BY <1>12, <2>1 DEF Rest, Zeros
  <2>3. QED BY <2>1, <2>2
<1>15. Reserved = {} /\ Reserved' = {}
  BY <1>5 DEF Reserved
<1>16. Size \in [Heads -> Nat] /\ Size' \in [Heads -> Nat] /\ \A l \in Heads : Size'[l] = IF l \in set THEN 0 ELSE Size[l]
  BY <1>2, <1>8 DEF Size, Heads
<1>17. PICK own, idx, loc : Labelled(own, idx) /\ Stored(own, idx, loc) /\ Located(own, loc) /\ Adding(own, idx)
  BY <1>3 DEF Working
<1>18. Chained(heap, own, idx) /\ Listed(heap, own, idx, LiveHeads, FirstEntry, Zeros, Size)
  BY <1>14, <1>17 DEF Labelled
<1>19. Clears(heap, own, idx, LiveHeads, set, FirstEntry, Zeros, Size')
  <2>1. FirstEntry \in [Heads -> Structs]
    BY FirstLists
  <2>2. \A l \in LiveHeads : FirstEntry[l] = FirstEntry[l] /\ Zeros[l] = Zeros[l] /\ Size'[l] = Size[l]
    BY <1>13, <1>16
  <2>3. \A l \in set : FirstEntry[l] = l /\ Zeros[l] = 0 /\ Size'[l] = 0
    BY <1>7, <1>16 DEF FirstEntry, Zeros
  <2>4. set \in SUBSET Heads
    BY <1>7
  <2>5. QED BY ONLY <1>2, <1>13, <1>18, <2>1, <2>2, <2>3, <2>4, ClearLists
<1>20. PICK own2, idx2 :
         /\ HeapOK(heap') /\ \A s \in set : own[s] = Null
         /\ Chained(heap', own2, idx2) /\ Listed(heap', own2, idx2, LiveHeads', Entry', First', Size')
         /\ \A s \in Structs : IF s \in set THEN own2[s] = s /\ idx2[s] = 0 ELSE own2[s] = own[s] /\ idx2[s] = idx[s]
         /\ AllLabelled(heap, own) => AllLabelled(heap', own2)
  BY ONLY <1>9, <1>13, <1>14, <1>19 DEF Clears
<1>21. Labelled(own2, idx2)'
  <2>1. Used = UsedOf(heap) /\ Used' = UsedOf(heap')
    BY DEF Used, UsedOf
  <2>2. build = "mutex" => AllLabelled(heap, own)
    BY <1>17, <2>1 DEF Labelled, AllLabelled
  <2>3. build' = "mutex" => \A s \in Used' : own2[s] # Null
    BY <1>1, <1>20, <2>1, <2>2 DEF AllLabelled
  <2>4. QED BY <1>20, <2>3 DEF Labelled
<1>22. Places(own2, idx2, Zeros, Size') = Places(own, idx, Zeros, Size)
  <2>1. ASSUME NEW v \in Slots
        PROVE  v \in Places(own2, idx2, Zeros, Size') <=> v \in Places(own, idx, Zeros, Size)
    <3>1. v[1] \in Structs /\ v[2] \in 0 .. PPC - 1
      BY DEF Slots
    <3>2. CASE v[1] \in set
      <4>1. own[v[1]] = Null /\ own2[v[1]] = v[1] /\ idx2[v[1]] = 0 /\ Size'[v[1]] = 0 /\ Zeros[v[1]] = 0
        BY <1>7, <1>16, <1>20, <3>1, <3>2 DEF Zeros
      <4>2. Base(0) = 0
        BY Sizes DEF Base
      <4>3. ~(Base(idx2[v[1]]) + v[2] \in Zeros[own2[v[1]]] .. Size'[own2[v[1]]] - 1)
        BY <3>1, <4>1, <4>2
      <4>4. QED BY <4>1, <4>3, StructKinds DEF Places
    <3>3. CASE v[1] \notin set
      <4>1. own2[v[1]] = own[v[1]] /\ idx2[v[1]] = idx[v[1]]
        BY <1>20, <3>1, <3>3
      <4>2. own[v[1]] \in Heads => own[v[1]] \in LiveHeads
        BY <1>18, <3>1 DEF Listed
      <4>3. own[v[1]] \in Heads => Size'[own[v[1]]] = Size[own[v[1]]]
        BY <1>13, <1>16, <4>2
      <4>4. QED BY <4>1, <4>3 DEF Places
    <3>4. QED BY <3>2, <3>3
  <2>2. Places(own2, idx2, Zeros, Size') \subseteq Slots /\ Places(own, idx, Zeros, Size) \subseteq Slots
    BY DEF Places, Slots
  <2>3. QED BY <2>1, <2>2
<1>23. Stored(own2, idx2, loc)'
  BY <1>1, <1>14, <1>15, <1>17, <1>22 DEF Stored, Particles
<1>24. Located(own2, loc)'
  <2>1. ASSUME NEW p \in Particles PROVE Position(p, own2[loc[p][1]])'
    <3>1. PICK l \in Heads : l = own[loc[p][1]] /\ l \in LiveHeads /\ own2[loc[p][1]] = l
      <4>1. loc[p] \in Places(own, idx, Rest, Size)
        BY <1>17 DEF Stored, Placed
      <4>2. own[loc[p][1]] \in Heads /\ loc[p][1] \in Structs
        BY <4>1 DEF Places
      <4>3. own[loc[p][1]] \in LiveHeads
        BY <1>18, <4>2 DEF Listed
      <4>4. loc[p][1] \notin set
        BY <1>20, <4>2, StructKinds
      <4>5. own2[loc[p][1]] = own[loc[p][1]]
        BY <1>20, <4>2, <4>4
      <4>6. QED BY <4>2, <4>3, <4>5
    <3>2. PICK u \in Threads : u = OwnerOf(l[2])
      BY Owners DEF Heads
    <3>3. Position(p, l)
      BY <1>17, <3>1 DEF Located
    <3>4. CASE u = t
      <4>1. l[1] # cells
        BY <1>7, <1>13, <3>1, <3>2, <3>4
      <4>2. Near(where[p], l[2]) /\ where[p] \in Domain
        <5>1. at[OwnerOf(l[2])] \notin {<<8, "out">>, <<9, "in">>}
          BY <1>1, <3>2, <3>4
        <5>2. QED BY <3>3, <5>1 DEF Position
      <4>3. Position(p, l)'
        BY <1>1, <4>1, <4>2 DEF Position
      <4>4. QED BY <3>1, <4>3
    <3>5. CASE u # t
      <4>1. at'[OwnerOf(l[2])] = at[OwnerOf(l[2])]
        BY <1>4, <3>2, <3>5
      <4>2. Position(p, l)'
        BY <1>1, <3>3, <4>1 DEF Position
      <4>3. QED BY <3>1, <4>2
    <3>6. QED BY <3>4, <3>5
  <2>2. Particles' = Particles
    BY <1>1 DEF Particles
  <2>3. QED BY <2>1, <2>2 DEF Located
<1>25. Adding(own2, idx2)'
  <2>1. ASSUME NEW c \in Cells, at'[OwnerOf(c)] = <<1, "out">> \/ at'[OwnerOf(c)][1] = 2
        PROVE  own2[last'[c]] = <<cells', c>> /\ heap'.next[last'[c]] = Null
    <3>1. PICK u \in Threads : u = OwnerOf(c)
      BY Owners
    <3>2. at'[u] = <<1, "out">>
      BY <1>5, <2>1, <3>1
    <3>3. PICK l \in Heads : l = <<cells, c>> /\ l \in Structs
      <4>1. <<cells, c>> \in Heads
        BY <1>2 DEF TypeOK, Heads
      <4>2. <<cells, c>> \in Structs
        BY <4>1, StructKinds
      <4>3. QED BY <4>1, <4>2
    <3>4. heap.next \in [Structs -> Structs] /\ \A s \in Structs : heap'.next[s] = IF s \in set THEN Null ELSE heap.next[s]
      BY <1>2, <1>9 DEF HeapOK, Emptied
    <3>5. CASE l \in set
      <4>1. last'[c] = l
        BY <1>10, <3>3, <3>5
      <4>2. QED BY <1>1, <1>20, <3>3, <3>4, <3>5, <4>1
    <3>6. CASE l \notin set
      <4>1. u # t
        BY <1>7, <3>1, <3>3, <3>6
      <4>2. at[u] = <<1, "out">>
        BY <1>4, <3>2, <4>1
      <4>3. own[last[c]] = l /\ heap.next[last[c]] = Null
        BY <1>17, <3>1, <3>3, <4>2 DEF Adding
      <4>4. last[c] \in Structs /\ last[c] \notin set
        BY <1>2, <1>20, <4>3, StructKinds DEF TypeOK
      <4>5. last'[c] = last[c]
        BY <1>10, <3>3, <3>6
      <4>6. QED BY <1>1, <1>20, <3>3, <3>4, <4>3, <4>4, <4>5
    <3>7. QED BY <3>5, <3>6
  <2>2. \A u \in Threads : at'[u] # <<2, "add">> /\ at'[u] # <<2, "copy">>
    BY <1>5
  <2>3. QED BY <2>1, <2>2 DEF Adding
<1>26. Working'
  BY <1>21, <1>23, <1>24, <1>25 DEF Working
<1>27. TypeOK'
  <2>1. at' \in [Threads -> Labelings]
    BY <1>1, <1>2 DEF TypeOK, Labelings
  <2>2. QED BY <1>1, <1>2, <1>8, <1>11, <1>20, <2>1 DEF TypeOK, Particles
<1>28. InStep' /\ SavedAll'
  <2>1. \A u \in Threads : at'[u][1] = 1
    BY <1>5
  <2>2. QED BY <1>1, <1>3, <2>1 DEF InStep, SavedAll
<1>29. Reading'
  BY <1>5 DEF Reading, Inner
<1>30. QED BY <1>1, <1>3, <1>26, <1>27, <1>28, <1>29 DEF IInv

-----------------------------------------------------------------------------
(* The rebuild: what the steps of a thread have in common.                  *)

LEMMA ListTypes ==
  ASSUME TypeOK
  PROVE  /\ LiveHeads \subseteq Heads /\ Entry \in [Heads -> Structs] /\ First \in [Heads -> Nat]
         /\ Rest \in [Heads -> Nat] /\ Size \in [Heads -> Nat]
         /\ cells \in {1, 2} /\ cells2 \in {1, 2} /\ cells2 # cells
         /\ \A l \in Heads : l[1] # cells <=> l[1] = cells2
<1>1. cells \in {1, 2} /\ cells2 \in {1, 2} /\ cells2 # cells /\ \A a \in {1, 2} : a # cells <=> a = cells2
  BY DEF TypeOK, cells2
<1>2. ASSUME NEW l \in Heads
      PROVE  l[1] \in {1, 2} /\ l[2] \in Cells /\ l \in Structs /\ src[OwnerOf(l[2])].struct \in Structs /\ src[OwnerOf(l[2])].j \in Nat
  <2>1. l[1] \in {1, 2} /\ l[2] \in Cells
    BY DEF Heads
  <2>2. OwnerOf(l[2]) \in Threads
    BY <2>1, Owners
  <2>3. QED BY <2>1, <2>2, StructKinds DEF TypeOK
<1>3. Entry \in [Heads -> Structs]
  BY <1>2 DEF Entry
<1>4. First \in [Heads -> Nat]
  BY <1>2 DEF First
<1>5. Rest \in [Heads -> Nat]
  BY <1>2, <1>4 DEF Rest
<1>6. Size \in [Heads -> Nat]
  <2>1. num \in [{1, 2} -> [Cells -> Nat]]
    BY DEF TypeOK
  <2>2. QED BY <1>2, <2>1 DEF Size
<1>7. LiveHeads \subseteq Heads
  BY DEF LiveHeads
<1>8. QED BY <1>1, <1>2, <1>3, <1>4, <1>5, <1>6, <1>7

LEMMA InRebuild ==
  ASSUME IInv, NEW t \in Threads, at[t][1] = 2
  PROVE  /\ TypeOK /\ Reading /\ Working /\ main = "frames"
         /\ \A u \in Threads : /\ at[u] \in Labelings /\ at[u][1] = 2
                               /\ at[u] \in {<<2, "in">>, <<2, "out">>} \/ at[u] \in Inner
<1>1. at[t] # <<9, "out">>
  OBVIOUS
<1>2. main = "frames" /\ Working /\ \A u \in Threads : at[u] \in Labelings /\ at[u][1] = 2
  BY <1>1, StageOf
<1>3. \A u \in Threads : at[u] \in {<<2, "in">>, <<2, "out">>} \/ at[u] \in Inner
  BY <1>2 DEF Labelings
<1>4. QED BY <1>2, <1>3 DEF IInv

LEMMA RebuildStep ==
  ASSUME IInv, NEW t \in Threads, at[t][1] = 2, NEW x \in Labelings, x[1] = 2, at' = [at EXCEPT ![t] = x],
         UNCHANGED <<build, main, frame, cells, where, file>>, num' \in [{1, 2} -> [Cells -> Nat]], HeapOK(heap'),
         slots' \in [Structs -> [0 .. PPC - 1 -> Int]], last' \in [Cells -> Structs],
         src' \in [Threads -> [cell : Cells \cup {-1}, struct : Structs, j : Nat]],
         dst' \in [Threads -> [cell : Cells \cup {-1}, struct : Structs, np : Nat]],
         mutex' \in [Cells -> Threads \cup {NoThread}], Reading', Working'
  PROVE  IInv'
<1>1. /\ TypeOK /\ main = "frames" /\ \A u \in Threads : at[u][1] = 2
  BY InRebuild
<1>2. at' \in [Threads -> Labelings] /\ \A u \in Threads : at'[u][1] = 2
  BY <1>1 DEF TypeOK
<1>3. TypeOK'
  BY <1>1, <1>2 DEF TypeOK, Particles
<1>4. InStep' /\ SavedAll'
  BY <1>1, <1>2 DEF InStep, SavedAll
<1>5. QED BY <1>1, <1>3, <1>4 DEF IInv

\* Where the particles are is not touched.
LEMMA LocatedAgain ==
  ASSUME IInv, NEW t \in Threads, at[t][1] = 2, NEW x, x[1] = 2, at' = [at EXCEPT ![t] = x],
         UNCHANGED <<cells, where>>, NEW own, NEW loc, Located(own, loc), NEW own2, NEW loc2,
         Relocates(own, loc, own2, loc2)
  PROVE  Located(own2, loc2)'
<1>1. TypeOK /\ \A u \in Threads : at[u][1] = 2
  BY InRebuild
<1>2. \A u \in Threads : at'[u][1] = 2
  BY <1>1 DEF TypeOK
<1>3. ASSUME NEW p \in Particles PROVE Position(p, own2[loc2[p][1]])'
  <2>1. PICK l \in Heads : l = own2[loc2[p][1]]
    BY DEF Relocates
  <2>2. Position(p, l)
    BY <2>1 DEF Located, Relocates
  <2>3. PICK u \in Threads : u = OwnerOf(l[2])
    BY Owners DEF Heads
  <2>4. at[u][1] = 2 /\ at'[u][1] = 2
    BY <1>1, <1>2
  <2>5. Position(p, l)'
    BY <2>2, <2>3, <2>4, SamePosition
  <2>6. QED BY <2>1, <2>5
<1>4. Particles' = Particles
  BY DEF Particles
<1>5. QED BY <1>3, <1>4 DEF Located

LEMMA WhereIs ==
  ASSUME IInv, NEW t \in Threads, at[t][1] = 2, NEW own, NEW idx, NEW loc,
         Stored(own, idx, loc), Located(own, loc), NEW p \in Particles
  PROVE  /\ where[p] \in Domain /\ own[loc[p][1]] \in Heads /\ loc[p] \in Slots
         /\ Near(where[p], own[loc[p][1]][2])
<1>1. PICK l \in Heads : l = own[loc[p][1]] /\ loc[p] \in Slots
  BY InACell
<1>2. Position(p, l)
  BY <1>1 DEF Located
<1>3. PICK u \in Threads : u = OwnerOf(l[2])
  BY Owners DEF Heads
<1>4. at[u][1] = 2
  BY InRebuild
<1>5. QED BY <1>1, <1>2, <1>3, <1>4 DEF Position

LEMMA SourceOf ==
  ASSUME IInv, NEW t \in Threads, at[t] \in Inner
  PROVE  LET l == SourceHead(t)
         IN  /\ l \in LiveHeads /\ IsSource(l) /\ OwnerOf(l[2]) = t /\ src[t].cell \in Grid(t)
             /\ Entry[l] = src[t].struct /\ First[l] = src[t].j
             /\ Rest[l] = IF at[t] = <<2, "w2">> THEN src[t].j + 1 ELSE src[t].j
             /\ Left(t) <=> First[l] < Size[l]
             /\ \A k \in Heads : IsSource(k) /\ OwnerOf(k[2]) = t => k = l
<1>1. TypeOK /\ Reading
  BY DEF IInv
<1>2. src[t].cell \in Grid(t)
  BY <1>1 DEF Reading
<1>3. src[t].cell \in Cells /\ OwnerOf(src[t].cell) = t
  BY <1>2, Grids
<1>4. PICK l : l = SourceHead(t)
  OBVIOUS
<1>5. l \in Heads /\ l[1] = cells2 /\ l[2] = src[t].cell /\ l[1] # cells
  BY <1>1, <1>3, <1>4, ListTypes DEF SourceHead, Heads
<1>6. IsSource(l)
  BY <1>3, <1>5 DEF IsSource
<1>7. l \in LiveHeads
  BY <1>5, <1>6 DEF LiveHeads
<1>8. Entry[l] = src[t].struct /\ First[l] = src[t].j /\ Size[l] = num[cells2][src[t].cell]
  BY <1>3, <1>5, <1>6 DEF Entry, First, Size
<1>9. Rest[l] = IF at[t] = <<2, "w2">> THEN src[t].j + 1 ELSE src[t].j
  BY <1>3, <1>5, <1>6, <1>8 DEF Rest
<1>10. Left(t) <=> First[l] < Size[l]
  BY <1>8 DEF Left
<1>11. ASSUME NEW k \in Heads, IsSource(k), OwnerOf(k[2]) = t PROVE k = l
  <2>1. k[1] = cells2 /\ k[2] = src[t].cell
    BY <1>1, <1>11, ListTypes DEF IsSource
  <2>2. k = <<k[1], k[2]>>
    BY DEF Heads
  <2>3. QED BY <1>4, <2>1, <2>2 DEF SourceHead
<1>12. QED BY <1>2, <1>3, <1>4, <1>5, <1>6, <1>7, <1>8, <1>9, <1>10, <1>11

\* The place that a thread reads next.
LEMMA SourceParticle ==
  ASSUME IInv, NEW t \in Threads, at[t] \in Inner, at[t] # <<2, "w2">>, Left(t), NEW own, NEW idx, NEW loc,
         Labelled(own, idx), Stored(own, idx, loc), Located(own, loc), Adding(own, idx)
  PROVE  LET old == <<src[t].struct, src[t].j % PPC>>
             p   == Particle(t)
         IN  /\ old \in Places(own, idx, Rest, Size) \ Reserved /\ own[src[t].struct] = SourceHead(t)
             /\ src[t].struct \in Structs /\ Base(idx[src[t].struct]) + (src[t].j % PPC) = src[t].j
             /\ p = slots[old[1]][old[2]] /\ p \in Particles /\ loc[p] = old
             /\ where[p] \in Domain /\ CellAt(where[p]) \in Cells
             /\ ~border[CellAt(where[p])] => OwnerOf(CellAt(where[p])) = t
<1>1. /\ TypeOK /\ LiveHeads \subseteq Heads /\ Entry \in [Heads -> Structs] /\ First \in [Heads -> Nat]
      /\ Rest \in [Heads -> Nat] /\ Size \in [Heads -> Nat] /\ cells2 # cells /\ HeapOK(heap)
  BY ListTypes DEF IInv, TypeOK
<1>2. PICK l \in LiveHeads :
        /\ l = SourceHead(t) /\ OwnerOf(l[2]) = t /\ Entry[l] = src[t].struct /\ First[l] = src[t].j
        /\ Rest[l] = src[t].j /\ First[l] < Size[l]
  BY SourceOf
<1>3. Chained(heap, own, idx) /\ Listed(heap, own, idx, LiveHeads, Entry, First, Size)
  BY DEF Labelled
<1>4. l \in Heads /\ Entry[l] \in Structs /\ l[1] = cells2 /\ l[2] = src[t].cell
  BY <1>1, <1>2 DEF SourceHead
<1>6. Reads(heap, own, idx, LiveHeads, Entry, First, Size, l,
            IF First[l] % PPC = PPC - 1 THEN heap.next[Entry[l]] ELSE Entry[l],
            IF First[l] % PPC = PPC - 1 /\ Entry[l] \notin Heads THEN Returned(heap, t, Entry[l]) ELSE heap)
  BY ONLY <1>1, <1>2, <1>3, t \in Threads, AdvanceLists
<1>7. own[Entry[l]] = l /\ Base(idx[Entry[l]]) + (First[l] % PPC) = First[l]
  BY <1>6 DEF Reads
<1>8. PICK m \in 0 .. PPC - 1 : m = First[l] % PPC
  BY <1>1, <1>4, PlaceOf
<1>9. PICK old \in Slots : old = <<src[t].struct, src[t].j % PPC>> /\ old = <<Entry[l], m>>
  BY <1>2, <1>4, <1>8 DEF Slots
<1>10. old \in Places(own, idx, Rest, Size)
  <2>1. Base(idx[old[1]]) + old[2] \in Rest[own[old[1]]] .. Size[own[old[1]]] - 1
    <3>1. First[l] \in Rest[l] .. Size[l] - 1
      BY <1>1, <1>2, <1>4
    <3>2. QED BY <1>7, <1>8, <1>9, <3>1
  <2>2. QED BY <1>4, <1>7, <1>9, <2>1 DEF Places, Slots
<1>11. old \notin Reserved
  <2>1. ASSUME NEW u \in Threads, at[u] = <<2, "copy">>, old = <<dst[u].struct, dst[u].np % PPC>> PROVE FALSE
    <3>1. own[dst[u].struct] = <<cells, dst[u].cell>>
      BY <2>1 DEF Adding
    <3>2. dst[u].struct = Entry[l]
      BY <1>9, <2>1
    <3>3. l[1] = cells
      BY <1>7, <3>1, <3>2
    <3>4. QED BY <1>1, <1>4, <3>3
  <2>2. QED BY <2>1 DEF Reserved
<1>12. PICK p \in Particles : p = slots[old[1]][old[2]] /\ loc[p] = old
  BY <1>10, <1>11 DEF Stored, Placed
<1>13. p = Particle(t)
  BY <1>9, <1>12 DEF Particle
<1>14. at[t][1] = 2
  BY DEF Inner
<1>15. where[p] \in Domain /\ Near(where[p], l[2])
  <2>1. own[loc[p][1]] = l
    BY <1>7, <1>9, <1>12
  <2>2. QED BY <1>14, <2>1, WhereIs
<1>16. l[2] \in Cells
  BY <1>4 DEF Heads
<1>17. CellAt(where[p]) \in Cells
  BY <1>15, CellAtInside
<1>18. ~border[CellAt(where[p])] => OwnerOf(CellAt(where[p])) = t
  BY <1>2, <1>15, <1>16, InsideAGrid
<1>19. QED BY <1>2, <1>4, <1>7, <1>9, <1>10, <1>11, <1>12, <1>13, <1>15, <1>17, <1>18

\* Only what is said of the lists in use counts.
LEMMA ListedAgain ==
  ASSUME NEW h, NEW own, NEW idx, NEW live, NEW entry, NEW first, NEW size, Listed(h, own, idx, live, entry, first, size),
         NEW entry2, NEW first2, NEW size2,
         \A l \in live : entry2[l] = entry[l] /\ first2[l] = first[l] /\ size2[l] = size[l]
  PROVE  Listed(h, own, idx, live, entry2, first2, size2)
<1>1. ASSUME NEW s \in Structs, own[s] \in Heads
      PROVE  /\ own[s] \in live
             /\ idx[s] = 0 \/ Base(idx[s]) < size2[own[s]]
             /\ h.next[s] = Null => size2[own[s]] <= Base(idx[s] + 1)
             /\ first2[own[s]] < Base(idx[s] + 1)
  <2>1. own[s] \in live
    BY <1>1 DEF Listed
  <2>2. size2[own[s]] = size[own[s]] /\ first2[own[s]] = first[own[s]]
    BY <2>1
  <2>3. QED BY <1>1, <2>1, <2>2 DEF Listed
<1>2. ASSUME NEW l \in live
      PROVE  IF entry2[l] = Null THEN size2[l] <= first2[l] /\ \A s \in Structs : own[s] # l
                                 ELSE own[entry2[l]] = l /\ Base(idx[entry2[l]]) <= first2[l]
  <2>1. entry2[l] = entry[l] /\ first2[l] = first[l] /\ size2[l] = size[l]
    OBVIOUS
  <2>2. QED BY <2>1 DEF Listed
<1>3. QED BY <1>1, <1>2 DEF Listed

LEMMA PlacesAgain ==
  ASSUME NEW own, NEW idx, NEW own2, NEW idx2, NEW rest, NEW size, NEW rest2, NEW size2,
         \A s \in Structs : own[s] \in Heads =>
           \/ rest[own[s]] \in Nat /\ size[own[s]] \in Nat /\ size[own[s]] <= rest[own[s]] /\ own2[s] \notin Heads
           \/ own2[s] = own[s] /\ idx2[s] = idx[s] /\ rest2[own[s]] = rest[own[s]] /\ size2[own[s]] = size[own[s]],
         \A s \in Structs : own2[s] \in Heads => own[s] = own2[s]
  PROVE  Places(own2, idx2, rest2, size2) = Places(own, idx, rest, size)
<1>1. ASSUME NEW v \in Structs \X (0 .. PPC - 1)
      PROVE  v \in Places(own2, idx2, rest2, size2) <=> v \in Places(own, idx, rest, size)
  <2>1. v[1] \in Structs
    OBVIOUS
  <2>2. CASE own[v[1]] \notin Heads
    BY <2>1, <2>2 DEF Places
  <2>3. CASE own[v[1]] \in Heads /\ own2[v[1]] = own[v[1]]
    BY <2>1, <2>3 DEF Places
  <2>4. CASE own[v[1]] \in Heads /\ own2[v[1]] # own[v[1]]
    <3>1. rest[own[v[1]]] \in Nat /\ size[own[v[1]]] \in Nat /\ size[own[v[1]]] <= rest[own[v[1]]] /\ own2[v[1]] \notin Heads
      BY <2>1, <2>4
    <3>2. rest[own[v[1]]] .. size[own[v[1]]] - 1 = {}
      BY <3>1
    <3>3. QED BY <3>1, <3>2 DEF Places
  <2>5. QED BY <2>2, <2>3, <2>4
<1>2. QED BY <1>1 DEF Places

-----------------------------------------------------------------------------
(* From one cell of the old array to the next.                              *)

LEMMA MovesOn ==
  ASSUME IInv, NEW t \in Threads, NEW c \in Int,
         \/ at[t] = <<2, "in">> /\ c = 0
         \/ at[t] \in {<<2, "next">>, <<2, "w0">>} /\ c = src[t].cell + 1,
         MoveOn(t, SourceFrom(t, c)), UNCHANGED <<cells, dst>>
  PROVE  /\ \E x \in {<<2, "out">>, <<2, "next">>} :
              at' = [at EXCEPT ![t] = x] /\ at'[t] = x /\ (x \in Inner <=> src'[t] # NoSource)
         /\ src' \in [Threads -> [cell : Cells \cup {-1}, struct : Structs, j : Nat]]
         /\ src'[t] # NoSource => src'[t].cell \in Grid(t)
         /\ \A u \in Threads : u # t => at'[u] = at[u] /\ src'[u] = src[u]
         /\ LiveHeads' = IF at[t] \in Inner THEN LiveHeads \ {SourceHead(t)} ELSE LiveHeads
         /\ \A l \in LiveHeads' : Entry'[l] = Entry[l] /\ First'[l] = First[l] /\ Rest'[l] = Rest[l]
         /\ Reserved' = Reserved
<1>1. /\ TypeOK /\ Reading /\ \A u \in Threads : at[u][1] = 2
      /\ cells \in {1, 2} /\ cells2 \in {1, 2} /\ cells2 # cells /\ \A l \in Heads : l[1] # cells <=> l[1] = cells2
  <2>1. at[t][1] = 2
    BY DEF Inner
  <2>2. QED BY <2>1, InRebuild, ListTypes
<1>0. /\ at[t] # <<2, "copy">>
      /\ IF at[t] \in Inner THEN c = src[t].cell + 1 ELSE at[t] = <<2, "in">> /\ c = 0
  BY DEF Inner
<1>2. PICK s : s = SourceFrom(t, c)
  OBVIOUS
<1>3. \/ s = NoSource /\ \A d \in Grid(t) : d < c
      \/ /\ s # NoSource /\ s.cell \in Grid(t) /\ s.cell >= c
         /\ s = [cell |-> s.cell, struct |-> <<cells2, s.cell>>, j |-> 0]
         /\ \A d \in Grid(t) : d >= c => d >= s.cell
  BY <1>2, NextSource
<1>4. PICK x \in {<<2, "out">>, <<2, "next">>} : x = IF s = NoSource THEN <<2, "out">> ELSE <<2, "next">>
  OBVIOUS
<1>5. src' = [src EXCEPT ![t] = s] /\ at' = [at EXCEPT ![t] = x]
  BY <1>2, <1>4 DEF MoveOn
<1>6. src'[t] = s /\ at'[t] = x /\ \A u \in Threads : u # t => at'[u] = at[u] /\ src'[u] = src[u]
  BY <1>1, <1>5 DEF TypeOK
<1>7. x \in Inner <=> s # NoSource
  BY <1>4 DEF Inner
<1>8. Grid(t) = {d \in Cells : OwnerOf(d) = t} /\ Cells \subseteq Nat /\ NoSource.cell = -1
  BY Grids DEF Cells, NoSource
<1>9. s \in [cell : Cells \cup {-1}, struct : Structs, j : Nat]
  <2>1. NoSource \in [cell : Cells \cup {-1}, struct : Structs, j : Nat]
    BY StructKinds DEF NoSource
  <2>2. ASSUME s.cell \in Grid(t) PROVE <<cells2, s.cell>> \in Structs
    BY <1>1, <1>8, <2>2, StructKinds DEF Heads
  <2>3. QED BY <1>3, <1>8, <2>1, <2>2
<1>10. src' \in [Threads -> [cell : Cells \cup {-1}, struct : Structs, j : Nat]]
  BY <1>1, <1>5, <1>9 DEF TypeOK
<1>11. Unread(t)' = IF s = NoSource THEN {} ELSE {d \in Grid(t) : d > s.cell}
  BY <1>4, <1>6 DEF Unread
<1>12. Unread(t) = IF at[t] \in Inner THEN {d \in Grid(t) : d > src[t].cell} ELSE Grid(t)
  BY <1>1 DEF Unread, Inner, Reading
<1>13. at[t] \in Inner => src[t].cell \in Grid(t)
  BY <1>1 DEF Reading
<1>14. at[t] \notin Inner => src[t].cell = -1
  BY <1>1, <1>8 DEF Reading
<1>15. ASSUME NEW l \in Heads
       PROVE  /\ l \in LiveHeads' <=> l \in LiveHeads /\ ~(at[t] \in Inner /\ l = SourceHead(t))
              /\ l \in LiveHeads' => Entry'[l] = Entry[l] /\ First'[l] = First[l] /\ Rest'[l] = Rest[l]
  <2>1. l[2] \in Cells /\ l = <<l[1], l[2]>>
    BY DEF Heads
  <2>2. PICK u \in Threads : u = OwnerOf(l[2])
    BY <2>1, Owners
  <2>3. l \in LiveHeads <=> IF l[1] = cells THEN at[u] # <<1, "in">> ELSE l[2] \in Unread(u) \/ src[u].cell = l[2]
    BY <2>2 DEF LiveHeads, IsSource
  <2>4. l \in LiveHeads' <=> IF l[1] = cells THEN at'[u] # <<1, "in">> ELSE l[2] \in Unread(u)' \/ src'[u].cell = l[2]
    BY <2>2 DEF LiveHeads, IsSource
  <2>5. /\ IsSource(l) <=> l[1] # cells /\ src[u].cell = l[2]
        /\ IsSource(l)' <=> l[1] # cells /\ src'[u].cell = l[2]
    BY <2>2 DEF IsSource
  <2>6. l = SourceHead(t) <=> l[1] # cells /\ l[2] = src[t].cell
    BY <1>1, <2>1 DEF SourceHead
  <2>7. at[u][1] = 2 /\ at'[u][1] = 2
    BY <1>1, <1>4, <1>6
  <2>8. CASE u # t
    <3>1. Unread(u)' = Unread(u) /\ src'[u] = src[u] /\ at'[u] = at[u]
      BY <1>6, <2>8 DEF Unread
    <3>2. ~(at[t] \in Inner /\ l = SourceHead(t))
      BY <1>8, <1>13, <2>2, <2>6, <2>8
    <3>3. IsSource(l)' <=> IsSource(l)
      BY <2>5, <3>1
    <3>4. Entry'[l] = Entry[l] /\ First'[l] = First[l]
      BY <2>2, <3>1, <3>3 DEF Entry, First
    <3>5. Rest'[l] = Rest[l]
      BY <2>2, <3>1, <3>3, <3>4 DEF Rest
    <3>6. QED BY <2>3, <2>4, <3>1, <3>2, <3>4, <3>5
  <2>9. CASE u = t /\ l[1] = cells
    <3>1. ~IsSource(l) /\ ~IsSource(l)' /\ l # SourceHead(t)
      BY <2>5, <2>6, <2>9
    <3>2. Entry'[l] = Entry[l] /\ First'[l] = First[l]
      BY <3>1 DEF Entry, First
    <3>3. Rest'[l] = Rest[l]
      BY <3>1, <3>2 DEF Rest
    <3>4. QED BY <2>3, <2>4, <2>7, <2>9, <3>1, <3>2, <3>3
  <2>10. CASE u = t /\ l[1] # cells
    <3>1. l[2] \in Grid(t) /\ l[2] \in Nat
      BY <1>8, <2>1, <2>2, <2>10
    <3>2. l \in LiveHeads <=> (at[t] \in Inner => l[2] > src[t].cell \/ l[2] = src[t].cell)
      BY <1>12, <2>3, <2>10, <3>1
    <3>3. l \in LiveHeads' <=> s # NoSource /\ (l[2] > s.cell \/ l[2] = s.cell)
      BY <1>6, <1>8, <1>11, <2>4, <2>10, <3>1
    <3>4. l \in LiveHeads' <=> l[2] >= c
      BY <1>3, <1>8, <3>1, <3>3
    <3>5. l[2] >= c <=> (at[t] \in Inner => l[2] > src[t].cell)
      <4>1. CASE at[t] \in Inner
        <5>1. src[t].cell \in Nat /\ c = src[t].cell + 1
          BY <1>0, <1>8, <1>13, <4>1
        <5>2. QED BY <3>1, <4>1, <5>1
      <4>2. CASE at[t] \notin Inner
        BY <1>0, <3>1, <4>2
      <4>3. QED BY <4>1, <4>2
    <3>6. l \in LiveHeads' => src[t].cell # l[2]
      BY <1>14, <3>1, <3>4, <3>5
    <3>7. l \in LiveHeads' => ~IsSource(l)
      BY <2>5, <2>10, <3>6
    <3>8. IsSource(l)' => src'[OwnerOf(l[2])].struct = l /\ src'[OwnerOf(l[2])].j = 0
      <4>1. IsSource(l)' => s.cell = l[2] /\ s # NoSource
        BY <1>6, <1>8, <2>5, <2>10, <3>1
      <4>2. IsSource(l)' => s.struct = <<cells2, l[2]>> /\ s.j = 0
        BY <1>3, <4>1
      <4>3. l = <<cells2, l[2]>>
        BY <1>1, <2>1, <2>10
      <4>4. QED BY <1>6, <2>2, <2>10, <4>2, <4>3
    <3>9. l \in LiveHeads' => Entry'[l] = Entry[l] /\ First'[l] = First[l]
      BY <3>7, <3>8 DEF Entry, First
    <3>10. at'[OwnerOf(l[2])] # <<2, "w2">>
      BY <1>4, <1>6, <2>2, <2>10
    <3>11. l \in LiveHeads' => Rest'[l] = Rest[l]
      BY <3>7, <3>9, <3>10 DEF Rest
    <3>12. QED BY <2>6, <2>10, <3>1, <3>2, <3>4, <3>5, <3>9, <3>11, <1>8, <1>13
  <2>11. QED BY <2>8, <2>9, <2>10
<1>16. LiveHeads' = IF at[t] \in Inner THEN LiveHeads \ {SourceHead(t)} ELSE LiveHeads
  <2>1. LiveHeads \subseteq Heads /\ LiveHeads' \subseteq Heads
    BY DEF LiveHeads
  <2>2. QED BY <1>15, <2>1
<1>17. \A l \in LiveHeads' : Entry'[l] = Entry[l] /\ First'[l] = First[l] /\ Rest'[l] = Rest[l]
  <2>1. LiveHeads' \subseteq Heads
    BY DEF LiveHeads
  <2>2. QED BY <1>15, <2>1
<1>18. Reserved' = Reserved
  <2>1. at[t] # <<2, "copy">> /\ at'[t] # <<2, "copy">>
    BY <1>0, <1>4, <1>6
  <2>2. QED BY <1>6, <2>1 DEF Reserved
<1>19. QED BY <1>3, <1>5, <1>6, <1>7, <1>10, <1>16, <1>17, <1>18

LEMMA MovedOn ==
  ASSUME IInv, NEW t \in Threads, NEW c \in Int,
         \/ at[t] = <<2, "in">> /\ c = 0
         \/ at[t] \in {<<2, "next">>, <<2, "w0">>} /\ c = src[t].cell + 1,
         MoveOn(t, SourceFrom(t, c)),
         UNCHANGED <<build, main, frame, cells, num, slots, last, where, dst, mutex, file>>, HeapOK(heap'),
         NEW own, NEW idx, NEW loc,
         Labelled(own, idx), Stored(own, idx, loc), Located(own, loc), Adding(own, idx),
         NEW own2, NEW idx2, Chained(heap', own2, idx2),
         Listed(heap', own2, idx2, LiveHeads', Entry, First, Size), build = "mutex" => AllLabelled(heap', own2),
         \A r \in Structs : own2[r] \in Heads =>
           own2[r] = own[r] /\ idx2[r] = idx[r] /\ heap'.next[r] = heap.next[r],
         \A r \in Structs : own[r] \in LiveHeads' => own2[r] = own[r],
         \A l \in LiveHeads : l \notin LiveHeads' => Size[l] <= Rest[l] /\ \A r \in Structs : own2[r] # l
  PROVE  IInv'
<1>1. at[t][1] = 2 /\ at[t] # <<2, "add">> /\ at[t] # <<2, "copy">>
  OBVIOUS
<1>2. TypeOK /\ Reading /\ main = "frames"
  BY <1>1, InRebuild
<1>3. /\ LiveHeads \subseteq Heads /\ Rest \in [Heads -> Nat] /\ Size \in [Heads -> Nat]
      /\ cells \in {1, 2} /\ Size' = Size /\ Particles' = Particles
  BY <1>2, ListTypes DEF Size, Particles
<1>4. PICK x \in {<<2, "out">>, <<2, "next">>} :
        at' = [at EXCEPT ![t] = x] /\ at'[t] = x /\ (x \in Inner <=> src'[t] # NoSource)
  BY MovesOn
<1>5. /\ src' \in [Threads -> [cell : Cells \cup {-1}, struct : Structs, j : Nat]]
      /\ src'[t] # NoSource => src'[t].cell \in Grid(t)
      /\ \A u \in Threads : u # t => at'[u] = at[u] /\ src'[u] = src[u]
      /\ LiveHeads' \subseteq LiveHeads
      /\ \A l \in LiveHeads' : Entry'[l] = Entry[l] /\ First'[l] = First[l] /\ Rest'[l] = Rest[l]
      /\ Reserved' = Reserved
  BY MovesOn
<1>6. Labelled(own2, idx2)'
  <2>1. Listed(heap', own2, idx2, LiveHeads', Entry', First', Size')
    BY <1>3, <1>5, ListedAgain
  <2>2. Used' = UsedOf(heap')
    BY DEF Used, UsedOf
  <2>3. QED BY <2>1, <2>2 DEF Labelled, AllLabelled
<1>7. Places(own2, idx2, Rest', Size') = Places(own, idx, Rest, Size)
  <2>1. ASSUME NEW s \in Structs, own[s] \in Heads
        PROVE  \/ Rest[own[s]] \in Nat /\ Size[own[s]] \in Nat /\ Size[own[s]] <= Rest[own[s]] /\ own2[s] \notin Heads
               \/ own2[s] = own[s] /\ idx2[s] = idx[s] /\ Rest'[own[s]] = Rest[own[s]] /\ Size'[own[s]] = Size[own[s]]
    <3>1. own[s] \in LiveHeads
      BY <2>1 DEF Labelled, Listed
    <3>2. CASE own[s] \in LiveHeads'
      <4>1. own2[s] = own[s]
        BY <3>2
      <4>2. QED BY <1>3, <1>5, <2>1, <3>2, <4>1
    <3>3. CASE own[s] \notin LiveHeads'
      <4>1. Size[own[s]] <= Rest[own[s]] /\ own2[s] # own[s]
        BY <3>1, <3>3
      <4>2. own2[s] \notin Heads
        BY <4>1
      <4>3. QED BY <1>3, <2>1, <4>1, <4>2
    <3>4. QED BY <3>2, <3>3
  <2>2. \A s \in Structs : own2[s] \in Heads => own[s] = own2[s]
    OBVIOUS
  <2>3. QED BY <2>1, <2>2, PlacesAgain
<1>8. Stored(own2, idx2, loc)'
  BY <1>3, <1>5, <1>7 DEF Stored
<1>9. ASSUME NEW s \in Structs, own[s] \in Heads, own[s][1] = cells PROVE own2[s] = own[s]
  <2>1. own[s] \in LiveHeads
    BY <1>9 DEF Labelled, Listed
  <2>2. own[s] \in LiveHeads'
    <3>1. cells2 # cells
      BY <1>2, ListTypes
    <3>2. own[s] # SourceHead(t)
      BY <1>9, <3>1 DEF SourceHead
    <3>3. LiveHeads' = LiveHeads \/ LiveHeads' = LiveHeads \ {SourceHead(t)}
      BY MovesOn
    <3>4. QED BY <2>1, <3>2, <3>3
  <2>3. QED BY <2>2
<1>10. Located(own2, loc)'
  <2>1. ASSUME NEW p \in Particles
        PROVE  own2[loc[p][1]] \in Heads /\ own2[loc[p][1]] = own[loc[p][1]]
    <3>1. loc[p] \in Places(own2, idx2, Rest', Size')
      BY <1>7 DEF Stored, Placed
    <3>2. own2[loc[p][1]] \in Heads /\ loc[p][1] \in Structs
      BY <3>1 DEF Places
    <3>3. QED BY <3>2
  <2>2. x[1] = 2 /\ at' = [at EXCEPT ![t] = x] /\ at[t][1] = 2
    BY <1>1, <1>4
  <2>3. UNCHANGED <<cells, where>> /\ Located(own, loc) /\ IInv
    OBVIOUS
  <2>4. Relocates(own, loc, own2, loc)
    BY <2>1 DEF Relocates
  <2>5. QED BY ONLY t \in Threads, <2>2, <2>3, <2>4, LocatedAgain
<1>11. Adding(own2, idx2)'
  <2>1. ASSUME NEW d \in Cells PROVE own2[last'[d]] = <<cells', d>> /\ heap'.next[last'[d]] = Null
    <3>1. PICK u \in Threads : u = OwnerOf(d)
      BY Owners
    <3>2. at[u][1] = 2
      BY <1>1, InRebuild
    <3>3. own[last[d]] = <<cells, d>> /\ heap.next[last[d]] = Null
      BY <3>1, <3>2 DEF Adding
    <3>4. <<cells, d>> \in Heads /\ last[d] \in Structs
      BY <1>2, <1>3 DEF Heads, TypeOK
    <3>5. own2[last[d]] = own[last[d]]
      BY <1>9, <3>3, <3>4
    <3>6. QED BY <3>3, <3>4, <3>5
  <2>2. ASSUME NEW u \in Threads, at'[u] = <<2, "copy">>
        PROVE  at[u] = <<2, "copy">> /\ own2[dst[u].struct] = own[dst[u].struct] /\ idx2[dst[u].struct] = idx[dst[u].struct]
    <3>1. u # t /\ at[u] = <<2, "copy">>
      BY <1>4, <1>5, <2>2
    <3>2. own[dst[u].struct] = <<cells, dst[u].cell>>
      BY <3>1 DEF Adding
    <3>3. dst[u].cell \in Cells /\ dst[u].struct \in Structs
      <4>1. Left(u) /\ dst[u].cell = CellAt(where[Particle(u)])
        BY <1>2, <3>1 DEF Reading
      <4>2. at[u] \in Inner /\ at[u] # <<2, "w2">>
        BY <3>1 DEF Inner
      <4>3. dst[u].cell \in Cells
        BY <4>1, <4>2, SourceParticle
      <4>4. QED BY <1>2, <4>3 DEF TypeOK
    <3>4. <<cells, dst[u].cell>> \in Heads
      BY <1>3, <3>3 DEF Heads
    <3>5. own2[dst[u].struct] = own[dst[u].struct]
      BY <1>9, <3>2, <3>3, <3>4
    <3>6. QED BY <3>1, <3>2, <3>3, <3>4, <3>5
  <2>3. \A u \in Threads : at'[u] = <<2, "add">> => at[u] = <<2, "add">>
    BY <1>4, <1>5
  <2>4. ASSUME NEW u \in Threads, at'[u] = <<2, "add">>
        PROVE  /\ dst'[u].np = num'[cells'][dst'[u].cell] /\ dst'[u].struct = last'[dst'[u].cell]
               /\ IF border[dst'[u].cell] THEN mutex'[dst'[u].cell] = u ELSE OwnerOf(dst'[u].cell) = u
    BY <2>3, <2>4 DEF Adding
  <2>5. ASSUME NEW u \in Threads, at'[u] = <<2, "copy">>
        PROVE  /\ own2[dst'[u].struct] = <<cells', dst'[u].cell>> /\ dst'[u].np < num'[cells'][dst'[u].cell]
               /\ Base(idx2[dst'[u].struct]) + (dst'[u].np % PPC) = dst'[u].np
    BY <2>2, <2>5 DEF Adding
  <2>6. ASSUME NEW u \in Threads, NEW v \in Threads, at'[u] = <<2, "copy">>, at'[v] = <<2, "copy">>, u # v
        PROVE  dst'[u].struct # dst'[v].struct \/ dst'[u].np # dst'[v].np
    BY <2>2, <2>6 DEF Adding
  <2>7. QED BY <2>1, <2>4, <2>5, <2>6 DEF Adding
<1>12. Working'
  BY <1>6, <1>8, <1>10, <1>11 DEF Working
<1>13. Reading'
  <2>1. \A u \in Threads : u # t => (Left(u)' <=> Left(u)) /\ Particle(u)' = Particle(u)
    BY <1>5 DEF Left, Particle, cells2
  <2>2. x \notin {<<2, "w0">>, <<2, "add">>, <<2, "copy">>, <<2, "modify">>, <<2, "w2">>}
    OBVIOUS
  <2>3. ASSUME NEW u \in Threads
        PROVE  /\ at'[u] \in {<<2, "add">>, <<2, "copy">>} => build' = "mutex"
               /\ at'[u] \in {<<2, "w0">>, <<2, "modify">>, <<2, "w2">>} => build' = "kernels"
               /\ at'[u] \in Inner <=> src'[u] # NoSource
               /\ src'[u] # NoSource => src'[u].cell \in Grid(u)
               /\ at'[u] = <<2, "w0">> => ~Left(u)'
               /\ at'[u] \in {<<2, "add">>, <<2, "copy">>, <<2, "modify">>, <<2, "w2">>} => Left(u)'
               /\ at'[u] \in {<<2, "add">>, <<2, "copy">>, <<2, "modify">>} => dst'[u].cell = CellAt(where'[Particle(u)'])
    <3>1. CASE u = t
      BY <1>4, <1>5, <2>2, <3>1
    <3>2. CASE u # t
      <4>1. at'[u] = at[u] /\ src'[u] = src[u] /\ (Left(u)' <=> Left(u)) /\ Particle(u)' = Particle(u)
        BY <1>5, <2>1, <3>2
      <4>2. QED BY <1>2, <4>1 DEF Reading
    <3>3. QED BY <3>1, <3>2
  <2>4. QED BY <2>3 DEF Reading
<1>14. x \in Labelings /\ x[1] = 2
  BY DEF Labelings, Inner
<1>15. QED BY <1>1, <1>2, <1>4, <1>5, <1>12, <1>13, <1>14, RebuildStep DEF TypeOK

LEMMA StartRebuildStep ==
  ASSUME IInv, NEW t \in Threads, StartRebuild(t)
  PROVE  IInv'
<1>1. /\ at[t] = <<2, "in">> /\ MoveOn(t, SourceFrom(t, 0))
      /\ build' = build /\ main' = main /\ frame' = frame /\ cells' = cells /\ num' = num /\ heap' = heap
      /\ slots' = slots /\ last' = last /\ where' = where /\ dst' = dst /\ mutex' = mutex /\ file' = file
  BY DEF StartRebuild, sim_vars
<1>2. at[t][1] = 2 /\ at[t] \notin Inner /\ 0 \in Int
  BY <1>1 DEF Inner
<1>3. TypeOK /\ Working
  BY <1>2, InRebuild
<1>4. PICK own, idx, loc : Labelled(own, idx) /\ Stored(own, idx, loc) /\ Located(own, loc) /\ Adding(own, idx)
  BY <1>3 DEF Working
<1>5. \/ at[t] = <<2, "in">> /\ 0 = 0
      \/ at[t] \in {<<2, "next">>, <<2, "w0">>} /\ 0 = src[t].cell + 1
  BY <1>1
<1>6. UNCHANGED <<cells, dst>> /\ UNCHANGED <<build, main, frame, cells, num, slots, last, where, dst, mutex, file>>
  BY <1>1
<1>7. LiveHeads' = LiveHeads
  BY <1>1, <1>2, <1>5, <1>6, MovesOn
<1>8. HeapOK(heap') /\ Chained(heap', own, idx) /\ Listed(heap', own, idx, LiveHeads', Entry, First, Size)
  BY <1>1, <1>3, <1>4, <1>7 DEF TypeOK, Labelled
<1>9. build = "mutex" => AllLabelled(heap', own)
  BY <1>1, <1>4 DEF Labelled, AllLabelled, Used, UsedOf
<1>10. \A r \in Structs : own[r] \in Heads => own[r] = own[r] /\ idx[r] = idx[r] /\ heap'.next[r] = heap.next[r]
  BY <1>1
<1>11. \A r \in Structs : own[r] \in LiveHeads' => own[r] = own[r]
  OBVIOUS
<1>12. \A l \in LiveHeads : l \notin LiveHeads' => Size[l] <= Rest[l] /\ \A r \in Structs : own[r] # l
  BY <1>7
<1>13. MoveOn(t, SourceFrom(t, 0)) /\ IInv
  BY <1>1
<1>14. QED BY ONLY t \in Threads, <1>2, <1>4, <1>5, <1>6, <1>8, <1>9, <1>10, <1>11, <1>12, <1>13, MovedOn

LEMMA HeadsAre ==
  ASSUME NEW s \in Structs
  PROVE  IsHead(s) <=> s \in Heads
<1>1. CASE s \in Heads
  BY <1>1 DEF Heads, IsHead
<1>2. CASE s = Null
  BY <1>2, StructKinds DEF Null, IsHead
<1>3. ASSUME NEW u \in Threads, NEW n \in 1 .. MaxCells, s = <<3 + u, n>>
      PROVE  ~IsHead(s) /\ s \notin Heads
  <2>1. u \in Nat
    BY Sizes DEF Threads
  <2>2. QED BY <1>3, <2>1, StructKinds DEF IsHead
<1>4. QED BY <1>1, <1>2, <1>3, StructKinds

LEMMA FinishSteps ==
  ASSUME IInv, NEW t \in Threads, at[t] \in {<<2, "next">>, <<2, "w0">>}, ~Left(t),
         MoveOn(t, SourceFrom(t, src[t].cell + 1)), NEW give \in BOOLEAN, build = "mutex" => give,
         heap' = IF give /\ src[t].struct # Null /\ ~IsHead(src[t].struct)
                   THEN Returned(heap, t, src[t].struct) ELSE heap,
         UNCHANGED <<build, main, frame, cells, num, slots, last, where, dst, mutex, file>>
  PROVE  IInv'
<1>1. at[t][1] = 2 /\ at[t] \in Inner /\ at[t] # <<2, "w2">>
  BY DEF Inner
<1>2. TypeOK /\ Working /\ HeapOK(heap)
  BY <1>1, InRebuild DEF TypeOK
<1>3. PICK own, idx, loc : Labelled(own, idx) /\ Stored(own, idx, loc) /\ Located(own, loc) /\ Adding(own, idx)
  BY <1>2 DEF Working
<1>4. /\ LiveHeads \subseteq Heads /\ Entry \in [Heads -> Structs] /\ First \in [Heads -> Nat]
      /\ Rest \in [Heads -> Nat] /\ Size \in [Heads -> Nat]
  BY <1>2, ListTypes
<1>5. PICK l \in LiveHeads :
        /\ l = SourceHead(t) /\ Entry[l] = src[t].struct /\ First[l] = src[t].j
        /\ Rest[l] = src[t].j /\ ~(First[l] < Size[l]) /\ src[t].cell \in Grid(t)
  BY <1>1, SourceOf
<1>6. PICK c \in Int : c = src[t].cell + 1
  BY <1>5, Grids DEF Cells
<1>7. Size[l] <= First[l] /\ Rest[l] = First[l]
  BY <1>4, <1>5
<1>8. Chained(heap, own, idx) /\ Listed(heap, own, idx, LiveHeads, Entry, First, Size)
  BY <1>3 DEF Labelled
<1>9. Finishes(heap, own, idx, LiveHeads, Entry, First, Size, l, give,
               IF give /\ Entry[l] # Null /\ Entry[l] \notin Heads THEN Returned(heap, t, Entry[l]) ELSE heap)
  BY ONLY t \in Threads, give \in BOOLEAN, <1>2, <1>4, <1>7, <1>8, FinishLists
<1>10. IsHead(Entry[l]) <=> Entry[l] \in Heads
  BY <1>4, HeadsAre
<1>11. Finishes(heap, own, idx, LiveHeads, Entry, First, Size, l, give, heap')
  BY <1>5, <1>9, <1>10
<1>12. PICK own2, idx2 :
         /\ HeapOK(heap') /\ Chained(heap', own2, idx2)
         /\ Listed(heap', own2, idx2, LiveHeads \ {l}, Entry, First, Size)
         /\ \A r \in Structs : own2[r] \in Heads =>
              own2[r] = own[r] /\ idx2[r] = idx[r] /\ heap'.next[r] = heap.next[r]
         /\ \A r \in Structs : own[r] \in Heads /\ own[r] # l => own2[r] = own[r]
         /\ AllLabelled(heap, own) /\ give => AllLabelled(heap', own2)
  BY <1>11 DEF Finishes
<1>13. \/ at[t] = <<2, "in">> /\ c = 0
       \/ at[t] \in {<<2, "next">>, <<2, "w0">>} /\ c = src[t].cell + 1
  BY <1>6
<1>14. /\ UNCHANGED <<cells, dst>> /\ UNCHANGED <<build, main, frame, cells, num, slots, last, where, dst, mutex, file>>
       /\ MoveOn(t, SourceFrom(t, c)) /\ IInv
  BY <1>6
<1>15. LiveHeads' = LiveHeads \ {l}
  BY <1>1, <1>5, <1>13, <1>14, MovesOn
<1>16. HeapOK(heap') /\ Chained(heap', own2, idx2) /\ Listed(heap', own2, idx2, LiveHeads', Entry, First, Size)
  BY <1>12, <1>15
<1>17. build = "mutex" => AllLabelled(heap', own2)
  <2>1. build = "mutex" => AllLabelled(heap, own)
    BY <1>3 DEF Labelled, AllLabelled, Used, UsedOf
  <2>2. QED BY <1>12, <2>1
<1>18. \A r \in Structs : own2[r] \in Heads => own2[r] = own[r] /\ idx2[r] = idx[r] /\ heap'.next[r] = heap.next[r]
  BY <1>12
<1>19. \A r \in Structs : own[r] \in LiveHeads' => own2[r] = own[r]
  BY <1>4, <1>12, <1>15
<1>20. \A k \in LiveHeads : k \notin LiveHeads' => Size[k] <= Rest[k] /\ \A r \in Structs : own2[r] # k
  <2>1. ASSUME NEW r \in Structs, own2[r] = l PROVE FALSE
    <3>1. l \in LiveHeads'
      BY <1>4, <1>16, <2>1 DEF Listed
    <3>2. QED BY <1>15, <3>1
  <2>2. QED BY <1>4, <1>7, <1>15, <2>1
<1>21. QED BY ONLY t \in Threads, c \in Int, <1>3, <1>13, <1>14, <1>16, <1>17, <1>18, <1>19, <1>20, MovedOn

LEMMA FinishCellStep ==
  ASSUME IInv, NEW t \in Threads, FinishCell(t)
  PROVE  IInv'
<1>1. UNCHANGED <<build, main, frame, cells, num, slots, last, where, dst, mutex, file>>
  BY DEF FinishCell
<1>2. /\ at[t] \in {<<2, "next">>, <<2, "w0">>} /\ ~Left(t) /\ MoveOn(t, SourceFrom(t, src[t].cell + 1)) /\ IInv
      /\ TRUE \in BOOLEAN /\ (build = "mutex" => TRUE)
      /\ heap' = IF TRUE /\ src[t].struct # Null /\ ~IsHead(src[t].struct)
                   THEN Returned(heap, t, src[t].struct) ELSE heap
  BY DEF FinishCell
<1>3. QED BY ONLY t \in Threads, <1>1, <1>2, FinishSteps

LEMMA RebuildWorker0Step ==
  ASSUME IInv, NEW t \in Threads, RebuildWorker0(t)
  PROVE  IInv'
<1>1. UNCHANGED <<build, main, frame, cells, num, slots, last, where, dst, mutex, file>>
  BY DEF RebuildWorker0, sim_vars
<1>2. build = "kernels" /\ at[t] = <<2, "w0">> /\ MoveOn(t, SourceFrom(t, src[t].cell + 1)) /\ heap' = heap
  BY DEF RebuildWorker0, sim_vars
<1>3. ~Left(t)
  BY <1>2 DEF IInv, Reading
<1>4. /\ at[t] \in {<<2, "next">>, <<2, "w0">>} /\ ~Left(t) /\ MoveOn(t, SourceFrom(t, src[t].cell + 1)) /\ IInv
      /\ FALSE \in BOOLEAN /\ (build = "mutex" => FALSE)
      /\ heap' = IF FALSE /\ src[t].struct # Null /\ ~IsHead(src[t].struct)
                   THEN Returned(heap, t, src[t].struct) ELSE heap
  BY <1>2, <1>3
<1>5. QED BY ONLY t \in Threads, <1>1, <1>4, FinishSteps

-----------------------------------------------------------------------------
(* One particle of a cell: the lists while it is read and added.            *)

LEMMA InnerStep ==
  ASSUME IInv, NEW t \in Threads, at[t] \in Inner, NEW x \in Inner, NEW e \in Structs, NEW j \in Nat, StaysIn(t, x, e, j)
  PROVE  ListsAfter(t, x, e, j)
<1>0. /\ at' = [at EXCEPT ![t] = x] /\ cells' = cells
      /\ src' = [src EXCEPT ![t] = [cell |-> @.cell, struct |-> e, j |-> j]]
  BY DEF StaysIn
<1>1. TypeOK /\ Reading
  BY DEF IInv
<1>2. /\ LiveHeads \subseteq Heads /\ Entry \in [Heads -> Structs] /\ First \in [Heads -> Nat]
      /\ Rest \in [Heads -> Nat] /\ cells2 # cells
  BY <1>1, ListTypes
<1>3. PICK l \in Heads : l = SourceHead(t) /\ OwnerOf(l[2]) = t /\ IsSource(l)
        /\ \A k \in Heads : IsSource(k) /\ OwnerOf(k[2]) = t => k = l
  BY <1>2, SourceOf
<1>4. /\ at'[t] = x /\ \A u \in Threads : u # t => at'[u] = at[u] /\ src'[u] = src[u]
      /\ src'[t] = [cell |-> src[t].cell, struct |-> e, j |-> j]
  BY <1>0, <1>1 DEF TypeOK
<1>5. src[t] \in [cell : Cells \cup {-1}, struct : Structs, j : Nat] /\ src[t].cell \in Grid(t)
  BY <1>1 DEF TypeOK, Reading
<1>6. src' \in [Threads -> [cell : Cells \cup {-1}, struct : Structs, j : Nat]]
  BY <1>0, <1>1, <1>5 DEF TypeOK
<1>7. src[t] # NoSource /\ src'[t] # NoSource
  <2>1. src[t].cell # -1 /\ src'[t].cell # -1
    BY <1>4, <1>5, Grids DEF Cells
  <2>2. QED BY <2>1 DEF NoSource
<1>8. \A u \in Threads : src'[u].cell = src[u].cell
  BY <1>4
<1>9. \A u \in Threads : Unread(u)' = Unread(u)
  <2>1. \A y \in Inner : y \notin {<<1, "in">>, <<1, "out">>, <<2, "in">>}
    BY DEF Inner
  <2>2. Unread(t) = {d \in Grid(t) : d > src[t].cell}
    BY <1>7, <2>1 DEF Unread
  <2>3. Unread(t)' = {d \in Grid(t) : d > src'[t].cell}
    BY <1>4, <1>7, <2>1 DEF Unread
  <2>4. Unread(t)' = Unread(t)
    BY <1>8, <2>2, <2>3
  <2>5. \A u \in Threads : u # t => Unread(u)' = Unread(u)
    BY <1>4 DEF Unread
  <2>6. QED BY <2>4, <2>5
<1>10. ASSUME NEW k \in Heads
       PROVE  /\ IsSource(k)' <=> IsSource(k)
              /\ k \in LiveHeads' <=> k \in LiveHeads
              /\ IF k = l THEN Entry'[k] = e /\ First'[k] = j /\ Rest'[k] = IF x = <<2, "w2">> THEN j + 1 ELSE j
                 ELSE Entry'[k] = Entry[k] /\ First'[k] = First[k] /\ Rest'[k] = Rest[k]
  <2>1. PICK u \in Threads : u = OwnerOf(k[2])
    BY Owners DEF Heads
  <2>2. IsSource(k)' <=> IsSource(k)
    BY <1>0, <1>8, <2>1 DEF IsSource
  <2>3. (at'[u] # <<1, "in">>) <=> (at[u] # <<1, "in">>)
    BY <1>4 DEF Inner
  <2>4. k \in LiveHeads' <=> k \in LiveHeads
    BY <1>0, <1>9, <2>1, <2>2, <2>3 DEF LiveHeads
  <2>5. CASE k = l
    <3>1. IsSource(k)' /\ u = t
      BY <1>3, <2>1, <2>2, <2>5
    <3>2. src'[OwnerOf(k[2])].struct = e /\ src'[OwnerOf(k[2])].j = j /\ at'[OwnerOf(k[2])] = x
      BY <1>4, <2>1, <3>1
    <3>3. Entry'[k] = e /\ First'[k] = j
      BY <3>1, <3>2 DEF Entry, First
    <3>5. Rest'[k] = IF x = <<2, "w2">> THEN j + 1 ELSE j
      <4>1. CASE x = <<2, "w2">>
        BY <3>1, <3>2, <4>1 DEF Rest
      <4>2. CASE x # <<2, "w2">>
        BY <3>2, <3>3, <4>2 DEF Rest
      <4>3. QED BY <4>1, <4>2
    <3>4. QED BY <2>2, <2>4, <2>5, <3>3, <3>5
  <2>6. CASE k # l
    <3>1. IsSource(k) => at'[u] = at[u] /\ src'[u] = src[u]
      BY <1>3, <1>4, <2>1, <2>6
    <3>2. Entry'[k] = Entry[k] /\ First'[k] = First[k]
      BY <2>1, <2>2, <3>1 DEF Entry, First
    <3>3. Rest'[k] = Rest[k]
      BY <2>1, <2>2, <3>1, <3>2 DEF Rest
    <3>4. QED BY <2>2, <2>4, <2>6, <3>2, <3>3
  <2>7. QED BY <2>5, <2>6
<1>11. LiveHeads' = LiveHeads
  <2>1. LiveHeads' \subseteq Heads
    BY DEF LiveHeads
  <2>2. QED BY <1>2, <1>10, <2>1
<1>12. Entry' = With(Entry, l, e)
  <2>1. Entry' = [k \in Heads |-> Entry'[k]] /\ Entry = [k \in Heads |-> Entry[k]]
    BY DEF Entry
  <2>2. QED BY <1>3, <1>10, <2>1 DEF With
<1>13. First' = With(First, l, j)
  <2>1. First' = [k \in Heads |-> First'[k]] /\ First = [k \in Heads |-> First[k]]
    BY DEF First
  <2>2. QED BY <1>3, <1>10, <2>1 DEF With
<1>14. Rest' = With(Rest, l, IF x = <<2, "w2">> THEN j + 1 ELSE j)
  <2>1. Rest' = [k \in Heads |-> Rest'[k]] /\ Rest = [k \in Heads |-> Rest[k]]
    BY DEF Rest
  <2>2. QED BY <1>3, <1>10, <2>1 DEF With
<1>15. QED BY <1>3, <1>4, <1>6, <1>11, <1>12, <1>13, <1>14 DEF ListsAfter

\* A step that leaves the source as it is.
LEMMA SameSource ==
  ASSUME IInv, NEW t \in Threads, at[t] \in Inner, at[t] # <<2, "w2">>, NEW x \in Inner,
         at' = [at EXCEPT ![t] = x], cells' = cells, src' = src
  PROVE  /\ at'[t] = x /\ \A u \in Threads : u # t => at'[u] = at[u]
         /\ LiveHeads' = LiveHeads /\ Entry' = Entry /\ First' = First
         /\ Rest' = IF x = <<2, "w2">> THEN Increased(Rest, SourceHead(t)) ELSE Rest
<1>1. TypeOK
  BY DEF IInv
<1>2. /\ Entry \in [Heads -> Structs] /\ First \in [Heads -> Nat] /\ Rest \in [Heads -> Nat] /\ LiveHeads \subseteq Heads
  BY <1>1, ListTypes
<1>3. PICK e \in Structs, j \in Nat : e = src[t].struct /\ j = src[t].j
  BY <1>1 DEF TypeOK
<1>4. src[t] = [cell |-> src[t].cell, struct |-> e, j |-> j]
  BY <1>1, <1>3 DEF TypeOK
<1>5. src' = [src EXCEPT ![t] = [cell |-> @.cell, struct |-> e, j |-> j]]
  BY <1>1, <1>4 DEF TypeOK
<1>6. PICK l \in Heads : l = SourceHead(t) /\ Entry[l] = e /\ First[l] = j /\ Rest[l] = j
  BY <1>2, <1>3, SourceOf
<1>7. ListsAfter(t, x, e, j)
  <2>1. StaysIn(t, x, e, j) /\ IInv /\ at[t] \in Inner
    BY <1>5 DEF StaysIn
  <2>2. QED BY ONLY t \in Threads, x \in Inner, e \in Structs, j \in Nat, <2>1, InnerStep
<1>8. With(Entry, l, e) = Entry /\ With(First, l, j) = First /\ With(Rest, l, j) = Rest
  BY <1>2, <1>6 DEF With
<1>9. QED BY <1>6, <1>7, <1>8 DEF Increased, ListsAfter

\* The cell that a thread adds to.
LEMMA TargetCell ==
  ASSUME IInv, NEW t \in Threads, at[t] \in {<<2, "add">>, <<2, "copy">>, <<2, "modify">>},
         NEW own, NEW idx, NEW loc,
         Labelled(own, idx), Stored(own, idx, loc), Located(own, loc), Adding(own, idx)
  PROVE  dst[t].cell \in Cells /\ TargetHead(t) \in Heads /\ TargetHead(t) \in LiveHeads
<1>1. TypeOK /\ Reading
  BY DEF IInv
<1>2. Left(t) /\ dst[t].cell = CellAt(where[Particle(t)])
  BY <1>1 DEF Reading
<1>3. at[t] \in Inner /\ at[t] # <<2, "w2">>
  BY DEF Inner
<1>4. dst[t].cell \in Cells
  BY <1>2, <1>3, SourceParticle
<1>5. PICK l \in Heads : l = TargetHead(t) /\ l[1] = cells /\ l[2] = dst[t].cell
  <2>1. cells \in {1, 2} /\ TargetHead(t) = <<cells, dst[t].cell>>
    BY <1>1 DEF TargetHead, TypeOK
  <2>2. TargetHead(t) \in Heads
    BY <1>4, <2>1 DEF Heads
  <2>3. QED BY <2>1, <2>2
<1>6. PICK u \in Threads : u = OwnerOf(l[2])
  BY Owners DEF Heads
<1>7. at[u][1] = 2
  <2>1. at[t][1] = 2
    OBVIOUS
  <2>2. QED BY <2>1, InRebuild
<1>8. l \in LiveHeads
  BY <1>5, <1>6, <1>7 DEF LiveHeads
<1>9. QED BY <1>4, <1>5, <1>8

LEMMA LooksUp ==
  ASSUME IInv, NEW t \in Threads, at[t] = <<2, "next">>,
         NEW x \in {<<2, "add">>, <<2, "modify">>, <<2, "w0">>}, at' = [at EXCEPT ![t] = x],
         UNCHANGED <<build, main, frame, cells, num, heap, slots, last, where, src, file>>,
         NEW d \in [cell : Cells \cup {-1}, struct : Structs, np : Nat], dst' = [dst EXCEPT ![t] = d],
         mutex' \in [Cells -> Threads \cup {NoThread}], x = <<2, "add">> <=> build = "mutex",
         x = <<2, "w0">> <=> ~Left(t), x # <<2, "w0">> => d.cell = CellAt(where[Particle(t)]),
         x = <<2, "add">> => /\ d.np = num[cells][d.cell] /\ d.struct = last[d.cell]
                             /\ border[d.cell] => mutex'[d.cell] = t,
         \A c \in Cells : \A u \in Threads : mutex[c] = u => mutex'[c] = u
  PROVE  IInv'
<1>1. at[t][1] = 2 /\ at[t] \in Inner /\ at[t] # <<2, "w2">> /\ x \in Inner /\ x # <<2, "w2">> /\ x[1] = 2 /\ x \in Labelings
  BY DEF Inner, Labelings
<1>2. TypeOK /\ Reading /\ Working
  BY <1>1, InRebuild
<1>3. PICK own, idx, loc : Labelled(own, idx) /\ Stored(own, idx, loc) /\ Located(own, loc) /\ Adding(own, idx)
  BY <1>2 DEF Working
<1>4. /\ at'[t] = x /\ \A u \in Threads : u # t => at'[u] = at[u]
      /\ LiveHeads' = LiveHeads /\ Entry' = Entry /\ First' = First /\ Rest' = Rest
  BY <1>1, SameSource
<1>5. dst'[t] = d /\ \A u \in Threads : u # t => dst'[u] = dst[u]
  BY <1>2 DEF TypeOK
<1>6. Reserved' = Reserved
  <2>1. at[t] # <<2, "copy">> /\ at'[t] # <<2, "copy">>
    BY <1>4
  <2>2. QED BY <1>4, <1>5, <2>1 DEF Reserved
<1>7. Labelled(own, idx)'
  BY <1>3, <1>4 DEF Labelled, Size, Used
<1>8. Stored(own, idx, loc)'
  BY <1>3, <1>4, <1>6 DEF Stored, Size, Particles
<1>9. Located(own, loc)'
  <2>1. at' = [at EXCEPT ![t] = x] /\ UNCHANGED <<cells, where>> /\ IInv /\ Located(own, loc)
    BY <1>3
  <2>2. Relocates(own, loc, own, loc)
    BY <1>3, InACell DEF Relocates
  <2>3. QED BY ONLY t \in Threads, <1>1, <2>1, <2>2, LocatedAgain
<1>10. Adding(own, idx)'
  <2>1. ASSUME NEW c \in Cells PROVE own[last'[c]] = <<cells', c>> /\ heap'.next[last'[c]] = Null
    <3>1. PICK u \in Threads : u = OwnerOf(c) /\ at[u][1] = 2
      BY <1>1, InRebuild, Owners
    <3>2. QED BY <1>3, <3>1 DEF Adding
  <2>2. ASSUME NEW u \in Threads, at'[u] = <<2, "add">>
        PROVE  /\ dst'[u].np = num'[cells'][dst'[u].cell] /\ dst'[u].struct = last'[dst'[u].cell]
               /\ IF border[dst'[u].cell] THEN mutex'[dst'[u].cell] = u ELSE OwnerOf(dst'[u].cell) = u
    <3>1. CASE u = t
      <4>1. x = <<2, "add">> /\ Left(t) /\ d.cell = CellAt(where[Particle(t)])
        BY <1>4, <2>2, <3>1
      <4>2. ~border[d.cell] => OwnerOf(d.cell) = t
        BY <1>1, <1>3, <4>1, SourceParticle
      <4>3. QED BY <1>5, <3>1, <4>1, <4>2
    <3>2. CASE u # t
      <4>1. at[u] = <<2, "add">> /\ dst'[u] = dst[u]
        BY <1>4, <1>5, <2>2, <3>2
      <4>2. dst[u].cell \in Cells
        BY <1>3, <4>1, TargetCell
      <4>3. border[dst[u].cell] => mutex'[dst[u].cell] = u
        BY <1>3, <4>1, <4>2 DEF Adding
      <4>4. QED BY <1>3, <4>1, <4>3 DEF Adding
    <3>3. QED BY <3>1, <3>2
  <2>3. \A u \in Threads : at'[u] = <<2, "copy">> => at[u] = <<2, "copy">> /\ dst'[u] = dst[u]
    BY <1>4, <1>5
  <2>4. ASSUME NEW u \in Threads, at'[u] = <<2, "copy">>
        PROVE  /\ own[dst'[u].struct] = <<cells', dst'[u].cell>> /\ dst'[u].np < num'[cells'][dst'[u].cell]
               /\ Base(idx[dst'[u].struct]) + (dst'[u].np % PPC) = dst'[u].np
    <3>1. /\ own[dst[u].struct] = <<cells, dst[u].cell>> /\ dst[u].np < num[cells][dst[u].cell]
          /\ Base(idx[dst[u].struct]) + (dst[u].np % PPC) = dst[u].np
      BY <1>3, <2>3, <2>4 DEF Adding
    <3>2. QED BY <2>3, <2>4, <3>1
  <2>5. ASSUME NEW u \in Threads, NEW v \in Threads, at'[u] = <<2, "copy">>, at'[v] = <<2, "copy">>, u # v
        PROVE  dst'[u].struct # dst'[v].struct \/ dst'[u].np # dst'[v].np
    BY <1>3, <2>3, <2>5 DEF Adding
  <2>6. QED BY <2>1, <2>2, <2>4, <2>5 DEF Adding
<1>11. Working'
  BY <1>7, <1>8, <1>9, <1>10 DEF Working
<1>12. Reading'
  <2>1. \A u \in Threads : (Left(u)' <=> Left(u)) /\ Particle(u)' = Particle(u)
    BY DEF Left, Particle, cells2
  <2>2. ASSUME NEW u \in Threads
        PROVE  /\ at'[u] \in {<<2, "add">>, <<2, "copy">>} => build' = "mutex"
               /\ at'[u] \in {<<2, "w0">>, <<2, "modify">>, <<2, "w2">>} => build' = "kernels"
               /\ at'[u] \in Inner <=> src'[u] # NoSource
               /\ src'[u] # NoSource => src'[u].cell \in Grid(u)
               /\ at'[u] = <<2, "w0">> => ~Left(u)'
               /\ at'[u] \in {<<2, "add">>, <<2, "copy">>, <<2, "modify">>, <<2, "w2">>} => Left(u)'
               /\ at'[u] \in {<<2, "add">>, <<2, "copy">>, <<2, "modify">>} => dst'[u].cell = CellAt(where'[Particle(u)'])
    <3>1. CASE u = t
      <4>1. build \in {"mutex", "kernels"} /\ src[t] # NoSource /\ src[t].cell \in Grid(t)
        BY <1>1, <1>2 DEF TypeOK, Reading
      <4>2. at'[t] = x /\ dst'[t].cell = d.cell /\ (Left(t)' <=> Left(t)) /\ Particle(t)' = Particle(t)
        BY <1>4, <1>5, <2>1
      <4>3. QED BY <1>1, <3>1, <4>1, <4>2
    <3>2. CASE u # t
      <4>1. at'[u] = at[u] /\ src'[u] = src[u] /\ dst'[u] = dst[u] /\ (Left(u)' <=> Left(u)) /\ Particle(u)' = Particle(u)
        BY <1>4, <1>5, <2>1, <3>2
      <4>2. QED BY <1>2, <4>1 DEF Reading
    <3>3. QED BY <3>1, <3>2
  <2>3. QED BY <2>2 DEF Reading
<1>13. dst' \in [Threads -> [cell : Cells \cup {-1}, struct : Structs, np : Nat]]
  BY <1>2 DEF TypeOK
<1>14. QED BY <1>1, <1>2, <1>11, <1>12, <1>13, RebuildStep DEF TypeOK

LEMMA LockCellStep ==
  ASSUME IInv, NEW t \in Threads, LockCell(t)
  PROVE  IInv'
<1>1. PICK c : c = CellAt(where[Particle(t)])
  OBVIOUS
<1>2. /\ build = "mutex" /\ at[t] = <<2, "next">> /\ Left(t) /\ at' = [at EXCEPT ![t] = <<2, "add">>]
      /\ IF border[c] THEN mutex[c] = NoThread /\ mutex' = [mutex EXCEPT ![c] = t] ELSE mutex' = mutex
      /\ dst' = [dst EXCEPT ![t] = [cell |-> c, struct |-> last[c], np |-> num[cells][c]]]
  BY <1>1 DEF LockCell
<1>3. UNCHANGED <<build, main, frame, cells, num, heap, slots, last, where, src, file>>
  BY DEF LockCell, sim_vars
<1>4. at[t] \in Inner /\ at[t] # <<2, "w2">> /\ at[t][1] = 2
  BY <1>2 DEF Inner
<1>5. TypeOK /\ Working /\ cells \in {1, 2}
  BY <1>4, InRebuild DEF TypeOK
<1>6. c \in Cells
  <2>1. PICK own, idx, loc : Labelled(own, idx) /\ Stored(own, idx, loc) /\ Located(own, loc) /\ Adding(own, idx)
    BY <1>5 DEF Working
  <2>2. QED BY <1>1, <1>2, <1>4, <2>1, SourceParticle
<1>7. PICK d \in [cell : Cells \cup {-1}, struct : Structs, np : Nat] :
        d = [cell |-> c, struct |-> last[c], np |-> num[cells][c]]
  BY <1>5, <1>6 DEF TypeOK
<1>8. dst' = [dst EXCEPT ![t] = d]
  BY <1>2, <1>7
<1>9. mutex' \in [Cells -> Threads \cup {NoThread}]
  BY <1>2, <1>5, <1>6 DEF TypeOK
<1>10. NoThread \notin Threads
  BY Sizes DEF Threads, NoThread
<1>11. \A b \in Cells : \A u \in Threads : mutex[b] = u => mutex'[b] = u
  BY <1>2, <1>5, <1>6, <1>10 DEF TypeOK
<1>12. border[c] => mutex'[c] = t
  BY <1>2, <1>5, <1>6 DEF TypeOK
<1>13. PICK x \in {<<2, "add">>, <<2, "modify">>, <<2, "w0">>} : x = <<2, "add">>
  OBVIOUS
<1>14. /\ at[t] = <<2, "next">> /\ at' = [at EXCEPT ![t] = x] /\ IInv
       /\ x = <<2, "add">> <=> build = "mutex"
       /\ x = <<2, "w0">> <=> ~Left(t)
       /\ x # <<2, "w0">> => d.cell = CellAt(where[Particle(t)])
       /\ x = <<2, "add">> => /\ d.np = num[cells][d.cell] /\ d.struct = last[d.cell]
                              /\ border[d.cell] => mutex'[d.cell] = t
  BY <1>1, <1>2, <1>7, <1>12, <1>13
<1>15. QED BY ONLY t \in Threads, x \in {<<2, "add">>, <<2, "modify">>, <<2, "w0">>},
          d \in [cell : Cells \cup {-1}, struct : Structs, np : Nat], <1>3, <1>8, <1>9, <1>11, <1>14, LooksUp

LEMMA RebuildWorker1Step ==
  ASSUME IInv, NEW t \in Threads, RebuildWorker1(t)
  PROVE  IInv'
<1>1. build = "kernels" /\ at[t] = <<2, "next">> /\ mutex' = mutex
  BY DEF RebuildWorker1
<1>2. IF Left(t) THEN /\ dst' = [dst EXCEPT ![t] = [NoTarget EXCEPT !.cell = CellAt(where[Particle(t)])]]
                      /\ at' = [at EXCEPT ![t] = <<2, "modify">>]
                 ELSE dst' = dst /\ at' = [at EXCEPT ![t] = <<2, "w0">>]
  BY DEF RebuildWorker1
<1>3. UNCHANGED <<build, main, frame, cells, num, heap, slots, last, where, src, file>>
  BY DEF RebuildWorker1, sim_vars
<1>4. at[t] \in Inner /\ at[t] # <<2, "w2">> /\ at[t][1] = 2
  BY <1>1 DEF Inner
<1>5. TypeOK /\ Working
  BY <1>4, InRebuild
<1>6. PICK x \in {<<2, "add">>, <<2, "modify">>, <<2, "w0">>} : x = IF Left(t) THEN <<2, "modify">> ELSE <<2, "w0">>
  OBVIOUS
<1>7. Left(t) => CellAt(where[Particle(t)]) \in Cells
  <2>1. PICK own, idx, loc : Labelled(own, idx) /\ Stored(own, idx, loc) /\ Located(own, loc) /\ Adding(own, idx)
    BY <1>5 DEF Working
  <2>2. QED BY <1>4, <2>1, SourceParticle
<1>8. PICK d \in [cell : Cells \cup {-1}, struct : Structs, np : Nat] :
        /\ dst' = [dst EXCEPT ![t] = d]
        /\ Left(t) => d.cell = CellAt(where[Particle(t)])
  <2>1. CASE Left(t)
    <3>1. [NoTarget EXCEPT !.cell = CellAt(where[Particle(t)])] \in [cell : Cells \cup {-1}, struct : Structs, np : Nat]
      BY <1>7, <2>1, StructKinds DEF NoTarget
    <3>2. [NoTarget EXCEPT !.cell = CellAt(where[Particle(t)])].cell = CellAt(where[Particle(t)])
      BY DEF NoTarget
    <3>3. QED BY <1>2, <2>1, <3>1, <3>2
  <2>2. CASE ~Left(t)
    <3>1. dst[t] \in [cell : Cells \cup {-1}, struct : Structs, np : Nat]
      BY <1>5 DEF TypeOK
    <3>2. dst' = [dst EXCEPT ![t] = dst[t]]
      BY <1>2, <1>5, <2>2 DEF TypeOK
    <3>3. QED BY <2>2, <3>1, <3>2
  <2>3. QED BY <2>1, <2>2
<1>9. mutex' \in [Cells -> Threads \cup {NoThread}] /\ \A b \in Cells : \A u \in Threads : mutex[b] = u => mutex'[b] = u
  BY <1>1, <1>5 DEF TypeOK
<1>10. x # <<2, "add">> /\ (x = <<2, "w0">> <=> ~Left(t))
  BY <1>6
<1>11. at' = [at EXCEPT ![t] = x]
  BY <1>2, <1>6
<1>12. /\ at[t] = <<2, "next">> /\ at' = [at EXCEPT ![t] = x] /\ IInv
       /\ x = <<2, "add">> <=> build = "mutex"
       /\ x = <<2, "w0">> <=> ~Left(t)
       /\ x # <<2, "w0">> => d.cell = CellAt(where[Particle(t)])
       /\ x = <<2, "add">> => /\ d.np = num[cells][d.cell] /\ d.struct = last[d.cell]
                              /\ border[d.cell] => mutex'[d.cell] = t
  BY <1>1, <1>8, <1>10, <1>11
<1>13. QED BY ONLY t \in Threads, x \in {<<2, "add">>, <<2, "modify">>, <<2, "w0">>},
          d \in [cell : Cells \cup {-1}, struct : Structs, np : Nat], <1>3, <1>8, <1>9, <1>12, LooksUp

\* Room for one particle more in the list of a cell, with another structure if all are full.
LEMMA InsertsOne ==
  ASSUME IInv, NEW t \in Threads, at[t] \in {<<2, "add">>, <<2, "modify">>}, Inserts(t), NEW own, NEW idx, NEW loc,
         Labelled(own, idx), Stored(own, idx, loc), Located(own, loc), Adding(own, idx)
  PROVE  /\ num' \in [{1, 2} -> [Cells -> Nat]] /\ HeapOK(heap') /\ last' \in [Cells -> Structs]
         /\ last'[dst[t].cell] = NewStruct(t) /\ \A c \in Cells : c # dst[t].cell => last'[c] = last[c]
         /\ num'[cells2] = num[cells2] /\ num'[cells][dst[t].cell] = num[cells][dst[t].cell] + 1
         /\ \A c \in Cells : num'[cells][c] >= num[cells][c] /\ (c # dst[t].cell => num'[cells][c] = num[cells][c])
         /\ NewStruct(t) \in Structs /\ heap'.next[NewStruct(t)] = Null
         /\ Size' = Increased(Size, TargetHead(t)) /\ Size[TargetHead(t)] = num[cells][dst[t].cell]
         /\ \E own2, idx2 : Inserted(own, idx, t, own2, idx2)
<1>1. TypeOK /\ HeapOK(heap) /\ num \in [{1, 2} -> [Cells -> Nat]] /\ last \in [Cells -> Structs] /\ cells \in {1, 2}
  BY DEF IInv, TypeOK
<1>2. /\ LiveHeads \subseteq Heads /\ Entry \in [Heads -> Structs] /\ First \in [Heads -> Nat]
      /\ Rest \in [Heads -> Nat] /\ Size \in [Heads -> Nat] /\ cells2 \in {1, 2} /\ cells2 # cells
  BY <1>1, ListTypes
<1>3. PICK c \in Cells, l \in LiveHeads : c = dst[t].cell /\ l = TargetHead(t)
  BY TargetCell
<1>4. l = <<cells, c>> /\ l \in Heads
  BY <1>2, <1>3 DEF TargetHead
<1>5. PICK e \in Structs : e = last[c] /\ own[e] = l /\ heap.next[e] = Null
  <2>1. PICK u \in Threads : u = OwnerOf(c)
    BY Owners
  <2>2. at[t][1] = 2
    OBVIOUS
  <2>3. at[u][1] = 2
    BY <2>2, InRebuild
  <2>4. QED BY <1>1, <1>4, <2>1, <2>3 DEF Adding
<1>6. PICK n \in Nat : n = num[cells][c] /\ n = Size[l]
  BY <1>1, <1>4 DEF Size
<1>7. PICK full \in BOOLEAN : (full <=> IsFull(t)) /\ (full <=> Size[l] % PPC = 0 /\ Size[l] # 0)
  <2>1. PICK full \in BOOLEAN : full <=> IsFull(t)
    OBVIOUS
  <2>2. IsFull(t) <=> Size[l] % PPC = 0 /\ Size[l] # 0
    BY <1>3, <1>6 DEF IsFull
  <2>3. QED BY <2>1, <2>2
<1>8. /\ full => HasRoom(heap, t)
      /\ NewStruct(t) = IF full THEN Got(heap, t).cell ELSE e
      /\ heap' = IF full THEN Linked(Got(heap, t).heap, e, Got(heap, t).cell) ELSE heap
  BY <1>3, <1>5, <1>7 DEF Inserts, NewStruct
<1>9. Chained(heap, own, idx) /\ Listed(heap, own, idx, LiveHeads, Entry, First, Size)
  BY DEF Labelled
<1>10. Extends(heap, own, idx, LiveHeads, Entry, First, Size, l, e, full, IF full THEN Got(heap, t).cell ELSE e,
               IF full THEN Linked(Got(heap, t).heap, e, Got(heap, t).cell) ELSE heap)
  BY ONLY t \in Threads, <1>1, <1>2, <1>5, <1>7, <1>8, <1>9, AddLists
<1>11. PICK to : to = NewStruct(t)
  OBVIOUS
<1>12. Extends(heap, own, idx, LiveHeads, Entry, First, Size, l, e, full, to, heap')
  BY <1>8, <1>10, <1>11
<1>13. HeapOK(heap') /\ to \in Structs /\ heap'.next[to] = Null /\ (full => own[to] \notin Heads)
  BY <1>12 DEF Extends
<1>14. PICK own2, idx2 :
         /\ Chained(heap', own2, idx2)
         /\ Listed(heap', own2, idx2, LiveHeads, Entry, First, Increased(Size, l))
         /\ own2[to] = l /\ Base(idx2[to]) + (Size[l] % PPC) = Size[l]
         /\ \A s \in Structs : own[s] \in Heads =>
              own2[s] = own[s] /\ idx2[s] = idx[s] /\ (s # e => heap'.next[s] = heap.next[s])
         /\ \A s \in Structs : own2[s] \in Heads /\ s # to => own[s] = own2[s]
         /\ AllLabelled(heap, own) => AllLabelled(heap', own2)
  BY <1>12 DEF Extends
<1>15. /\ last' = [last EXCEPT ![c] = to] /\ num' = [num EXCEPT ![cells] = [@ EXCEPT ![c] = num[cells][c] + 1]]
       /\ build' = build /\ cells' = cells /\ LiveHeads' = LiveHeads /\ Entry' = Entry /\ First' = First
  BY <1>3, <1>11 DEF Inserts
<1>16. /\ last' \in [Cells -> Structs] /\ last'[c] = to /\ \A d \in Cells : d # c => last'[d] = last[d]
       /\ num' \in [{1, 2} -> [Cells -> Nat]] /\ num'[cells2] = num[cells2] /\ num'[cells][c] = n + 1
       /\ \A d \in Cells : d # c => num'[cells][d] = num[cells][d]
  <2>1. last' \in [Cells -> Structs] /\ last'[c] = to /\ \A d \in Cells : d # c => last'[d] = last[d]
    BY <1>1, <1>13, <1>15
  <2>2. PICK f \in [Cells -> Nat] : f = [num[cells] EXCEPT ![c] = num[cells][c] + 1]
    <3>1. num[cells] \in [Cells -> Nat]
      BY <1>1
    <3>2. PICK g \in [Cells -> Nat] : g = num[cells]
      BY <3>1
    <3>3. [g EXCEPT ![c] = g[c] + 1] \in [Cells -> Nat]
      OBVIOUS
    <3>4. QED BY <3>2, <3>3
  <2>3. num' = [num EXCEPT ![cells] = f]
    <3>1. num' = [num EXCEPT ![cells] = [num[cells] EXCEPT ![c] = num[cells][c] + 1]]
      BY <1>15
    <3>2. QED BY <2>2, <3>1
  <2>4. f[c] = n + 1 /\ \A d \in Cells : d # c => f[d] = num[cells][d]
    BY <1>1, <1>6, <2>2
  <2>5. QED BY <1>1, <1>2, <2>1, <2>3, <2>4
<1>17. Size' = Increased(Size, l)
  <2>1. Size = [k \in Heads |-> Size[k]] /\ Size' = [k \in Heads |-> Size'[k]]
    BY DEF Size
  <2>2. ASSUME NEW k \in Heads PROVE Size'[k] = IF k = l THEN Size[l] + 1 ELSE Size[k]
    <3>1. k[1] \in {1, 2} /\ k[2] \in Cells /\ k = <<k[1], k[2]>>
      BY DEF Heads
    <3>2. Size'[k] = num'[k[1]][k[2]] /\ Size[k] = num[k[1]][k[2]]
      BY DEF Size
    <3>3. CASE k = l
      BY <1>4, <1>6, <1>16, <3>2, <3>3
    <3>4. CASE k # l /\ k[1] = cells
      <4>1. k[2] # c
        BY <1>4, <3>1, <3>4
      <4>2. QED BY <1>16, <3>1, <3>2, <3>4, <4>1
    <3>5. CASE k # l /\ k[1] # cells
      <4>1. k[1] = cells2
        BY <1>1, <3>5, ListTypes
      <4>2. QED BY <1>16, <3>2, <3>5, <4>1
    <3>6. QED BY <3>3, <3>4, <3>5
  <2>3. QED BY <1>4, <2>1, <2>2 DEF Increased, With
<1>18. Labelled(own2, idx2)'
  <2>1. Listed(heap', own2, idx2, LiveHeads', Entry', First', Size')
    BY <1>14, <1>15, <1>17
  <2>2. build' = "mutex" => \A s \in Used' : own2[s] # Null
    BY <1>14, <1>15 DEF Labelled, AllLabelled, Used, UsedOf
  <2>3. QED BY <1>14, <2>1, <2>2 DEF Labelled
<1>19. NewPlace(own, idx, own2, idx2, Rest, Size, l, to)
  <2>1. Strung(heap'.next, heap'.used, own2, idx2)
    BY <1>14 DEF Chained
  <2>2. Rest[l] <= Size[l]
    <3>1. Rest[l] = 0
      BY <1>4 DEF Rest, First, IsSource
    <3>2. QED BY <1>2, <1>4, <3>1
  <2>3. own[to] \in Heads \/ Size[l] % PPC = 0
    BY <1>4, <1>5, <1>7, <1>8, <1>11
  <2>4. \A s \in Structs : own[s] \in Heads => own2[s] = own[s] /\ idx2[s] = idx[s]
    BY <1>14
  <2>5. QED BY ONLY <1>2, <1>4, <1>13, <1>14, <2>1, <2>2, <2>3, <2>4, PlacesAdded
<1>20. Inserted(own, idx, t, own2, idx2)
  BY <1>3, <1>5, <1>6, <1>11, <1>14, <1>18, <1>19 DEF Inserted
<1>21. \A d \in Cells : num'[cells][d] >= num[cells][d]
  <2>1. ASSUME NEW d \in Cells PROVE num'[cells][d] >= num[cells][d]
    <3>1. PICK m \in Nat : m = num[cells][d]
      BY <1>1
    <3>2. num'[cells][d] = m \/ num'[cells][d] = m + 1
      BY <1>6, <1>16, <3>1
    <3>3. QED BY <3>1, <3>2
  <2>2. QED BY <2>1
<1>22. QED BY <1>3, <1>6, <1>11, <1>13, <1>16, <1>17, <1>20, <1>21

LEMMA AddToCellStep ==
  ASSUME IInv, NEW t \in Threads, AddToCell(t)
  PROVE  IInv'
<1>1. /\ at[t] = <<2, "add">> /\ at' = [at EXCEPT ![t] = <<2, "copy">>]
      /\ build' = build /\ main' = main /\ frame' = frame /\ cells' = cells /\ slots' = slots
      /\ where' = where /\ src' = src /\ file' = file
      /\ mutex' = [mutex EXCEPT ![dst[t].cell] = IF @ = t THEN NoThread ELSE @]
      /\ num' = [num EXCEPT ![cells] = [@ EXCEPT ![dst[t].cell] = num[cells][dst[t].cell] + 1]]
  BY DEF AddToCell
<1>2. PICK x \in Inner : x = <<2, "copy">> /\ x # <<2, "w2">> /\ x[1] = 2 /\ x \in Labelings
  BY DEF Inner, Labelings
<1>3. at[t] \in Inner /\ at[t] # <<2, "w2">> /\ at[t][1] = 2 /\ at[t] \in {<<2, "add">>, <<2, "modify">>}
      /\ at[t] \in {<<2, "add">>, <<2, "copy">>, <<2, "modify">>}
  BY <1>1 DEF Inner
<1>4. TypeOK /\ Reading /\ Working /\ build = "mutex" /\ Left(t)
  BY <1>1, <1>3, InRebuild DEF Reading
<1>5. PICK own, idx, loc : Labelled(own, idx) /\ Stored(own, idx, loc) /\ Located(own, loc) /\ Adding(own, idx)
  BY <1>4 DEF Working
<1>6. PICK c \in Cells : c = dst[t].cell /\ TargetHead(t) \in Heads /\ TargetHead(t) = <<cells, c>>
  BY <1>3, <1>5, TargetCell DEF TargetHead
<1>7. /\ dst[t].np = num[cells][c] /\ dst[t].struct = last[c]
      /\ IF border[c] THEN mutex[c] = t ELSE OwnerOf(c) = t
  BY <1>1, <1>5, <1>6 DEF Adding
<1>8. /\ at'[t] = x /\ \A u \in Threads : u # t => at'[u] = at[u]
      /\ LiveHeads' = LiveHeads /\ Entry' = Entry /\ First' = First /\ Rest' = Rest
  BY <1>1, <1>2, <1>3, SameSource
<1>9. PICK to : to = NewStruct(t)
  OBVIOUS
<1>10. /\ IsFull(t) => HasRoom(heap, t)
       /\ heap' = IF IsFull(t) THEN Linked(Got(heap, t).heap, last[c], Got(heap, t).cell) ELSE heap
       /\ last' = IF IsFull(t) THEN [last EXCEPT ![c] = to] ELSE last
       /\ dst' = IF IsFull(t) THEN [dst EXCEPT ![t] = [@ EXCEPT !.struct = to]] ELSE dst
  <2>1. IsFull(t) <=> dst[t].np % PPC = 0 /\ num[cells][dst[t].cell] # 0
    BY <1>6, <1>7 DEF IsFull
  <2>2. IsFull(t) => to = Got(heap, t).cell
    BY <1>9 DEF NewStruct
  <2>3. CASE IsFull(t)
    BY <1>6, <1>7, <2>1, <2>2, <2>3 DEF AddToCell
  <2>4. CASE ~IsFull(t)
    BY <2>1, <2>4 DEF AddToCell
  <2>5. QED BY <2>3, <2>4
<1>11. last' = [last EXCEPT ![c] = to]
  <2>1. ~IsFull(t) => to = last[c]
    BY <1>6, <1>9 DEF NewStruct
  <2>2. QED BY <1>4, <1>10, <2>1 DEF TypeOK
<1>12. Inserts(t)
  BY <1>1, <1>6, <1>8, <1>9, <1>10, <1>11 DEF Inserts
<1>13. /\ num' \in [{1, 2} -> [Cells -> Nat]] /\ HeapOK(heap') /\ last' \in [Cells -> Structs]
       /\ last'[c] = to /\ \A d \in Cells : d # c => last'[d] = last[d]
       /\ num'[cells2] = num[cells2] /\ num'[cells][c] = num[cells][c] + 1
       /\ \A d \in Cells : num'[cells][d] >= num[cells][d] /\ (d # c => num'[cells][d] = num[cells][d])
       /\ to \in Structs /\ heap'.next[to] = Null
       /\ Size' = Increased(Size, TargetHead(t)) /\ Size[TargetHead(t)] = num[cells][c]
       /\ \E own2, idx2 : Inserted(own, idx, t, own2, idx2)
  BY <1>3, <1>5, <1>6, <1>9, <1>12, InsertsOne
<1>14. PICK own2, idx2 : Inserted(own, idx, t, own2, idx2)
  BY <1>13
<1>15. /\ Labelled(own2, idx2)' /\ own2[to] = <<cells, c>> /\ Base(idx2[to]) + (num[cells][c] % PPC) = num[cells][c]
       /\ \A s \in Structs : own[s] \in Heads =>
            own2[s] = own[s] /\ idx2[s] = idx[s] /\ (s # last[c] => heap'.next[s] = heap.next[s])
       /\ \A s \in Structs : own2[s] \in Heads /\ s # to => own[s] = own2[s]
       /\ NewPlace(own, idx, own2, idx2, Rest, Size, <<cells, c>>, to)
  BY <1>6, <1>9, <1>14 DEF Inserted
<1>16. /\ dst'[t] = [cell |-> c, struct |-> to, np |-> num[cells][c]]
       /\ \A u \in Threads : u # t => dst'[u] = dst[u]
       /\ dst' \in [Threads -> [cell : Cells \cup {-1}, struct : Structs, np : Nat]]
  <2>1. dst[t] = [cell |-> c, struct |-> last[c], np |-> num[cells][c]]
    BY <1>4, <1>6, <1>7 DEF TypeOK
  <2>2. CASE IsFull(t)
    <3>1. dst' = [dst EXCEPT ![t] = [cell |-> c, struct |-> to, np |-> num[cells][c]]]
      <4>1. [dst[t] EXCEPT !.struct = to] = [cell |-> c, struct |-> to, np |-> num[cells][c]]
        BY <2>1
      <4>2. QED BY <1>10, <2>2, <4>1
    <3>2. [cell |-> c, struct |-> to, np |-> num[cells][c]] \in [cell : Cells \cup {-1}, struct : Structs, np : Nat]
      BY <1>4, <1>13 DEF TypeOK
    <3>3. QED BY <1>4, <3>1, <3>2 DEF TypeOK
  <2>3. CASE ~IsFull(t)
    <3>1. to = last[c] /\ dst' = dst
      BY <1>6, <1>9, <1>10, <2>3 DEF NewStruct
    <3>2. QED BY <1>4, <2>1, <3>1 DEF TypeOK
  <2>4. QED BY <2>2, <2>3
<1>17. Reserved' = Reserved \cup {<<to, num[cells][c] % PPC>>}
  <2>1. ASSUME NEW v \in Reserved' PROVE v \in Reserved \cup {<<to, num[cells][c] % PPC>>}
    <3>1. PICK u \in Threads : at'[u] = <<2, "copy">> /\ v = <<dst'[u].struct, dst'[u].np % PPC>>
      BY DEF Reserved
    <3>2. CASE u = t
      BY <1>16, <3>1, <3>2
    <3>3. CASE u # t
      <4>1. at[u] = <<2, "copy">> /\ v = <<dst[u].struct, dst[u].np % PPC>>
        BY <1>8, <1>16, <3>1, <3>3
      <4>2. QED BY <4>1 DEF Reserved
    <3>4. QED BY <3>2, <3>3
  <2>2. ASSUME NEW v \in Reserved PROVE v \in Reserved'
    <3>1. PICK u \in Threads : at[u] = <<2, "copy">> /\ v = <<dst[u].struct, dst[u].np % PPC>>
      BY DEF Reserved
    <3>2. u # t
      BY <1>1, <3>1
    <3>3. at'[u] = <<2, "copy">> /\ v = <<dst'[u].struct, dst'[u].np % PPC>>
      BY <1>8, <1>16, <3>1, <3>2
    <3>4. QED BY <3>3 DEF Reserved
  <2>3. <<to, num[cells][c] % PPC>> \in Reserved'
    <3>1. at'[t] = <<2, "copy">> /\ <<to, num[cells][c] % PPC>> = <<dst'[t].struct, dst'[t].np % PPC>>
      BY <1>2, <1>8, <1>16
    <3>2. QED BY <3>1 DEF Reserved
  <2>4. QED BY <2>1, <2>2, <2>3
<1>18. Stored(own2, idx2, loc)'
  <2>1. PICK A, new : A = Places(own, idx, Rest, Size) /\ new = <<to, num[cells][c] % PPC>>
    OBVIOUS
  <2>2. new \notin A /\ Places(own2, idx2, Rest, Size') = A \cup {new}
    BY <1>6, <1>13, <1>15, <2>1 DEF NewPlace
  <2>3. Places(own2, idx2, Rest', Size') \ Reserved' = A \ Reserved
    BY <1>8, <1>17, <2>1, <2>2
  <2>4. Placed(slots, A \ Reserved, loc, Particles) /\ Particles' = Particles
    BY <1>1, <1>5, <2>1 DEF Stored, Particles
  <2>5. QED BY <1>1, <2>3, <2>4 DEF Stored
<1>19. Located(own2, loc)'
  <2>1. at' = [at EXCEPT ![t] = x] /\ UNCHANGED <<cells, where>> /\ IInv /\ Located(own, loc)
    BY <1>1, <1>2, <1>5
  <2>2. ASSUME NEW p \in Particles
        PROVE  own2[loc[p][1]] \in Heads /\ own2[loc[p][1]] = own[loc[p][1]]
    <3>1. own[loc[p][1]] \in Heads /\ loc[p][1] \in Structs
      BY <1>5, InACell DEF Slots
    <3>2. QED BY <1>15, <3>1
  <2>3. Relocates(own, loc, own2, loc)
    BY <2>2 DEF Relocates
  <2>4. at[t][1] = 2 /\ x[1] = 2
    BY <1>2, <1>3
  <2>5. QED BY ONLY t \in Threads, <2>1, <2>3, <2>4, LocatedAgain
<1>20. Adding(own2, idx2)'
  <2>1. ASSUME NEW d \in Cells PROVE own2[last'[d]] = <<cells', d>> /\ heap'.next[last'[d]] = Null
    <3>1. CASE d = c
      BY <1>1, <1>13, <1>15, <3>1
    <3>2. CASE d # c
      <4>1. PICK u \in Threads : u = OwnerOf(d) /\ at[u][1] = 2
        BY <1>3, InRebuild, Owners
      <4>2. own[last[d]] = <<cells, d>> /\ heap.next[last[d]] = Null
        BY <1>5, <4>1 DEF Adding
      <4>3. <<cells, d>> \in Heads /\ last[d] \in Structs /\ last'[d] = last[d]
        BY <1>4, <1>13, <3>2 DEF Heads, TypeOK
      <4>4. own[last[c]] = <<cells, c>>
        <5>1. PICK v \in Threads : v = OwnerOf(c) /\ at[v][1] = 2
          BY <1>3, InRebuild, Owners
        <5>2. QED BY <1>5, <5>1 DEF Adding
      <4>5. last[d] # last[c]
        BY <3>2, <4>2, <4>4
      <4>6. QED BY <1>1, <1>15, <4>2, <4>3, <4>5
    <3>3. QED BY <3>1, <3>2
  <2>2. ASSUME NEW u \in Threads, at'[u] = <<2, "add">>
        PROVE  /\ dst'[u].np = num'[cells'][dst'[u].cell] /\ dst'[u].struct = last'[dst'[u].cell]
               /\ IF border[dst'[u].cell] THEN mutex'[dst'[u].cell] = u ELSE OwnerOf(dst'[u].cell) = u
    <3>1. u # t /\ at[u] = <<2, "add">> /\ dst'[u] = dst[u]
      BY <1>2, <1>8, <1>16, <2>2
    <3>2. dst[u].cell \in Cells
      BY <1>5, <3>1, TargetCell
    <3>3. /\ dst[u].np = num[cells][dst[u].cell] /\ dst[u].struct = last[dst[u].cell]
          /\ IF border[dst[u].cell] THEN mutex[dst[u].cell] = u ELSE OwnerOf(dst[u].cell) = u
      BY <1>5, <3>1 DEF Adding
    <3>4. dst[u].cell # c
      BY <1>7, <3>1, <3>3
    <3>5. mutex'[dst[u].cell] = mutex[dst[u].cell]
      BY <1>1, <1>4, <1>6, <3>2, <3>4 DEF TypeOK
    <3>6. num'[cells][dst[u].cell] = num[cells][dst[u].cell] /\ last'[dst[u].cell] = last[dst[u].cell]
      BY <1>13, <3>2, <3>4
    <3>7. QED BY <1>1, <3>1, <3>3, <3>5, <3>6
  <2>3. ASSUME NEW u \in Threads, at[u] = <<2, "copy">>, u # t
        PROVE  /\ dst'[u] = dst[u] /\ own[dst[u].struct] = <<cells, dst[u].cell>> /\ dst[u].np < num[cells][dst[u].cell]
               /\ Base(idx[dst[u].struct]) + (dst[u].np % PPC) = dst[u].np
               /\ own2[dst[u].struct] = own[dst[u].struct] /\ idx2[dst[u].struct] = idx[dst[u].struct]
               /\ dst[u].cell \in Cells /\ dst[u].np \in Nat
    <3>1. /\ own[dst[u].struct] = <<cells, dst[u].cell>> /\ dst[u].np < num[cells][dst[u].cell]
          /\ Base(idx[dst[u].struct]) + (dst[u].np % PPC) = dst[u].np
      BY <1>5, <2>3 DEF Adding
    <3>2. dst[u].cell \in Cells /\ TargetHead(u) \in Heads
      BY <1>5, <2>3, TargetCell
    <3>3. own[dst[u].struct] \in Heads /\ dst[u].struct \in Structs /\ dst[u].np \in Nat
      BY <1>4, <3>1, <3>2 DEF TargetHead, TypeOK
    <3>4. QED BY <1>15, <1>16, <2>3, <3>1, <3>2, <3>3
  <2>4. num[cells][c] \in Nat /\ num \in [{1, 2} -> [Cells -> Nat]] /\ cells \in {1, 2}
    BY <1>4 DEF TypeOK
  <2>5. ASSUME NEW u \in Threads, at'[u] = <<2, "copy">>
        PROVE  /\ own2[dst'[u].struct] = <<cells', dst'[u].cell>> /\ dst'[u].np < num'[cells'][dst'[u].cell]
               /\ Base(idx2[dst'[u].struct]) + (dst'[u].np % PPC) = dst'[u].np
    <3>1. CASE u = t
      <4>1. num[cells][c] < num'[cells][c]
        BY <1>13, <2>4
      <4>2. QED BY <1>1, <1>15, <1>16, <3>1, <4>1
    <3>2. CASE u # t
      <4>1. at[u] = <<2, "copy">>
        BY <1>8, <2>5, <3>2
      <4>2. /\ dst'[u] = dst[u] /\ own[dst[u].struct] = <<cells, dst[u].cell>> /\ dst[u].np < num[cells][dst[u].cell]
            /\ Base(idx[dst[u].struct]) + (dst[u].np % PPC) = dst[u].np
            /\ own2[dst[u].struct] = own[dst[u].struct] /\ idx2[dst[u].struct] = idx[dst[u].struct]
            /\ dst[u].cell \in Cells /\ dst[u].np \in Nat
        BY <2>3, <3>2, <4>1
      <4>3. dst[u].np < num'[cells][dst[u].cell]
        <5>1. PICK m \in Nat, n \in Nat : m = num[cells][dst[u].cell] /\ n = num'[cells][dst[u].cell]
          BY <1>13, <2>4, <4>2
        <5>2. n >= m
          BY <1>13, <4>2, <5>1
        <5>3. QED BY <4>2, <5>1, <5>2
      <4>4. QED BY <1>1, <4>2, <4>3
    <3>3. QED BY <3>1, <3>2
  <2>6. ASSUME NEW u \in Threads, at[u] = <<2, "copy">>, u # t
        PROVE  dst[u].struct # to \/ dst[u].np # num[cells][c]
    <3>1. SUFFICES ASSUME dst[u].struct = to PROVE dst[u].np # num[cells][c]
      OBVIOUS
    <3>2. own2[to] = <<cells, dst[u].cell>>
      BY <2>3, <2>6, <3>1
    <3>3. dst[u].cell = c
      BY <1>15, <3>2
    <3>4. QED BY <2>3, <2>4, <2>6, <3>3
  <2>7. ASSUME NEW u \in Threads, NEW v \in Threads, at'[u] = <<2, "copy">>, at'[v] = <<2, "copy">>, u # v
        PROVE  dst'[u].struct # dst'[v].struct \/ dst'[u].np # dst'[v].np
    <3>1. CASE u # t /\ v # t
      <4>1. at[u] = <<2, "copy">> /\ at[v] = <<2, "copy">> /\ dst'[u] = dst[u] /\ dst'[v] = dst[v]
        BY <1>8, <1>16, <2>7, <3>1
      <4>2. QED BY <1>5, <2>7, <4>1 DEF Adding
    <3>2. CASE u = t
      <4>1. at[v] = <<2, "copy">> /\ v # t /\ dst'[v] = dst[v]
        BY <1>8, <1>16, <2>7, <3>2
      <4>2. QED BY <1>16, <2>6, <3>2, <4>1
    <3>3. CASE v = t
      <4>1. at[u] = <<2, "copy">> /\ u # t /\ dst'[u] = dst[u]
        BY <1>8, <1>16, <2>7, <3>3
      <4>2. QED BY <1>16, <2>6, <3>3, <4>1
    <3>4. QED BY <3>1, <3>2, <3>3
  <2>8. QED BY <2>1, <2>2, <2>5, <2>7 DEF Adding
<1>21. Working'
  BY <1>15, <1>18, <1>19, <1>20 DEF Working
<1>22. Reading'
  <2>1. ASSUME NEW u \in Threads PROVE (Left(u)' <=> Left(u)) /\ Particle(u)' = Particle(u)
    <3>1. cells2' = cells2 /\ num'[cells2] = num[cells2] /\ src' = src /\ slots' = slots
      BY <1>1, <1>13 DEF cells2
    <3>2. QED BY <3>1 DEF Left, Particle
  <2>2. ASSUME NEW u \in Threads
        PROVE  /\ at'[u] \in {<<2, "add">>, <<2, "copy">>} => build' = "mutex"
               /\ at'[u] \in {<<2, "w0">>, <<2, "modify">>, <<2, "w2">>} => build' = "kernels"
               /\ at'[u] \in Inner <=> src'[u] # NoSource
               /\ src'[u] # NoSource => src'[u].cell \in Grid(u)
               /\ at'[u] = <<2, "w0">> => ~Left(u)'
               /\ at'[u] \in {<<2, "add">>, <<2, "copy">>, <<2, "modify">>, <<2, "w2">>} => Left(u)'
               /\ at'[u] \in {<<2, "add">>, <<2, "copy">>, <<2, "modify">>} => dst'[u].cell = CellAt(where'[Particle(u)'])
    <3>1. CASE u = t
      <4>1. src[t] # NoSource /\ src[t].cell \in Grid(t) /\ dst[t].cell = CellAt(where[Particle(t)])
        BY <1>1, <1>3, <1>4 DEF Reading
      <4>2. at'[t] = x /\ dst'[t].cell = dst[t].cell /\ (Left(t)' <=> Left(t)) /\ Particle(t)' = Particle(t)
        BY <1>6, <1>8, <1>16, <2>1
      <4>3. QED BY <1>1, <1>2, <1>4, <3>1, <4>1, <4>2
    <3>2. CASE u # t
      <4>1. at'[u] = at[u] /\ src'[u] = src[u] /\ dst'[u] = dst[u] /\ (Left(u)' <=> Left(u)) /\ Particle(u)' = Particle(u)
        BY <1>1, <1>8, <1>16, <2>1, <3>2
      <4>2. QED BY <1>1, <1>4, <4>1 DEF Reading
    <3>3. QED BY <3>1, <3>2
  <2>3. QED BY <2>2 DEF Reading
<1>23. mutex' \in [Cells -> Threads \cup {NoThread}]
  BY <1>1, <1>4 DEF TypeOK
<1>24. at' = [at EXCEPT ![t] = x] /\ UNCHANGED <<build, main, frame, cells, where, file>>
  BY <1>1, <1>2
<1>25. QED
  <2>1. /\ slots' \in [Structs -> [0 .. PPC - 1 -> Int]]
        /\ src' \in [Threads -> [cell : Cells \cup {-1}, struct : Structs, j : Nat]]
    BY <1>1, <1>4 DEF TypeOK
  <2>2. IInv /\ x \in Labelings
    BY <1>2
  <2>3. QED
    BY ONLY t \in Threads, <1>2, <1>3, <1>13, <1>16, <1>21, <1>22, <1>23, <1>24, <2>1, <2>2, RebuildStep

\* The source moves on by one particle; its structure may go back to the pool.
LEMMA AdvancesOne ==
  ASSUME IInv, NEW t \in Threads, at[t] \in {<<2, "copy">>, <<2, "w2">>}, Advances(t), NEW own, NEW idx, NEW loc,
         Labelled(own, idx), Stored(own, idx, loc), Located(own, loc), Adding(own, idx)
  PROVE  /\ HeapOK(heap') /\ at'[t] = <<2, "next">> /\ \A u \in Threads : u # t => at'[u] = at[u] /\ src'[u] = src[u]
         /\ src'[t] # NoSource /\ src'[t].cell = src[t].cell
         /\ src' \in [Threads -> [cell : Cells \cup {-1}, struct : Structs, j : Nat]]
         /\ \E own2, idx2 : AdvancedTo(own, idx, t, own2, idx2)
<1>1. /\ at' = [at EXCEPT ![t] = <<2, "next">>] /\ cells' = cells /\ build' = build /\ num' = num
      /\ src' = [src EXCEPT ![t] = [cell |-> @.cell, struct |-> Advanced(t, heap).struct, j |-> @.j + 1]]
      /\ heap' = Advanced(t, heap).heap
  BY DEF Advances
<1>2. at[t] \in Inner
  BY DEF Inner
<1>3. TypeOK /\ Reading /\ HeapOK(heap) /\ Left(t)
  BY DEF IInv, TypeOK, Reading
<1>4. /\ LiveHeads \subseteq Heads /\ Entry \in [Heads -> Structs] /\ First \in [Heads -> Nat]
      /\ Rest \in [Heads -> Nat] /\ Size \in [Heads -> Nat]
  BY <1>3, ListTypes
<1>5. PICK l \in LiveHeads :
        /\ l = SourceHead(t) /\ Entry[l] = src[t].struct /\ First[l] = src[t].j
        /\ First[l] < Size[l] /\ src[t].cell \in Grid(t)
  BY <1>2, <1>3, SourceOf
<1>6. Chained(heap, own, idx) /\ Listed(heap, own, idx, LiveHeads, Entry, First, Size)
  BY DEF Labelled
<1>7. PICK e, h2 :
        /\ e = IF First[l] % PPC = PPC - 1 THEN heap.next[Entry[l]] ELSE Entry[l]
        /\ h2 = IF First[l] % PPC = PPC - 1 /\ Entry[l] \notin Heads THEN Returned(heap, t, Entry[l]) ELSE heap
  OBVIOUS
<1>8. Reads(heap, own, idx, LiveHeads, Entry, First, Size, l,
            IF First[l] % PPC = PPC - 1 THEN heap.next[Entry[l]] ELSE Entry[l],
            IF First[l] % PPC = PPC - 1 /\ Entry[l] \notin Heads THEN Returned(heap, t, Entry[l]) ELSE heap)
  BY ONLY t \in Threads, <1>3, <1>4, <1>5, <1>6, AdvanceLists
<1>9. Reads(heap, own, idx, LiveHeads, Entry, First, Size, l, e, h2)
  BY <1>7, <1>8
<1>10. IsHead(src[t].struct) <=> Entry[l] \in Heads
  BY <1>4, <1>5, HeadsAre
<1>11. Advanced(t, heap).struct = e /\ Advanced(t, heap).heap = h2
  BY <1>5, <1>7, <1>10 DEF Advanced
<1>12. HeapOK(h2) /\ e \in Structs
  BY <1>9 DEF Reads
<1>13. PICK own2, idx2 :
         /\ Chained(h2, own2, idx2)
         /\ Listed(h2, own2, idx2, LiveHeads, With(Entry, l, e), With(First, l, First[l] + 1), Size)
         /\ \A r \in Structs : own2[r] \in Heads => own2[r] = own[r] /\ idx2[r] = idx[r] /\ h2.next[r] = heap.next[r]
         /\ \A r \in Structs : own[r] \in Heads =>
              own2[r] = own[r] \/ (own[r] = l /\ Base(idx[r] + 1) <= First[l] + 1)
         /\ AllLabelled(heap, own) => AllLabelled(h2, own2)
  BY <1>9 DEF Reads
<1>14. PICK x \in Inner, j \in Nat : x = <<2, "next">> /\ j = First[l] + 1
  BY <1>4, <1>5 DEF Inner
<1>15. StaysIn(t, x, e, j)
  BY <1>1, <1>5, <1>11, <1>14 DEF StaysIn
<1>16. ListsAfter(t, x, e, j)
  <2>1. at[t] \in Inner /\ IInv
    BY <1>2
  <2>2. QED BY ONLY t \in Threads, x \in Inner, j \in Nat, <1>12, <1>15, <2>1, InnerStep
<1>17. /\ at'[t] = x /\ \A u \in Threads : u # t => at'[u] = at[u] /\ src'[u] = src[u]
       /\ src'[t] = [cell |-> src[t].cell, struct |-> e, j |-> j]
       /\ src' \in [Threads -> [cell : Cells \cup {-1}, struct : Structs, j : Nat]]
       /\ LiveHeads' = LiveHeads /\ Entry' = With(Entry, l, e) /\ First' = With(First, l, j)
       /\ Rest' = With(Rest, l, j)
  BY <1>5, <1>14, <1>16 DEF ListsAfter
<1>18. Size' = Size /\ heap' = h2
  BY <1>1, <1>11 DEF Size
<1>19. Labelled(own2, idx2)'
  <2>1. Listed(heap', own2, idx2, LiveHeads', Entry', First', Size')
    BY <1>13, <1>14, <1>17, <1>18
  <2>2. build' = "mutex" => \A s \in Used' : own2[s] # Null
    BY <1>1, <1>13, <1>18 DEF Labelled, AllLabelled, Used, UsedOf
  <2>3. QED BY <1>13, <1>18, <2>1, <2>2 DEF Labelled
<1>20. Places(own2, idx2, Rest', Size') = Places(own, idx, With(Rest, l, j), Size)
  <2>0. l \in Heads
    BY <1>4, <1>5
  <2>1. PICK rest \in [Heads -> Nat] : rest = With(Rest, l, j) /\ rest[l] = j
    <3>1. With(Rest, l, j) \in [Heads -> Nat] /\ With(Rest, l, j)[l] = j
      BY <1>4, <2>0 DEF With
    <3>2. QED BY <3>1
  <2>2. Strung(heap.next, heap.used, own, idx)
    BY <1>6 DEF Chained
  <2>3. \A r \in Structs : own2[r] \in Heads => own2[r] = own[r] /\ idx2[r] = idx[r]
    BY <1>13
  <2>4. \A r \in Structs : own[r] \in Heads => own2[r] = own[r] \/ (own[r] = l /\ Base(idx[r] + 1) <= rest[l])
    BY <1>13, <1>14, <2>1
  <2>5. Size \in [Heads -> Nat] /\ rest \in [Heads -> Nat]
    BY <1>4
  <2>6. Places(own2, idx2, rest, Size) = Places(own, idx, rest, Size)
    BY ONLY <2>0, <2>2, <2>3, <2>4, <2>5, PlacesAdvanced
  <2>7. QED BY <1>17, <1>18, <2>1, <2>6
<1>21. AdvancedTo(own, idx, t, own2, idx2)
  BY <1>5, <1>13, <1>14, <1>18, <1>19, <1>20 DEF AdvancedTo
<1>22. src'[t] # NoSource
  <2>1. src'[t].cell # -1
    BY <1>5, <1>17, Grids DEF Cells
  <2>2. QED BY <2>1 DEF NoSource
<1>23. QED BY <1>12, <1>14, <1>17, <1>18, <1>21, <1>22

\* A slot that is not in use may be written: the others read the same particles as before.
LEMMA OtherParticles ==
  ASSUME IInv, NEW own, NEW idx, NEW loc,
         Labelled(own, idx), Stored(own, idx, loc), Located(own, loc), Adding(own, idx),
         NEW new, new \notin Places(own, idx, Rest, Size) \ Reserved,
         \A v \in Slots : v # new => slots'[v[1]][v[2]] = slots[v[1]][v[2]],
         NEW u \in Threads, src'[u] = src[u], at[u] \in {<<2, "add">>, <<2, "copy">>, <<2, "modify">>}
  PROVE  Particle(u)' = Particle(u)
<1>1. Reading
  BY DEF IInv
<1>2. at[u] \in Inner /\ at[u] # <<2, "w2">> /\ Left(u)
  BY <1>1 DEF Inner, Reading
<1>3. PICK old : old = <<src[u].struct, src[u].j % PPC>>
  OBVIOUS
<1>4. old \in Places(own, idx, Rest, Size) \ Reserved
  BY <1>2, <1>3, SourceParticle
<1>5. old \in Slots /\ old # new
  BY <1>4 DEF Places, Slots
<1>6. slots'[old[1]][old[2]] = slots[old[1]][old[2]]
  BY <1>5
<1>7. QED BY <1>3, <1>6 DEF Particle

\* A particle that is put into the cell of its position.
LEMMA InItsCell ==
  ASSUME IInv, NEW t \in Threads, at[t][1] = 2, NEW p \in Particles, where[p] \in Domain
  PROVE  Position(p, <<cells, CellAt(where[p])>>)
<1>1. CellAt(where[p]) \in Cells /\ Near(where[p], CellAt(where[p]))
  BY CellAtInside
<1>2. PICK c \in Cells : c = CellAt(where[p])
  BY <1>1
<1>3. Position(p, <<cells, c>>)
  <2>1. PICK l : l = <<cells, c>>
    OBVIOUS
  <2>2. l[1] = cells /\ l[2] = c
    BY <2>1
  <2>3. Position(p, l)
    BY <1>1, <1>2, <2>2 DEF Position
  <2>4. QED BY <2>1, <2>3
<1>4. QED BY <1>2, <1>3

LEMMA CopyParticleStep ==
  ASSUME IInv, NEW t \in Threads, CopyParticle(t)
  PROVE  IInv'
<1>1. /\ at[t] = <<2, "copy">> /\ at' = [at EXCEPT ![t] = <<2, "next">>]
      /\ dst' = [dst EXCEPT ![t] = NoTarget]
      /\ build' = build /\ main' = main /\ frame' = frame /\ cells' = cells /\ num' = num /\ last' = last
      /\ where' = where /\ mutex' = mutex /\ file' = file
      /\ slots' = [slots EXCEPT ![dst[t].struct] = [@ EXCEPT ![dst[t].np % PPC] = Particle(t)]]
      /\ src' = [src EXCEPT ![t] = [cell |-> @.cell, struct |-> Advanced(t, heap).struct, j |-> @.j + 1]]
      /\ heap' = Advanced(t, heap).heap
  BY DEF CopyParticle
<1>2. PICK x \in Inner : x = <<2, "next">> /\ x[1] = 2 /\ x \in Labelings
  BY DEF Inner, Labelings
<1>3. /\ at[t] \in Inner /\ at[t] # <<2, "w2">> /\ at[t][1] = 2 /\ at[t] \in {<<2, "copy">>, <<2, "w2">>}
      /\ at[t] \in {<<2, "add">>, <<2, "copy">>, <<2, "modify">>}
  BY <1>1 DEF Inner
<1>4. TypeOK /\ Reading /\ Working /\ build = "mutex" /\ Left(t) /\ dst[t].cell = CellAt(where[Particle(t)])
  BY <1>1, <1>3, InRebuild DEF Reading
<1>5. PICK own, idx, loc : Labelled(own, idx) /\ Stored(own, idx, loc) /\ Located(own, loc) /\ Adding(own, idx)
  BY <1>4 DEF Working
<1>6. /\ LiveHeads \subseteq Heads /\ Rest \in [Heads -> Nat] /\ Size \in [Heads -> Nat] /\ cells2 # cells
      /\ cells \in {1, 2} /\ slots \in [Structs -> [0 .. PPC - 1 -> Int]] /\ Particles \subseteq Int
  BY <1>4, ListTypes DEF TypeOK
<1>7. PICK c \in Cells, k \in Heads : c = dst[t].cell /\ k = <<cells, c>> /\ k \in LiveHeads
  BY <1>3, <1>5, TargetCell DEF TargetHead
<1>8. PICK old, p : old = <<src[t].struct, src[t].j % PPC>> /\ p = Particle(t)
  OBVIOUS
<1>9. PICK A : A = Places(own, idx, Rest, Size) \ Reserved
  OBVIOUS
<1>10. /\ old \in A /\ own[src[t].struct] = SourceHead(t) /\ src[t].struct \in Structs
       /\ Base(idx[src[t].struct]) + (src[t].j % PPC) = src[t].j
       /\ p = slots[old[1]][old[2]] /\ p \in Particles /\ where[p] \in Domain
  BY <1>3, <1>4, <1>5, <1>8, <1>9, SourceParticle
<1>11. /\ own[dst[t].struct] = k /\ dst[t].np < num[cells][c] /\ dst[t].np \in Nat /\ dst[t].struct \in Structs
       /\ Base(idx[dst[t].struct]) + (dst[t].np % PPC) = dst[t].np
  BY <1>1, <1>4, <1>5, <1>7 DEF Adding, TypeOK
<1>12. PICK new \in Slots : new = <<dst[t].struct, dst[t].np % PPC>>
  BY <1>11, PlaceOf DEF Slots
<1>13. new \in Reserved /\ new \notin A
  BY <1>1, <1>9, <1>12 DEF Reserved
<1>14. new \in Places(own, idx, Rest, Size)
  <2>1. Rest[k] = 0 /\ Size[k] = num[cells][c]
    BY <1>7 DEF Rest, First, Size, IsSource
  <2>2. num[cells][c] \in Nat
    BY <1>4, <1>6 DEF TypeOK
  <2>3. dst[t].np \in Rest[k] .. Size[k] - 1
    BY <1>11, <2>1, <2>2
  <2>4. QED BY <1>11, <1>12, <2>3 DEF Places, Slots
<1>15. PICK P : P = Particles
  OBVIOUS
<1>16. A \in SUBSET Slots /\ Placed(slots, A, loc, P)
  BY <1>5, <1>9, <1>15 DEF Stored, Places, Slots
<1>17. slots' = Written(slots, new, p)
  BY <1>1, <1>8, <1>12 DEF Written
<1>18. /\ p \in P /\ loc[p] = old /\ slots' \in [Structs -> [0 .. PPC - 1 -> Int]]
       /\ \A v \in Slots : slots'[v[1]][v[2]] = IF v = new THEN p ELSE slots[v[1]][v[2]]
       /\ Placed(slots', (A \ {old}) \cup {new}, With(loc, p, new), P)
  <2>1. P \subseteq Int /\ p = slots[old[1]][old[2]]
    BY <1>6, <1>10, <1>15
  <2>2. /\ slots[old[1]][old[2]] \in P /\ loc[slots[old[1]][old[2]]] = old
        /\ Written(slots, new, slots[old[1]][old[2]]) \in [Structs -> [0 .. PPC - 1 -> Int]]
        /\ \A v \in Slots : Written(slots, new, slots[old[1]][old[2]])[v[1]][v[2]] =
             IF v = new THEN slots[old[1]][old[2]] ELSE slots[v[1]][v[2]]
        /\ Placed(Written(slots, new, slots[old[1]][old[2]]), (A \ {old}) \cup {new},
                  With(loc, slots[old[1]][old[2]], new), P)
    BY ONLY new \in Slots, <1>6, <1>10, <1>13, <1>16, <2>1, MovePlaced
  <2>3. QED BY <1>17, <2>1, <2>2
<1>19. Advances(t)
  BY <1>1 DEF Advances
<1>20. /\ HeapOK(heap') /\ at'[t] = x /\ \A u \in Threads : u # t => at'[u] = at[u] /\ src'[u] = src[u]
       /\ src'[t] # NoSource /\ src'[t].cell = src[t].cell
       /\ src' \in [Threads -> [cell : Cells \cup {-1}, struct : Structs, j : Nat]]
       /\ \E own2, idx2 : AdvancedTo(own, idx, t, own2, idx2)
  BY <1>2, <1>3, <1>5, <1>19, AdvancesOne
<1>21. PICK own2, idx2 : AdvancedTo(own, idx, t, own2, idx2)
  BY <1>20
<1>22. /\ Labelled(own2, idx2)'
       /\ \A r \in Structs : own2[r] \in Heads => own2[r] = own[r] /\ idx2[r] = idx[r] /\ heap'.next[r] = heap.next[r]
       /\ \A r \in Structs : own[r] \in Heads => own2[r] = own[r] \/ own[r] = SourceHead(t)
       /\ Places(own2, idx2, Rest', Size') = Places(own, idx, With(Rest, SourceHead(t), src[t].j + 1), Size)
  BY <1>21 DEF AdvancedTo
<1>23. \A d : SourceHead(t) # <<cells, d>>
  BY <1>6 DEF SourceHead
<1>24. Places(own2, idx2, Rest', Size') = Places(own, idx, Rest, Size) \ {old}
  <2>1. PICK l \in Heads : l = SourceHead(t) /\ Rest[l] = src[t].j /\ Rest[l] < Size[l] /\ own[src[t].struct] = l
    BY <1>3, <1>4, <1>6, <1>10, SourceOf
  <2>2. Strung(heap.next, heap.used, own, idx)
    BY <1>5 DEF Labelled, Chained
  <2>3. PICK s \in Structs : s = src[t].struct /\ own[s] = l /\ Base(idx[s]) + (Rest[l] % PPC) = Rest[l]
    BY <1>10, <2>1
  <2>4. OldPlace(own, idx, Rest, Size, l, s)
    BY ONLY <1>6, <2>1, <2>2, <2>3, PlacesRead
  <2>5. Increased(Rest, l) = With(Rest, SourceHead(t), src[t].j + 1) /\ old = <<s, Rest[l] % PPC>>
    BY <1>8, <2>1, <2>3 DEF Increased
  <2>6. QED BY <1>22, <2>4, <2>5 DEF OldPlace
<1>25. dst'[t] = NoTarget /\ (\A u \in Threads : u # t => dst'[u] = dst[u])
       /\ dst' \in [Threads -> [cell : Cells \cup {-1}, struct : Structs, np : Nat]]
  <2>1. NoTarget \in [cell : Cells \cup {-1}, struct : Structs, np : Nat]
    BY StructKinds DEF NoTarget
  <2>2. QED BY <1>1, <1>4, <2>1 DEF TypeOK
<1>26. \A u \in Threads : at'[u] = <<2, "copy">> <=> u # t /\ at[u] = <<2, "copy">>
  BY <1>2, <1>20
<1>27. Reserved' = Reserved \ {new}
  <2>1. ASSUME NEW v \in Reserved' PROVE v \in Reserved /\ v # new
    <3>1. PICK u \in Threads : at'[u] = <<2, "copy">> /\ v = <<dst'[u].struct, dst'[u].np % PPC>>
      BY DEF Reserved
    <3>2. u # t /\ at[u] = <<2, "copy">> /\ v = <<dst[u].struct, dst[u].np % PPC>>
      BY <1>25, <1>26, <3>1
    <3>3. v # new
      <4>1. SUFFICES ASSUME v = new PROVE FALSE
        OBVIOUS
      <4>2. dst[u].struct = dst[t].struct /\ dst[u].np % PPC = dst[t].np % PPC
        BY <1>12, <3>2, <4>1
      <4>3. Base(idx[dst[u].struct]) + (dst[u].np % PPC) = dst[u].np
        BY <1>5, <3>2 DEF Adding
      <4>4. dst[u].np = dst[t].np
        BY <1>11, <4>2, <4>3
      <4>5. QED BY <1>1, <1>5, <3>2, <4>2, <4>4 DEF Adding
    <3>4. QED BY <3>2, <3>3 DEF Reserved
  <2>2. ASSUME NEW v \in Reserved, v # new PROVE v \in Reserved'
    <3>1. PICK u \in Threads : at[u] = <<2, "copy">> /\ v = <<dst[u].struct, dst[u].np % PPC>>
      BY DEF Reserved
    <3>2. u # t
      BY <1>12, <2>2, <3>1
    <3>3. at'[u] = <<2, "copy">> /\ v = <<dst'[u].struct, dst'[u].np % PPC>>
      BY <1>25, <1>26, <3>1, <3>2
    <3>4. QED BY <3>3 DEF Reserved
  <2>3. QED BY <2>1, <2>2
<1>28. PICK loc2 : loc2 = With(loc, p, new)
  OBVIOUS
<1>29. Places(own2, idx2, Rest', Size') \ Reserved' = (A \ {old}) \cup {new}
  <2>1. old \notin Reserved
    BY <1>9, <1>10
  <2>2. QED BY <1>9, <1>10, <1>13, <1>14, <1>24, <1>27, <2>1
<1>30. Particles' = Particles
  BY <1>1 DEF Particles
<1>31. Stored(own2, idx2, loc2)'
  BY <1>15, <1>18, <1>28, <1>29, <1>30 DEF Stored
<1>32. loc2[p] = new /\ \A q \in Particles : q # p => loc2[q] = loc[q]
  <2>1. loc \in [P -> A]
    BY <1>16 DEF Placed
  <2>2. QED BY <1>15, <1>18, <1>28, <2>1 DEF With
<1>33. Located(own2, loc2)'
  <2>1. at' = [at EXCEPT ![t] = x] /\ UNCHANGED <<cells, where>> /\ IInv /\ Located(own, loc)
    BY <1>1, <1>2, <1>5
  <2>2. ASSUME NEW q \in Particles
        PROVE  own2[loc2[q][1]] \in Heads /\ (own2[loc2[q][1]] = own[loc[q][1]] \/ Position(q, own2[loc2[q][1]]))
    <3>1. loc2[q] \in Places(own2, idx2, Rest', Size')
      BY <1>15, <1>18, <1>28, <1>29 DEF Placed
    <3>2. own2[loc2[q][1]] \in Heads /\ loc2[q][1] \in Structs
      BY <3>1 DEF Places
    <3>3. own2[loc2[q][1]] = own[loc2[q][1]]
      BY <1>22, <3>2
    <3>4. CASE q # p
      BY <1>32, <3>2, <3>3, <3>4
    <3>5. CASE q = p
      <4>1. own2[loc2[q][1]] = k
        BY <1>11, <1>12, <1>32, <3>3, <3>5
      <4>2. k = <<cells, CellAt(where[q])>>
        BY <1>4, <1>7, <1>8, <3>5
      <4>3. Position(q, <<cells, CellAt(where[q])>>)
        BY <1>3, <1>10, <3>5, InItsCell
      <4>4. QED BY <3>2, <4>1, <4>2, <4>3
    <3>6. QED BY <3>4, <3>5
  <2>3. Relocates(own, loc, own2, loc2)
    BY <2>2 DEF Relocates
  <2>4. at[t][1] = 2 /\ x[1] = 2
    BY <1>2, <1>3
  <2>5. UNCHANGED <<cells, where>>
    BY <1>1
  <2>6. IInv /\ Located(own, loc)
    BY <1>5
  <2>7. at' = [at EXCEPT ![t] = x]
    BY <1>1, <1>2
  <2>8. QED BY ONLY t \in Threads, <2>3, <2>4, <2>5, <2>6, <2>7, LocatedAgain
<1>34. Adding(own2, idx2)'
  <2>1. ASSUME NEW d \in Cells PROVE own2[last'[d]] = <<cells', d>> /\ heap'.next[last'[d]] = Null
    <3>1. PICK u \in Threads : u = OwnerOf(d) /\ at[u][1] = 2
      BY <1>3, InRebuild, Owners
    <3>2. own[last[d]] = <<cells, d>> /\ heap.next[last[d]] = Null
      BY <1>5, <3>1 DEF Adding
    <3>3. <<cells, d>> \in Heads /\ last[d] \in Structs
      BY <1>4, <1>6 DEF Heads, TypeOK
    <3>4. own2[last[d]] = own[last[d]]
      BY <1>22, <1>23, <3>2, <3>3
    <3>5. heap'.next[last[d]] = heap.next[last[d]]
      BY <1>22, <3>2, <3>3, <3>4
    <3>6. QED BY <1>1, <3>2, <3>4, <3>5
  <2>2. ASSUME NEW u \in Threads, at'[u] = <<2, "add">>
        PROVE  /\ dst'[u].np = num'[cells'][dst'[u].cell] /\ dst'[u].struct = last'[dst'[u].cell]
               /\ IF border[dst'[u].cell] THEN mutex'[dst'[u].cell] = u ELSE OwnerOf(dst'[u].cell) = u
    <3>1. u # t /\ at[u] = <<2, "add">> /\ dst'[u] = dst[u]
      BY <1>2, <1>20, <1>25, <2>2
    <3>2. /\ dst[u].np = num[cells][dst[u].cell] /\ dst[u].struct = last[dst[u].cell]
          /\ IF border[dst[u].cell] THEN mutex[dst[u].cell] = u ELSE OwnerOf(dst[u].cell) = u
      BY <1>5, <3>1 DEF Adding
    <3>3. QED BY <1>1, <3>1, <3>2
  <2>3. ASSUME NEW u \in Threads, at'[u] = <<2, "copy">>
        PROVE  /\ own2[dst'[u].struct] = <<cells', dst'[u].cell>> /\ dst'[u].np < num'[cells'][dst'[u].cell]
               /\ Base(idx2[dst'[u].struct]) + (dst'[u].np % PPC) = dst'[u].np
    <3>1. u # t /\ at[u] = <<2, "copy">> /\ dst'[u] = dst[u]
      BY <1>25, <1>26, <2>3
    <3>2. /\ own[dst[u].struct] = <<cells, dst[u].cell>> /\ dst[u].np < num[cells][dst[u].cell]
          /\ Base(idx[dst[u].struct]) + (dst[u].np % PPC) = dst[u].np
      BY <1>5, <3>1 DEF Adding
    <3>3. TargetHead(u) \in Heads /\ dst[u].struct \in Structs
      BY <1>4, <1>5, <3>1, TargetCell DEF TypeOK
    <3>4. own2[dst[u].struct] = own[dst[u].struct]
      BY <1>22, <1>23, <3>2, <3>3 DEF TargetHead
    <3>5. idx2[dst[u].struct] = idx[dst[u].struct]
      BY <1>22, <3>2, <3>3, <3>4 DEF TargetHead
    <3>6. QED BY <1>1, <3>1, <3>2, <3>4, <3>5
  <2>4. ASSUME NEW u \in Threads, NEW v \in Threads, at'[u] = <<2, "copy">>, at'[v] = <<2, "copy">>, u # v
        PROVE  dst'[u].struct # dst'[v].struct \/ dst'[u].np # dst'[v].np
    <3>1. at[u] = <<2, "copy">> /\ at[v] = <<2, "copy">> /\ dst'[u] = dst[u] /\ dst'[v] = dst[v]
      BY <1>25, <1>26, <2>4
    <3>2. QED BY <1>5, <2>4, <3>1 DEF Adding
  <2>5. QED BY <2>1, <2>2, <2>3, <2>4 DEF Adding
<1>35. Working'
  BY <1>22, <1>31, <1>33, <1>34 DEF Working
<1>36. Reading'
  <2>1. ASSUME NEW u \in Threads, u # t PROVE Left(u)' <=> Left(u)
    BY <1>1, <1>20, <2>1 DEF Left, cells2
  <2>2. ASSUME NEW u \in Threads, u # t, at[u] \in {<<2, "add">>, <<2, "copy">>, <<2, "modify">>}
        PROVE  Particle(u)' = Particle(u)
    <3>1. \A v \in Slots : v # new => slots'[v[1]][v[2]] = slots[v[1]][v[2]]
      BY <1>18
    <3>2. new \notin Places(own, idx, Rest, Size) \ Reserved
      BY <1>9, <1>13
    <3>3. src'[u] = src[u]
      BY <1>20, <2>2
    <3>4. QED BY <1>5, <2>2, <3>1, <3>2, <3>3, OtherParticles
  <2>3. ASSUME NEW u \in Threads
        PROVE  /\ at'[u] \in {<<2, "add">>, <<2, "copy">>} => build' = "mutex"
               /\ at'[u] \in {<<2, "w0">>, <<2, "modify">>, <<2, "w2">>} => build' = "kernels"
               /\ at'[u] \in Inner <=> src'[u] # NoSource
               /\ src'[u] # NoSource => src'[u].cell \in Grid(u)
               /\ at'[u] = <<2, "w0">> => ~Left(u)'
               /\ at'[u] \in {<<2, "add">>, <<2, "copy">>, <<2, "modify">>, <<2, "w2">>} => Left(u)'
               /\ at'[u] \in {<<2, "add">>, <<2, "copy">>, <<2, "modify">>} => dst'[u].cell = CellAt(where'[Particle(u)'])
    <3>1. CASE u = t
      <4>1. src[t] # NoSource /\ src[t].cell \in Grid(t)
        BY <1>3, <1>4 DEF Reading
      <4>2. x \notin {<<2, "w0">>, <<2, "add">>, <<2, "copy">>, <<2, "modify">>, <<2, "w2">>}
        BY <1>2
      <4>3. QED BY <1>2, <1>20, <3>1, <4>1, <4>2
    <3>2. CASE u # t
      <4>1. at'[u] = at[u] /\ src'[u] = src[u] /\ dst'[u] = dst[u] /\ (Left(u)' <=> Left(u))
        BY <1>20, <1>25, <2>1, <3>2
      <4>2. at[u] \in {<<2, "add">>, <<2, "copy">>, <<2, "modify">>} => Particle(u)' = Particle(u)
        BY <2>2, <3>2
      <4>3. QED BY <1>1, <1>4, <4>1, <4>2 DEF Reading
    <3>3. QED BY <3>1, <3>2
  <2>4. QED BY <2>3 DEF Reading
<1>37. at' = [at EXCEPT ![t] = x] /\ UNCHANGED <<build, main, frame, cells, where, file>> /\ IInv /\ x \in Labelings /\ x[1] = 2
  BY <1>1, <1>2
<1>38. /\ num' \in [{1, 2} -> [Cells -> Nat]] /\ last' \in [Cells -> Structs]
       /\ mutex' \in [Cells -> Threads \cup {NoThread}]
  BY <1>1, <1>4 DEF TypeOK
<1>39. QED BY ONLY t \in Threads, <1>3, <1>18, <1>20, <1>25, <1>35, <1>36, <1>37, <1>38, RebuildStep

LEMMA CellModificationStep ==
  ASSUME IInv, NEW t \in Threads, CellModification(t)
  PROVE  IInv'
<1>1. /\ at[t] = <<2, "modify">> /\ at' = [at EXCEPT ![t] = <<2, "w2">>]
      /\ dst' = [dst EXCEPT ![t] = NoTarget]
      /\ build' = build /\ main' = main /\ frame' = frame /\ cells' = cells
      /\ where' = where /\ src' = src /\ mutex' = mutex /\ file' = file
      /\ num' = [num EXCEPT ![cells] = [@ EXCEPT ![dst[t].cell] = num[cells][dst[t].cell] + 1]]
      /\ IF IsFull(t) THEN /\ HasRoom(heap, t)
                           /\ heap' = Linked(Got(heap, t).heap, last[dst[t].cell], Got(heap, t).cell)
                           /\ last' = [last EXCEPT ![dst[t].cell] = Got(heap, t).cell]
                      ELSE heap' = heap /\ last' = last
      /\ slots' = [slots EXCEPT ![NewStruct(t)] = [@ EXCEPT ![num[cells][dst[t].cell] % PPC] = Particle(t)]]
  BY DEF CellModification, IsFull, NewStruct
<1>2. PICK x \in Inner : x = <<2, "w2">> /\ x[1] = 2 /\ x \in Labelings
  BY DEF Inner, Labelings
<1>3. at[t] \in Inner /\ at[t] # <<2, "w2">> /\ at[t][1] = 2 /\ at[t] \in {<<2, "add">>, <<2, "modify">>}
      /\ at[t] \in {<<2, "add">>, <<2, "copy">>, <<2, "modify">>}
  BY <1>1 DEF Inner
<1>4. TypeOK /\ Reading /\ Working /\ build = "kernels" /\ Left(t) /\ dst[t].cell = CellAt(where[Particle(t)])
  BY <1>1, <1>3, InRebuild DEF Reading
<1>5. PICK own, idx, loc : Labelled(own, idx) /\ Stored(own, idx, loc) /\ Located(own, loc) /\ Adding(own, idx)
  BY <1>4 DEF Working
<1>6. PICK c \in Cells : c = dst[t].cell /\ TargetHead(t) \in Heads /\ TargetHead(t) = <<cells, c>>
  BY <1>3, <1>5, TargetCell DEF TargetHead
<1>7. /\ LiveHeads \subseteq Heads /\ Rest \in [Heads -> Nat] /\ Size \in [Heads -> Nat] /\ cells2 # cells
      /\ cells \in {1, 2} /\ slots \in [Structs -> [0 .. PPC - 1 -> Int]] /\ Particles \subseteq Int
  BY <1>4, ListTypes DEF TypeOK
<1>8. /\ at'[t] = x /\ \A u \in Threads : u # t => at'[u] = at[u]
      /\ LiveHeads' = LiveHeads /\ Entry' = Entry /\ First' = First /\ Rest' = Increased(Rest, SourceHead(t))
  BY <1>1, <1>2, <1>3, SameSource
<1>9. PICK to : to = NewStruct(t)
  OBVIOUS
<1>10. last' = [last EXCEPT ![c] = to]
  <2>1. CASE IsFull(t)
    BY <1>1, <1>6, <1>9, <2>1 DEF NewStruct
  <2>2. CASE ~IsFull(t)
    <3>1. to = last[c] /\ last' = last
      BY <1>1, <1>6, <1>9, <2>2 DEF NewStruct
    <3>2. QED BY <1>4, <3>1 DEF TypeOK
  <2>3. QED BY <2>1, <2>2
<1>11. Inserts(t)
  BY <1>1, <1>6, <1>8, <1>9, <1>10 DEF Inserts
<1>12. /\ num' \in [{1, 2} -> [Cells -> Nat]] /\ HeapOK(heap') /\ last' \in [Cells -> Structs]
       /\ last'[c] = to /\ \A d \in Cells : d # c => last'[d] = last[d]
       /\ num'[cells2] = num[cells2] /\ to \in Structs /\ heap'.next[to] = Null
       /\ Size' = Increased(Size, TargetHead(t)) /\ Size[TargetHead(t)] = num[cells][c]
       /\ \E own2, idx2 : Inserted(own, idx, t, own2, idx2)
  BY <1>3, <1>5, <1>6, <1>9, <1>11, InsertsOne
<1>13. PICK own2, idx2 : Inserted(own, idx, t, own2, idx2)
  BY <1>12
<1>14. /\ Labelled(own2, idx2)' /\ own2[to] = <<cells, c>> /\ Base(idx2[to]) + (num[cells][c] % PPC) = num[cells][c]
       /\ \A s \in Structs : own[s] \in Heads =>
            own2[s] = own[s] /\ idx2[s] = idx[s] /\ (s # last[c] => heap'.next[s] = heap.next[s])
       /\ \A s \in Structs : own2[s] \in Heads /\ s # to => own[s] = own2[s]
       /\ NewPlace(own, idx, own2, idx2, Rest, Size, <<cells, c>>, to)
  BY <1>6, <1>9, <1>13 DEF Inserted
<1>15. PICK old, p : old = <<src[t].struct, src[t].j % PPC>> /\ p = Particle(t)
  OBVIOUS
<1>16. Reserved = {} /\ Reserved' = {}
  <2>1. \A u \in Threads : at[u] # <<2, "copy">> /\ at'[u] # <<2, "copy">>
    BY <1>2, <1>4, <1>8 DEF Reading
  <2>2. QED BY <2>1 DEF Reserved
<1>17. PICK A : A = Places(own, idx, Rest, Size)
  OBVIOUS
<1>18. /\ old \in A /\ own[src[t].struct] = SourceHead(t) /\ src[t].struct \in Structs
       /\ Base(idx[src[t].struct]) + (src[t].j % PPC) = src[t].j
       /\ p = slots[old[1]][old[2]] /\ p \in Particles /\ where[p] \in Domain
  BY <1>3, <1>4, <1>5, <1>15, <1>16, <1>17, SourceParticle
<1>19. num[cells][c] \in Nat
  BY <1>4, <1>7 DEF TypeOK
<1>20. PICK new \in Slots : new = <<to, num[cells][c] % PPC>>
  BY <1>12, <1>19, PlaceOf DEF Slots
<1>21. new \notin A /\ Places(own2, idx2, Rest, Size') = A \cup {new}
  BY <1>6, <1>12, <1>14, <1>17, <1>20 DEF NewPlace
<1>22. PICK P : P = Particles
  OBVIOUS
<1>23. A \in SUBSET Slots /\ Placed(slots, A, loc, P)
  BY <1>5, <1>16, <1>17, <1>22 DEF Stored, Places, Slots
<1>24. slots' = Written(slots, new, p)
  BY <1>1, <1>6, <1>9, <1>15, <1>20 DEF Written
<1>25. /\ p \in P /\ loc[p] = old /\ slots' \in [Structs -> [0 .. PPC - 1 -> Int]]
       /\ \A v \in Slots : slots'[v[1]][v[2]] = IF v = new THEN p ELSE slots[v[1]][v[2]]
       /\ Placed(slots', (A \ {old}) \cup {new}, With(loc, p, new), P)
  <2>1. P \subseteq Int /\ p = slots[old[1]][old[2]]
    BY <1>7, <1>18, <1>22
  <2>2. /\ slots[old[1]][old[2]] \in P /\ loc[slots[old[1]][old[2]]] = old
        /\ Written(slots, new, slots[old[1]][old[2]]) \in [Structs -> [0 .. PPC - 1 -> Int]]
        /\ \A v \in Slots : Written(slots, new, slots[old[1]][old[2]])[v[1]][v[2]] =
             IF v = new THEN slots[old[1]][old[2]] ELSE slots[v[1]][v[2]]
        /\ Placed(Written(slots, new, slots[old[1]][old[2]]), (A \ {old}) \cup {new},
                  With(loc, slots[old[1]][old[2]], new), P)
    BY ONLY new \in Slots, <1>7, <1>18, <1>21, <1>23, <2>1, MovePlaced
  <2>3. QED BY <1>24, <2>1, <2>2
<1>26. PICK k \in Heads : k = SourceHead(t) /\ Rest[k] = src[t].j /\ Rest[k] < Size[k]
  BY <1>3, <1>4, <1>7, SourceOf
<1>27. SourceHead(t) # <<cells, c>>
  BY <1>7 DEF SourceHead
<1>28. Places(own2, idx2, Rest', Size') = (A \cup {new}) \ {old}
  <2>1. PICK size2 \in [Heads -> Nat] : size2 = Size' /\ Rest[k] < size2[k]
    <3>1. Size' \in [Heads -> Nat] /\ Size'[k] = Size[k]
      BY <1>6, <1>7, <1>12, <1>26, <1>27 DEF Increased, With
    <3>2. QED BY <1>26, <3>1
  <2>2. Strung(heap'.next, heap'.used, own2, idx2)
    BY <1>14 DEF Labelled, Chained
  <2>3. PICK s \in Structs : s = src[t].struct /\ own2[s] = k /\ Base(idx2[s]) + (Rest[k] % PPC) = Rest[k]
    BY <1>14, <1>18, <1>26
  <2>4. OldPlace(own2, idx2, Rest, size2, k, s)
    BY ONLY size2 \in [Heads -> Nat], k \in Heads, s \in Structs, <1>7, <2>1, <2>2, <2>3, PlacesRead
  <2>5. Increased(Rest, k) = Rest' /\ old = <<s, Rest[k] % PPC>>
    BY <1>8, <1>15, <1>26, <2>3
  <2>6. QED BY <1>21, <2>1, <2>4, <2>5 DEF OldPlace
<1>29. PICK loc2 : loc2 = With(loc, p, new)
  OBVIOUS
<1>30. Places(own2, idx2, Rest', Size') \ Reserved' = (A \ {old}) \cup {new}
  BY <1>16, <1>18, <1>21, <1>28
<1>31. Particles' = Particles
  BY <1>1 DEF Particles
<1>32. Stored(own2, idx2, loc2)'
  BY <1>22, <1>25, <1>29, <1>30, <1>31 DEF Stored
<1>33. loc2[p] = new /\ \A q \in Particles : q # p => loc2[q] = loc[q]
  <2>1. loc \in [P -> A]
    BY <1>23 DEF Placed
  <2>2. QED BY <1>22, <1>25, <1>29, <2>1 DEF With
<1>34. Located(own2, loc2)'
  <2>1. UNCHANGED <<cells, where>>
    BY <1>1
  <2>2. ASSUME NEW q \in Particles
        PROVE  own2[loc2[q][1]] \in Heads /\ (own2[loc2[q][1]] = own[loc[q][1]] \/ Position(q, own2[loc2[q][1]]))
    <3>1. loc2[q] \in Places(own2, idx2, Rest', Size')
      BY <1>22, <1>25, <1>29, <1>30 DEF Placed
    <3>2. own2[loc2[q][1]] \in Heads /\ loc2[q][1] \in Structs
      BY <3>1 DEF Places
    <3>3. CASE q # p
      <4>1. loc2[q] = loc[q]
        BY <1>33, <3>3
      <4>2. own[loc[q][1]] \in Heads /\ loc[q][1] \in Structs
        BY <1>5, InACell DEF Slots
      <4>3. own2[loc[q][1]] = own[loc[q][1]]
        BY <1>14, <4>2
      <4>4. QED BY <3>2, <4>1, <4>3
    <3>4. CASE q = p
      <4>1. own2[loc2[q][1]] = <<cells, c>>
        BY <1>14, <1>20, <1>33, <3>4
      <4>2. c = CellAt(where[q])
        BY <1>4, <1>6, <1>15, <3>4
      <4>3. Position(q, <<cells, CellAt(where[q])>>)
        BY <1>3, <1>18, <3>4, InItsCell
      <4>4. QED BY <3>2, <4>1, <4>2, <4>3
    <3>5. QED BY <3>3, <3>4
  <2>3. Relocates(own, loc, own2, loc2)
    BY <2>2 DEF Relocates
  <2>4. at[t][1] = 2 /\ x[1] = 2
    BY <1>2, <1>3
  <2>5. at' = [at EXCEPT ![t] = x]
    BY <1>1, <1>2
  <2>6. IInv /\ Located(own, loc)
    BY <1>5
  <2>7. QED BY ONLY t \in Threads, <2>1, <2>3, <2>4, <2>5, <2>6, LocatedAgain
<1>35. Adding(own2, idx2)'
  <2>1. ASSUME NEW d \in Cells PROVE own2[last'[d]] = <<cells', d>> /\ heap'.next[last'[d]] = Null
    <3>1. CASE d = c
      BY <1>1, <1>12, <1>14, <3>1
    <3>2. CASE d # c
      <4>1. PICK u \in Threads : u = OwnerOf(d) /\ at[u][1] = 2
        BY <1>3, InRebuild, Owners
      <4>2. own[last[d]] = <<cells, d>> /\ heap.next[last[d]] = Null
        BY <1>5, <4>1 DEF Adding
      <4>3. <<cells, d>> \in Heads /\ last[d] \in Structs /\ last'[d] = last[d]
        BY <1>4, <1>12, <3>2 DEF Heads, TypeOK
      <4>4. own[last[c]] = <<cells, c>>
        <5>1. PICK v \in Threads : v = OwnerOf(c) /\ at[v][1] = 2
          BY <1>3, InRebuild, Owners
        <5>2. QED BY <1>5, <5>1 DEF Adding
      <4>5. last[d] # last[c]
        BY <3>2, <4>2, <4>4
      <4>6. QED BY <1>1, <1>14, <4>2, <4>3, <4>5
    <3>3. QED BY <3>1, <3>2
  <2>2. \A u \in Threads : at'[u] # <<2, "add">> /\ at'[u] # <<2, "copy">>
    BY <1>2, <1>4, <1>8 DEF Reading
  <2>3. QED BY <2>1, <2>2 DEF Adding
<1>36. Working'
  BY <1>14, <1>32, <1>34, <1>35 DEF Working
<1>37. /\ dst'[t] = NoTarget /\ \A u \in Threads : u # t => dst'[u] = dst[u]
       /\ dst' \in [Threads -> [cell : Cells \cup {-1}, struct : Structs, np : Nat]]
  <2>1. NoTarget \in [cell : Cells \cup {-1}, struct : Structs, np : Nat]
    BY StructKinds DEF NoTarget
  <2>2. QED BY <1>1, <1>4, <2>1 DEF TypeOK
<1>38. Reading'
  <2>1. ASSUME NEW u \in Threads PROVE Left(u)' <=> Left(u)
    <3>1. cells2' = cells2 /\ num'[cells2] = num[cells2] /\ src' = src
      BY <1>1, <1>12 DEF cells2
    <3>2. QED BY <3>1 DEF Left
  <2>2. ASSUME NEW u \in Threads, u # t, at[u] \in {<<2, "add">>, <<2, "copy">>, <<2, "modify">>}
        PROVE  Particle(u)' = Particle(u)
    <3>1. \A v \in Slots : v # new => slots'[v[1]][v[2]] = slots[v[1]][v[2]]
      BY <1>25
    <3>2. new \notin Places(own, idx, Rest, Size) \ Reserved
      BY <1>17, <1>21
    <3>3. src'[u] = src[u]
      BY <1>1
    <3>4. QED BY <1>5, <2>2, <3>1, <3>2, <3>3, OtherParticles
  <2>3. ASSUME NEW u \in Threads
        PROVE  /\ at'[u] \in {<<2, "add">>, <<2, "copy">>} => build' = "mutex"
               /\ at'[u] \in {<<2, "w0">>, <<2, "modify">>, <<2, "w2">>} => build' = "kernels"
               /\ at'[u] \in Inner <=> src'[u] # NoSource
               /\ src'[u] # NoSource => src'[u].cell \in Grid(u)
               /\ at'[u] = <<2, "w0">> => ~Left(u)'
               /\ at'[u] \in {<<2, "add">>, <<2, "copy">>, <<2, "modify">>, <<2, "w2">>} => Left(u)'
               /\ at'[u] \in {<<2, "add">>, <<2, "copy">>, <<2, "modify">>} => dst'[u].cell = CellAt(where'[Particle(u)'])
    <3>1. CASE u = t
      <4>1. src[t] # NoSource /\ src[t].cell \in Grid(t)
        BY <1>3, <1>4 DEF Reading
      <4>2. x \notin {<<2, "w0">>, <<2, "add">>, <<2, "copy">>, <<2, "modify">>}
        BY <1>2
      <4>3. QED BY <1>1, <1>2, <1>4, <1>8, <2>1, <3>1, <4>1, <4>2
    <3>2. CASE u # t
      <4>1. at'[u] = at[u] /\ src'[u] = src[u] /\ dst'[u] = dst[u] /\ (Left(u)' <=> Left(u))
        BY <1>1, <1>8, <1>37, <2>1, <3>2
      <4>2. at[u] \in {<<2, "add">>, <<2, "copy">>, <<2, "modify">>} => Particle(u)' = Particle(u)
        BY <2>2, <3>2
      <4>3. QED BY <1>1, <1>4, <4>1, <4>2 DEF Reading
    <3>3. QED BY <3>1, <3>2
  <2>4. QED BY <2>3 DEF Reading
<1>39. at' = [at EXCEPT ![t] = x] /\ UNCHANGED <<build, main, frame, cells, where, file>> /\ IInv /\ x \in Labelings /\ x[1] = 2
  BY <1>1, <1>2
<1>40. /\ src' \in [Threads -> [cell : Cells \cup {-1}, struct : Structs, j : Nat]]
       /\ mutex' \in [Cells -> Threads \cup {NoThread}]
  BY <1>1, <1>4 DEF TypeOK
<1>41. /\ num' \in [{1, 2} -> [Cells -> Nat]] /\ HeapOK(heap') /\ last' \in [Cells -> Structs]
       /\ slots' \in [Structs -> [0 .. PPC - 1 -> Int]]
       /\ dst' \in [Threads -> [cell : Cells \cup {-1}, struct : Structs, np : Nat]]
  BY <1>12, <1>25, <1>37
<1>42. QED BY ONLY t \in Threads, <1>3, <1>36, <1>38, <1>39, <1>40, <1>41, RebuildStep

LEMMA RebuildWorker2Step ==
  ASSUME IInv, NEW t \in Threads, RebuildWorker2(t)
  PROVE  IInv'
<1>1. /\ at[t] = <<2, "w2">> /\ at' = [at EXCEPT ![t] = <<2, "next">>]
      /\ build' = build /\ main' = main /\ frame' = frame /\ cells' = cells /\ num' = num /\ last' = last
      /\ slots' = slots /\ dst' = dst /\ where' = where /\ mutex' = mutex /\ file' = file
      /\ src' = [src EXCEPT ![t] = [cell |-> @.cell, struct |-> Advanced(t, heap).struct, j |-> @.j + 1]]
      /\ heap' = Advanced(t, heap).heap
  BY DEF RebuildWorker2
<1>2. PICK x \in Inner : x = <<2, "next">> /\ x[1] = 2 /\ x \in Labelings
  BY DEF Inner, Labelings
<1>3. at[t] \in Inner /\ at[t][1] = 2 /\ at[t] \in {<<2, "copy">>, <<2, "w2">>}
  BY <1>1 DEF Inner
<1>4. TypeOK /\ Reading /\ Working /\ build = "kernels"
  BY <1>1, <1>3, InRebuild DEF Reading
<1>5. PICK own, idx, loc : Labelled(own, idx) /\ Stored(own, idx, loc) /\ Located(own, loc) /\ Adding(own, idx)
  BY <1>4 DEF Working
<1>6. /\ LiveHeads \subseteq Heads /\ Rest \in [Heads -> Nat] /\ cells2 # cells /\ cells \in {1, 2}
  BY <1>4, ListTypes
<1>7. Advances(t)
  BY <1>1 DEF Advances
<1>8. /\ HeapOK(heap') /\ at'[t] = x /\ \A u \in Threads : u # t => at'[u] = at[u] /\ src'[u] = src[u]
      /\ src'[t] # NoSource /\ src'[t].cell = src[t].cell
      /\ src' \in [Threads -> [cell : Cells \cup {-1}, struct : Structs, j : Nat]]
      /\ \E own2, idx2 : AdvancedTo(own, idx, t, own2, idx2)
  BY <1>2, <1>3, <1>5, <1>7, AdvancesOne
<1>9. PICK own2, idx2 : AdvancedTo(own, idx, t, own2, idx2)
  BY <1>8
<1>10. /\ Labelled(own2, idx2)'
       /\ \A r \in Structs : own2[r] \in Heads => own2[r] = own[r] /\ idx2[r] = idx[r] /\ heap'.next[r] = heap.next[r]
       /\ \A r \in Structs : own[r] \in Heads => own2[r] = own[r] \/ own[r] = SourceHead(t)
       /\ Places(own2, idx2, Rest', Size') = Places(own, idx, With(Rest, SourceHead(t), src[t].j + 1), Size)
  BY <1>9 DEF AdvancedTo
<1>11. \A d : SourceHead(t) # <<cells, d>>
  BY <1>6 DEF SourceHead
<1>12. Places(own2, idx2, Rest', Size') = Places(own, idx, Rest, Size)
  <2>1. PICK k \in Heads : k = SourceHead(t) /\ Rest[k] = src[t].j + 1
    BY <1>1, <1>3, <1>6, SourceOf
  <2>2. With(Rest, k, Rest[k]) = Rest
    BY <1>6 DEF With
  <2>3. QED BY <1>10, <2>1, <2>2
<1>13. \A u \in Threads : at[u] # <<2, "copy">> /\ at'[u] # <<2, "copy">> /\ at'[u] # <<2, "add">>
  BY <1>2, <1>4, <1>8 DEF Reading
<1>14. Stored(own2, idx2, loc)'
  <2>1. Reserved = {} /\ Reserved' = {}
    BY <1>13 DEF Reserved
  <2>2. Particles' = Particles
    BY <1>1 DEF Particles
  <2>3. QED BY <1>1, <1>5, <1>12, <2>1, <2>2 DEF Stored
<1>15. Located(own2, loc)'
  <2>1. UNCHANGED <<cells, where>>
    BY <1>1
  <2>2. ASSUME NEW q \in Particles
        PROVE  own2[loc[q][1]] \in Heads /\ own2[loc[q][1]] = own[loc[q][1]]
    <3>1. loc[q] \in Places(own2, idx2, Rest', Size')
      BY <1>5, <1>12 DEF Stored, Placed
    <3>2. own2[loc[q][1]] \in Heads /\ loc[q][1] \in Structs
      BY <3>1 DEF Places
    <3>3. QED BY <1>10, <3>2
  <2>3. Relocates(own, loc, own2, loc)
    BY <2>2 DEF Relocates
  <2>4. at[t][1] = 2 /\ x[1] = 2
    BY <1>2, <1>3
  <2>5. at' = [at EXCEPT ![t] = x]
    BY <1>1, <1>2
  <2>6. IInv /\ Located(own, loc)
    BY <1>5
  <2>7. QED BY ONLY t \in Threads, <2>1, <2>3, <2>4, <2>5, <2>6, LocatedAgain
<1>16. Adding(own2, idx2)'
  <2>1. ASSUME NEW d \in Cells PROVE own2[last'[d]] = <<cells', d>> /\ heap'.next[last'[d]] = Null
    <3>1. PICK u \in Threads : u = OwnerOf(d) /\ at[u][1] = 2
      BY <1>3, InRebuild, Owners
    <3>2. own[last[d]] = <<cells, d>> /\ heap.next[last[d]] = Null
      BY <1>5, <3>1 DEF Adding
    <3>3. <<cells, d>> \in Heads /\ last[d] \in Structs
      BY <1>4, <1>6 DEF Heads, TypeOK
    <3>4. own2[last[d]] = own[last[d]]
      BY <1>10, <1>11, <3>2, <3>3
    <3>5. heap'.next[last[d]] = heap.next[last[d]]
      BY <1>10, <3>2, <3>3, <3>4
    <3>6. QED BY <1>1, <3>2, <3>4, <3>5
  <2>2. QED BY <1>13, <2>1 DEF Adding
<1>17. Working'
  BY <1>10, <1>14, <1>15, <1>16 DEF Working
<1>18. Reading'
  <2>1. ASSUME NEW u \in Threads, u # t
        PROVE  at'[u] = at[u] /\ src'[u] = src[u] /\ dst'[u] = dst[u] /\ (Left(u)' <=> Left(u)) /\ Particle(u)' = Particle(u)
    BY <1>1, <1>8, <2>1 DEF Left, Particle, cells2
  <2>2. ASSUME NEW u \in Threads
        PROVE  /\ at'[u] \in {<<2, "add">>, <<2, "copy">>} => build' = "mutex"
               /\ at'[u] \in {<<2, "w0">>, <<2, "modify">>, <<2, "w2">>} => build' = "kernels"
               /\ at'[u] \in Inner <=> src'[u] # NoSource
               /\ src'[u] # NoSource => src'[u].cell \in Grid(u)
               /\ at'[u] = <<2, "w0">> => ~Left(u)'
               /\ at'[u] \in {<<2, "add">>, <<2, "copy">>, <<2, "modify">>, <<2, "w2">>} => Left(u)'
               /\ at'[u] \in {<<2, "add">>, <<2, "copy">>, <<2, "modify">>} => dst'[u].cell = CellAt(where'[Particle(u)'])
    <3>1. CASE u = t
      <4>1. src[t] # NoSource /\ src[t].cell \in Grid(t)
        BY <1>3, <1>4 DEF Reading
      <4>2. x \notin {<<2, "w0">>, <<2, "add">>, <<2, "copy">>, <<2, "modify">>, <<2, "w2">>}
        BY <1>2
      <4>3. QED BY <1>2, <1>8, <3>1, <4>1, <4>2
    <3>2. CASE u # t
      BY <1>1, <1>4, <2>1, <3>2 DEF Reading
    <3>3. QED BY <3>1, <3>2
  <2>3. QED BY <2>2 DEF Reading
<1>19. at' = [at EXCEPT ![t] = x] /\ UNCHANGED <<build, main, frame, cells, where, file>> /\ IInv /\ x \in Labelings /\ x[1] = 2
  BY <1>1, <1>2
<1>20. /\ num' \in [{1, 2} -> [Cells -> Nat]] /\ last' \in [Cells -> Structs]
       /\ slots' \in [Structs -> [0 .. PPC - 1 -> Int]]
       /\ dst' \in [Threads -> [cell : Cells \cup {-1}, struct : Structs, np : Nat]]
       /\ mutex' \in [Cells -> Threads \cup {NoThread}]
  BY <1>1, <1>4 DEF TypeOK
<1>21. QED BY ONLY t \in Threads, <1>3, <1>8, <1>17, <1>18, <1>19, <1>20, RebuildStep

-----------------------------------------------------------------------------
(* Sequences one after the other.                                           *)

LEMMA GluesExist ==
  ASSUME NEW ss, NEW n \in Nat
  PROVE  \E g : Glue(g, ss, n)
<1> DEFINE Bad == {m \in Nat : ~\E g : Glue(g, ss, m)}
<1>1. SUFFICES ASSUME Bad # {} PROVE FALSE
  OBVIOUS
<1>2. Bad \subseteq Nat
  OBVIOUS
<1>3. PICK m \in Bad : \A y \in Bad : m <= y
  <2> HIDE DEF Bad
  <2>1. QED BY <1>1, <1>2, SmallestOf
<1>4. m # 0
  <2>1. Glue([i \in 1 .. 0 |-> ss], ss, 0)
    BY DEF Glue
  <2>2. ~\E g : Glue(g, ss, m)
    OBVIOUS
  <2>3. QED BY <2>1, <2>2
<1>5. m - 1 \in Nat
  BY <1>3, <1>4
<1>6. m - 1 \notin Bad
  <2> HIDE DEF Bad
  <2>1. QED BY <1>2, <1>3, <1>5
<1>7. PICK f : Glue(f, ss, m - 1)
  BY <1>5, <1>6
<1> DEFINE g == [i \in 1 .. m |-> IF i # m THEN f[i] ELSE IF m = 1 THEN ss[m] ELSE f[m - 1] \o ss[m]]
<1>8. Glue(g, ss, m)
  <2>1. m \in Nat \ {0}
    BY <1>3, <1>4
  <2>2. g = [i \in 1 .. m |-> g[i]]
    OBVIOUS
  <2>3. ASSUME NEW i \in 1 .. m PROVE g[i] = IF i = 1 THEN ss[i] ELSE g[i - 1] \o ss[i]
    <3>1. CASE i = m /\ m = 1
      BY <2>1, <3>1
    <3>2. CASE i = m /\ m # 1
      <4>1. m - 1 \in 1 .. m /\ m - 1 # m /\ m \in 1 .. m
        BY <2>1, <3>2
      <4>2. g[m - 1] = f[m - 1] /\ g[m] = f[m - 1] \o ss[m]
        BY <3>2, <4>1
      <4>3. QED BY <3>2, <4>2
    <3>3. CASE i # m
      <4>1. i \in 1 .. m - 1 /\ g[i] = f[i]
        BY <2>1, <3>3
      <4>2. f[i] = IF i = 1 THEN ss[i] ELSE f[i - 1] \o ss[i]
        BY <1>7, <4>1 DEF Glue
      <4>3. i # 1 => i - 1 \in 1 .. m /\ i - 1 # m
        BY <2>1, <3>3
      <4>4. i # 1 => g[i - 1] = f[i - 1]
        BY <4>3
      <4>5. QED BY <4>1, <4>2, <4>4
    <3>4. QED BY <3>1, <3>2, <3>3
  <2> HIDE DEF g
  <2>4. QED BY <2>2, <2>3 DEF Glue
<1>9. ~\E f2 : Glue(f2, ss, m)
  OBVIOUS
<1>10. QED BY <1>8, <1>9

LEMMA FlattenGlues ==
  ASSUME NEW ss, NEW n \in Nat \ {0}, Len(ss) = n
  PROVE  \E g : Glue(g, ss, n) /\ FlattenSeq(ss) = g[n]
<1> DEFINE F(g) == [i \in 1 .. n |-> IF i = 1 THEN ss[i] ELSE g[i - 1] \o ss[i]]
<1>1. PICK f : Glue(f, ss, n)
  BY GluesExist
<1>2. f = F(f)
  BY <1>1 DEF Glue
<1> DEFINE t == CHOOSE g : g = F(g)
<1>3. t = F(t)
  <2> HIDE DEF F
  <2>1. QED BY <1>2
<1>4. FlattenSeq(ss) = t[n]
  BY DEF FlattenSeq
<1> HIDE DEF t
<1>5. Glue(t, ss, n)
  BY <1>3 DEF Glue
<1>6. QED BY <1>4, <1>5

LEMMA Joined ==
  ASSUME NEW S, NEW s \in Seq(S), NEW r \in Seq(S)
  PROVE  /\ s \o r \in Seq(S) /\ Elems(s \o r) = Elems(s) \cup Elems(r)
         /\ Distinct(s) /\ Distinct(r) /\ Elems(s) \cap Elems(r) = {} => Distinct(s \o r)
<1>1. PICK n \in Nat, m \in Nat : n = Len(s) /\ m = Len(r)
  OBVIOUS
<1>2. PICK q : q = s \o r
  OBVIOUS
<1>3. q \in Seq(S) /\ Len(q) = n + m
  BY <1>1, <1>2
<1>4. \A i \in 1 .. n + m : q[i] = IF i <= n THEN s[i] ELSE r[i - n]
  BY <1>1, <1>2
<1>5. \A i \in 1 .. n + m : i <= n => i \in 1 .. n /\ q[i] = s[i] /\ s[i] \in Elems(s)
  BY <1>1, <1>4 DEF Elems
<1>6. ASSUME NEW i \in 1 .. n + m, ~(i <= n) PROVE i - n \in 1 .. m /\ q[i] = r[i - n] /\ r[i - n] \in Elems(r)
  <2>1. i - n \in 1 .. m
    BY <1>6
  <2>2. QED BY <1>1, <1>4, <1>6, <2>1 DEF Elems
<1>7. Elems(q) = Elems(s) \cup Elems(r)
  <2>1. ASSUME NEW v \in Elems(q) PROVE v \in Elems(s) \cup Elems(r)
    BY <1>3, <1>5, <1>6 DEF Elems
  <2>2. ASSUME NEW v \in Elems(s) PROVE v \in Elems(q)
    <3>1. PICK i \in 1 .. n : v = s[i]
      BY <1>1 DEF Elems
    <3>2. i \in 1 .. n + m /\ q[i] = v
      BY <1>4, <3>1
    <3>3. QED BY <1>3, <3>2 DEF Elems
  <2>3. ASSUME NEW v \in Elems(r) PROVE v \in Elems(q)
    <3>1. PICK i \in 1 .. m : v = r[i]
      BY <1>1 DEF Elems
    <3>2. PICK k \in 1 .. n + m : k = i + n
      OBVIOUS
    <3>3. ~(k <= n) /\ k - n = i
      BY <3>2
    <3>4. q[k] = v
      BY <1>4, <3>1, <3>3
    <3>5. QED BY <1>3, <3>4 DEF Elems
  <2>4. QED BY <2>1, <2>2, <2>3
<1>8. ASSUME Distinct(s), Distinct(r), Elems(s) \cap Elems(r) = {} PROVE Distinct(q)
  <2>1. ASSUME NEW i \in 1 .. n + m, NEW j \in 1 .. n + m, q[i] = q[j] PROVE i = j
    <3>1. CASE i <= n /\ j <= n
      BY <1>1, <1>5, <1>8, <2>1, <3>1 DEF Distinct
    <3>2. CASE ~(i <= n) /\ ~(j <= n)
      <4>1. i - n \in 1 .. m /\ j - n \in 1 .. m /\ r[i - n] = r[j - n]
        BY <1>6, <2>1, <3>2
      <4>2. i - n = j - n
        BY <1>1, <1>8, <4>1 DEF Distinct
      <4>3. QED BY <4>2
    <3>3. CASE i <= n /\ ~(j <= n)
      <4>1. q[i] \in Elems(s) /\ q[j] \in Elems(r)
        BY <1>5, <1>6, <3>3
      <4>2. QED BY <1>8, <2>1, <4>1
    <3>4. CASE ~(i <= n) /\ j <= n
      <4>1. q[i] \in Elems(r) /\ q[j] \in Elems(s)
        BY <1>5, <1>6, <3>4
      <4>2. QED BY <1>8, <2>1, <4>1
    <3>5. QED BY <3>1, <3>2, <3>3, <3>4
  <2>2. QED BY <1>3, <2>1 DEF Distinct
<1>9. QED BY <1>2, <1>3, <1>7, <1>8

LEMMA Flattened ==
  ASSUME NEW S, NEW n \in Nat \ {0}, NEW ss, Len(ss) = n,
         \A i \in 1 .. n : ss[i] \in Seq(S) /\ Distinct(ss[i]),
         \A i, j \in 1 .. n : i # j => Elems(ss[i]) \cap Elems(ss[j]) = {}
  PROVE  LET f == FlattenSeq(ss)
         IN  f \in Seq(S) /\ Distinct(f) /\ \A v : v \in Elems(f) <=> \E i \in 1 .. n : v \in Elems(ss[i])
<1>1. PICK g : Glue(g, ss, n) /\ FlattenSeq(ss) = g[n]
  BY FlattenGlues
<1> DEFINE Good(k) == /\ g[k] \in Seq(S) /\ Distinct(g[k])
                      /\ \A v : v \in Elems(g[k]) <=> \E i \in 1 .. k : v \in Elems(ss[i])
<1> DEFINE Bad == {k \in 1 .. n : ~Good(k)}
<1>2. SUFFICES ASSUME ~Good(n) PROVE FALSE
  BY <1>1
<1>3. Bad \subseteq Nat /\ Bad \subseteq 1 .. n /\ Bad # {}
  <2>1. n \in 1 .. n
    OBVIOUS
  <2> HIDE DEF Good
  <2>2. QED BY <1>2, <2>1
<1>4. PICK k \in Bad : \A y \in Bad : k <= y
  <2> HIDE DEF Bad
  <2>1. QED BY <1>3, SmallestOf
<1>5. k \in 1 .. n /\ ~Good(k)
  BY <1>4
<1>6. CASE k = 1
  <2>1. g[k] = ss[k]
    BY <1>1, <1>5, <1>6 DEF Glue
  <2>2. Good(k)
    BY <1>5, <1>6, <2>1
  <2>3. QED BY <1>5, <2>2
<1>7. CASE k # 1
  <2>1. PICK m \in 1 .. n : m = k - 1 /\ m # k /\ m \notin Bad
    <3>1. k - 1 \in 1 .. n /\ ~(k <= k - 1) /\ k - 1 # k
      BY <1>5, <1>7
    <3> HIDE DEF Bad
    <3>2. QED BY <1>4, <3>1
  <2>2. Good(m)
    BY <2>1
  <2>3. g[k] = g[m] \o ss[k]
    BY <1>1, <1>5, <1>7, <2>1 DEF Glue
  <2>4. ss[k] \in Seq(S) /\ Distinct(ss[k]) /\ g[m] \in Seq(S) /\ Distinct(g[m])
    BY <1>5, <2>2
  <2>5. \A i \in 1 .. m : i \in 1 .. n /\ i # k
    BY <1>5, <2>1
  <2>6. Elems(g[m]) \cap Elems(ss[k]) = {}
    <3>1. ASSUME NEW v \in Elems(g[m]), v \in Elems(ss[k]) PROVE FALSE
      <4>1. PICK i \in 1 .. m : v \in Elems(ss[i])
        BY <2>2
      <4>2. Elems(ss[i]) \cap Elems(ss[k]) = {}
        BY <1>5, <2>5
      <4>3. QED BY <3>1, <4>1, <4>2
    <3>2. QED BY <3>1
  <2>7. g[k] \in Seq(S) /\ Distinct(g[k]) /\ Elems(g[k]) = Elems(g[m]) \cup Elems(ss[k])
    BY <2>3, <2>4, <2>6, Joined
  <2>8. \A i : i \in 1 .. k <=> i \in 1 .. m \/ i = k
    BY <1>5, <2>1
  <2>9. Good(k)
    BY <2>2, <2>7, <2>8
  <2>10. QED BY <1>5, <2>9
<1>8. QED BY <1>6, <1>7

LEMMA CountOf ==
  ASSUME NEW S, NEW s \in Seq(S), Distinct(s)
  PROVE  IsFiniteSet(Elems(s)) /\ Cardinality(Elems(s)) = Len(s) /\ ToSet(s) = Elems(s)
<1>1. PICK n \in Nat : n = Len(s)
  OBVIOUS
<1>2. PICK T : T = Elems(s)
  OBVIOUS
<1> DEFINE f == [i \in 1 .. n |-> s[i]]
<1>3. f \in Bijection(1 .. n, T)
  <2>1. f \in [1 .. n -> T]
    BY <1>1, <1>2 DEF Elems
  <2>2. \A i, j \in 1 .. n : f[i] = f[j] => i = j
    BY <1>1 DEF Distinct
  <2>3. \A v \in T : \E i \in 1 .. n : f[i] = v
    BY <1>1, <1>2 DEF Elems
  <2> HIDE DEF f
  <2>4. QED BY <2>1, <2>2, <2>3 DEF Bijection, Injection, Surjection, IsInjective
<1>4. ExistsBijection(1 .. n, T)
  BY <1>3 DEF ExistsBijection
<1>5. Cardinality(T) = n
  BY <1>4, FS_CountingElements
<1>6. IsFiniteSet(T)
  BY <1>4, FS_NatBijection
<1>7. ToSet(s) = Elems(s)
  BY DEF ToSet, Elems
<1>8. QED BY <1>1, <1>2, <1>5, <1>6, <1>7

-----------------------------------------------------------------------------
(* The end.                                                                 *)

\* A particle is in the content of one cell only, and once.
LEMMA OneSpot ==
  ASSUME IInv, \A t \in Threads : at[t][1] \in 3 .. 9,
         NEW own, NEW idx, NEW loc, Labelled(own, idx), Stored(own, idx, loc),
         NEW c \in Cells, NEW j \in 1 .. num[cells][c], NEW d \in Cells, NEW k \in 1 .. num[cells][d],
         Content(cells, c)[j] = Content(cells, d)[k]
  PROVE  c = d /\ j = k
<1>1. num[cells][c] \in Nat /\ num[cells][d] \in Nat
  BY DEF IInv, TypeOK
<1>2. PICK p : p = Content(cells, c)[j] /\ p = Content(cells, d)[k]
  OBVIOUS
<1>3. PICK n \in Nat, m \in Nat : n = j - 1 /\ m = k - 1
  BY <1>1
<1>4. PICK r : loc[p] = <<r, n % PPC>> /\ own[r] = <<cells, c>> /\ idx[r] = n \div PPC
  BY <1>2, <1>3, ContentPlace
<1>5. PICK s : loc[p] = <<s, m % PPC>> /\ own[s] = <<cells, d>> /\ idx[s] = m \div PPC
  BY <1>2, <1>3, ContentPlace
<1>6. r = s /\ n % PPC = m % PPC
  BY <1>4, <1>5
<1>7. n = Base(n \div PPC) + (n % PPC) /\ m = Base(m \div PPC) + (m % PPC)
  BY PlaceOf
<1>8. n = m
  BY <1>4, <1>5, <1>6, <1>7
<1>9. c = d
  BY <1>4, <1>5, <1>6
<1>10. QED BY <1>1, <1>3, <1>8, <1>9

LEMMA SaveFileStep ==
  ASSUME IInv, SaveFile
  PROVE  IInv'
<1>1. /\ main = "frames" /\ AllAt(9) /\ main' = "clean"
      /\ file' = FlattenSeq([i \in 1 .. NX * NY * NZ |-> Content(cells, i - 1)])
      /\ UNCHANGED <<build, frame, cells, num, heap, slots, last, where, at, src, dst, mutex>>
  BY DEF SaveFile, sim_vars, lane_vars
<1>2. TypeOK /\ InStep /\ Reading /\ Working
  BY <1>1 DEF IInv
<1>3. \A t \in Threads : at[t] = <<9, "out">> /\ at[t][1] \in 3 .. 9
  BY <1>1 DEF AllAt
<1>4. PICK own, idx, loc : Labelled(own, idx) /\ Stored(own, idx, loc) /\ Located(own, loc) /\ Adding(own, idx)
  BY <1>2 DEF Working
<1>5. PICK n \in Nat \ {0} : n = NX * NY * NZ
  BY Sizes
<1>6. PICK ss : ss = [i \in 1 .. n |-> Content(cells, i - 1)]
  OBVIOUS
<1>7. Len(ss) = n /\ file' = FlattenSeq(ss)
  BY <1>1, <1>5, <1>6
<1>8. ASSUME NEW i \in 1 .. n
      PROVE  /\ i - 1 \in Cells /\ ss[i] = Content(cells, i - 1) /\ num[cells][i - 1] \in Nat
             /\ ss[i] \in Seq(Particles) /\ Len(ss[i]) = num[cells][i - 1]
  <2>1. PICK c \in Cells : c = i - 1
    BY <1>5 DEF Cells
  <2>2. num[cells][c] \in Nat
    BY <1>2 DEF TypeOK
  <2>3. PICK s : s = Content(cells, c)
    OBVIOUS
  <2>4. \A j \in 1 .. num[cells][c] : s[j] \in Particles
    BY <1>3, <1>4, <2>3, ContentPlace
  <2>5. s = [j \in 1 .. num[cells][c] |-> s[j]]
    BY <2>3 DEF Content
  <2>6. s \in Seq(Particles) /\ Len(s) = num[cells][c]
    BY <2>2, <2>4, <2>5
  <2>7. QED BY <1>6, <2>1, <2>2, <2>3, <2>6
<1>9. ASSUME NEW i \in 1 .. n PROVE Distinct(ss[i])
  <2>1. PICK c \in Cells : c = i - 1 /\ ss[i] = Content(cells, c) /\ Len(ss[i]) = num[cells][c]
    BY <1>8
  <2>2. ASSUME NEW j \in 1 .. num[cells][c], NEW k \in 1 .. num[cells][c], Content(cells, c)[j] = Content(cells, c)[k]
        PROVE  j = k
    BY <1>3, <1>4, <2>2, OneSpot
  <2>3. QED BY <2>1, <2>2 DEF Distinct
<1>10. ASSUME NEW i \in 1 .. n, NEW j \in 1 .. n, i # j PROVE Elems(ss[i]) \cap Elems(ss[j]) = {}
  <2>1. PICK c \in Cells : c = i - 1 /\ ss[i] = Content(cells, c) /\ Len(ss[i]) = num[cells][c]
    BY <1>8
  <2>2. PICK d \in Cells : d = j - 1 /\ ss[j] = Content(cells, d) /\ Len(ss[j]) = num[cells][d]
    BY <1>8
  <2>3. c # d
    BY <1>10, <2>1, <2>2
  <2>4. ASSUME NEW k \in 1 .. num[cells][c], NEW m \in 1 .. num[cells][d], Content(cells, c)[k] = Content(cells, d)[m]
        PROVE  FALSE
    BY <1>3, <1>4, <2>3, <2>4, OneSpot
  <2>5. QED BY <2>1, <2>2, <2>4 DEF Elems
<1>11. /\ file' \in Seq(Particles) /\ Distinct(file')
       /\ \A v : v \in Elems(file') <=> \E i \in 1 .. n : v \in Elems(ss[i])
  <2>1. \A i \in 1 .. n : ss[i] \in Seq(Particles) /\ Distinct(ss[i])
    BY <1>8, <1>9
  <2>2. \A i, j \in 1 .. n : i # j => Elems(ss[i]) \cap Elems(ss[j]) = {}
    BY <1>10
  <2>3. PICK f : f = FlattenSeq(ss)
    OBVIOUS
  <2>4. f \in Seq(Particles) /\ Distinct(f) /\ \A v : v \in Elems(f) <=> \E i \in 1 .. n : v \in Elems(ss[i])
    BY <1>7, <2>1, <2>2, <2>3, Flattened
  <2>5. QED BY <1>7, <2>3, <2>4
<1>12. Elems(file') = Particles
  <2>1. ASSUME NEW p \in Particles PROVE p \in Elems(file')
    <3>0. PICK c \in Cells : \E j \in 1 .. num[cells][c] : Content(cells, c)[j] = p
      BY <1>3, <1>4, PlaceContent
    <3>1. PICK j \in 1 .. num[cells][c] : Content(cells, c)[j] = p
      BY <3>0
    <3>2. PICK i \in 1 .. n : i - 1 = c
      <4>1. c + 1 \in 1 .. n /\ (c + 1) - 1 = c
        BY <1>5 DEF Cells
      <4>2. QED BY <4>1
    <3>3. ss[i] = Content(cells, c) /\ Len(ss[i]) = num[cells][c]
      BY <1>8, <3>2
    <3>4. p \in Elems(ss[i])
      BY <3>1, <3>3 DEF Elems
    <3>5. QED BY <1>11, <3>4
  <2>2. Elems(file') \subseteq Particles
    BY <1>11 DEF Elems
  <2>3. QED BY <2>1, <2>2
<1>13. Len(file') = Cardinality(Particles) /\ ToSet(file') = Particles
  BY <1>11, <1>12, CountOf
<1>14. \A p \in Particles : where[p] \in Domain
  <2>1. ASSUME NEW p \in Particles PROVE where[p] \in Domain
    <3>1. PICK l \in Heads : l = own[loc[p][1]]
      BY <1>4, InACell
    <3>2. OwnerOf(l[2]) \in Threads
      BY Owners DEF Heads
    <3>3. Position(p, l)
      BY <1>4, <3>1 DEF Located
    <3>4. at[OwnerOf(l[2])] \notin {<<8, "out">>, <<9, "in">>}
      BY <1>3, <3>2
    <3>5. QED BY <3>3, <3>4 DEF Position
  <2>2. QED BY <2>1
<1>15. Particles' = Particles
  BY <1>1 DEF Particles
<1>16. SavedAll'
  BY <1>1, <1>13, <1>14, <1>15 DEF SavedAll
<1>17. TypeOK' /\ InStep' /\ Reading'
  BY <1>1, <1>2, <1>15 DEF TypeOK, InStep, AllAt, Reading, Left, Particle, cells2
<1>18. Working'
  <2>1. LiveHeads' = LiveHeads /\ Entry' = Entry /\ First' = First /\ Rest' = Rest /\ Size' = Size /\ Reserved' = Reserved
    BY <1>1 DEF LiveHeads, Entry, First, Rest, Size, Reserved, IsSource, Unread
  <2>2. Labelled(own, idx)'
    BY <1>1, <1>4, <2>1 DEF Labelled, Used
  <2>3. Stored(own, idx, loc)'
    BY <1>1, <1>4, <1>15, <2>1 DEF Stored
  <2>4. Located(own, loc)' /\ Adding(own, idx)'
    BY <1>1, <1>4, <1>15 DEF Located, Position, Adding
  <2>5. QED BY <2>2, <2>3, <2>4 DEF Working
<1>19. QED BY <1>1, <1>16, <1>17, <1>18 DEF IInv

\* The structures of the pools are numbered.
PoolStructs == Structs \ (Heads \cup {Null})
CodeOf(r) == (r[2] - 1) + (r[1] - 3) * MaxCells
LEMMA Codes ==
  /\ \A r \in PoolStructs : CodeOf(r) \in 0 .. NThreads * MaxCells - 1
  /\ \A r, s \in PoolStructs : CodeOf(r) = CodeOf(s) => r = s
<1>1. PICK m \in Nat \ {0} : m = MaxCells
  BY Sizes
<1>2. NThreads \in Nat \ {0}
  BY Sizes
<1>3. ASSUME NEW r \in PoolStructs
      PROVE  \E t \in Threads : \E a \in 0 .. m - 1 : t \in Nat /\ r = <<3 + t, a + 1>> /\ CodeOf(r) = a + t * m
  <2>1. PICK t \in Threads, n \in 1 .. MaxCells : r = <<3 + t, n>>
    BY StructKinds DEF PoolStructs
  <2>2. PICK a \in 0 .. m - 1 : a = n - 1 /\ n = a + 1
    BY <1>1
  <2>3. t \in Nat
    BY <1>2 DEF Threads
  <2>4. r[1] - 3 = t /\ r[2] - 1 = a
    BY <2>1, <2>2, <2>3
  <2>5. QED BY <1>1, <2>1, <2>2, <2>3, <2>4 DEF CodeOf
<1>4. ASSUME NEW r \in PoolStructs PROVE CodeOf(r) \in 0 .. NThreads * MaxCells - 1
  <2>1. PICK t \in Threads, a \in 0 .. m - 1 : t \in Nat /\ CodeOf(r) = a + t * m
    BY <1>3
  <2>2. NThreads - 1 - t \in Nat
    BY <1>2, <2>1 DEF Threads
  <2>3. PICK b \in Nat : b = NThreads - 1 - t /\ NThreads = b + 1 + t
    BY <1>2, <2>1, <2>2
  <2>4. NThreads * m = b * m + m + t * m
    BY <2>1, <2>3
  <2>5. b * m \in Nat /\ t * m \in Nat
    BY <2>1, <2>3
  <2>6. QED BY <1>1, <2>1, <2>4, <2>5
<1>5. ASSUME NEW r \in PoolStructs, NEW s \in PoolStructs, CodeOf(r) = CodeOf(s) PROVE r = s
  <2>1. PICK t \in Threads, a \in 0 .. m - 1 : t \in Nat /\ r = <<3 + t, a + 1>> /\ CodeOf(r) = a + t * m
    BY <1>3
  <2>2. PICK u \in Threads, b \in 0 .. m - 1 : u \in Nat /\ s = <<3 + u, b + 1>> /\ CodeOf(s) = b + u * m
    BY <1>3
  <2>3. a + t * m = b + u * m
    BY <1>5, <2>1, <2>2, Zenon
  <2>0. t \in Int /\ u \in Int
    BY <2>1, <2>2
  <2>4. t = u /\ a = b
    BY ONLY m \in Nat \ {0}, a \in 0 .. m - 1, b \in 0 .. m - 1, <2>0, <2>3, DigitsUnique
  <2>5. QED BY <2>1, <2>2, <2>4
<1>6. QED BY <1>4, <1>5

\* A list ends within as many steps as there are structures in the pools.
LEMMA ListsEnd ==
  ASSUME NEW h, HeapOK(h), NEW own, NEW idx, Chained(h, own, idx),
         NEW s \in Structs \ Heads, own[s] # Null, NEW n \in Nat, Along(h, s, n) # Null
  PROVE  n < NThreads * MaxCells
<1>1. PICK K \in Nat : K = NThreads * MaxCells
  BY Sizes
<1>2. SUFFICES ASSUME n >= K PROVE FALSE
  BY <1>1
<1>3. /\ h.next \in [Structs -> Structs] /\ own \in [Structs -> Labels] /\ idx \in [Structs -> Int]
      /\ own[Null] = Null
      /\ \A r \in Heads : own[r] # Null => own[r] = r /\ idx[r] = 0
      /\ \A r \in Structs \ Heads : own[r] \in Heads => idx[r] > 0
  BY DEF HeapOK, Chained, Strung
<1> DEFINE R(k) == Along(h, s, k)
<1>4. \A k \in Nat : /\ R(k) \in Structs
                     /\ R(k) # Null => own[R(k)] = own[s] /\ idx[R(k)] = idx[s] + k
                     /\ R(k) = Null => \A q \in Structs : own[q] = own[s] => idx[q] < idx[s] + k
  BY <1>3, AlongList
<1>5. R(n) # Null
  OBVIOUS
<1> HIDE DEF R
<1>6. ASSUME NEW k \in 0 .. n PROVE R(k) \in PoolStructs /\ idx[R(k)] = idx[s] + k
  <2>0. k \in Nat /\ k <= n /\ idx[s] \in Int
    BY <1>3
  <2>1. R(k) # Null
    <3>1. SUFFICES ASSUME R(k) = Null PROVE FALSE
      OBVIOUS
    <3>2. R(n) \in Structs /\ own[R(n)] = own[s] /\ idx[R(n)] = idx[s] + n
      BY <1>4, <1>5
    <3>3. idx[R(n)] < idx[s] + k
      BY <1>4, <2>0, <3>1, <3>2
    <3>4. QED BY <2>0, <3>2, <3>3
  <2>2. R(k) \in Structs /\ own[R(k)] = own[s] /\ idx[R(k)] = idx[s] + k
    BY <1>4, <2>0, <2>1
  <2>3. R(k) \notin Heads
    <3>1. SUFFICES ASSUME R(k) \in Heads PROVE FALSE
      OBVIOUS
    <3>2. own[s] \in Heads /\ idx[R(k)] = 0
      BY <1>3, <2>2, <3>1
    <3>3. idx[s] > 0
      BY <1>3, <3>2
    <3>4. QED BY <2>0, <2>2, <3>2, <3>3
  <2>4. QED BY <2>1, <2>2, <2>3 DEF PoolStructs
<1> DEFINE f == [k \in 0 .. K |-> CodeOf(R(k))]
<1>7. f \in [0 .. K -> 0 .. K - 1]
  <2>1. \A k \in 0 .. K : k \in 0 .. n
    BY <1>2
  <2>2. QED BY <1>1, <1>6, <2>1, Codes
<1>8. /\ IsFiniteSet(0 .. K) /\ IsFiniteSet(0 .. K - 1)
      /\ Cardinality(0 .. K - 1) < Cardinality(0 .. K)
  <2>1. 0 \in Int /\ K \in Int /\ K - 1 \in Int
    OBVIOUS
  <2>2. IsFiniteSet(0 .. K) /\ Cardinality(0 .. K) = IF 0 > K THEN 0 ELSE K - 0 + 1
    BY <2>1, FS_Interval
  <2>3. IsFiniteSet(0 .. K - 1) /\ Cardinality(0 .. K - 1) = IF 0 > K - 1 THEN 0 ELSE (K - 1) - 0 + 1
    BY <2>1, FS_Interval
  <2>4. QED BY <2>2, <2>3
<1>9. PICK x \in 0 .. K, y \in 0 .. K : x # y /\ f[x] = f[y]
  <2> HIDE DEF f
  <2>1. QED BY <1>7, <1>8, FS_PigeonHole
<1>10. x \in 0 .. n /\ y \in 0 .. n /\ x \in Int /\ y \in Int /\ idx[s] \in Int
  BY <1>2, <1>3
<1>11. R(x) = R(y)
  BY <1>6, <1>9, <1>10, Codes
<1>12. idx[s] + x = idx[s] + y
  BY <1>6, <1>10, <1>11
<1>13. QED BY <1>9, <1>10, <1>12

\* What is reached from a structure: the rest of its list.
ReachOf(h, s) == {Along(h, s, k) : k \in 0 .. NThreads * MaxCells} \ {Null}
LEMMA ReachIsList ==
  ASSUME NEW h, HeapOK(h), NEW own, NEW idx, Chained(h, own, idx), NEW s \in Structs \ Heads, own[s] # Null
  PROVE  \A r \in Structs : r \in ReachOf(h, s) <=> own[r] = own[s] /\ idx[r] >= idx[s]
<1>1. PICK K \in Nat : K = NThreads * MaxCells
  BY Sizes
<1>2. h.next \in [Structs -> Structs] /\ idx \in [Structs -> Int] /\ own[Null] = Null
  BY DEF HeapOK, Chained, Strung
<1>3. ASSUME NEW r \in Structs, r \in ReachOf(h, s) PROVE own[r] = own[s] /\ idx[r] >= idx[s]
  <2>1. PICK k \in 0 .. K : r = Along(h, s, k) /\ r # Null
    BY <1>1, <1>3 DEF ReachOf
  <2>2. k \in Nat
    OBVIOUS
  <2>3. own[r] = own[s] /\ idx[r] = idx[s] + k
    BY <1>2, <2>1, <2>2, AlongList
  <2>4. QED BY <1>2, <2>2, <2>3
<1>4. ASSUME NEW r \in Structs, own[r] = own[s], idx[r] >= idx[s] PROVE r \in ReachOf(h, s)
  <2>1. PICK k \in Nat : idx[r] = idx[s] + k
    <3>1. idx[r] - idx[s] \in Nat /\ idx[r] = idx[s] + (idx[r] - idx[s])
      BY <1>2, <1>4
    <3>2. QED BY <3>1
  <2>2. Along(h, s, k) = r
    BY <1>2, <1>4, <2>1, AlongFinds
  <2>3. r # Null
    BY <1>2, <1>4
  <2>4. k < NThreads * MaxCells
    BY <2>2, <2>3, ListsEnd
  <2>5. k \in 0 .. K
    BY <1>1, <2>4
  <2>6. QED BY <1>1, <2>2, <2>3, <2>5 DEF ReachOf
<1>5. QED BY <1>3, <1>4

LEMMA ReachOfNull ==
  ASSUME NEW h, HeapOK(h), NEW own, NEW idx, Chained(h, own, idx)
  PROVE  ReachOf(h, Null) = {}
<1>1. h.next \in [Structs -> Structs] /\ h.next[Null] = Null /\ Null \in Structs
  BY StructKinds DEF HeapOK, Chained, Strung
<1>2. ASSUME NEW k \in Nat PROVE Along(h, Null, k) = Null
  <2> DEFINE Bad == {m \in Nat : Along(h, Null, m) # Null}
  <2>1. SUFFICES ASSUME Bad # {} PROVE FALSE
    OBVIOUS
  <2>2. Bad \subseteq Nat
    OBVIOUS
  <2>3. PICK m \in Bad : \A y \in Bad : m <= y
    <3> HIDE DEF Bad
    <3>1. QED BY <2>1, <2>2, SmallestOf
  <2>4. m \in Nat /\ Along(h, Null, m) # Null
    BY <2>3
  <2>5. m # 0
    BY <1>1, <2>4, AlongSteps
  <2>6. PICK i \in Nat : m = i + 1 /\ i \notin Bad
    <3>1. m - 1 \in Nat /\ m = (m - 1) + 1 /\ ~(m <= m - 1)
      BY <2>4, <2>5
    <3> HIDE DEF Bad
    <3>2. QED BY <2>3, <3>1
  <2>7. Along(h, Null, i) = Null
    BY <2>6
  <2>8. Along(h, Null, m) = h.next[Along(h, Null, i)]
    BY <1>1, <2>6, AlongSteps
  <2>9. QED BY <1>1, <2>4, <2>7, <2>8
<1>3. \A k \in 0 .. NThreads * MaxCells : k \in Nat
  BY Sizes
<1>4. QED BY <1>2, <1>3 DEF ReachOf

\* The structures behind the head of a list, counted.
LEMMA BehindHead ==
  ASSUME NEW h, HeapOK(h), NEW own, NEW idx, Chained(h, own, idx), NEW l \in Heads, own[l] = l
  PROVE  \E m \in Nat :
           /\ Cardinality(ReachOf(h, h.next[l])) = m
           /\ \A k \in 1 .. m : /\ Along(h, l, k) \in Structs \ Heads
                                /\ own[Along(h, l, k)] = l /\ idx[Along(h, l, k)] = k
           /\ \A r \in Structs \ Heads : own[r] = l => idx[r] \in 1 .. m /\ Along(h, l, idx[r]) = r
<1>1. /\ h.next \in [Structs -> Structs] /\ own \in [Structs -> Labels] /\ idx \in [Structs -> Int]
      /\ own[Null] = Null /\ l \in Structs /\ l # Null /\ Null \notin Heads /\ Null \in Structs
      /\ \A r \in Heads : own[r] # Null => own[r] = r /\ idx[r] = 0
      /\ \A r \in Structs \ Heads : own[r] \in Heads => idx[r] > 0
  BY StructKinds DEF HeapOK, Chained, Strung
<1>2. idx[l] = 0
  BY <1>1
<1>3. ASSUME NEW r \in Structs \ Heads, own[r] = l PROVE idx[r] \in Nat \ {0} /\ Along(h, l, idx[r]) = r
  <2>1. idx[r] \in Nat \ {0} /\ idx[r] = idx[l] + idx[r]
    BY <1>1, <1>2, <1>3
  <2>2. PICK k \in Nat : k = idx[r]
    BY <2>1
  <2>3. Along(h, l, k) = r
    BY <1>1, <1>3, <2>1, <2>2, AlongFinds
  <2>4. QED BY <2>1, <2>2, <2>3
<1> DEFINE R(k) == Along(h, l, k)
<1>4. \A k \in Nat : /\ R(k) \in Structs /\ R(0) = l /\ R(k + 1) = h.next[R(k)]
                     /\ R(k) # Null => own[R(k)] = l /\ idx[R(k)] = k
                     /\ R(k) = Null => \A q \in Structs : own[q] = l => idx[q] < k
  <2>1. ASSUME NEW k \in Nat
        PROVE  /\ R(k) \in Structs
               /\ R(k) # Null => own[R(k)] = own[l] /\ idx[R(k)] = idx[l] + k
               /\ R(k) = Null => \A q \in Structs : own[q] = own[l] => idx[q] < idx[l] + k
    BY <1>1, AlongList
  <2>2. ASSUME NEW k \in Nat PROVE R(0) = l /\ R(k + 1) = h.next[R(k)]
    BY <1>1, AlongSteps
  <2> HIDE DEF R
  <2>3. QED BY <1>2, <2>1, <2>2
<1> HIDE DEF R
<1>5. \A k \in Nat : k # 0 /\ R(k) # Null => R(k) \notin Heads
  BY <1>1, <1>4
<1>6. CASE h.next[l] = Null
  <2>1. Cardinality(ReachOf(h, h.next[l])) = 0
    BY <1>6, ReachOfNull, FS_EmptySet
  <2>2. R(1) = Null
    <3>1. 0 \in Nat /\ 0 + 1 = 1
      OBVIOUS
    <3>2. QED BY <1>4, <1>6, <3>1
  <2>3. ASSUME NEW r \in Structs \ Heads, own[r] = l PROVE FALSE
    <3>1. idx[r] < 1 /\ idx[r] \in Nat \ {0}
      BY <1>3, <1>4, <2>2, <2>3
    <3>2. QED BY <3>1
  <2>4. QED BY <2>1, <2>3
<1>7. CASE h.next[l] # Null
  <2>1. PICK s \in Structs : s = h.next[l] /\ s # Null
    BY <1>1, <1>7
  <2>2. s = R(1)
    <3>1. 0 \in Nat /\ 0 + 1 = 1
      OBVIOUS
    <3>2. QED BY <1>4, <2>1, <3>1
  <2>3. s \in Structs \ Heads /\ own[s] = l /\ idx[s] = 1
    BY <1>4, <1>5, <2>1, <2>2
  <2>4. ASSUME NEW r \in Structs PROVE r \in ReachOf(h, s) <=> own[r] = l /\ idx[r] >= 1
    BY <1>1, <2>3, ReachIsList
  <2> DEFINE T == {k \in Nat : R(k) = Null}
  <2>5. T # {} /\ T \subseteq Nat
    <3>1. PICK n \in Nat : n = NThreads * MaxCells
      BY Sizes
    <3>2. Along(h, s, n) = Null
      BY <1>1, <2>3, <3>1, ListsEnd
    <3>3. \A q \in Structs : own[q] = own[s] => idx[q] < idx[s] + n
      BY <1>1, <2>3, <3>2, AlongList
    <3>4. R(n + 1) = Null
      <4>1. SUFFICES ASSUME R(n + 1) # Null PROVE FALSE
        OBVIOUS
      <4>2. n + 1 \in Nat
        OBVIOUS
      <4>3. R(n + 1) \in Structs /\ own[R(n + 1)] = l /\ idx[R(n + 1)] = n + 1
        BY <1>4, <4>1, <4>2
      <4>4. idx[R(n + 1)] < 1 + n
        BY <2>3, <3>3, <4>3
      <4>5. QED BY <4>3, <4>4
    <3>5. QED BY <3>4
  <2>6. PICK M \in T : \A y \in T : M <= y
    <3> HIDE DEF T
    <3>1. QED BY <2>5, SmallestOf
  <2>7. M \in Nat /\ R(M) = Null /\ \A k \in Nat : k < M => R(k) # Null
    BY <2>6
  <2>8. M # 0
    BY <1>1, <1>4, <2>7
  <2>9. PICK m \in Nat : M = m + 1
    <3>1. M - 1 \in Nat /\ M = (M - 1) + 1
      BY <2>7, <2>8
    <3>2. QED BY <3>1
  <2> HIDE DEF T
  <2>10. ASSUME NEW k \in 1 .. m PROVE R(k) \in Structs \ Heads /\ own[R(k)] = l /\ idx[R(k)] = k
    <3>1. k \in Nat /\ k # 0 /\ k < M
      BY <2>9
    <3>2. R(k) # Null
      BY <2>7, <3>1
    <3>3. QED BY <1>4, <1>5, <3>1, <3>2
  <2>11. ASSUME NEW r \in Structs \ Heads, own[r] = l PROVE idx[r] \in 1 .. m /\ R(idx[r]) = r
    <3>1. idx[r] \in Nat \ {0} /\ R(idx[r]) = r
      BY <1>3, <2>11 DEF R
    <3>2. idx[r] < M
      BY <1>4, <2>7, <2>11
    <3>3. QED BY <2>9, <3>1, <3>2
  <2>12. PICK V : V = ReachOf(h, s)
    OBVIOUS
  <2>13. \A r : r \in V <=> r \in Structs \ Heads /\ own[r] = l
    <3>1. ASSUME NEW r \in V PROVE r \in Structs \ Heads /\ own[r] = l
      <4>1. r \in Structs
        <5>1. PICK k \in 0 .. NThreads * MaxCells : r = Along(h, s, k)
          BY <2>12 DEF ReachOf
        <5>2. k \in Nat
          BY Sizes
        <5>3. QED BY <1>1, <5>1, <5>2, AlongSteps
      <4>2. own[r] = l /\ idx[r] >= 1
        BY <2>4, <2>12, <4>1
      <4>3. QED BY <1>1, <4>1, <4>2
    <3>2. ASSUME NEW r \in Structs \ Heads, own[r] = l PROVE r \in V
      <4>1. idx[r] >= 1
        BY <2>11, <3>2
      <4>2. QED BY <2>4, <2>12, <3>2, <4>1
    <3>3. QED BY <3>1, <3>2
  <2> DEFINE f == [k \in 1 .. m |-> R(k)]
  <2>14. f \in Bijection(1 .. m, V)
    <3>1. f \in [1 .. m -> V]
      BY <2>10, <2>13
    <3>2. \A i, j \in 1 .. m : f[i] = f[j] => i = j
      BY <2>10
    <3>3. \A r \in V : \E i \in 1 .. m : f[i] = r
      BY <2>11, <2>13
    <3> HIDE DEF f
    <3>4. QED BY <3>1, <3>2, <3>3 DEF Bijection, Injection, Surjection, IsInjective
  <2>15. Cardinality(V) = m
    BY <2>14, FS_CountingElements DEF ExistsBijection
  <2>16. QED BY <2>1, <2>10, <2>11, <2>12, <2>15 DEF R
<1>8. QED BY <1>6, <1>7

\* Whatever is in the list of a cell goes to the front of pool 0.
LEMMA DrainChained ==
  ASSUME NEW h, HeapOK(h), NEW own, NEW idx, Chained(h, own, idx), NEW a \in {1, 2},
         NEW temps \in Seq(Structs), Distinct(temps),
         \A s \in Structs : s \in Elems(temps) <=> s \notin Heads /\ own[s] \in Heads,
         NEW h2, Drained(h, a, temps, h2)
  PROVE  /\ HeapOK(h2)
         /\ \E own2, idx2 : /\ Chained(h2, own2, idx2) /\ \A s \in Structs : own2[s] \notin Heads
                            /\ \A s \in Structs \ Heads : own[s] # Null => own2[s] # Null
<1>1. /\ h.next \in [Structs -> Structs] /\ own \in [Structs -> Labels] /\ idx \in [Structs -> Int]
      /\ own[Null] = Null /\ h.next[Null] = Null /\ Null \notin Heads /\ Null \in Structs /\ Heads \subseteq Structs
      /\ \A s \in Structs : own[s] # Null /\ h.next[s] # Null =>
           own[h.next[s]] = own[s] /\ idx[h.next[s]] = idx[s] + 1
      /\ \A s, r \in Structs : own[s] # Null /\ own[r] = own[s] /\ h.next[s] = Null => idx[r] <= idx[s]
      /\ \A s, r \in Structs : own[s] # Null /\ own[r] = own[s] /\ idx[r] = idx[s] => r = s
      /\ \A s \in Heads : own[s] # Null => own[s] = s
      /\ \A t \in Threads : \A n \in 1 .. MaxCells : n > h.used[t] => own[<<3 + t, n>>] = Null
  BY StructKinds DEF HeapOK, Chained, Strung
<1>2. \A t \in Threads : h.pool[t] \in Structs /\
        IF h.pool[t] = Null THEN \A s \in Structs : own[s] # PoolLabel(t)
        ELSE /\ own[h.pool[t]] = PoolLabel(t)
             /\ \A s \in Structs : own[s] = PoolLabel(t) => idx[h.pool[t]] <= idx[s]
  BY DEF Chained, Pooling, HeapOK
<1>3. /\ \A t \in Threads : PoolLabel(t) \notin Heads /\ PoolLabel(t) # Null
      /\ \A t, u \in Threads : PoolLabel(t) = PoolLabel(u) => t = u
  BY StructKinds
<1>4. 0 \in Threads
  BY Sizes DEF Threads
<1>5. PICK n \in Nat : n = Len(temps)
  OBVIOUS
<1>6. /\ h2 = [next |-> h2.next, pool |-> h2.pool, alloc |-> h.alloc, used |-> h.used]
      /\ h2.next \in [Structs -> Structs] /\ h2.pool \in [Threads -> Structs]
      /\ \A s \in Structs \ Elems(temps) : s[1] # a => h2.next[s] = h.next[s]
      /\ \A s \in Structs : s[1] = a => h2.next[s] = Null
      /\ \A i \in 1 .. n : h2.next[temps[i]] = IF i = 1 THEN h.pool[0] ELSE temps[i - 1]
      /\ \A t \in Threads : h2.pool[t] = IF t = 0 /\ n > 0 THEN temps[n] ELSE h.pool[t]
  BY <1>5 DEF Drained
<1>7. HeapOK(h2)
  BY <1>6 DEF HeapOK
<1>8. PICK b \in Int : b = IF h.pool[0] = Null THEN 0 ELSE idx[h.pool[0]]
  BY <1>1, <1>2, <1>4
<1> DEFINE Place(s) == CHOOSE i \in 1 .. n : temps[i] = s
<1>9. ASSUME NEW i \in 1 .. n PROVE temps[i] \in Elems(temps) /\ temps[i] \in Structs /\ Place(temps[i]) = i
  <2>1. temps[i] \in Elems(temps) /\ temps[i] \in Structs
    BY <1>5 DEF Elems
  <2>2. \A j \in 1 .. n : temps[j] = temps[i] => j = i
    BY <1>5 DEF Distinct
  <2>3. QED BY <2>1, <2>2
<1>10. \A s \in Elems(temps) : \E i \in 1 .. n : s = temps[i]
  BY <1>5 DEF Elems
<1> DEFINE own2 == [s \in Structs |-> IF own[s] \notin Heads THEN own[s] ELSE IF s \in Heads THEN Null ELSE PoolLabel(0)]
<1> DEFINE idx2 == [s \in Structs |-> IF s \in Elems(temps) THEN b - Place(s) ELSE idx[s]]
<1> DEFINE Kept(s) == s \in Structs /\ own[s] # Null /\ own[s] \notin Heads
<1>11. ASSUME NEW s \in Structs, Kept(s)
       PROVE  own2[s] = own[s] /\ idx2[s] = idx[s] /\ h2.next[s] = h.next[s] /\ s \notin Heads /\ s \notin Elems(temps)
  <2>1. s \notin Heads /\ s \notin Elems(temps)
    BY <1>1, <1>11
  <2>2. s # Null
    BY <1>1, <1>11
  <2>3. s[1] # a
    <3>1. PICK t \in Threads, m \in 1 .. MaxCells : s = <<3 + t, m>>
      BY <2>1, <2>2, StructKinds
    <3>2. t \in Nat
      BY Sizes DEF Threads
    <3>3. QED BY <3>1, <3>2
  <2>4. QED BY <1>6, <1>11, <2>1, <2>3
<1>12. ASSUME NEW i \in 1 .. n
       PROVE  own2[temps[i]] = PoolLabel(0) /\ idx2[temps[i]] = b - i /\ temps[i] # Null /\ temps[i] \notin Heads
  <2>1. temps[i] \in Elems(temps) /\ temps[i] \in Structs /\ Place(temps[i]) = i
    BY <1>9
  <2>2. temps[i] \notin Heads /\ own[temps[i]] \in Heads
    BY <2>1
  <2> HIDE DEF Place
  <2>3. QED BY <1>1, <2>1, <2>2
<1> HIDE DEF Place
<1>13. ASSUME NEW s \in Structs PROVE own2[s] = Null \/ Kept(s) \/ \E i \in 1 .. n : s = temps[i]
  BY <1>10
<1>14. \A s \in Structs : own2[s] \notin Heads
  BY <1>1, <1>3, <1>4
<1>15. \A s \in Structs \ Heads : own[s] # Null => own2[s] # Null
  BY <1>1, <1>3, <1>4
<1>16. own2 \in [Structs -> Labels] /\ idx2 \in [Structs -> Int]
  <2>1. Null \in Labels /\ PoolLabel(0) \in Labels
    BY <1>4 DEF Labels
  <2>2. ASSUME NEW s \in Structs PROVE idx2[s] \in Int
    <3>1. CASE s \in Elems(temps)
      <4>1. PICK i \in 1 .. n : s = temps[i]
        BY <1>10, <3>1
      <4> HIDE DEF idx2
      <4>2. idx2[temps[i]] = b - i
        BY <1>12
      <4>3. idx2[s] = b - i
        BY <4>1, <4>2
      <4>4. QED BY <4>3
    <3>2. CASE s \notin Elems(temps)
      BY <1>1, <3>2
    <3>3. QED BY <3>1, <3>2
  <2>3. QED BY <1>1, <2>1, <2>2
<1>17. \A s \in Heads : own2[s] = Null
  BY <1>1
<1>18. own2[Null] = Null /\ \A t \in Threads : \A m \in 1 .. MaxCells : m > h.used[t] => own2[<<3 + t, m>>] = Null
  BY <1>1, StructKinds
<1>19. h2.next[Null] = Null
  <2>1. Null \notin Elems(temps)
    BY <1>1
  <2>2. Null[1] # a
    BY DEF Null
  <2>3. QED BY <1>1, <1>6, <2>1, <2>2
<1>20. ASSUME NEW s \in Structs, own[s] = PoolLabel(0) PROVE h.pool[0] # Null /\ b <= idx[s] /\ idx[s] \in Int
  BY <1>1, <1>2, <1>4, <1>8, <1>20
<1>21. \A s \in Structs : Kept(s) /\ own2[s] = PoolLabel(0) => own[s] = PoolLabel(0)
  BY <1>11
<1>22. \A t \in Threads : \A s \in Structs : own[s] = PoolLabel(t) => Kept(s)
  BY <1>3
<1>23. \A s \in Structs : Kept(s) <=> own[s] # Null /\ own[s] \notin Heads
  OBVIOUS
<1> HIDE DEF own2, idx2, Kept
<1>24. ASSUME NEW s \in Structs, own2[s] # Null, h2.next[s] # Null
       PROVE  own2[h2.next[s]] = own2[s] /\ idx2[h2.next[s]] = idx2[s] + 1
  <2>1. CASE Kept(s)
    <3>1. PICK r \in Structs : r = h.next[s] /\ r # Null
      BY <1>1, <1>11, <1>24, <2>1
    <3>2. own[r] = own[s] /\ idx[r] = idx[s] + 1
      BY <1>1, <1>23, <1>24, <2>1, <3>1
    <3>3. Kept(r)
      BY <1>23, <2>1, <3>2
    <3>4. QED BY <1>11, <2>1, <3>1, <3>2, <3>3
  <2>2. ASSUME NEW i \in 1 .. n, s = temps[i] PROVE own2[h2.next[s]] = own2[s] /\ idx2[h2.next[s]] = idx2[s] + 1
    <3>1. CASE i = 1
      <4>1. PICK r \in Structs : r = h.pool[0] /\ h2.next[s] = r /\ r # Null
        BY <1>2, <1>4, <1>6, <1>24, <2>2, <3>1
      <4>2. own[r] = PoolLabel(0) /\ b = idx[r]
        BY <1>2, <1>4, <1>8, <4>1
      <4>3. own2[r] = PoolLabel(0) /\ idx2[r] = b
        BY <1>4, <1>11, <1>22, <4>2
      <4>4. QED BY <1>12, <2>2, <3>1, <4>1, <4>3
    <3>2. CASE i # 1
      <4>1. PICK j \in 1 .. n : j = i - 1
        BY <3>2
      <4>2. h2.next[s] = temps[j]
        BY <1>6, <2>2, <3>2, <4>1
      <4>3. own2[temps[j]] = PoolLabel(0) /\ idx2[temps[j]] = b - j /\ own2[s] = PoolLabel(0) /\ idx2[s] = b - i
        BY <1>12, <2>2
      <4>4. QED BY <4>1, <4>2, <4>3
    <3>3. QED BY <3>1, <3>2
  <2>3. QED BY <1>13, <1>24, <2>1, <2>2
<1>25. ASSUME NEW s \in Structs, NEW r \in Structs, own2[s] # Null, own2[r] = own2[s], h2.next[s] = Null
       PROVE  idx2[r] <= idx2[s]
  <2>1. CASE Kept(s) /\ Kept(r)
    <3>1. own[s] # Null /\ own[r] = own[s] /\ h.next[s] = Null
      BY <1>11, <1>25, <2>1
    <3>2. QED BY <1>1, <1>11, <2>1, <3>1
  <2>2. ASSUME Kept(s), NEW j \in 1 .. n, r = temps[j] PROVE idx2[r] <= idx2[s]
    <3>1. own[s] = PoolLabel(0) /\ idx2[r] = b - j
      BY <1>12, <1>21, <1>25, <2>2
    <3>2. b <= idx[s] /\ idx[s] \in Int /\ idx2[s] = idx[s]
      BY <1>11, <1>20, <2>2, <3>1
    <3>3. QED BY <3>1, <3>2
  <2>3. ASSUME NEW i \in 1 .. n, s = temps[i] PROVE idx2[r] <= idx2[s]
    <3>1. i = 1 /\ h.pool[0] = Null
      <4>1. i # 1 => i - 1 \in 1 .. n
        OBVIOUS
      <4>2. i # 1 => temps[i - 1] # Null
        BY <1>12, <4>1
      <4>3. QED BY <1>6, <1>25, <2>3, <4>2
    <3>2. own2[r] = PoolLabel(0) /\ own2[r] # Null
      BY <1>12, <1>25, <2>3
    <3>3. ~Kept(r)
      BY <1>20, <1>21, <3>1, <3>2
    <3>4. PICK j \in 1 .. n : r = temps[j]
      BY <1>13, <3>2, <3>3
    <3>5. idx2[r] = b - j /\ idx2[s] = b - 1
      BY <1>12, <2>3, <3>1, <3>4
    <3>6. QED BY <3>5
  <2>4. QED BY <1>13, <1>25, <2>1, <2>2, <2>3
<1>26. ASSUME NEW s \in Structs, NEW r \in Structs, own2[s] # Null, own2[r] = own2[s], idx2[r] = idx2[s]
       PROVE  r = s
  <2>1. CASE Kept(s) /\ Kept(r)
    <3>1. own[s] # Null /\ own[r] = own[s] /\ idx[r] = idx[s]
      BY <1>11, <1>26, <2>1
    <3>2. QED BY <1>1, <3>1
  <2>2. ASSUME NEW p \in Structs, Kept(p), NEW j \in 1 .. n, own2[p] = own2[temps[j]], idx2[p] = idx2[temps[j]] PROVE FALSE
    <3>1. own[p] = PoolLabel(0) /\ idx2[temps[j]] = b - j
      BY <1>12, <1>21, <2>2
    <3>2. b <= idx[p] /\ idx[p] \in Int /\ idx2[p] = idx[p]
      BY <1>11, <1>20, <2>2, <3>1
    <3>3. QED BY <2>2, <3>1, <3>2
  <2>3. ASSUME NEW i \in 1 .. n, NEW j \in 1 .. n, s = temps[i], r = temps[j] PROVE r = s
    <3>1. b - i = b - j
      BY <1>12, <1>26, <2>3
    <3>2. QED BY <2>3, <3>1
  <2>4. (\E i \in 1 .. n : s = temps[i]) \/ Kept(s)
    BY <1>13, <1>26
  <2>5. (\E i \in 1 .. n : r = temps[i]) \/ Kept(r)
    BY <1>13, <1>26
  <2>6. QED BY <1>26, <2>1, <2>2, <2>3, <2>4, <2>5
<1>27. Strung(h2.next, h2.used, own2, idx2)
  <2>1. h2.used = h.used
    BY <1>6
  <2>2. /\ \A s \in Heads : own2[s] # Null => own2[s] = s /\ idx2[s] = 0
        /\ \A s \in Structs \ Heads : own2[s] \in Heads => idx2[s] > 0
    BY <1>14, <1>17
  <2>3. QED BY <1>16, <1>18, <1>19, <1>24, <1>25, <1>26, <2>1, <2>2 DEF Strung
<1>28. Pooling(h2.pool, own2, idx2)
  <2>1. ASSUME NEW t \in Threads, ~(t = 0 /\ n > 0)
        PROVE  IF h2.pool[t] = Null THEN \A s \in Structs : own2[s] # PoolLabel(t)
               ELSE /\ own2[h2.pool[t]] = PoolLabel(t)
                    /\ \A s \in Structs : own2[s] = PoolLabel(t) => idx2[h2.pool[t]] <= idx2[s]
    <3>1. h2.pool[t] = h.pool[t] /\ h.pool[t] \in Structs
      BY <1>2, <1>6, <2>1
    <3>2. ASSUME NEW s \in Structs, own2[s] = PoolLabel(t) PROVE own[s] = PoolLabel(t) /\ Kept(s) /\ idx2[s] = idx[s]
      <4>1. own2[s] # Null
        BY <1>3, <3>2
      <4>2. ASSUME NEW i \in 1 .. n, s = temps[i] PROVE FALSE
        <5>1. PoolLabel(t) = PoolLabel(0)
          BY <1>12, <3>2, <4>2
        <5>2. t = 0
          BY <1>3, <1>4, <5>1
        <5>3. QED BY <2>1, <5>2
      <4>3. Kept(s)
        BY <1>13, <4>1, <4>2
      <4>4. QED BY <1>11, <3>2, <4>3
    <3>3. CASE h.pool[t] = Null
      BY <1>2, <3>1, <3>2, <3>3
    <3>4. CASE h.pool[t] # Null
      <4>1. own[h.pool[t]] = PoolLabel(t) /\ \A s \in Structs : own[s] = PoolLabel(t) => idx[h.pool[t]] <= idx[s]
        BY <1>2, <3>4
      <4>2. Kept(h.pool[t])
        BY <1>22, <3>1, <4>1
      <4>3. own2[h.pool[t]] = PoolLabel(t) /\ idx2[h.pool[t]] = idx[h.pool[t]]
        BY <1>11, <3>1, <4>1, <4>2
      <4>4. QED BY <3>1, <3>2, <3>4, <4>1, <4>3
    <3>5. QED BY <3>3, <3>4
  <2>2. ASSUME n > 0
        PROVE  h2.pool[0] # Null /\ own2[h2.pool[0]] = PoolLabel(0)
               /\ \A s \in Structs : own2[s] = PoolLabel(0) => idx2[h2.pool[0]] <= idx2[s]
    <3>1. n \in 1 .. n /\ h2.pool[0] = temps[n]
      BY <1>4, <1>6, <2>2
    <3>2. temps[n] # Null /\ own2[temps[n]] = PoolLabel(0) /\ idx2[temps[n]] = b - n
      BY <1>12, <3>1
    <3>3. ASSUME NEW s \in Structs, own2[s] = PoolLabel(0) PROVE b - n <= idx2[s]
      <4>1. own2[s] # Null
        BY <1>3, <1>4, <3>3
      <4>2. CASE Kept(s)
        <5>1. b <= idx[s] /\ idx[s] \in Int /\ idx2[s] = idx[s]
          BY <1>11, <1>20, <1>21, <3>3, <4>2
        <5>2. QED BY <5>1
      <4>3. ASSUME NEW i \in 1 .. n, s = temps[i] PROVE b - n <= idx2[s]
        <5>1. idx2[s] = b - i
          BY <1>12, <4>3
        <5>2. QED BY <5>1
      <4>4. QED BY <1>13, <4>1, <4>2, <4>3
    <3>4. QED BY <3>1, <3>2, <3>3
  <2>3. QED BY <2>1, <2>2 DEF Pooling
<1>29. Chained(h2, own2, idx2)
  BY <1>27, <1>28 DEF Chained
<1>30. QED BY <1>7, <1>14, <1>15, <1>29

LEMMA DrainsInto ==
  ASSUME NEW h, HeapOK(h), NEW a \in {1, 2},
         NEW temps \in Seq(Structs), Distinct(temps), \A s \in Elems(temps) : s \notin Heads,
         NEW h2,
         h2 = LET Place(s) == CHOOSE i \in DOMAIN temps : temps[i] = s
              IN  [next |-> [s \in Structs |->
                     IF s[1] = a THEN Null
                     ELSE IF s \notin ToSet(temps) THEN h.next[s]
                     ELSE IF Place(s) = 1 THEN h.pool[0] ELSE temps[Place(s) - 1]],
                   pool |-> [h.pool EXCEPT ![0] = IF temps = <<>> THEN @ ELSE Last(temps)],
                   alloc |-> h.alloc, used |-> h.used],
         \A s \in Elems(temps) : s # Null
  PROVE  Drained(h, a, temps, h2)
<1> DEFINE Place(s) == CHOOSE i \in DOMAIN temps : temps[i] = s
<1> DEFINE next2 == [s \in Structs |->
                     IF s[1] = a THEN Null
                     ELSE IF s \notin ToSet(temps) THEN h.next[s]
                     ELSE IF Place(s) = 1 THEN h.pool[0] ELSE temps[Place(s) - 1]]
<1> DEFINE pool2 == [h.pool EXCEPT ![0] = IF temps = <<>> THEN @ ELSE Last(temps)]
<1>1. h2 = [next |-> next2, pool |-> pool2, alloc |-> h.alloc, used |-> h.used]
  OBVIOUS
<1>2. h.next \in [Structs -> Structs] /\ h.pool \in [Threads -> Structs] /\ 0 \in Threads
  BY Sizes DEF HeapOK, Threads
<1>3. ToSet(temps) = Elems(temps)
  BY CountOf
<1>4. PICK n \in Nat : n = Len(temps) /\ DOMAIN temps = 1 .. n
  OBVIOUS
<1>5. ASSUME NEW i \in 1 .. n
      PROVE  /\ temps[i] \in Elems(temps) /\ temps[i] \in Structs /\ Place(temps[i]) = i
             /\ temps[i][1] # a
  <2>1. temps[i] \in Elems(temps) /\ temps[i] \in Structs
    BY <1>4 DEF Elems
  <2>2. \A j \in 1 .. n : temps[j] = temps[i] => j = i
    BY <1>4 DEF Distinct
  <2>3. Place(temps[i]) = i
    BY <1>4, <2>2
  <2>4. PICK t \in Threads, m \in 1 .. MaxCells : temps[i] = <<3 + t, m>>
    BY <2>1, StructKinds
  <2>5. t \in Nat
    BY Sizes DEF Threads
  <2>6. temps[i][1] # a
    BY <2>4, <2>5
  <2>7. QED BY <2>1, <2>3, <2>6
<1>6. \A s \in Elems(temps) : \E i \in 1 .. n : s = temps[i]
  BY <1>4 DEF Elems
<1>7. n > 0 => temps # <<>> /\ Last(temps) = temps[n] /\ temps[n] \in Structs
  BY <1>4 DEF Last
<1>8. n = 0 => temps = <<>>
  BY <1>4
<1> HIDE DEF Place
<1>9. next2 \in [Structs -> Structs]
  <2>1. ASSUME NEW s \in Structs PROVE next2[s] \in Structs
    <3>1. CASE s[1] = a
      BY <3>1, StructKinds
    <3>2. CASE s[1] # a /\ s \notin Elems(temps)
      BY <1>2, <1>3, <3>2
    <3>3. CASE s[1] # a /\ s \in Elems(temps)
      <4>1. PICK i \in 1 .. n : s = temps[i] /\ Place(s) = i
        BY <1>5, <1>6, <3>3
      <4>2. next2[s] = IF i = 1 THEN h.pool[0] ELSE temps[i - 1]
        BY <1>3, <3>3, <4>1
      <4>3. i # 1 => i - 1 \in 1 .. n
        OBVIOUS
      <4>4. i # 1 => temps[i - 1] \in Structs
        BY <1>5, <4>3
      <4>5. QED BY <1>2, <4>2, <4>4
    <3>4. QED BY <3>1, <3>2, <3>3
  <2>2. QED BY <2>1
<1>10. pool2 \in [Threads -> Structs] /\ \A t \in Threads : pool2[t] = IF t = 0 /\ n > 0 THEN temps[n] ELSE h.pool[t]
  BY <1>2, <1>4, <1>7, <1>8
<1>11. \A s \in Structs : s[1] = a => next2[s] = Null
  OBVIOUS
<1>12. \A s \in Structs \ Elems(temps) : s[1] # a => next2[s] = h.next[s]
  BY <1>3
<1>13. ASSUME NEW i \in 1 .. n PROVE next2[temps[i]] = IF i = 1 THEN h.pool[0] ELSE temps[i - 1]
  BY <1>3, <1>5
<1> HIDE DEF next2, pool2
<1>14. h2.next = next2 /\ h2.pool = pool2 /\ h2 = [next |-> h2.next, pool |-> h2.pool, alloc |-> h.alloc, used |-> h.used]
  <2>1. PICK x, y, z, w : x = next2 /\ y = pool2 /\ z = h.alloc /\ w = h.used
    OBVIOUS
  <2>2. h2 = [next |-> x, pool |-> y, alloc |-> z, used |-> w]
    BY ONLY <1>1, <2>1
  <2>3. h2.next = x /\ h2.pool = y
    BY ONLY <2>2
  <2>4. QED BY ONLY <2>1, <2>2, <2>3
<1>15. h2.next \in [Structs -> Structs] /\ h2.pool \in [Threads -> Structs]
  BY ONLY <1>9, <1>10, <1>14
<1>16. (\A s \in Structs : s[1] = a => h2.next[s] = Null) /\ \A s \in Structs \ Elems(temps) : s[1] # a => h2.next[s] = h.next[s]
  BY ONLY <1>11, <1>12, <1>14
<1>17. \A i \in 1 .. n : h2.next[temps[i]] = IF i = 1 THEN h.pool[0] ELSE temps[i - 1]
  BY <1>13, <1>14
<1>18. \A t \in Threads : h2.pool[t] = IF t = 0 /\ n > 0 THEN temps[n] ELSE h.pool[t]
  BY ONLY <1>10, <1>14
<1>19. Len(temps) = n
  BY <1>4
<1>20. h2 = [next |-> h2.next, pool |-> h2.pool, alloc |-> h.alloc, used |-> h.used]
  BY <1>14
<1>21. QED BY ONLY <1>15, <1>16, <1>17, <1>18, <1>19, <1>20 DEF Drained

LEMMA ReachIs ==
  ASSUME NEW s
  PROVE  Reach(s) = ReachOf(heap, s)
BY DEF Reach, ReachOf

LEMMA BehindSeq ==
  ASSUME HeapOK(heap), NEW own, NEW idx, Chained(heap, own, idx),
         NEW l \in Heads, l[1] = cells, own[l] = l
  PROVE  /\ Behind(l[2]) \in Seq(Structs) /\ Distinct(Behind(l[2]))
         /\ \A s : s \in Elems(Behind(l[2])) <=> s \in Structs \ Heads /\ own[s] = l
<1>1. PICK h : h = heap
  OBVIOUS
<1>2. HeapOK(h) /\ Chained(h, own, idx)
  BY <1>1
<1>3. PICK m \in Nat :
        /\ Cardinality(ReachOf(h, h.next[l])) = m
        /\ \A k \in 1 .. m : /\ Along(h, l, k) \in Structs \ Heads
                             /\ own[Along(h, l, k)] = l /\ idx[Along(h, l, k)] = k
        /\ \A r \in Structs \ Heads : own[r] = l => idx[r] \in 1 .. m /\ Along(h, l, idx[r]) = r
  BY <1>2, BehindHead
<1>4. PICK b : b = [k \in 1 .. m |-> Along(h, l, k)]
  OBVIOUS
<1>5. Behind(l[2]) = b
  <2>1. l = <<cells, l[2]>>
    BY DEF Heads
  <2>2. Cardinality(Reach(heap.next[<<cells, l[2]>>])) = m
    BY <1>1, <1>3, <2>1, ReachIs
  <2>3. QED BY <1>1, <1>4, <2>1, <2>2 DEF Behind
<1>6. b \in Seq(Structs) /\ Len(b) = m /\ \A k \in 1 .. m : b[k] \in Structs \ Heads /\ own[b[k]] = l /\ idx[b[k]] = k
  BY <1>3, <1>4
<1>7. \A r \in Structs \ Heads : own[r] = l => idx[r] \in 1 .. m /\ b[idx[r]] = r
  BY <1>3, <1>4
<1>8. Distinct(b)
  BY <1>6 DEF Distinct
<1>9. ASSUME NEW s PROVE s \in Elems(b) <=> s \in Structs \ Heads /\ own[s] = l
  BY <1>6, <1>7 DEF Elems
<1>10. QED BY <1>5, <1>6, <1>8, <1>9

LEMMA CleanUpSimStep ==
  ASSUME IInv, CleanUpSim
  PROVE  IInv'
<1> DEFINE temps == FlattenSeq([i \in 1 .. NX * NY * NZ |-> Behind(i - 1)])
<1>1. /\ main = "clean" /\ main' = "end"
      /\ UNCHANGED <<build, frame, cells, num, slots, last, where, at, src, dst, mutex, file>>
  BY DEF CleanUpSim, lane_vars
<1>2. heap' = LET Place(s) == CHOOSE i \in DOMAIN temps : temps[i] = s
              IN  [next |-> [s \in Structs |->
                     IF s[1] = cells THEN Null
                     ELSE IF s \notin ToSet(temps) THEN heap.next[s]
                     ELSE IF Place(s) = 1 THEN heap.pool[0] ELSE temps[Place(s) - 1]],
                   pool |-> [heap.pool EXCEPT ![0] = IF temps = <<>> THEN @ ELSE Last(temps)],
                   alloc |-> heap.alloc, used |-> heap.used]
  BY DEF CleanUpSim
<1>3. TypeOK /\ InStep /\ Reading /\ Working /\ SavedAll
  BY <1>1 DEF IInv
<1>4. \A t \in Threads : at[t] = <<9, "out">> /\ at[t][1] \in 3 .. 9
  BY <1>1, <1>3 DEF InStep, AllAt
<1>5. PICK own, idx, loc : Labelled(own, idx) /\ Stored(own, idx, loc) /\ Located(own, loc) /\ Adding(own, idx)
  BY <1>3 DEF Working
<1>6. HeapOK(heap) /\ cells \in {1, 2}
  BY <1>3 DEF TypeOK
<1>7. Chained(heap, own, idx) /\ Listed(heap, own, idx, LiveHeads, Entry, First, Size)
  BY <1>5 DEF Labelled
<1>8. LiveHeads = {cells} \X Cells /\ Entry = FirstEntry
  BY <1>4, BetweenRebuilds
<1>9. ASSUME NEW c \in Cells PROVE <<cells, c>> \in Heads /\ own[<<cells, c>>] = <<cells, c>>
  <2>1. PICK l \in LiveHeads : l = <<cells, c>>
    BY <1>8
  <2>2. l \in Heads /\ LiveHeads \subseteq Heads
    BY <1>6, <1>8 DEF Heads
  <2>3. Entry[l] = l
    BY <1>8, <2>2 DEF FirstEntry
  <2>4. own[l] = l
    BY <1>7, <2>2, <2>3, HeadOfList
  <2>5. QED BY <2>1, <2>2, <2>4
<1>10. \A s \in Structs : own[s] \in Heads => \E c \in Cells : own[s] = <<cells, c>>
  BY <1>7, <1>8 DEF Listed
<1>11. PICK n \in Nat \ {0} : n = NX * NY * NZ
  BY Sizes
<1>12. PICK ss : ss = [i \in 1 .. n |-> Behind(i - 1)]
  OBVIOUS
<1>13. Len(ss) = n /\ temps = FlattenSeq(ss)
  BY <1>11, <1>12
<1>14. ASSUME NEW i \in 1 .. n
       PROVE  /\ ss[i] \in Seq(Structs) /\ Distinct(ss[i])
              /\ \A s : s \in Elems(ss[i]) <=> s \in Structs \ Heads /\ own[s] = <<cells, i - 1>>
  <2>1. PICK c \in Cells : c = i - 1
    BY <1>11 DEF Cells
  <2>2. PICK l \in Heads : l = <<cells, c>> /\ own[l] = l /\ l[1] = cells /\ l[2] = c
    BY <1>9
  <2>3. /\ Behind(l[2]) \in Seq(Structs) /\ Distinct(Behind(l[2]))
        /\ \A s : s \in Elems(Behind(l[2])) <=> s \in Structs \ Heads /\ own[s] = l
    BY <1>6, <1>7, <2>2, BehindSeq
  <2>4. ss[i] = Behind(l[2])
    BY <1>12, <2>1, <2>2
  <2>5. QED BY <2>1, <2>2, <2>3, <2>4
<1>15. ASSUME NEW i \in 1 .. n, NEW j \in 1 .. n, i # j PROVE Elems(ss[i]) \cap Elems(ss[j]) = {}
  <2>1. <<cells, i - 1>> # <<cells, j - 1>>
    BY <1>15
  <2>2. QED BY <1>14, <2>1
<1>16. /\ temps \in Seq(Structs) /\ Distinct(temps)
       /\ \A v : v \in Elems(temps) <=> \E i \in 1 .. n : v \in Elems(ss[i])
  <2>1. \A i \in 1 .. n : ss[i] \in Seq(Structs) /\ Distinct(ss[i])
    BY <1>14
  <2>2. \A i, j \in 1 .. n : i # j => Elems(ss[i]) \cap Elems(ss[j]) = {}
    BY <1>15
  <2>3. PICK f : f = FlattenSeq(ss)
    OBVIOUS
  <2>4. f \in Seq(Structs) /\ Distinct(f) /\ \A v : v \in Elems(f) <=> \E i \in 1 .. n : v \in Elems(ss[i])
    BY <1>13, <2>1, <2>2, <2>3, Flattened
  <2>5. QED BY <1>13, <2>3, <2>4
<1>17. ASSUME NEW s \in Structs PROVE s \in Elems(temps) <=> s \notin Heads /\ own[s] \in Heads
  <2>1. ASSUME s \in Elems(temps) PROVE s \notin Heads /\ own[s] \in Heads
    <3>1. PICK i \in 1 .. n : s \in Elems(ss[i])
      BY <1>16, <2>1
    <3>2. s \in Structs \ Heads /\ own[s] = <<cells, i - 1>>
      BY <1>14, <3>1
    <3>3. i - 1 \in Cells
      BY <1>11 DEF Cells
    <3>4. QED BY <1>9, <3>2, <3>3
  <2>2. ASSUME s \notin Heads, own[s] \in Heads PROVE s \in Elems(temps)
    <3>1. PICK c \in Cells : own[s] = <<cells, c>>
      BY <1>10, <2>2
    <3>2. PICK i \in 1 .. n : i - 1 = c
      <4>1. c + 1 \in 1 .. n /\ (c + 1) - 1 = c
        BY <1>11 DEF Cells
      <4>2. QED BY <4>1
    <3>3. s \in Elems(ss[i])
      BY <1>14, <2>2, <3>1, <3>2
    <3>4. QED BY <1>16, <3>3
  <2>3. QED BY <2>1, <2>2
<1>18. PICK q : q = temps
  OBVIOUS
<1>19. PICK h, h2 : h = heap /\ h2 = heap'
  OBVIOUS
<1>20. q \in Seq(Structs) /\ Distinct(q) /\ \A s \in Structs : s \in Elems(q) <=> s \notin Heads /\ own[s] \in Heads
  BY <1>16, <1>17, <1>18
<1>21. h2 = LET Place(s) == CHOOSE i \in DOMAIN q : q[i] = s
             IN  [next |-> [s \in Structs |->
                    IF s[1] = cells THEN Null
                    ELSE IF s \notin ToSet(q) THEN h.next[s]
                    ELSE IF Place(s) = 1 THEN h.pool[0] ELSE q[Place(s) - 1]],
                  pool |-> [h.pool EXCEPT ![0] = IF q = <<>> THEN @ ELSE Last(q)],
                  alloc |-> h.alloc, used |-> h.used]
  BY ONLY <1>2, <1>18, <1>19
<1> HIDE DEF temps
<1>22. HeapOK(h) /\ Chained(h, own, idx)
  BY <1>6, <1>7, <1>19
<1>23. \A s \in Elems(q) : s \in Structs /\ s \notin Heads /\ s # Null
  <2>1. \A s \in Elems(q) : s \in Structs
    BY <1>20 DEF Elems
  <2>2. own[Null] = Null /\ Null \notin Heads
    BY <1>22, StructKinds DEF Chained, Strung
  <2>3. QED BY <1>20, <2>1, <2>2
<1>24. PICK a \in {1, 2} : a = cells
  BY <1>6
<1>25. Drained(h, a, q, h2)
  <2>1. h2 = LET Place(s) == CHOOSE i \in DOMAIN q : q[i] = s
             IN  [next |-> [s \in Structs |->
                    IF s[1] = a THEN Null
                    ELSE IF s \notin ToSet(q) THEN h.next[s]
                    ELSE IF Place(s) = 1 THEN h.pool[0] ELSE q[Place(s) - 1]],
                  pool |-> [h.pool EXCEPT ![0] = IF q = <<>> THEN @ ELSE Last(q)],
                  alloc |-> h.alloc, used |-> h.used]
    BY ONLY <1>21, <1>24
  <2>2. QED BY <1>20, <1>22, <1>23, <2>1, DrainsInto
<1>26. HeapOK(h2) /\ \E own2, idx2 : /\ Chained(h2, own2, idx2) /\ \A s \in Structs : own2[s] \notin Heads
                                    /\ \A s \in Structs \ Heads : own[s] # Null => own2[s] # Null
  BY <1>20, <1>22, <1>25, DrainChained
<1>27. PICK own2, idx2 : /\ Chained(h2, own2, idx2) /\ \A s \in Structs : own2[s] \notin Heads
                         /\ \A s \in Structs \ Heads : own[s] # Null => own2[s] # Null
  BY <1>26
<1>28. Particles' = Particles
  BY <1>1 DEF Particles
<1>29. SavedAll'
  BY <1>1, <1>3, <1>28 DEF SavedAll
<1>30. TypeOK' /\ InStep' /\ Reading'
  <2>1. HeapOK(heap)'
    BY <1>19, <1>26
  <2>2. QED BY <1>1, <1>3, <1>4, <1>28, <2>1 DEF TypeOK, InStep, AllAt, Reading, Left, Particle, cells2
<1>31. Ended'
  <2>1. Chained(heap', own2, idx2)
    BY <1>19, <1>27
  <2>2. ASSUME NEW c \in Cells PROVE heap'.next[<<cells', c>>] = Null
    <3>1. <<cells, c>> \in Structs /\ <<cells, c>>[1] = a
      BY <1>9, <1>24, StructKinds
    <3>2. h2.next[<<cells, c>>] = Null
      BY <1>25, <3>1 DEF Drained
    <3>3. QED BY <1>1, <1>19, <3>2
  <2>3. ASSUME build' = "mutex", NEW s \in Used' PROVE own2[s] # Null
    <3>1. s \in UsedOf(h2)
      BY <1>19 DEF Used, UsedOf
    <3>2. h2.used = h.used
      BY <1>25 DEF Drained
    <3>3. s \in Used /\ s \in UsedOf(h)
      BY <1>19, <3>1, <3>2 DEF Used, UsedOf
    <3>4. s \in Structs \ Heads
      BY <1>22, <3>3, UsedStructs
    <3>5. own[s] # Null
      BY <1>1, <1>5, <2>3, <3>3 DEF Labelled
    <3>6. QED BY <1>27, <3>4, <3>5
  <2>4. Chained(heap, own2, idx2)' /\ (\A c \in Cells : heap.next[<<cells, c>>] = Null)'
    BY <2>1, <2>2
  <2>5. (build = "mutex" => \A s \in Used : own2[s] # Null)'
    BY <2>3
  <2>6. QED BY <1>27, <2>4, <2>5 DEF Ended
<1>32. QED BY <1>1, <1>29, <1>30, <1>31 DEF IInv

-----------------------------------------------------------------------------
(* The theorems.                                                            *)

LEMMA LaneStep ==
  ASSUME IInv, NEW t \in Threads, Lane(t)
  PROVE  IInv'
<1>1. CASE ClearParticles(t)
  BY <1>1, ClearParticlesStep
<1>2. CASE StartRebuild(t)
  BY <1>2, StartRebuildStep
<1>3. CASE LockCell(t)
  BY <1>3, LockCellStep
<1>4. CASE AddToCell(t)
  BY <1>4, AddToCellStep
<1>5. CASE CopyParticle(t)
  BY <1>5, CopyParticleStep
<1>6. CASE FinishCell(t)
  BY <1>6, FinishCellStep
<1>7. CASE RebuildWorker0(t)
  BY <1>7, RebuildWorker0Step
<1>8. CASE RebuildWorker1(t)
  BY <1>8, RebuildWorker1Step
<1>9. CASE RebuildWorker2(t)
  BY <1>9, RebuildWorker2Step
<1>10. CASE \/ InitDensitiesAndForces(t) \/ ComputeDensities(t) \/ ComputeDensities2(t)
            \/ ComputeForces(t) \/ ProcessCollisions(t)
  BY <1>10, KernelStages
<1>11. CASE AdvanceParticles(t)
  BY <1>11, AdvanceParticlesStep
<1>12. CASE ProcessCollisions2(t)
  BY <1>12, ProcessCollisions2Step
<1>13. QED BY <1>1, <1>2, <1>3, <1>4, <1>5, <1>6, <1>7, <1>8, <1>9, <1>10, <1>11, <1>12 DEF Lane

LEMMA EveryStep ==
  ASSUME IInv, [Next]_vars
  PROVE  IInv'
<1>1. ASSUME NEW t \in Threads, Lane(t) PROVE IInv'
  BY <1>1, LaneStep
<1>2. ASSUME NEW t \in Threads, CellModification(t) PROVE IInv'
  BY <1>2, CellModificationStep
<1>3. ASSUME NEW s \in Modified, ModificationKernel(s) PROVE IInv'
  BY <1>3, ModificationKernelStep
<1>4. CASE Accumulator
  BY <1>4, AccumulatorStep
<1>5. CASE AdvanceFrameMT
  BY <1>5, AdvanceFrameStep
<1>6. CASE SaveFile
  BY <1>6, SaveFileStep
<1>7. CASE CleanUpSim
  BY <1>7, CleanUpSimStep
<1>8. CASE UNCHANGED vars
  BY <1>8, OtherVariables DEF vars
<1>9. QED BY <1>1, <1>2, <1>3, <1>4, <1>5, <1>6, <1>7, <1>8 DEF Next, Main

\* The lists of structures and the places of the particles are as the inductive
\* invariant says in every state, for every grid, number of threads, file and
\* number of frames: the rebuild, with mutexes or with kernels, the frames and
\* the clean-up (RebuildGridMTWorker, the kernels and CleanUpSim) keep them so.
THEOREM AlwaysInPlace == Spec => []IInv
<1>1. Init => IInv
  BY InitHolds
<1>2. IInv /\ [Next]_vars => IInv'
  BY EveryStep
<1>3. QED BY <1>1, <1>2, PTL DEF Spec

\* The file holds every particle once, and all are inside the domain (the
\* assertion of SaveFile, line 450, and ProcessCollisions2MT).
THEOREM AlwaysSavedAll == Spec => []SavedAll
<1>1. IInv => SavedAll
  BY DEF IInv
<1>2. QED BY <1>1, AlwaysInPlace, PTL

\* Binned particles, as in EachParticleOnce.
Binned == UNION {{<<Content(cells, c)[j], c, j>> : j \in 1 .. num[cells][c]} : c \in Cells}

LEMMA BinnedOnce ==
  ASSUME IInv, main # "end", Rebuilt
  PROVE  /\ {b[1] : b \in Binned} = Particles
         /\ Cardinality(Binned) = Cardinality(Particles)
         /\ (\A t \in Threads : at[t][1] < 8) => \A b \in Binned : CellAt(where[b[1]]) = b[2]
<1>1. TypeOK /\ Working
  BY DEF IInv
<1>2. \A t \in Threads : at[t][1] \in 3 .. 9
  <2>1. ASSUME NEW t \in Threads PROVE at[t][1] \in 3 .. 9
    <3>1. PICK l \in Labelings : l = at[t]
      BY <1>1 DEF TypeOK
    <3>2. l[1] > 2
      BY <3>1 DEF Rebuilt
    <3>3. l[1] \in 1 .. 9
      BY DEF Labelings, Inner
    <3>4. QED BY <3>1, <3>2, <3>3
  <2>2. QED BY <2>1
<1>3. PICK own, idx, loc : Labelled(own, idx) /\ Stored(own, idx, loc) /\ Located(own, loc)
  BY <1>1 DEF Working
<1>4. \A b : b \in Binned <=> \E c \in Cells : \E j \in 1 .. num[cells][c] : b = <<Content(cells, c)[j], c, j>>
  BY DEF Binned
<1>5. ASSUME NEW b \in Binned
      PROVE  \E c \in Cells : \E j \in 1 .. num[cells][c] :
               /\ b = <<Content(cells, c)[j], c, j>> /\ b[1] = Content(cells, c)[j] /\ b[2] = c /\ b[1] \in Particles
               /\ own[loc[b[1]][1]] = <<cells, c>>
  <2>1. PICK c \in Cells : \E j \in 1 .. num[cells][c] : b = <<Content(cells, c)[j], c, j>>
    BY <1>4
  <2>2. PICK j \in 1 .. num[cells][c] : b = <<Content(cells, c)[j], c, j>>
    BY <2>1
  <2>3. PICK p : p = Content(cells, c)[j]
    OBVIOUS
  <2>4. PICK r : r = StructOf(cells, c, j - 1)
    OBVIOUS
  <2>5. p \in Particles /\ loc[p] = <<r, (j - 1) % PPC>> /\ own[r] = <<cells, c>>
    BY <1>2, <1>3, <2>3, <2>4, ContentPlace
  <2>6. b[1] = p /\ b[2] = c
    BY <2>2, <2>3
  <2>7. QED BY <2>2, <2>3, <2>5, <2>6
<1>6. ASSUME NEW p \in Particles PROVE \E b \in Binned : b[1] = p
  <2>1. PICK c \in Cells : \E j \in 1 .. num[cells][c] : Content(cells, c)[j] = p
    BY <1>2, <1>3, PlaceContent
  <2>2. PICK j \in 1 .. num[cells][c] : Content(cells, c)[j] = p
    BY <2>1
  <2>3. PICK b : b = <<Content(cells, c)[j], c, j>>
    OBVIOUS
  <2>4. QED BY <1>4, <2>2, <2>3
<1>7. ASSUME NEW b \in Binned, NEW e \in Binned, b[1] = e[1] PROVE b = e
  <2>1. PICK c \in Cells : \E j \in 1 .. num[cells][c] : b = <<Content(cells, c)[j], c, j>>
    BY <1>4
  <2>2. PICK j \in 1 .. num[cells][c] : b = <<Content(cells, c)[j], c, j>>
    BY <2>1
  <2>3. PICK d \in Cells : \E k \in 1 .. num[cells][d] : e = <<Content(cells, d)[k], d, k>>
    BY <1>4
  <2>4. PICK k \in 1 .. num[cells][d] : e = <<Content(cells, d)[k], d, k>>
    BY <2>3
  <2>5. Content(cells, c)[j] = Content(cells, d)[k]
    BY <1>7, <2>2, <2>4
  <2>6. c = d /\ j = k
    BY <1>2, <1>3, <2>5, OneSpot
  <2>7. QED BY <2>2, <2>4, <2>6
<1>8. {b[1] : b \in Binned} = Particles
  BY <1>5, <1>6
<1>9. Cardinality(Binned) = Cardinality(Particles)
  <2> DEFINE f == [p \in Particles |-> CHOOSE b \in Binned : b[1] = p]
  <2>1. \A p \in Particles : f[p] \in Binned /\ f[p][1] = p
    BY <1>6
  <2>2. f \in [Particles -> Binned]
    BY <2>1
  <2> HIDE DEF f
  <2>3. \A p, q \in Particles : f[p] = f[q] => p = q
    BY <2>1
  <2>4. \A b \in Binned : \E p \in Particles : f[p] = b
    <3>1. ASSUME NEW b \in Binned PROVE b[1] \in Particles /\ f[b[1]] = b
      BY <1>5, <1>7, <2>1
    <3>2. QED BY <3>1
  <2>5. f \in Bijection(Particles, Binned)
    BY <2>2, <2>3, <2>4 DEF Bijection, Injection, Surjection, IsInjective
  <2>6. ExistsBijection(Particles, Binned)
    BY <2>5 DEF ExistsBijection
  <2>7. IsFiniteSet(Particles)
    BY <1>1 DEF TypeOK
  <2>8. QED BY <2>6, <2>7, FS_Bijection
<1>10. ASSUME \A t \in Threads : at[t][1] < 8, NEW b \in Binned PROVE CellAt(where[b[1]]) = b[2]
  <2>1. PICK c \in Cells : b[2] = c /\ b[1] \in Particles /\ own[loc[b[1]][1]] = <<cells, c>>
    BY <1>5
  <2>2. PICK l, p : l = <<cells, c>> /\ p = b[1]
    OBVIOUS
  <2>3. Position(p, l)
    BY <1>3, <2>1, <2>2 DEF Located
  <2>4. l[1] = cells /\ l[2] = c
    BY <2>2
  <2>5. PICK u \in Threads : u = OwnerOf(c)
    BY Owners
  <2>6. at[u][1] \in 2 .. 7
    BY <1>2, <1>10
  <2>7. CellAt(where[p]) = c
    BY <2>3, <2>4, <2>5, <2>6 DEF Position
  <2>8. QED BY <2>1, <2>2, <2>7
<1>11. QED BY <1>8, <1>9, <1>10

\* Between the rebuild and the moves every particle is in the cell of its
\* position, exactly once, whatever the threads did in whatever order (the
\* rebuild of lines 730-763 with its mutexes, and the kernels that replace it).
THEOREM AlwaysEachParticleOnce == Spec => []EachParticleOnce
<1>1. IInv => EachParticleOnce
  BY BinnedOnce DEF EachParticleOnce, Binned
<1>2. QED BY <1>1, AlwaysInPlace, PTL

-----------------------------------------------------------------------------
(* The lists in use, by their tags.                                         *)

SourceList(t) == LET s == src[t].struct IN IF IsHead(s) THEN heap.next[s] ELSE s
LEMMA TagKinds ==
  ASSUME NEW tag
  PROVE  /\ tag \in DOMAIN Lists <=>
              \/ \E t \in Threads : tag = <<"pool", t>>
              \/ \E c \in Cells : at[OwnerOf(c)] # <<1, "in">> /\ tag = <<"cells", c>>
              \/ \E t \in Threads : \E c \in Unread(t) : tag = <<"cells2", c>>
              \/ \E t \in Threads : src[t] # NoSource /\ tag = <<"source", t>>
         /\ \A t \in Threads : tag = <<"pool", t>> => Lists[tag] = heap.pool[t]
         /\ \A c \in Cells : at[OwnerOf(c)] # <<1, "in">> /\ tag = <<"cells", c>> => Lists[tag] = heap.next[<<cells, c>>]
         /\ \A t \in Threads : \A c \in Unread(t) : tag = <<"cells2", c>> => Lists[tag] = heap.next[<<cells2, c>>]
         /\ \A t \in Threads : src[t] # NoSource /\ tag = <<"source", t>> => Lists[tag] = SourceList(t)
<1>1. tag \in DOMAIN Lists <=>
              \/ \E t \in Threads : tag = <<"pool", t>>
              \/ \E c \in Cells : at[OwnerOf(c)] # <<1, "in">> /\ tag = <<"cells", c>>
              \/ \E t \in Threads : \E c \in Unread(t) : tag = <<"cells2", c>>
              \/ \E t \in Threads : src[t] # NoSource /\ tag = <<"source", t>>
  <2> DEFINE A == {<<"pool", t>> : t \in Threads}
  <2> DEFINE B == {<<"cells", c>> : c \in {d \in Cells : at[OwnerOf(d)] # <<1, "in">>}}
  <2> DEFINE C == UNION {{<<"cells2", c>> : c \in Unread(t)} : t \in Threads}
  <2> DEFINE D == {<<"source", t>> : t \in {u \in Threads : src[u] # NoSource}}
  <2>1. DOMAIN Lists = A \cup B \cup D \cup C
    BY DEF Lists, Tags
  <2>2. tag \in A <=> \E t \in Threads : tag = <<"pool", t>>
    OBVIOUS
  <2>3. tag \in B <=> \E c \in Cells : at[OwnerOf(c)] # <<1, "in">> /\ tag = <<"cells", c>>
    OBVIOUS
  <2>4. tag \in C <=> \E t \in Threads : \E c \in Unread(t) : tag = <<"cells2", c>>
    OBVIOUS
  <2>5. tag \in D <=> \E t \in Threads : src[t] # NoSource /\ tag = <<"source", t>>
    OBVIOUS
  <2> HIDE DEF A, B, C, D
  <2>6. QED BY <2>1, <2>2, <2>3, <2>4, <2>5
<1>2. "pool" # "cells" /\ "pool" # "cells2" /\ "pool" # "source" /\ "cells" # "cells2" /\ "cells" # "source" /\ "cells2" # "source"
  OBVIOUS
<1>3. tag \in DOMAIN Lists => Lists[tag] = FirstOf(tag)
  BY DEF Lists
<1>4. ASSUME NEW t \in Threads, tag = <<"pool", t>> PROVE Lists[tag] = heap.pool[t]
  <2>1. tag \in DOMAIN Lists /\ tag[1] = "pool" /\ tag[2] = t
    BY <1>1, <1>4
  <2>2. QED BY ONLY <1>2, <1>3, <2>1 DEF FirstOf
<1>5. ASSUME NEW c \in Cells, at[OwnerOf(c)] # <<1, "in">>, tag = <<"cells", c>> PROVE Lists[tag] = heap.next[<<cells, c>>]
  <2>1. tag \in DOMAIN Lists /\ tag[1] = "cells" /\ tag[2] = c
    BY <1>1, <1>5
  <2>2. QED BY ONLY <1>2, <1>3, <2>1 DEF FirstOf
<1>6. ASSUME NEW t \in Threads, NEW c \in Unread(t), tag = <<"cells2", c>> PROVE Lists[tag] = heap.next[<<cells2, c>>]
  <2>1. tag \in DOMAIN Lists /\ tag[1] = "cells2" /\ tag[2] = c
    BY <1>1, <1>6
  <2>2. QED BY ONLY <1>2, <1>3, <2>1 DEF FirstOf
<1>7. ASSUME NEW t \in Threads, src[t] # NoSource, tag = <<"source", t>> PROVE Lists[tag] = SourceList(t)
  <2>1. tag \in DOMAIN Lists /\ tag[1] = "source" /\ tag[2] = t
    BY <1>1, <1>7
  <2>2. QED BY ONLY <1>2, <1>3, <2>1 DEF SourceList, FirstOf
<1>8. QED BY <1>1, <1>4, <1>5, <1>6, <1>7

\* The label of the list of a tag.
LabelOf(tag) == IF tag[1] = "pool" THEN PoolLabel(tag[2])
                ELSE IF tag[1] = "cells" THEN <<cells, tag[2]>>
                ELSE IF tag[1] = "cells2" THEN <<cells2, tag[2]>>
                ELSE <<cells2, src[tag[2]].cell>>
LEMMA LabelsOfTags ==
  /\ \A t : LabelOf(<<"pool", t>>) = PoolLabel(t)
  /\ \A c : LabelOf(<<"cells", c>>) = <<cells, c>>
  /\ \A c : LabelOf(<<"cells2", c>>) = <<cells2, c>>
  /\ \A t : LabelOf(<<"source", t>>) = <<cells2, src[t].cell>>
BY DEF LabelOf

\* What is still to be read of the old grid.
LEMMA UnreadCells ==
  ASSUME IInv, NEW t \in Threads
  PROVE  /\ \A c \in Unread(t) : c \in Cells /\ OwnerOf(c) = t
         /\ src[t] # NoSource => src[t].cell \in Cells /\ OwnerOf(src[t].cell) = t /\ src[t].cell \notin Unread(t)
         /\ src[t].cell \in Cells => src[t] # NoSource
         /\ cells \in {1, 2} /\ cells2 \in {1, 2} /\ cells2 # cells
<1>1. TypeOK /\ Reading
  BY DEF IInv
<1>2. Grid(t) = {d \in Cells : OwnerOf(d) = t}
  BY Grids
<1>3. Grid(t) \subseteq Int
  BY <1>2 DEF Cells
<1>4. \A c \in Unread(t) : c \in Cells /\ OwnerOf(c) = t
  BY <1>2 DEF Unread
<1>5. ASSUME src[t] # NoSource PROVE src[t].cell \in Grid(t) /\ src[t].cell \notin Unread(t)
  <2>1. src[t].cell \in Grid(t) /\ at[t] \in Inner
    BY <1>1, <1>5 DEF Reading
  <2>2. at[t] \notin {<<1, "in">>, <<1, "out">>, <<2, "in">>}
    BY <2>1 DEF Inner
  <2>3. Unread(t) = {d \in Grid(t) : d > src[t].cell}
    BY <1>5, <2>2 DEF Unread
  <2>4. QED BY <1>3, <2>1, <2>3
<1>6. src[t].cell \in Cells => src[t] # NoSource
  BY DEF NoSource, Cells
<1>7. cells \in {1, 2} /\ cells2 \in {1, 2} /\ cells2 # cells
  BY <1>1 DEF TypeOK, cells2
<1>8. QED BY <1>2, <1>4, <1>5, <1>6, <1>7

\* What is reached from the first structure of a pool or of a list in use.
LEMMA PoolReach ==
  ASSUME NEW h, HeapOK(h), NEW own, NEW idx, Chained(h, own, idx), NEW t \in Threads
  PROVE  \A r \in Structs : r \in ReachOf(h, h.pool[t]) <=> r \notin Heads /\ own[r] = PoolLabel(t)
<1>1. /\ h.pool[t] \in Structs /\ PoolLabel(t) \notin Heads /\ PoolLabel(t) # Null
      /\ own \in [Structs -> Labels] /\ idx \in [Structs -> Int] /\ own[Null] = Null
      /\ \A s \in Heads : own[s] # Null => own[s] = s
  BY StructKinds DEF HeapOK, Chained, Strung
<1>2. IF h.pool[t] = Null THEN \A s \in Structs : own[s] # PoolLabel(t)
      ELSE /\ own[h.pool[t]] = PoolLabel(t)
           /\ \A s \in Structs : own[s] = PoolLabel(t) => idx[h.pool[t]] <= idx[s]
  BY DEF Chained, Pooling
<1>3. CASE h.pool[t] = Null
  <2>1. ReachOf(h, Null) = {}
    BY ReachOfNull
  <2>2. QED BY <1>2, <1>3, <2>1
<1>4. CASE h.pool[t] # Null
  <2>1. PICK s \in Structs \ Heads : s = h.pool[t] /\ own[s] = PoolLabel(t) /\ own[s] # Null
    BY <1>1, <1>2, <1>4
  <2>2. \A r \in Structs : r \in ReachOf(h, s) <=> own[r] = own[s] /\ idx[r] >= idx[s]
    BY <2>1, ReachIsList
  <2>3. \A r \in Structs : own[r] = PoolLabel(t) => r \notin Heads /\ idx[r] >= idx[s]
    BY <1>1, <1>2, <1>4, <2>1
  <2>4. QED BY <2>1, <2>2, <2>3
<1>5. QED BY <1>3, <1>4

LEMMA HeadReach ==
  ASSUME NEW h, HeapOK(h), NEW own, NEW idx, Chained(h, own, idx), NEW l \in Heads, own[l] = l
  PROVE  \A r \in Structs : r \in ReachOf(h, h.next[l]) <=> r \notin Heads /\ own[r] = l
<1>1. /\ h.next \in [Structs -> Structs] /\ idx \in [Structs -> Int] /\ l \in Structs /\ l # Null
      /\ idx[l] = 0
      /\ \A s \in Heads : own[s] # Null => own[s] = s /\ idx[s] = 0
      /\ \A s \in Structs \ Heads : own[s] \in Heads => idx[s] > 0
      /\ \A s \in Structs : own[s] # Null /\ h.next[s] # Null =>
           own[h.next[s]] = own[s] /\ idx[h.next[s]] = idx[s] + 1
      /\ \A s, r \in Structs : own[s] # Null /\ own[r] = own[s] /\ h.next[s] = Null => idx[r] <= idx[s]
  BY StructKinds DEF HeapOK, Chained, Strung
<1>2. CASE h.next[l] = Null
  <2>1. ReachOf(h, Null) = {}
    BY ReachOfNull
  <2>2. \A r \in Structs : own[r] = l => idx[r] <= 0
    BY <1>1, <1>2
  <2>3. \A r \in Structs : own[r] = l /\ r \notin Heads => FALSE
    BY <1>1, <2>2
  <2>4. QED BY <1>2, <2>1, <2>3
<1>3. CASE h.next[l] # Null
  <2>1. PICK s \in Structs : s = h.next[l] /\ own[s] = l /\ idx[s] = 1
    BY <1>1, <1>3
  <2>2. s \in Structs \ Heads /\ own[s] # Null
    BY <1>1, <2>1
  <2>3. \A r \in Structs : r \in ReachOf(h, s) <=> own[r] = own[s] /\ idx[r] >= idx[s]
    BY <2>2, ReachIsList
  <2>4. ASSUME NEW r \in Structs, own[r] = l PROVE idx[r] >= 1 <=> r \notin Heads
    BY <1>1, <2>4
  <2>5. QED BY <2>1, <2>3, <2>4
<1>4. QED BY <1>2, <1>3

LEMMA EntryReach ==
  ASSUME NEW h, HeapOK(h), NEW own, NEW idx, Chained(h, own, idx),
         NEW live, NEW entry \in [Heads -> Structs], NEW first \in [Heads -> Nat], NEW size \in [Heads -> Nat],
         live \subseteq Heads, Listed(h, own, idx, live, entry, first, size), NEW l \in live
  PROVE  \A r \in Structs : r \in ReachOf(h, IF IsHead(entry[l]) THEN h.next[entry[l]] ELSE entry[l])
                              <=> r \notin Heads /\ own[r] = l
<1>1. PICK s \in Structs : s = entry[l]
  OBVIOUS
<1>2. IsHead(s) <=> s \in Heads
  BY HeadsAre
<1>3. /\ idx \in [Structs -> Int] /\ own[Null] = Null /\ Null \notin Heads
      /\ \A r \in Heads : own[r] # Null => own[r] = r /\ idx[r] = 0
      /\ \A r \in Structs \ Heads : own[r] \in Heads => idx[r] > 0
  BY StructKinds DEF Chained, Strung
<1>4. CASE s = Null
  <2>1. \A r \in Structs : own[r] # l
    BY <1>1, <1>4 DEF Listed
  <2>2. ReachOf(h, Null) = {}
    BY ReachOfNull
  <2>3. QED BY <1>1, <1>2, <1>3, <1>4, <2>1, <2>2
<1>5. CASE s # Null
  <2>1. own[s] = l /\ \A r \in Structs : own[r] = l => idx[s] <= idx[r]
    BY <1>1, <1>5, EntryIsFirst
  <2>2. l \in Heads /\ l # Null
    BY <1>3
  <2>3. CASE s \in Heads
    <3>1. s = l /\ own[l] = l
      BY <1>3, <2>1, <2>2, <2>3
    <3>2. \A r \in Structs : r \in ReachOf(h, h.next[l]) <=> r \notin Heads /\ own[r] = l
      BY <2>2, <3>1, HeadReach
    <3>3. QED BY <1>1, <1>2, <2>3, <3>1, <3>2
  <2>4. CASE s \notin Heads
    <3>1. own[s] # Null
      BY <2>1, <2>2
    <3>2. \A r \in Structs : r \in ReachOf(h, s) <=> own[r] = own[s] /\ idx[r] >= idx[s]
      BY <2>4, <3>1, ReachIsList
    <3>3. ASSUME NEW r \in Structs, own[r] = l PROVE r \notin Heads /\ idx[r] >= idx[s]
      BY <1>3, <2>1, <2>2, <2>4, <3>3
    <3>4. QED BY <1>1, <1>2, <2>1, <2>4, <3>2, <3>3
  <2>5. QED BY <2>3, <2>4
<1>6. QED BY <1>4, <1>5

\* A heap and the labels that say which list is whose.
Told(own, idx) ==
  /\ Chained(heap, own, idx)
  /\ main # "end" => Listed(heap, own, idx, LiveHeads, Entry, First, Size)
  /\ main = "end" => /\ \A s \in Structs : own[s] \notin Heads
                     /\ \A c \in Cells : heap.next[<<cells, c>>] = Null
  /\ build = "mutex" => \A s \in Used : own[s] # Null
LEMMA SomeTold ==
  ASSUME IInv
  PROVE  \E own, idx : Told(own, idx)
<1>1. CASE main = "end"
  <2>1. PICK own, idx :
           /\ Chained(heap, own, idx)
           /\ \A s \in Structs : own[s] \notin Heads
           /\ \A c \in Cells : heap.next[<<cells, c>>] = Null
           /\ build = "mutex" => \A s \in Used : own[s] # Null
    BY <1>1 DEF IInv, Ended
  <2>2. Told(own, idx)
    BY <1>1, <2>1 DEF Told
  <2>3. QED BY <2>2
<1>2. CASE main # "end"
  <2>1. PICK own, idx, loc : Labelled(own, idx)
    BY <1>2 DEF IInv, Working
  <2>2. Told(own, idx)
    BY <1>2, <2>1 DEF Labelled, Told
  <2>3. QED BY <2>2
<1>3. QED BY <1>1, <1>2

LEMMA AtTheEnd ==
  ASSUME IInv, main = "end", NEW t \in Threads
  PROVE  src[t] = NoSource /\ Unread(t) = {} /\ at[t] # <<1, "in">>
<1>1. at[t] = <<9, "out">> /\ Reading
  BY DEF IInv, InStep, AllAt
<1>2. at[t] \notin Inner
  BY <1>1 DEF Inner
<1>3. src[t] = NoSource
  BY <1>1, <1>2 DEF Reading
<1>4. QED BY <1>1, <1>3 DEF Unread

LEMMA HeadAt ==
  ASSUME NEW a \in {1, 2}, NEW c \in Cells
  PROVE  \E l \in Heads : l = <<a, c>> /\ l[1] = a /\ l[2] = c
<1>1. <<a, c>> \in Heads /\ <<a, c>>[1] = a /\ <<a, c>>[2] = c
  BY DEF Heads
<1>2. QED BY <1>1

\* The heads of the lists in use, and where these begin.
LEMMA LiveTags ==
  ASSUME IInv, main # "end"
  PROVE  /\ \A c \in Cells : at[OwnerOf(c)] # <<1, "in">> => <<cells, c>> \in LiveHeads /\ Entry[<<cells, c>>] = <<cells, c>>
         /\ \A t \in Threads : \A c \in Unread(t) : <<cells2, c>> \in LiveHeads /\ Entry[<<cells2, c>>] = <<cells2, c>>
         /\ \A t \in Threads : src[t] # NoSource =>
              <<cells2, src[t].cell>> \in LiveHeads /\ Entry[<<cells2, src[t].cell>>] = src[t].struct
         /\ \A l \in LiveHeads : \/ \E c \in Cells : at[OwnerOf(c)] # <<1, "in">> /\ l = <<cells, c>>
                                 \/ \E t \in Threads : \E c \in Unread(t) : l = <<cells2, c>>
                                 \/ \E t \in Threads : src[t] # NoSource /\ l = <<cells2, src[t].cell>>
<1>1. cells \in {1, 2} /\ cells2 \in {1, 2} /\ cells2 # cells
  BY ListTypes DEF IInv
<1>2. ASSUME NEW c \in Cells, at[OwnerOf(c)] # <<1, "in">>
      PROVE  <<cells, c>> \in LiveHeads /\ Entry[<<cells, c>>] = <<cells, c>>
  <2>1. PICK l \in Heads : l = <<cells, c>> /\ l[1] = cells /\ l[2] = c
    BY <1>1, HeadAt
  <2>2. ~IsSource(l)
    BY <2>1 DEF IsSource
  <2>3. l \in LiveHeads /\ Entry[l] = l
    BY <1>2, <2>1, <2>2 DEF LiveHeads, Entry
  <2>4. QED BY <2>1, <2>3
<1>3. ASSUME NEW t \in Threads, NEW c \in Unread(t)
      PROVE  <<cells2, c>> \in LiveHeads /\ Entry[<<cells2, c>>] = <<cells2, c>>
  <2>1. c \in Cells /\ OwnerOf(c) = t
    BY UnreadCells
  <2>2. PICK l \in Heads : l = <<cells2, c>> /\ l[1] = cells2 /\ l[2] = c
    BY <1>1, <2>1, HeadAt
  <2>3. src[t].cell # c
    BY <2>1, UnreadCells
  <2>4. ~IsSource(l)
    BY <2>1, <2>2, <2>3 DEF IsSource
  <2>5. l[1] # cells /\ l[2] \in Unread(OwnerOf(l[2]))
    BY <1>1, <2>1, <2>2
  <2>6. l \in LiveHeads /\ Entry[l] = l
    BY <2>4, <2>5 DEF LiveHeads, Entry
  <2>7. QED BY <2>2, <2>6
<1>4. ASSUME NEW t \in Threads, src[t] # NoSource
      PROVE  <<cells2, src[t].cell>> \in LiveHeads /\ Entry[<<cells2, src[t].cell>>] = src[t].struct
  <2>1. src[t].cell \in Cells /\ OwnerOf(src[t].cell) = t
    BY <1>4, UnreadCells
  <2>2. PICK c \in Cells : c = src[t].cell /\ OwnerOf(c) = t
    BY <2>1
  <2>3. PICK l \in Heads : l = <<cells2, c>> /\ l[1] = cells2 /\ l[2] = c
    BY <1>1, HeadAt
  <2>4. IsSource(l)
    BY <1>1, <2>2, <2>3 DEF IsSource
  <2>5. l \in LiveHeads /\ Entry[l] = src[t].struct
    BY <1>1, <2>2, <2>3, <2>4 DEF LiveHeads, Entry
  <2>6. QED BY <2>2, <2>3, <2>5
<1>5. ASSUME NEW l \in LiveHeads
      PROVE  \/ \E c \in Cells : at[OwnerOf(c)] # <<1, "in">> /\ l = <<cells, c>>
             \/ \E t \in Threads : \E c \in Unread(t) : l = <<cells2, c>>
             \/ \E t \in Threads : src[t] # NoSource /\ l = <<cells2, src[t].cell>>
  <2>1. PICK a \in {1, 2}, c \in Cells : l = <<a, c>> /\ l[1] = a /\ l[2] = c
    BY DEF LiveHeads, Heads
  <2>2. PICK t \in Threads : t = OwnerOf(c)
    BY Owners
  <2>3. CASE a = cells
    <3>1. at[OwnerOf(c)] # <<1, "in">>
      BY <2>1, <2>3 DEF LiveHeads
    <3>2. QED BY <2>1, <2>3, <3>1
  <2>4. CASE a # cells
    <3>1. a = cells2
      BY <1>1, <2>4
    <3>2. c \in Unread(t) \/ src[t].cell = c
      BY <2>1, <2>2, <2>4 DEF LiveHeads, IsSource
    <3>3. src[t].cell = c => src[t] # NoSource
      BY UnreadCells
    <3>4. QED BY <2>1, <3>1, <3>2, <3>3
  <2>5. QED BY <2>3, <2>4
<1>6. QED BY <1>2, <1>3, <1>4, <1>5

LEMMA DistinctLabels ==
  ASSUME IInv, NEW a \in DOMAIN Lists, NEW b \in DOMAIN Lists, LabelOf(a) = LabelOf(b)
  PROVE  a = b
<1> DEFINE P(x) == \E t \in Threads : x = <<"pool", t>> /\ LabelOf(x) = PoolLabel(t)
<1> DEFINE C(x) == \E c \in Cells : x = <<"cells", c>> /\ LabelOf(x) = <<cells, c>>
<1> DEFINE D(x) == \E t \in Threads : \E c \in Unread(t) : x = <<"cells2", c>> /\ LabelOf(x) = <<cells2, c>>
<1> DEFINE S(x) == \E t \in Threads : src[t] # NoSource /\ x = <<"source", t>> /\ LabelOf(x) = <<cells2, src[t].cell>>
<1>1. ASSUME NEW x \in DOMAIN Lists PROVE P(x) \/ C(x) \/ D(x) \/ S(x)
  <2>1. \/ \E t \in Threads : x = <<"pool", t>>
        \/ \E c \in Cells : at[OwnerOf(c)] # <<1, "in">> /\ x = <<"cells", c>>
        \/ \E t \in Threads : \E c \in Unread(t) : x = <<"cells2", c>>
        \/ \E t \in Threads : src[t] # NoSource /\ x = <<"source", t>>
    BY TagKinds
  <2>2. CASE \E t \in Threads : x = <<"pool", t>>
    BY <2>2, LabelsOfTags
  <2>3. CASE \E c \in Cells : at[OwnerOf(c)] # <<1, "in">> /\ x = <<"cells", c>>
    BY <2>3, LabelsOfTags
  <2>4. CASE \E t \in Threads : \E c \in Unread(t) : x = <<"cells2", c>>
    BY <2>4, LabelsOfTags
  <2>5. CASE \E t \in Threads : src[t] # NoSource /\ x = <<"source", t>>
    BY <2>5, LabelsOfTags
  <2>6. QED BY <2>1, <2>2, <2>3, <2>4, <2>5
<1>3. cells \in {1, 2} /\ cells2 \in {1, 2} /\ cells2 # cells
  BY ListTypes DEF IInv
<1>4. ASSUME NEW x, P(x) PROVE LabelOf(x) \notin Heads
  BY <1>4, StructKinds
<1>5. ASSUME NEW x, C(x) PROVE LabelOf(x) \in Heads /\ LabelOf(x)[1] = cells /\ x = <<"cells", LabelOf(x)[2]>>
  <2>1. PICK c \in Cells : x = <<"cells", c>> /\ LabelOf(x) = <<cells, c>>
    BY <1>5
  <2>2. PICK l \in Heads : l = <<cells, c>> /\ l[1] = cells /\ l[2] = c
    BY <1>3, HeadAt
  <2>3. QED BY <2>1, <2>2
<1>6. ASSUME NEW x, D(x)
      PROVE  /\ LabelOf(x) \in Heads /\ LabelOf(x)[1] = cells2 /\ x = <<"cells2", LabelOf(x)[2]>>
             /\ LabelOf(x)[2] \in Unread(OwnerOf(LabelOf(x)[2]))
  <2>0. PICK t \in Threads : \E c \in Unread(t) : x = <<"cells2", c>> /\ LabelOf(x) = <<cells2, c>>
    BY <1>6
  <2>1. PICK c \in Unread(t) : x = <<"cells2", c>> /\ LabelOf(x) = <<cells2, c>>
    BY <2>0
  <2>2. c \in Cells /\ OwnerOf(c) = t
    BY UnreadCells
  <2>3. PICK l \in Heads : l = <<cells2, c>> /\ l[1] = cells2 /\ l[2] = c
    BY <1>3, <2>2, HeadAt
  <2>4. QED BY <2>1, <2>2, <2>3
<1>7. ASSUME NEW x, S(x)
      PROVE  /\ LabelOf(x) \in Heads /\ LabelOf(x)[1] = cells2 /\ x = <<"source", OwnerOf(LabelOf(x)[2])>>
             /\ LabelOf(x)[2] \notin Unread(OwnerOf(LabelOf(x)[2]))
  <2>1. PICK t \in Threads : src[t] # NoSource /\ x = <<"source", t>> /\ LabelOf(x) = <<cells2, src[t].cell>>
    BY <1>7
  <2>2. src[t].cell \in Cells /\ OwnerOf(src[t].cell) = t /\ src[t].cell \notin Unread(t)
    BY <2>1, UnreadCells
  <2>3. PICK c \in Cells : c = src[t].cell /\ OwnerOf(c) = t /\ c \notin Unread(t)
    BY <2>2
  <2>4. PICK l \in Heads : l = <<cells2, c>> /\ l[1] = cells2 /\ l[2] = c
    BY <1>3, HeadAt
  <2>5. QED BY <2>1, <2>3, <2>4
<1>8. CASE P(a)
  <2>1. P(b)
    <3> HIDE DEF P, C, D, S
    <3>1. QED BY <1>1, <1>4, <1>5, <1>6, <1>7, <1>8
  <2>2. PICK t \in Threads : a = <<"pool", t>> /\ LabelOf(a) = PoolLabel(t)
    BY <1>8
  <2>3. PICK u \in Threads : b = <<"pool", u>> /\ LabelOf(b) = PoolLabel(u)
    BY <2>1
  <2>4. t = u
    BY <2>2, <2>3, StructKinds
  <2>5. QED BY <2>2, <2>3, <2>4
<1> HIDE DEF P, C, D, S
<1>9. CASE C(a)
  <2>1. C(b)
    BY <1>1, <1>3, <1>4, <1>5, <1>6, <1>7, <1>9
  <2>2. QED BY <1>5, <1>9, <2>1
<1>10. CASE D(a)
  <2>1. D(b)
    BY <1>1, <1>3, <1>4, <1>5, <1>6, <1>7, <1>10
  <2>2. QED BY <1>6, <1>10, <2>1
<1>11. CASE S(a)
  <2>1. S(b)
    BY <1>1, <1>3, <1>4, <1>5, <1>6, <1>7, <1>11
  <2>2. QED BY <1>7, <1>11, <2>1
<1>12. QED BY <1>1, <1>8, <1>9, <1>10, <1>11

\* What is reached by a tag is what carries its label.
LEMMA TagList ==
  ASSUME IInv, NEW own, NEW idx, Told(own, idx), NEW tag \in DOMAIN Lists
  PROVE  /\ Reach(Lists[tag]) \subseteq Structs
         /\ \A r \in Structs : r \in Reach(Lists[tag]) <=> r \notin Heads /\ own[r] = LabelOf(tag)
<1>1. PICK h : h = heap
  OBVIOUS
<1>2. HeapOK(h) /\ Chained(h, own, idx) /\ TypeOK
  BY <1>1 DEF IInv, TypeOK, Told
<1>3. h.next \in [Structs -> Structs] /\ h.pool \in [Threads -> Structs] /\ Heads \subseteq Structs
  BY <1>2, StructKinds DEF HeapOK
<1>4. ASSUME NEW s \in Structs PROVE ReachOf(h, s) \subseteq Structs
  BY <1>3, AlongSteps DEF ReachOf
<1>5. /\ LiveHeads \subseteq Heads /\ Entry \in [Heads -> Structs] /\ First \in [Heads -> Nat] /\ Size \in [Heads -> Nat]
      /\ cells \in {1, 2} /\ cells2 \in {1, 2} /\ cells2 # cells
  BY <1>2, ListTypes
<1>6. ASSUME main # "end", NEW l \in LiveHeads, NEW s, s = Entry[l]
      PROVE  \A r \in Structs : r \in ReachOf(h, IF IsHead(s) THEN h.next[s] ELSE s) <=> r \notin Heads /\ own[r] = l
  <2>1. Listed(h, own, idx, LiveHeads, Entry, First, Size)
    BY <1>1, <1>6 DEF Told
  <2>2. \A r \in Structs : r \in ReachOf(h, IF IsHead(Entry[l]) THEN h.next[Entry[l]] ELSE Entry[l])
                              <=> r \notin Heads /\ own[r] = l
    BY <1>2, <1>5, <2>1, EntryReach
  <2>3. QED BY <1>6, <2>2
<1> DEFINE Right(s, l) == /\ s \in Structs
                          /\ \A r \in Structs : r \in ReachOf(h, s) <=> r \notin Heads /\ own[r] = l
<1>7. ASSUME NEW t \in Threads, tag = <<"pool", t>> PROVE Right(Lists[tag], LabelOf(tag))
  <2>1. Lists[tag] = h.pool[t] /\ LabelOf(tag) = PoolLabel(t)
    BY <1>1, <1>7, TagKinds, LabelsOfTags
  <2>2. \A r \in Structs : r \in ReachOf(h, h.pool[t]) <=> r \notin Heads /\ own[r] = PoolLabel(t)
    BY <1>2, PoolReach
  <2>3. QED BY <1>3, <2>1, <2>2
<1>8. ASSUME NEW c \in Cells, at[OwnerOf(c)] # <<1, "in">>, tag = <<"cells", c>> PROVE Right(Lists[tag], LabelOf(tag))
  <2>1. Lists[tag] = h.next[<<cells, c>>] /\ LabelOf(tag) = <<cells, c>>
    BY <1>1, <1>8, TagKinds, LabelsOfTags
  <2>2. PICK l \in Heads : l = <<cells, c>> /\ l[1] = cells /\ l[2] = c
    BY <1>5, HeadAt
  <2>3. CASE main # "end"
    <3>1. l \in LiveHeads /\ l = Entry[l]
      BY <1>8, <2>2, <2>3, LiveTags
    <3>2. IsHead(l)
      BY <1>5, <2>2 DEF IsHead
    <3>3. \A r \in Structs : r \in ReachOf(h, IF IsHead(l) THEN h.next[l] ELSE l) <=> r \notin Heads /\ own[r] = l
      BY <1>6, <2>3, <3>1
    <3>4. QED BY <1>3, <2>1, <2>2, <3>2, <3>3
  <2>4. CASE main = "end"
    <3>1. h.next[<<cells, c>>] = Null /\ \A s \in Structs : own[s] \notin Heads
      BY <1>1, <2>4 DEF Told
    <3>2. ReachOf(h, Null) = {}
      BY <1>2, ReachOfNull
    <3>3. QED BY <2>1, <2>2, <3>1, <3>2, StructKinds
  <2>5. QED BY <2>3, <2>4
<1>9. ASSUME NEW t \in Threads, NEW c \in Unread(t), tag = <<"cells2", c>> PROVE Right(Lists[tag], LabelOf(tag))
  <2>1. Lists[tag] = h.next[<<cells2, c>>] /\ LabelOf(tag) = <<cells2, c>>
    BY <1>1, <1>9, TagKinds, LabelsOfTags
  <2>2. c \in Cells
    BY UnreadCells
  <2>3. PICK l \in Heads : l = <<cells2, c>> /\ l[1] = cells2 /\ l[2] = c
    BY <1>5, <2>2, HeadAt
  <2>4. main # "end"
    BY AtTheEnd
  <2>5. l \in LiveHeads /\ l = Entry[l]
    BY <2>3, <2>4, LiveTags
  <2>6. IsHead(l)
    BY <1>5, <2>3 DEF IsHead
  <2>7. \A r \in Structs : r \in ReachOf(h, IF IsHead(l) THEN h.next[l] ELSE l) <=> r \notin Heads /\ own[r] = l
    BY <1>6, <2>4, <2>5
  <2>8. QED BY <1>3, <2>1, <2>3, <2>6, <2>7
<1>10. ASSUME NEW t \in Threads, src[t] # NoSource, tag = <<"source", t>> PROVE Right(Lists[tag], LabelOf(tag))
  <2>1. Lists[tag] = SourceList(t) /\ LabelOf(tag) = <<cells2, src[t].cell>>
    BY <1>10, TagKinds, LabelsOfTags
  <2>2. main # "end"
    BY <1>10, AtTheEnd
  <2>3. PICK s \in Structs : s = src[t].struct
    BY <1>2 DEF TypeOK
  <2>4. PICK l \in LiveHeads : l = <<cells2, src[t].cell>> /\ Entry[l] = s
    BY <1>10, <2>2, <2>3, LiveTags
  <2>5. \A r \in Structs : r \in ReachOf(h, IF IsHead(s) THEN h.next[s] ELSE s) <=> r \notin Heads /\ own[r] = l
    BY <1>6, <2>2, <2>4
  <2>6. Lists[tag] = IF IsHead(s) THEN h.next[s] ELSE s
    BY <1>1, <2>1, <2>3 DEF SourceList
  <2>7. Lists[tag] \in Structs
    BY <1>3, <2>6
  <2>8. QED BY <2>1, <2>4, <2>5, <2>6, <2>7
<1> HIDE DEF Right
<1>11. Right(Lists[tag], LabelOf(tag))
  BY <1>7, <1>8, <1>9, <1>10, TagKinds
<1>12. Reach(Lists[tag]) = ReachOf(h, Lists[tag])
  BY <1>1, ReachIs
<1>13. QED BY <1>4, <1>11, <1>12 DEF Right

LEMMA ListsApart ==
  ASSUME IInv
  PROVE  StructuresApart
<1>1. PICK own, idx : Told(own, idx)
  BY SomeTold
<1>2. PICK h : h = heap
  OBVIOUS
<1>3. HeapOK(h) /\ Chained(h, own, idx) /\ TypeOK
  BY <1>1, <1>2 DEF IInv, TypeOK, Told
<1> DEFINE reach == [tag \in DOMAIN Lists |-> Reach(Lists[tag])]
<1>4. ASSUME NEW a \in DOMAIN Lists
      PROVE  reach[a] \subseteq Structs /\ \A r \in Structs : r \in reach[a] <=> r \notin Heads /\ own[r] = LabelOf(a)
  BY <1>1, TagList
<1>5. DOMAIN reach = DOMAIN Lists
  OBVIOUS
<1> HIDE DEF reach
<1>6. ASSUME NEW a \in DOMAIN reach, NEW b \in DOMAIN reach, a # b PROVE reach[a] \cap reach[b] = {}
  <2>1. LabelOf(a) # LabelOf(b)
    BY <1>5, <1>6, DistinctLabels
  <2>2. QED BY <1>4, <1>5, <2>1
<1>7. ASSUME build = "mutex"
      PROVE  Used = UNION {reach[a] : a \in {b \in DOMAIN reach : main = "end" => b[1] = "pool"}}
  <2>1. UsedOf(h) = Used
    BY <1>2 DEF Used, UsedOf
  <2>2. ASSUME NEW a \in DOMAIN reach, NEW r \in reach[a] PROVE r \in Used
    <3>1. r \in Structs /\ r \notin Heads /\ own[r] = LabelOf(a)
      BY <1>4, <1>5
    <3>2. LabelOf(a) # Null
      <4>1. CASE \E t \in Threads : a = <<"pool", t>>
        BY <4>1, LabelsOfTags, StructKinds
      <4>2. CASE \E c \in Cells : at[OwnerOf(c)] # <<1, "in">> /\ a = <<"cells", c>>
        <5>1. PICK c \in Cells : a = <<"cells", c>>
          BY <4>2
        <5>2. PICK l \in Heads : l = <<cells, c>>
          BY <1>3, HeadAt DEF TypeOK
        <5>3. QED BY <5>1, <5>2, LabelsOfTags, StructKinds
      <4>3. CASE \E t \in Threads : \E c \in Unread(t) : a = <<"cells2", c>>
        <5>0. PICK t \in Threads : \E c \in Unread(t) : a = <<"cells2", c>>
          BY <4>3
        <5>1. PICK c \in Unread(t) : a = <<"cells2", c>>
          BY <5>0
        <5>2. c \in Cells /\ cells2 \in {1, 2}
          BY UnreadCells
        <5>3. PICK l \in Heads : l = <<cells2, c>>
          BY <5>2, HeadAt
        <5>4. QED BY <5>1, <5>3, LabelsOfTags, StructKinds
      <4>4. CASE \E t \in Threads : src[t] # NoSource /\ a = <<"source", t>>
        <5>1. PICK t \in Threads : src[t] # NoSource /\ a = <<"source", t>>
          BY <4>4
        <5>2. src[t].cell \in Cells /\ cells2 \in {1, 2}
          BY <5>1, UnreadCells
        <5>3. PICK l \in Heads : l = <<cells2, src[t].cell>>
          BY <5>2, HeadAt
        <5>4. QED BY <5>1, <5>3, LabelsOfTags, StructKinds
      <4>5. QED BY <1>5, <4>1, <4>2, <4>3, <4>4, TagKinds
    <3>3. own[r] # Null
      BY <3>1, <3>2
    <3>4. r \in UsedOf(h)
      BY <1>3, <3>1, <3>3, LabelledIsUsed
    <3>5. QED BY <2>1, <3>4
  <2>3. ASSUME NEW s \in Used
        PROVE  \E a \in DOMAIN reach : (main = "end" => a[1] = "pool") /\ s \in reach[a]
    <3>1. s \in Structs \ Heads /\ own[s] # Null
      BY <1>1, <1>3, <1>7, <2>1, UsedStructs DEF Told
    <3>2. own[s] \in Labels
      BY <1>3, <3>1 DEF Chained, Strung
    <3>3. CASE own[s] \in Heads
      <4>1. main # "end"
        BY <1>1, <3>1, <3>3 DEF Told
      <4>2. own[s] \in LiveHeads
        BY <1>1, <3>1, <3>3, <4>1 DEF Told, Listed
      <4>3. PICK l \in LiveHeads : l = own[s]
        BY <4>2
      <4>4. \E a \in DOMAIN Lists : LabelOf(a) = l
        <5>1. CASE \E c \in Cells : at[OwnerOf(c)] # <<1, "in">> /\ l = <<cells, c>>
          <6>1. PICK c \in Cells : at[OwnerOf(c)] # <<1, "in">> /\ l = <<cells, c>>
            BY <5>1
          <6>2. PICK a : a = <<"cells", c>>
            OBVIOUS
          <6>3. a \in DOMAIN Lists /\ LabelOf(a) = l
            BY <6>1, <6>2, TagKinds, LabelsOfTags
          <6>4. QED BY <6>3
        <5>2. CASE \E t \in Threads : \E c \in Unread(t) : l = <<cells2, c>>
          <6>0. PICK t \in Threads : \E c \in Unread(t) : l = <<cells2, c>>
            BY <5>2
          <6>1. PICK c \in Unread(t) : l = <<cells2, c>>
            BY <6>0
          <6>2. PICK a : a = <<"cells2", c>>
            OBVIOUS
          <6>3. a \in DOMAIN Lists /\ LabelOf(a) = l
            BY <6>1, <6>2, TagKinds, LabelsOfTags
          <6>4. QED BY <6>3
        <5>3. CASE \E t \in Threads : src[t] # NoSource /\ l = <<cells2, src[t].cell>>
          <6>1. PICK t \in Threads : src[t] # NoSource /\ l = <<cells2, src[t].cell>>
            BY <5>3
          <6>2. PICK a : a = <<"source", t>>
            OBVIOUS
          <6>3. a \in DOMAIN Lists /\ LabelOf(a) = l
            BY <6>1, <6>2, TagKinds, LabelsOfTags
          <6>4. QED BY <6>3
        <5>4. QED BY <4>1, <5>1, <5>2, <5>3, LiveTags
      <4>5. PICK a \in DOMAIN Lists : LabelOf(a) = own[s]
        BY <4>3, <4>4
      <4>6. s \in reach[a]
        BY <1>4, <3>1, <4>5
      <4>7. QED BY <1>5, <4>1, <4>5, <4>6
    <3>4. CASE own[s] \notin Heads
      <4>1. PICK t \in Threads : own[s] = PoolLabel(t)
        BY <3>1, <3>2, <3>4 DEF Labels
      <4>2. PICK a : a = <<"pool", t>>
        OBVIOUS
      <4>3. a \in DOMAIN Lists /\ LabelOf(a) = PoolLabel(t)
        BY <4>2, TagKinds, LabelsOfTags
      <4>4. s \in reach[a]
        BY <1>4, <3>1, <4>1, <4>3
      <4>5. QED
        <5>1. a[1] = "pool"
          BY <4>2
        <5>2. QED BY <1>5, <4>3, <4>4, <5>1
    <3>5. QED BY <3>3, <3>4
  <2>4. QED BY <2>2, <2>3
<1>8. QED BY <1>6, <1>7 DEF StructuresApart, reach

\* No structure of a pool is in two lists, though the threads take them for
\* cells of each other; with mutexes none is lost, and after the clean-up all are
\* back in the pools (the note at line 760, CleanUpSim at lines 457-467).
THEOREM AlwaysStructuresApart == Spec => []StructuresApart
<1>1. IInv => StructuresApart
  BY ListsApart
<1>2. QED BY <1>1, AlwaysInPlace, PTL

=============================================================================
