------------------------- MODULE SeaportOrdersProofs -------------------------
(***************************************************************************)
(* Parts of a Seaport listing are paid for in full, are never more than     *)
(* asked for and cost no more than the origin fee's rate, for any listing,  *)
(* fee and number of purchases.  Everything rests on one fact: a fill is    *)
(* never a greater share of the order than the fraction asked for, however  *)
(* the contract rescales and cuts it.                                      *)
(***************************************************************************)
EXTENDS SeaportOrdersProperties, ArithmeticLemmas

-----------------------------------------------------------------------------
(***************************************************************************)
(* Division without a remainder, and the greatest common divisor.           *)
(***************************************************************************)

LEMMA DividesProduct ==
    ASSUME NEW d \in Nat \ {0}, NEW n \in Nat
    PROVE  /\ Divides(d, n) => n \div d \in Nat /\ (n \div d) * d = n
           /\ \A k \in Nat : n = k * d => Divides(d, n)
           /\ Divides(d, n) /\ n # 0 => d <= n
<1>1. ASSUME NEW k \in Nat, n = k * d
      PROVE  Divides(d, n)
  BY <1>1 DEF Divides
<1>2. Divides(d, n) => n \div d \in Nat /\ (n \div d) * d = n
  BY DEF Divides
<1>3. ASSUME Divides(d, n), n # 0
      PROVE  d <= n
  <2>1. PICK q \in Nat : q * d = n
    BY <1>2, <1>3
  <2>2. q >= 1
    BY <1>3, <2>1
  <2> QED
    BY <2>1, <2>2
<1> QED
  BY <1>1, <1>2, <1>3

\* What divides a number divides its multiples.
LEMMA DividesTransitive ==
    ASSUME NEW d \in Nat \ {0}, NEW m \in Nat \ {0}, NEW n \in Nat,
           Divides(d, m), Divides(m, n)
    PROVE  Divides(d, n)
<1>1. PICK j \in Nat : m = j * d
  BY DividesProduct
<1>2. PICK k \in Nat : n = k * m
  BY DividesProduct
<1>3. k * (j * d) = (k * j) * d /\ k * j \in Nat
  OBVIOUS
<1>4. n = (k * j) * d
  BY <1>1, <1>2, <1>3
<1> QED
  BY <1>3, <1>4, DividesProduct

\* Two numbers have the divisors that the first and the remainder of the second
\* have.
LEMMA DividesRemainder ==
    ASSUME NEW d \in Nat \ {0}, NEW x \in Nat \ {0}, NEW y \in Nat, Divides(d, x)
    PROVE  Divides(d, y) <=> Divides(d, y % x)
<1>1. PICK q \in Nat, r \in Nat : y = x * q + r /\ r = y % x
  <2>1. y = x * (y \div x) + (y % x)
    OBVIOUS
  <2>2. y \div x \in Nat /\ y % x \in Nat
    OBVIOUS
  <2> QED
    BY <2>1, <2>2
<1>2. PICK j \in Nat : x = j * d
  BY DividesProduct
<1>3. PICK m \in Nat : m = q * j /\ y = m * d + r
  <2>1. x * q = (q * j) * d
    BY <1>2
  <2> QED
    BY <1>1, <2>1
<1>4. ASSUME Divides(d, r)
      PROVE  Divides(d, y)
  <2>1. PICK k \in Nat : r = k * d
    BY <1>4, DividesProduct
  <2>2. PICK i \in Nat : i = m + k
    OBVIOUS
  <2>3. y = i * d
    BY <1>3, <2>1, <2>2
  <2> QED
    BY <2>3, DividesProduct
<1>5. ASSUME Divides(d, y)
      PROVE  Divides(d, r)
  <2>1. PICK k \in Nat : y = k * d
    BY <1>5, DividesProduct
  <2>2. k >= m
    BY <1>3, <2>1
  <2>3. PICK i \in Nat : i = k - m
    BY <2>2
  <2>4. r = i * d
    BY <1>3, <2>1, <2>3
  <2> QED
    BY <2>4, DividesProduct
<1> QED
  BY <1>1, <1>4, <1>5

\* gcd() as the recursive function of its first argument that it is: the calls
\* it makes have a smaller one, so there is such a function.
Remainders(g, x) == [y \in Nat |-> IF x = 0 THEN y ELSE g[y % x][x]]
Euclid(a) == CHOOSE g : g = [x \in 0..a |-> Remainders(g, x)]

LEMMA GcdIsEuclid ==
    ASSUME NEW a, NEW b
    PROVE  Gcd(a, b) = Euclid(a)[a][b]
  BY DEF Gcd, Euclid, Remainders

LEMMA EuclidExists ==
    ASSUME NEW a \in Nat
    PROVE  Euclid(a) = [x \in 0..a |-> Remainders(Euclid(a), x)]
<1> DEFINE T == {n \in Nat : \E g : g = [x \in 0..n |-> Remainders(g, x)]}
<1>1. 0 \in T
  <2> DEFINE h == [x \in 0..0 |-> [y \in Nat |-> y]]
  <2>1. \A x \in 0..0 : Remainders(h, x) = [y \in Nat |-> y]
    BY DEF Remainders
  <2>2. h = [x \in 0..0 |-> Remainders(h, x)]
    BY <2>1
  <2> HIDE DEF h
  <2>3. \E g : g = [x \in 0..0 |-> Remainders(g, x)]
    BY <2>2
  <2> QED
    BY <2>3
<1>2. ASSUME NEW n \in Nat, n \in T
      PROVE  n + 1 \in T
  <2>1. PICK g : g = [x \in 0..n |-> Remainders(g, x)]
    BY <1>2
  <2> DEFINE h == [x \in 0..(n + 1) |-> Remainders(g, x)]
  <2>2. \A x \in 0..n : g[x] = h[x]
    BY <2>1
  <2>3. \A x \in 0..(n + 1) : x # 0 => \A y \in Nat : y % x \in 0..n
    OBVIOUS
  <2> HIDE DEF h
  <2>4. \A x \in 0..(n + 1) : Remainders(g, x) = Remainders(h, x)
    BY <2>2, <2>3 DEF Remainders
  <2>5. h = [x \in 0..(n + 1) |-> Remainders(h, x)]
    BY <2>4 DEF h
  <2>6. \E f : f = [x \in 0..(n + 1) |-> Remainders(f, x)]
    BY <2>5
  <2> QED
    BY <2>6
<1>3. a \in T
  <2> HIDE DEF T
  <2> QED
    BY <1>1, <1>2, InductionOverSet
<1>4. \E g : g = [x \in 0..a |-> Remainders(g, x)]
  BY <1>3
<1> QED
  BY <1>4 DEF Euclid

\* what a greatest common divisor is: every common divisor divides it
IsGcd(d, x, y) ==
    /\ d \in Nat \ {0}
    /\ Divides(d, x) /\ Divides(d, y)
    /\ \A e \in Nat \ {0} : Divides(e, x) /\ Divides(e, y) => Divides(e, d)

\* gcd() returns the greatest common divisor of any two numbers that are not
\* both zero (gcd.ts:4-13).
THEOREM EuclidIsGreatest ==
    \A a, b \in Nat : a # 0 \/ b # 0 => IsGcd(Gcd(a, b), a, b)
<1> SUFFICES ASSUME NEW a \in Nat
             PROVE  \A b \in Nat : a # 0 \/ b # 0 => IsGcd(Euclid(a)[a][b], a, b)
  BY GcdIsEuclid
<1>1. PICK g : g = Euclid(a) /\ g = [x \in 0..a |-> Remainders(g, x)]
  BY EuclidExists
<1> DEFINE Right(x) == \A y \in Nat : x # 0 \/ y # 0 => IsGcd(g[x][y], x, y)
           T == {n \in Nat : \A x \in 0..a : x <= n => Right(x)}
<1>2. \A x \in 0..a : g[x] = Remainders(g, x)
  BY <1>1
<1>3. Right(0)
  <2> SUFFICES ASSUME NEW y \in Nat \ {0}
               PROVE  IsGcd(g[0][y], 0, y)
    OBVIOUS
  <2>1. g[0] = [z \in Nat |-> IF 0 = 0 THEN z ELSE g[z % 0][0]]
    BY <1>2 DEF Remainders
  <2>2. Divides(y, 0) /\ Divides(y, y)
    BY DEF Divides
  <2>3. g[0][y] = y
    BY <2>1
  <2> QED
    BY <2>2, <2>3 DEF IsGcd
<1>4. ASSUME NEW x \in 1..a, \A z \in 0..(x - 1) : Right(z)
      PROVE  Right(x)
  <2> SUFFICES ASSUME NEW y \in Nat
               PROVE  IsGcd(g[x][y], x, y)
    OBVIOUS
  <2>1. PICK r \in 0..(x - 1) : r = y % x
    OBVIOUS
  <2>2. g[x] = [z \in Nat |-> g[z % x][x]]
    BY <1>2 DEF Remainders
  <2>3. g[x][y] = g[r][x] /\ IsGcd(g[r][x], r, x)
    BY <1>4, <2>1, <2>2
  <2>4. \A d \in Nat \ {0} : Divides(d, x) => (Divides(d, y) <=> Divides(d, r))
    BY <2>1, DividesRemainder
  <2> QED
    BY <2>3, <2>4 DEF IsGcd
<1> HIDE DEF Right
<1>5. 0 \in T
  BY <1>3
<1>6. ASSUME NEW n \in Nat, n \in T
      PROVE  n + 1 \in T
  <2>1. ASSUME NEW x \in 0..a, x <= n + 1
        PROVE  Right(x)
    <3>1. CASE x <= n
      BY <1>6, <3>1
    <3>2. CASE x = n + 1
      <4>1. \A z \in 0..(x - 1) : Right(z)
        BY <1>6, <3>2
      <4> QED
        BY <1>4, <3>2, <4>1
    <3> QED
      BY <2>1, <3>1, <3>2
  <2> QED
    BY <2>1
<1>7. a \in T
  <2> HIDE DEF T
  <2> QED
    BY <1>5, <1>6, InductionOverSet
<1>8. Right(a)
  BY <1>7
<1> QED
  BY <1>1, <1>8 DEF Right

\* The greatest common divisor of positive numbers is no greater than either.
LEMMA GcdDivides ==
    ASSUME NEW a \in Nat, NEW b \in Nat \ {0}
    PROVE  /\ Gcd(a, b) \in 1..b
           /\ Divides(Gcd(a, b), a)
           /\ Divides(Gcd(a, b), b)
<1>1. IsGcd(Gcd(a, b), a, b)
  BY EuclidIsGreatest
<1> QED
  BY <1>1, DividesProduct DEF IsGcd

-----------------------------------------------------------------------------
(***************************************************************************)
(* The listing, its units and the fraction asked for.                       *)
(***************************************************************************)

\* The listing and its price are positive.
LEMMA ListingIsPositive ==
    ASSUME listing \in Listings
    PROVE  /\ listing.size \in Nat \ {0}
           /\ listing.toSeller \in Nat \ {0}
           /\ listing.toOthers \in Nat
           /\ Price \in Nat \ {0}
           /\ Cardinality(Items) \in {1, 2}
<1>1. /\ listing.size \in Nat \ {0}
      /\ listing.toSeller \in Nat \ {0}
      /\ listing.toOthers \in Nat
  BY SeaportAssumption DEF ListingType
<1>2. Cardinality({"seller"}) = 1
  BY FS_Singleton
<1>3. Cardinality({"seller", "others"}) = 2
  <2>1. IsFiniteSet({"seller"}) /\ "others" \notin {"seller"}
    BY FS_Singleton
  <2>2. Cardinality({"seller"} \cup {"others"}) = Cardinality({"seller"}) + 1
    BY <2>1, FS_AddElement
  <2>3. {"seller"} \cup {"others"} = {"seller", "others"}
    OBVIOUS
  <2> QED
    BY <1>2, <2>2, <2>3
<1> QED
  BY <1>1, <1>2, <1>3 DEF Price, Items

\* There is at least one unit in an order, and its size is a number of them
\* (item.ts:119-125).
LEMMA MaxUnitsType ==
    ASSUME listing \in Listings
    PROVE  MaxUnits \in 1..listing.size /\ Divides(MaxUnits, listing.size)
<1>1. PICK g \in 1..listing.size :
          g = Gcd(listing.toSeller, listing.size) /\ Divides(g, listing.size)
  BY ListingIsPositive, GcdDivides
<1>2. g \in Nat \ {0} /\ MaxUnits = Gcd(listing.toOthers, g)
  BY <1>1, ListingIsPositive DEF MaxUnits
<1>3. MaxUnits \in 1..g /\ Divides(MaxUnits, g)
  BY <1>2, ListingIsPositive, GcdDivides
<1>4. MaxUnits \in 1..listing.size /\ MaxUnits \in Nat \ {0}
  BY <1>1, <1>3, ListingIsPositive
<1>5. Divides(MaxUnits, listing.size)
  BY <1>1, <1>2, <1>3, <1>4, ListingIsPositive, DividesTransitive
<1> QED
  BY <1>4, <1>5

\* The fraction asked for is the units over the units there are, in lowest
\* terms or not (fulfill.ts:203-218).
LEMMA FractionIsTheShare ==
    ASSUME listing \in Listings, NEW units \in Nat \ {0}
    PROVE  /\ Fraction(units).num \in Nat \ {0}
           /\ Fraction(units).den \in Nat \ {0}
           /\ Fraction(units).num * MaxUnits = units * Fraction(units).den
<1>0. MaxUnits \in Nat \ {0}
  BY MaxUnitsType, ListingIsPositive
<1>1. PICK g \in Nat \ {0} : g = Gcd(units, MaxUnits)
  BY <1>0, GcdDivides
<1>2. Divides(g, units) /\ Divides(g, MaxUnits)
  BY <1>0, <1>1, GcdDivides
<1>3. PICK n \in Nat, d \in Nat : n = units \div g /\ d = MaxUnits \div g
  BY <1>0, QuotientBounds
<1>4. n * g = units /\ d * g = MaxUnits
  BY <1>0, <1>2, <1>3, DividesProduct
<1>5. n # 0 /\ d # 0
  BY <1>0, <1>4
<1>6. n * MaxUnits = units * d
  <2>1. n * (d * g) = (n * g) * d
    OBVIOUS
  <2> QED
    BY <2>1, <1>4
<1>7. Fraction(units) = [num |-> n, den |-> d]
  BY <1>1, <1>3 DEF Fraction
<1> QED
  BY <1>5, <1>6, <1>7

\* The whole of an order is asked for as such, not as a fraction of it.
LEMMA WholeIsNoFraction ==
    ASSUME listing \in Listings
    PROVE  /\ Fraction(listing.size).den = 1
           /\ Fraction(listing.size).num <= 1 => Divisible
<1>1. PICK M \in Nat \ {0} : M = MaxUnits /\ M \in 1..listing.size
                            /\ Divides(M, listing.size) /\ Divides(M, M)
  BY MaxUnitsType, ListingIsPositive DEF Divides
<1>2. PICK g \in 1..M : g = Gcd(listing.size, M) /\ IsGcd(g, listing.size, M)
  BY <1>1, ListingIsPositive, EuclidIsGreatest, GcdDivides
<1>3. g = M
  <2>1. Divides(M, g)
    BY <1>1, <1>2 DEF IsGcd
  <2>2. M <= g
    BY <1>2, <2>1, DividesProduct
  <2> QED
    BY <1>2, <2>2
<1>4. Fraction(listing.size) = [num |-> listing.size \div M, den |-> M \div M]
  BY <1>1, <1>2, <1>3 DEF Fraction
<1>5. M \div M = 1
  BY QuotientIsGreatest
<1>6. ASSUME listing.size \div M <= 1
      PROVE  Divisible
  <2>1. PICK size \in Nat \ {0} : size = listing.size
    BY ListingIsPositive
  <2>2. size \div M \in Nat /\ (size \div M) * M = size
    BY <1>1, <2>1, DividesProduct
  <2>3. PICK n \in {0, 1} : n * M = size
    BY <1>6, <2>1, <2>2
  <2>4. M = size
    BY <2>3
  <2> QED
    BY <1>1, <2>1, <2>4 DEF Divisible
<1> QED
  BY <1>4, <1>5, <1>6

-----------------------------------------------------------------------------
(***************************************************************************)
(* The contract's fills.                                                   *)
(***************************************************************************)

\* what is filled is a part of the whole
StatusType ==
    /\ status \in [filled : Nat, size : Nat, cancelled : BOOLEAN]
    /\ status.filled <= status.size

\* Whatever was filled before and however it is rescaled, a fill is a part of
\* what is left, and no greater share than the fraction asked for.
LEMMA FillIsNoGreaterShare ==
    ASSUME StatusType, NEW num \in Nat \ {0}, NEW den \in Nat \ {0}
    PROVE  LET fill == Filling([num |-> num, den |-> den]) IN
           /\ fill.num \in Nat /\ fill.den \in Nat \ {0} /\ fill.before \in Nat
           /\ fill.before + fill.num <= fill.den
           /\ fill.num * den <= num * fill.den
<1> DEFINE fill == Filling([num |-> num, den |-> den])
<1>0. \A a, b \in Nat : Least(a, b) \in Nat /\ Least(a, b) <= a /\ Least(a, b) <= b
  BY DEF Least
<1>1. CASE status.size = 0
  <2>1. PICK n \in Nat : n = Least(num, den) /\ n <= num /\ n <= den
    BY <1>0
  <2>2. Filling([num |-> num, den |-> den]) = [num |-> n, den |-> den, before |-> 0]
    BY <1>1, <2>1 DEF Filling
  <2>3. n * den <= num * den
    BY <2>1, ProductOrder
  <2> QED
    BY <2>1, <2>2, <2>3
<1>2. CASE status.size # 0
  <2>1. PICK size \in Nat \ {0}, filled \in Nat :
            /\ size = status.size /\ filled = status.filled /\ filled <= size
            /\ num * size \in Nat /\ size - filled \in Nat
    BY <1>2, ProductOrder DEF StatusType
  <2>2. CASE den = 1
    <3>1. PICK n \in Nat : n = Least(num * size, size - filled)
                            /\ n <= num * size /\ n <= size - filled
      BY <1>0, <2>1
    <3>2. Filling([num |-> num, den |-> den]) = [num |-> n, den |-> size, before |-> filled]
      BY <1>2, <2>1, <2>2, <3>1 DEF Filling
    <3> QED
      BY <2>1, <2>2, <3>1, <3>2
  <2>3. CASE den = size
    <3>1. PICK n \in Nat : n = Least(num, size - filled) /\ n <= num /\ n <= size - filled
      BY <1>0, <2>1
    <3>2. Filling([num |-> num, den |-> den]) = [num |-> n, den |-> size, before |-> filled]
      BY <1>2, <2>1, <2>3, <3>1 DEF Filling
    <3>3. n * den <= num * size
      BY <2>1, <2>3, <3>1, ProductOrder
    <3> QED
      BY <2>1, <3>1, <3>2, <3>3
  <2>4. CASE den # 1 /\ den # size
    <3>1. PICK whole \in Nat \ {0} : whole = den * size
      BY <2>1
    <3>2. whole \div den = size /\ whole \div size = den
      BY <2>1, <3>1
    <3>3. PICK before \in Nat : before = filled * den /\ before <= whole /\ whole - before \in Nat
      <4>1. filled * den \in Nat /\ filled * den <= size * den
        BY <2>1, ProductOrder
      <4>2. size * den = whole
        BY <3>1
      <4> QED
        BY <4>1, <4>2
    <3>4. PICK n \in Nat : n = Least(num * size, whole - before)
                            /\ n <= num * size /\ n <= whole - before
      BY <1>0, <2>1, <3>1, <3>3
    <3>5. Filling([num |-> num, den |-> den]) = [num |-> n, den |-> whole, before |-> before]
      BY <1>2, <2>1, <2>4, <3>1, <3>2, <3>3, <3>4 DEF Filling
    <3>6. n * den <= num * whole
      BY <2>1, <3>1, <3>4
    <3> QED
      BY <3>3, <3>4, <3>5, <3>6
  <2> QED
    BY <2>2, <2>3, <2>4
<1> QED
  BY <1>1, <1>2 DEF StatusType

\* A fill takes of every amount, rounded down, no more than the share of the
\* units asked for.
LEMMA PartIsNoGreaterShare ==
    ASSUME StatusType, listing \in Listings, NEW units \in Nat \ {0}, NEW amount \in Nat
    PROVE  LET part == Part(Filling(Fraction(units)), amount) IN
           /\ part \in Nat
           /\ part <= amount
           /\ part * MaxUnits <= amount * units
<1>1. PICK num \in Nat \ {0}, den \in Nat \ {0} :
          Fraction(units) = [num |-> num, den |-> den] /\ num * MaxUnits = units * den
  BY FractionIsTheShare DEF Fraction
<1>2. PICK n \in Nat, d \in Nat \ {0} :
          /\ n = Filling(Fraction(units)).num /\ d = Filling(Fraction(units)).den
          /\ n <= d /\ n * den <= num * d
  BY <1>1, FillIsNoGreaterShare
<1>3. PICK part \in Nat : part = (amount * n) \div d /\ part * d <= amount * n
  BY QuotientBounds, ProductOrder
<1>4. part = Part(Filling(Fraction(units)), amount)
  BY <1>2, <1>3 DEF Part
<1>5. part <= amount
  <2>1. amount * n <= amount * d
    BY <1>2
  <2>2. part * d <= amount * d
    BY <1>3, <2>1
  <2> QED
    BY <2>2, ProductOrder
<1>6. MaxUnits \in Nat \ {0}
  BY MaxUnitsType, ListingIsPositive
<1>7. n * MaxUnits <= units * d
  BY <1>1, <1>2, <1>6
<1>8. part * MaxUnits <= amount * units
  BY <1>3, <1>6, <1>7
<1> QED
  BY <1>4, <1>5, <1>8

-----------------------------------------------------------------------------
(***************************************************************************)
(* What is sent along.                                                     *)
(***************************************************************************)

\* Rounded up, a quotient is no less than any whole number below it.
LEMMA CeilDivCovers ==
    ASSUME NEW x \in Nat, NEW d \in Nat \ {0}, NEW k \in Nat
    PROVE  /\ CeilDiv(x, d) \in Nat
           /\ k * d <= x => k <= CeilDiv(x, d)
<1>1. x + d - 1 \in Nat /\ x <= x + d - 1
  OBVIOUS
<1>2. CeilDiv(x, d) \in Nat /\ (k * d <= x + d - 1 => k <= CeilDiv(x, d))
  BY <1>1, QuotientBounds, QuotientIsGreatest DEF CeilDiv
<1>3. k * d \in Nat
  BY ProductOrder
<1> QED
  BY <1>1, <1>2, <1>3

\* The origin fee of the units is a number, within its rate (seaport.ts:127-138).
LEMMA TipIsWithinRate ==
    ASSUME listing \in Listings, NEW units \in Nat
    PROVE  /\ Tip(units) \in Nat
           /\ Tip(units) * (listing.size * Hundred) <= Price * units * Fee
<1>1. PICK price \in Nat : price = Price
  BY ListingIsPositive
<1>2. price * units * Fee \in Nat
  BY SeaportAssumption
<1>3. listing.size * Hundred \in Nat \ {0}
  BY ListingIsPositive, SeaportAssumption
<1> QED
  BY <1>1, <1>2, <1>3, QuotientBounds DEF Tip

\* What is sent along is a number, whatever size was read.
LEMMA QuoteType ==
    ASSUME listing \in Listings, NEW units \in Nat, NEW size \in Nat \ {0},
           NEW tip \in Nat, NEW tipItems \in {0, 1}
    PROVE  Quote(units, size, tip, tipItems) \in Nat
<1>1. PICK price \in Nat, items \in Nat :
          /\ price = Price
          /\ items = Cardinality(Items) + tipItems
  BY ListingIsPositive
<1>2. PICK tips \in Nat : tips = (tip * units) \div size
  BY ProductOrder, QuotientBounds
<1>3. PICK D \in Nat \ {0} : D = Duration
  BY SeaportAssumption
<1>4. (price * units + tips * size) * D + items * (D - 1) * size \in Nat
  <2>1. price * units \in Nat /\ tips * size \in Nat /\ D - 1 \in Nat
    OBVIOUS
  <2>2. (price * units + tips * size) * D \in Nat /\ items * (D - 1) * size \in Nat
    BY <2>1
  <2> QED
    BY <2>2
<1>5. size * D \in Nat \ {0}
  OBVIOUS
<1> QED
  BY <1>1, <1>2, <1>3, <1>4, <1>5, CeilDivCovers DEF Quote

\* What a fill costs is no more than the price of the units asked for.
LEMMA NeededIsNoGreaterShare ==
    ASSUME StatusType, listing \in Listings, NEW units \in Nat \ {0}
    PROVE  /\ Needed(Filling(Fraction(units))) \in Nat
           /\ Needed(Filling(Fraction(units))) * MaxUnits <= Price * units
<1>0. MaxUnits \in Nat \ {0}
  BY MaxUnitsType, ListingIsPositive
<1>1. PICK x \in Nat, seller \in Nat :
          /\ seller = listing.toSeller
          /\ x = Part(Filling(Fraction(units)), listing.toSeller)
          /\ x * MaxUnits <= seller * units
  BY PartIsNoGreaterShare, ListingIsPositive
<1>2. PICK y \in Nat, others \in Nat :
          /\ others = listing.toOthers
          /\ y = Part(Filling(Fraction(units)), listing.toOthers)
          /\ y * MaxUnits <= others * units
  BY PartIsNoGreaterShare, ListingIsPositive
<1>3. (x + y) * MaxUnits <= (seller + others) * units
  BY <1>0, <1>1, <1>2
<1> QED
  BY <1>1, <1>2, <1>3 DEF Needed, Price

\* Computed from a size that is no more than the units there are, the value sent
\* covers the fill and the tip, kept or left out (fulfill-standard.ts:44-88).
LEMMA QuoteCovers ==
    ASSUME StatusType, listing \in Listings,
           NEW units \in Nat \ {0}, NEW size \in Nat \ {0}, size <= MaxUnits,
           NEW tip \in Nat, NEW paid \in {0, tip}, NEW tipItems \in {0, 1}
    PROVE  LET fill == Filling(Fraction(units)) IN
           Quote(units, size, tip, tipItems) >= Needed(fill) + Part(fill, paid)
<1>0. PICK M \in Nat \ {0} : M = MaxUnits
  BY MaxUnitsType, ListingIsPositive
<1>1. PICK price \in Nat, items \in Nat :
          /\ price = Price
          /\ items = Cardinality(Items) + tipItems
  BY ListingIsPositive
<1>2. PICK need \in Nat :
          need = Needed(Filling(Fraction(units))) /\ need * M <= price * units
  BY <1>0, <1>1, NeededIsNoGreaterShare
<1>3. PICK part \in Nat :
          part = Part(Filling(Fraction(units)), paid) /\ part * M <= tip * units
  <2>1. paid \in Nat /\ paid <= tip
    OBVIOUS
  <2>2. paid * units <= tip * units
    BY <2>1, ProductOrder
  <2>3. PICK part \in Nat :
            part = Part(Filling(Fraction(units)), paid) /\ part * M <= paid * units
    BY <1>0, <2>1, PartIsNoGreaterShare
  <2>4. paid * units \in Nat /\ tip * units \in Nat /\ part * M \in Nat
    BY <2>1, ProductOrder
  <2> QED
    BY <2>2, <2>3, <2>4
<1>4. need * size <= price * units /\ part * size <= tip * units
  BY <1>0, <1>2, <1>3
<1>5. PICK tips \in Nat : tips = (tip * units) \div size /\ part <= tips
  <2>1. PICK product \in Nat : product = tip * units /\ part * size <= product
    BY <1>4, ProductOrder
  <2>2. product \div size \in Nat /\ part <= product \div size
    BY <2>1, QuotientBounds, QuotientIsGreatest
  <2> QED
    BY <2>1, <2>2
<1>6. PICK D \in Nat \ {0} : D = Duration
  BY SeaportAssumption
<1>7. PICK sum \in Nat : sum = price * units + tips * size /\ (need + part) * size <= sum
  BY <1>4, <1>5
<1>8. PICK rest \in Nat : rest = items * (D - 1) * size
  OBVIOUS
<1>9. (need + part) * (size * D) <= sum * D + rest
  BY <1>7, <1>8
<1>10. need + part <= CeilDiv(sum * D + rest, size * D)
  <2>1. size * D \in Nat \ {0} /\ sum * D + rest \in Nat
    OBVIOUS
  <2> QED
    BY <1>9, <2>1, CeilDivCovers
<1>11. Quote(units, size, tip, tipItems) = CeilDiv(sum * D + rest, size * D)
  BY <1>1, <1>5, <1>6, <1>7, <1>8 DEF Quote
<1>12. Quote(units, size, tip, tipItems) \in Nat
  BY QuoteType
<1> QED
  BY <1>2, <1>3, <1>10, <1>11, <1>12

\* The value grows with the amount (origin-fees-utils.ts:66-70).
LEMMA WithFeesOrder ==
    ASSUME NEW x \in Nat, NEW y \in Nat, x <= y
    PROVE  /\ WithFees(x) \in Nat
           /\ WithFees(x) - x \in Nat
           /\ (WithFees(x) - x) * Hundred <= x * Fee
           /\ WithFees(x) <= WithFees(y)
<1>1. x * Fee \in Nat /\ y * Fee \in Nat /\ x * Fee <= y * Fee
  BY SeaportAssumption, ProductOrder
<1>2. PICK dx \in Nat, dy \in Nat :
          /\ dx = (x * Fee) \div Hundred /\ dy = (y * Fee) \div Hundred
          /\ dx * Hundred <= x * Fee /\ dx <= dy
  <2>1. Hundred \in Nat \ {0}
    BY SeaportAssumption
  <2>2. (x * Fee) \div Hundred \in Nat /\ ((x * Fee) \div Hundred) * Hundred <= x * Fee
    BY <1>1, <2>1, QuotientBounds
  <2>3. (y * Fee) \div Hundred \in Nat
    BY <1>1, <2>1, QuotientBounds
  <2>4. (x * Fee) \div Hundred <= (y * Fee) \div Hundred
    BY <1>1, <2>1, QuotientOrder
  <2> QED
    BY <2>2, <2>3, <2>4
<1> QED
  BY <1>2 DEF WithFees

\* The amount the wrapper is told is the price of the units, rounded down.
LEMMA WrapperAmountType ==
    ASSUME listing \in Listings, NEW units \in Nat
    PROVE  /\ WrapperAmount(units) \in Nat
           /\ WrapperAmount(units) * listing.size <= Price * units
  BY ListingIsPositive, ProductOrder, QuotientBounds DEF WrapperAmount

\* Where the units are the least parts, that amount covers the fill, and the
\* value covers the amount with its fees (seaport-wrapper-utils.ts:125-142).
LEMMA WrapperCovers ==
    ASSUME StatusType, listing \in Listings, Divisible,
           NEW units \in Nat \ {0}, NEW size \in Nat \ {0}, size <= MaxUnits
    PROVE  /\ WrapperAmount(units) >= Needed(Filling(Fraction(units)))
           /\ WithFees(Quote(units, size, 0, 0)) >= WithFees(WrapperAmount(units))
<1>1. PICK M \in Nat \ {0} : M = MaxUnits /\ M = listing.size
  BY MaxUnitsType, ListingIsPositive DEF Divisible
<1>2. PICK cost \in Nat : cost = Price * units
  BY ListingIsPositive
<1>3. PICK amount \in Nat : amount = WrapperAmount(units) /\ amount = cost \div M
                            /\ amount * M <= cost
  BY <1>1, <1>2, WrapperAmountType DEF WrapperAmount
<1>4. PICK need \in Nat : need = Needed(Filling(Fraction(units))) /\ need * M <= cost
  BY <1>1, <1>2, NeededIsNoGreaterShare
<1>5. need <= amount
  BY <1>3, <1>4, QuotientIsGreatest
<1>6. Quote(units, size, 0, 0) \in Nat /\ amount <= Quote(units, size, 0, 0)
  <2>1. PICK items \in Nat, D \in Nat \ {0} : items = Cardinality(Items) /\ D = Duration
    BY ListingIsPositive, SeaportAssumption
  <2>2. (0 * units) \div size = 0
    BY QuotientIsGreatest
  <2>3. PICK rest \in Nat : rest = items * (D - 1) * size
    OBVIOUS
  <2>4. amount * size <= cost
    BY <1>1, <1>3
  <2>5. amount * (size * D) <= cost * D + rest
    BY <2>4
  <2>6. size * D \in Nat \ {0} /\ cost * D + rest \in Nat
    OBVIOUS
  <2>7. amount <= CeilDiv(cost * D + rest, size * D)
    BY <2>5, <2>6, CeilDivCovers
  <2>8. Quote(units, size, 0, 0) =
          CeilDiv((cost + 0 * size) * D + (items + 0) * (D - 1) * size, size * D)
    BY <1>2, <2>1, <2>2 DEF Quote
  <2>9. (cost + 0 * size) * D + (items + 0) * (D - 1) * size = cost * D + rest
    BY <2>3
  <2> QED
    BY <2>7, <2>8, <2>9, QuoteType
<1> QED
  BY <1>3, <1>4, <1>5, <1>6, WithFeesOrder

-----------------------------------------------------------------------------
(***************************************************************************)
(* The inductive invariant.  What is true of a purchase depends on the      *)
(* listing alone, so that it stays true whatever the contract, the offerer  *)
(* and the other purchases do.                                             *)
(***************************************************************************)

\* what getFulfillStandardOrderData() and prepareSeaportExchangeData() computed
\* is still what is sent, with the tip or without it
AsComputed(q) ==
    q.pc \in {"built", "sent"} =>
        /\ q.via = "direct" => /\ q.value = Quote(q.units, q.size, Tip(q.units), TipItems)
                               /\ q.tip \in {0, Tip(q.units)}
        /\ q.via = "wrapper" => q.value = WithFees(Quote(q.units, q.size, 0, 0))

SoundAmounts(q) ==
    /\ Divisible => q.got <= q.units
    /\ q.fee * listing.size * Hundred <= Price * q.units * Fee

\* an order that is sold as a whole only is asked for, and served, as one
AskedAsAWhole(q) ==
    ~listing.partial =>
        /\ q.pc \in {"ask", "checked", "built", "sent"} => q.units = listing.size
        /\ q.pc \in {"checked", "built", "sent"} => q.size <= MaxUnits

Excused(via, size) ==
    /\ listing.partial
    /\ \/ size > MaxUnits
       \/ via = "wrapper" /\ ~Divisible

Sound(q) ==
    /\ q \in PurchaseStates
    /\ q.pc = "ask" => q.units # 0 /\ q.got = 0 /\ q.fee = 0
    /\ AsComputed(q)
    /\ AskedAsAWhole(q)
    /\ q.pc = "unfunded" => Excused(q.via, q.size)
    /\ SoundAmounts(q)

SeaportInv ==
    /\ listing \in Listings
    /\ StatusType
    /\ ~listing.partial => status.size \in {0, 1}
    /\ stock \in 0..listing.size
    /\ purchases = [p \in Purchases |-> purchases[p]]
    /\ \A p \in Purchases : Sound(purchases[p])

\* What is given up, or has not begun, has taken and paid nothing.
LEMMA NothingTaken ==
    ASSUME listing \in Listings, NEW q, q.units \in Nat, q.got = 0, q.fee = 0
    PROVE  SoundAmounts(q)
<1>1. PICK size \in Nat, price \in Nat, fee \in Nat, hundred \in Nat, units \in Nat :
          /\ size = listing.size /\ price = Price /\ fee = Fee /\ hundred = Hundred
          /\ units = q.units
  BY ListingIsPositive, SeaportAssumption
<1>2. 0 * size * hundred <= price * units * fee
  OBVIOUS
<1> QED
  BY <1>1, <1>2 DEF SoundAmounts

\* A record of a purchase that is sound stays so as long as the listing is the
\* same, and a step of one purchase leaves the others alone.
LEMMA StepOfOnePurchase ==
    ASSUME SeaportInv, listing' = listing,
           NEW p \in Purchases, NEW r, Sound(r),
           purchases' = [purchases EXCEPT ![p] = r]
    PROVE  /\ purchases' = [x \in Purchases |-> purchases'[x]]
           /\ (\A x \in Purchases : Sound(purchases[x]))'
<1>1. ASSUME NEW q, Sound(q)
      PROVE  Sound(q)'
  BY <1>1 DEF Sound, AsComputed, AskedAsAWhole, Excused, SoundAmounts, MaxUnits, Divisible,
               Price, Quote, Tip, TipItems, Items
<1>2. ASSUME NEW x \in Purchases
      PROVE  Sound(purchases[x])'
  <2>1. PICK q : q = purchases'[x] /\ Sound(q)
    BY DEF SeaportInv
  <2> QED
    BY <1>1, <2>1 DEF Sound, AsComputed, AskedAsAWhole, Excused, SoundAmounts
<1> QED
  BY <1>2 DEF SeaportInv

LEMMA OtherSteps ==
    ASSUME SeaportInv, listing' = listing, purchases' = purchases
    PROVE  /\ purchases' = [x \in Purchases |-> purchases'[x]]
           /\ (\A x \in Purchases : Sound(purchases[x]))'
<1>1. ASSUME NEW x \in Purchases
      PROVE  Sound(purchases[x])'
  BY DEF SeaportInv, Sound, AsComputed, AskedAsAWhole, Excused, SoundAmounts, MaxUnits,
         Divisible, Price, Quote, Tip, TipItems, Items
<1> QED
  BY <1>1 DEF SeaportInv

\* What is computed from a size that is no more than the units there are is
\* enough, whatever has been filled since.
LEMMA SoundIsFunded ==
    ASSUME SeaportInv, NEW p \in Purchases,
           purchases[p].pc \in {"built", "sent"}, purchases[p].size <= MaxUnits,
           purchases[p].via = "direct" \/ Divisible
    PROVE  Funded(p)
<1>1. PICK q : q = purchases[p]
  OBVIOUS
<1>2. /\ q.units \in Nat \ {0} /\ q.size \in Nat \ {0} /\ q.via \in {"direct", "wrapper"}
      /\ q.pc \in {"built", "sent"}
  BY <1>1 DEF SeaportInv, Sound, PurchaseStates, Ended
<1>3. AsComputed(q) /\ StatusType /\ listing \in Listings
  BY <1>1 DEF SeaportInv, Sound
<1>4. CASE q.via = "direct"
  <2>1. q.value = Quote(q.units, q.size, Tip(q.units), TipItems) /\ q.tip \in {0, Tip(q.units)}
    BY <1>2, <1>3, <1>4 DEF AsComputed
  <2>2. Tip(q.units) \in Nat
    BY <1>2, <1>3, TipIsWithinRate
  <2>3. q.value >= Needed(Filling(Fraction(q.units)))
                   + Part(Filling(Fraction(q.units)), q.tip)
    BY <1>1, <1>2, <1>3, <2>1, <2>2, QuoteCovers DEF TipItems
  <2> QED
    BY <1>1, <1>4, <2>3 DEF Funded
<1>5. CASE q.via = "wrapper"
  <2>1. q.value = WithFees(Quote(q.units, q.size, 0, 0))
    BY <1>2, <1>3, <1>5 DEF AsComputed
  <2>2. /\ WrapperAmount(q.units) >= Needed(Filling(Fraction(q.units)))
        /\ q.value >= WithFees(WrapperAmount(q.units))
    BY <1>1, <1>2, <1>3, <1>5, <2>1, WrapperCovers
  <2> QED
    BY <1>1, <1>5, <2>2 DEF Funded
<1> QED
  BY <1>2, <1>4, <1>5

\* What is accepted and still not paid for in full is a part.
LEMMA UnfundedIsExcused ==
    ASSUME SeaportInv, NEW p \in Purchases,
           purchases[p].pc \in {"built", "sent"}, Accepted(p), ~Funded(p)
    PROVE  Excused(purchases[p].via, purchases[p].size)
<1>1. PICK q : q = purchases[p]
  OBVIOUS
<1>2. /\ q.size \in Nat /\ q.via \in {"direct", "wrapper"}
      /\ q.pc \in {"built", "sent"} /\ AskedAsAWhole(q)
      /\ listing \in Listings /\ MaxUnits \in Nat
  BY <1>1, MaxUnitsType, ListingIsPositive DEF SeaportInv, Sound, PurchaseStates, Ended
<1>3. q.size > MaxUnits \/ (q.via = "wrapper" /\ ~Divisible)
  BY <1>1, <1>2, SoundIsFunded
<1>4. ASSUME ~listing.partial
      PROVE  q.size <= MaxUnits /\ Divisible
  <2>1. q.size <= MaxUnits /\ q.units = listing.size
    BY <1>2, <1>4 DEF AskedAsAWhole
  <2>2. Fraction(q.units).num <= Fraction(q.units).den
    BY <1>1 DEF Accepted
  <2> QED
    BY <1>2, <2>1, <2>2, WholeIsNoFraction
<1>5. listing.partial
  BY <1>2, <1>3, <1>4
<1> QED
  BY <1>1, <1>3, <1>5 DEF Excused

-----------------------------------------------------------------------------
(***************************************************************************)
(* The steps.                                                              *)
(***************************************************************************)

LEMMA AskIsSound ==
    ASSUME SeaportInv, NEW p \in Purchases, NEW via \in {"direct", "wrapper"},
           NEW units \in 1..listing.size, Ask(p, via, units)
    PROVE  SeaportInv'
<1> DEFINE r == [Idle EXCEPT !.pc = "ask", !.via = via, !.units = units]
<1>1. listing \in Listings /\ units \in Nat \ {0}
  BY ListingIsPositive DEF SeaportInv
<1>2. r \in PurchaseStates /\ r.pc = "ask" /\ r.units = units /\ r.got = 0 /\ r.fee = 0
  BY <1>1 DEF Idle, PurchaseStates, Ended
<1>3. purchases' = [purchases EXCEPT ![p] = r] /\ UNCHANGED <<listing, status, stock>>
  BY DEF Ask
<1> HIDE DEF r
<1>4. AskedAsAWhole(r)
  BY <1>2 DEF Ask, AskedAsAWhole
<1>5. Sound(r)
  BY <1>1, <1>2, <1>4, NothingTaken DEF Sound, AsComputed
<1> QED
  BY <1>3, <1>5, StepOfOnePurchase DEF SeaportInv, StatusType

\* A purchase that ends with nothing bought; want of value is excused only by
\* the size that was read.
LEMMA EndsWithNothing ==
    ASSUME SeaportInv, NEW p \in Purchases, NEW pc \in Ended, pc # "bought",
           pc = "unfunded" => Excused(purchases[p].via, purchases[p].size),
           Ends(p, pc, 0, 0), UNCHANGED <<listing, status, stock>>
    PROVE  SeaportInv'
<1> DEFINE q == purchases[p]
           r == [q EXCEPT !.pc = pc, !.tip = 0, !.value = 0, !.got = 0, !.fee = 0]
<1>1. listing \in Listings /\ q \in PurchaseStates
  BY DEF SeaportInv, Sound
<1>2. /\ r \in PurchaseStates /\ r.pc = pc /\ r.via = q.via /\ r.size = q.size
      /\ r.units \in Nat /\ r.got = 0 /\ r.fee = 0
  BY <1>1 DEF PurchaseStates, Ended
<1>3. purchases' = [purchases EXCEPT ![p] = r]
  BY DEF SeaportInv, Ends
<1>4. Sound(r)
  <2> HIDE DEF r
  <2> QED
    BY <1>1, <1>2, NothingTaken DEF Sound, AsComputed, AskedAsAWhole, Ended
<1> HIDE DEF q, r
<1> QED
  BY <1>3, <1>4, StepOfOnePurchase DEF SeaportInv, StatusType

LEMMA CheckIsSound ==
    ASSUME SeaportInv, NEW p \in Purchases, Check(p)
    PROVE  SeaportInv'
<1>1. PICK q : q = purchases[p]
  OBVIOUS
<1>2. /\ q \in PurchaseStates /\ q.pc = "ask" /\ q.units \in Nat \ {0}
      /\ q.got = 0 /\ q.fee = 0 /\ listing \in Listings /\ StatusType
      /\ AskedAsAWhole(q)
  BY <1>1 DEF SeaportInv, Sound, PurchaseStates, Ended, Check, At
<1>3. PICK size \in Nat \ {0} :
          /\ size = IF status.size = 0 THEN MaxUnits ELSE status.size
          /\ ~listing.partial => size <= MaxUnits
  BY <1>2, MaxUnitsType, ListingIsPositive DEF StatusType, SeaportInv
<1>4. UNCHANGED <<listing, status, stock>>
  BY DEF Check
<1>5. \/ purchases' = [purchases EXCEPT ![p].pc = "checked", ![p].size = size]
      \/ Goes(p, "refused")
  BY <1>3 DEF Check
<1>6. CASE purchases' = [purchases EXCEPT ![p].pc = "checked", ![p].size = size]
  <2> DEFINE r == [q EXCEPT !.pc = "checked", !.size = size]
  <2>1. /\ r \in PurchaseStates /\ r.pc = "checked" /\ r.units = q.units /\ r.size = size
        /\ r.got = 0 /\ r.fee = 0
    BY <1>2, <1>3 DEF PurchaseStates, Ended
  <2>2. purchases' = [purchases EXCEPT ![p] = r]
    BY <1>1, <1>6 DEF SeaportInv
  <2> HIDE DEF r
  <2>3. Sound(r)
    BY <1>2, <1>3, <2>1, NothingTaken DEF Sound, AsComputed, AskedAsAWhole
  <2> QED
    BY <1>4, <2>2, <2>3, StepOfOnePurchase DEF SeaportInv, StatusType
<1>7. CASE Goes(p, "refused")
  <2> DEFINE r == [q EXCEPT !.pc = "refused"]
  <2>1. /\ r \in PurchaseStates /\ r.pc = "refused" /\ r.units = q.units
        /\ r.got = 0 /\ r.fee = 0
    BY <1>2 DEF PurchaseStates, Ended
  <2>2. purchases' = [purchases EXCEPT ![p] = r]
    BY <1>1, <1>7 DEF SeaportInv, Goes
  <2> HIDE DEF r
  <2>3. Sound(r)
    BY <1>2, <2>1, NothingTaken DEF Sound, AsComputed, AskedAsAWhole
  <2> QED
    BY <1>4, <2>2, <2>3, StepOfOnePurchase DEF SeaportInv, StatusType
<1> QED
  BY <1>5, <1>6, <1>7

Running == [pc : {"checked", "built", "sent"}, via : {"direct", "wrapper"},
            units : Nat \ {0}, size : Nat \ {0}, tip : Nat, value : Nat, got : {0}, fee : {0}]

\* A purchase that is checked, built or sent has taken nothing yet.
LEMMA InProgress ==
    ASSUME SeaportInv, NEW p \in Purchases, NEW q, q = purchases[p],
           q.pc \in {"checked", "built", "sent"}
    PROVE  /\ q \in Running
           /\ AsComputed(q) /\ AskedAsAWhole(q)
           /\ listing \in Listings /\ StatusType
  BY DEF SeaportInv, Sound, PurchaseStates, Running, Ended

LEMMA BuildDirectIsSound ==
    ASSUME SeaportInv, NEW p \in Purchases, BuildDirect(p)
    PROVE  SeaportInv'
<1>1. PICK q : q = purchases[p]
  OBVIOUS
<1>2. q.pc = "checked" /\ q.via = "direct"
  BY <1>1 DEF BuildDirect, At
<1>3. /\ q \in Running /\ listing \in Listings /\ q.units \in Nat /\ q.size \in Nat \ {0}
      /\ AskedAsAWhole(q)
  BY <1>1, <1>2, InProgress DEF Running
<1>4. PICK full \in Nat : full = Tip(q.units)
  BY <1>3, TipIsWithinRate
<1>5. PICK value \in Nat : value = Quote(q.units, q.size, full, TipItems)
  BY <1>3, <1>4, QuoteType DEF TipItems
<1>6. PICK tip \in {0, full} :
          purchases' = [purchases EXCEPT ![p].pc = "built", ![p].value = value, ![p].tip = tip]
  BY <1>1, <1>4, <1>5 DEF BuildDirect
<1>7. UNCHANGED <<listing, status, stock>>
  BY DEF BuildDirect
<1> DEFINE r == [q EXCEPT !.pc = "built", !.value = value, !.tip = tip]
<1>8. /\ r \in PurchaseStates /\ r.pc = "built" /\ r.via = "direct"
      /\ r.units = q.units /\ r.units \in Nat /\ r.size = q.size
      /\ r.value = value /\ r.tip = tip
      /\ r.got = 0 /\ r.fee = 0
  <2>1. tip \in Nat
    BY <1>4, <1>6
  <2> QED
    BY <1>2, <1>3, <2>1 DEF PurchaseStates, Running
<1>9. purchases' = [purchases EXCEPT ![p] = r]
  BY <1>1, <1>6 DEF SeaportInv
<1> HIDE DEF r
<1>10. AsComputed(r) /\ AskedAsAWhole(r) /\ SoundAmounts(r)
  BY <1>2, <1>3, <1>4, <1>5, <1>8, NothingTaken DEF AsComputed, AskedAsAWhole
<1>11. Sound(r)
  BY <1>8, <1>10 DEF Sound
<1> QED
  BY <1>7, <1>9, <1>11, StepOfOnePurchase DEF SeaportInv, StatusType

LEMMA BuildWrapperIsSound ==
    ASSUME SeaportInv, NEW p \in Purchases, BuildWrapper(p)
    PROVE  SeaportInv'
<1>1. PICK q : q = purchases[p]
  OBVIOUS
<1>2. q.pc = "checked" /\ q.via = "wrapper" /\ UNCHANGED <<listing, status, stock>>
  BY <1>1 DEF BuildWrapper, At
<1>3. /\ q \in Running /\ listing \in Listings /\ q.units \in Nat /\ q.size \in Nat \ {0}
      /\ AskedAsAWhole(q)
  BY <1>1, <1>2, InProgress DEF Running
<1>4. PICK value \in Nat : value = WithFees(Quote(q.units, q.size, 0, 0))
  <2>1. Quote(q.units, q.size, 0, 0) \in Nat
    BY <1>3, QuoteType
  <2> QED
    BY <2>1, WithFeesOrder
<1>5. CASE purchases' = [purchases EXCEPT ![p].pc = "built", ![p].value = value]
  <2> DEFINE r == [q EXCEPT !.pc = "built", !.value = value]
  <2>1. /\ r \in PurchaseStates /\ r.pc = "built" /\ r.via = "wrapper"
        /\ r.units = q.units /\ r.units \in Nat /\ r.size = q.size /\ r.value = value
        /\ r.got = 0 /\ r.fee = 0
    BY <1>2, <1>3, <1>4 DEF PurchaseStates, Running
  <2>2. purchases' = [purchases EXCEPT ![p] = r]
    BY <1>1, <1>5 DEF SeaportInv
  <2> HIDE DEF r
  <2>3. AsComputed(r) /\ AskedAsAWhole(r) /\ SoundAmounts(r)
    BY <1>2, <1>3, <1>4, <2>1, NothingTaken DEF AsComputed, AskedAsAWhole
  <2>4. Sound(r)
    BY <2>1, <2>3 DEF Sound
  <2> QED
    BY <1>2, <2>2, <2>4, StepOfOnePurchase DEF SeaportInv, StatusType
<1>6. CASE Ends(p, "refused", 0, 0)
  BY <1>2, <1>6, EndsWithNothing DEF Ended
<1> QED
  BY <1>1, <1>4, <1>5, <1>6 DEF BuildWrapper

LEMMA SendIsSound ==
    ASSUME SeaportInv, NEW p \in Purchases, Send(p)
    PROVE  SeaportInv'
<1>1. PICK q : q = purchases[p]
  OBVIOUS
<1>2. q.pc = "built" /\ UNCHANGED <<listing, status, stock>>
  BY <1>1 DEF Send, At
<1>3. CASE Ends(p, "refused", 0, 0)
  BY <1>2, <1>3, EndsWithNothing DEF Ended
<1>4. CASE ~Reverts(p) /\ ~Funded(p) /\ Ends(p, "unfunded", 0, 0)
  <2>1. Excused(q.via, q.size)
    BY <1>1, <1>2, <1>4, UnfundedIsExcused DEF Reverts
  <2> QED
    BY <1>1, <1>2, <1>4, <2>1, EndsWithNothing DEF Ended
<1>5. CASE Goes(p, "sent")
  <2> DEFINE r == [q EXCEPT !.pc = "sent"]
  <2>1. /\ r \in PurchaseStates /\ r.pc = "sent" /\ r.via = q.via
        /\ r.units = q.units /\ r.units \in Nat /\ r.size = q.size
        /\ r.value = q.value /\ r.tip = q.tip
        /\ r.got = 0 /\ r.fee = 0
    BY <1>1, <1>2, InProgress DEF PurchaseStates, Running
  <2>2. purchases' = [purchases EXCEPT ![p] = r]
    BY <1>1, <1>5 DEF SeaportInv, Goes
  <2> HIDE DEF r
  <2>3. AsComputed(r) /\ AskedAsAWhole(r) /\ SoundAmounts(r)
    BY <1>1, <1>2, <2>1, InProgress, NothingTaken DEF AsComputed, AskedAsAWhole
  <2>4. Sound(r)
    BY <2>1, <2>3 DEF Sound
  <2> QED
    BY <1>2, <2>2, <2>4, StepOfOnePurchase DEF SeaportInv, StatusType
<1> QED
  BY <1>3, <1>4, <1>5 DEF Send

\* What the contract takes for the receiver of the fee is within the rate: a part
\* of the tip, or what the wrapper adds to its amount (seaport.ts:127-138,
\* origin-fees-utils.ts:66-70).
LEMMA FeeTaken ==
    ASSUME StatusType, listing \in Listings, NEW q \in Running, AsComputed(q), q.pc = "sent",
           NEW fee, fee = IF q.via = "direct" THEN Part(Filling(Fraction(q.units)), q.tip)
                          ELSE WithFees(WrapperAmount(q.units)) - WrapperAmount(q.units)
    PROVE  fee \in Nat /\ fee * listing.size * Hundred <= Price * q.units * Fee
<1>1. PICK units \in Nat \ {0}, size \in Nat \ {0}, price \in Nat, rate \in Nat,
           hundred \in Nat \ {0} :
          /\ units = q.units /\ size = listing.size /\ price = Price /\ rate = Fee
          /\ hundred = Hundred
  BY ListingIsPositive, SeaportAssumption DEF Running
<1>2. CASE q.via = "direct"
  <2>1. PICK full \in Nat, tip \in Nat :
            /\ full = Tip(units) /\ tip = q.tip /\ tip \in {0, full}
            /\ full * (size * hundred) <= price * units * rate
    BY <1>1, <1>2, TipIsWithinRate DEF AsComputed
  <2>2. fee \in Nat /\ fee <= tip
    <3>1. tip \in Nat
      BY <2>1
    <3> QED
      BY <1>1, <1>2, <2>1, <3>1, PartIsNoGreaterShare
  <2>3. fee <= full
    BY <2>1, <2>2
  <2>4. PICK weight \in Nat : weight = size * hundred
    BY ProductOrder
  <2>5. fee * weight <= full * weight
    BY <2>2, <2>3, <2>4, ProductOrder
  <2>6. fee * weight <= price * units * rate
    BY <2>1, <2>2, <2>4, <2>5
  <2>7. fee * size * hundred = fee * weight
    BY <2>2, <2>4
  <2> QED
    BY <1>1, <2>2, <2>6, <2>7
<1>3. CASE q.via = "wrapper"
  <2>1. PICK amount \in Nat : amount = WrapperAmount(units) /\ amount * size <= price * units
    BY <1>1, WrapperAmountType
  <2>2. fee \in Nat /\ fee * hundred <= amount * rate
    BY <1>1, <1>3, <2>1, WithFeesOrder
  <2>3. PICK cost \in Nat : cost = price * units /\ amount * size <= cost
    BY <2>1, ProductOrder
  <2>4. (amount * size) * rate <= cost * rate
    BY <2>3, ProductOrder
  <2>5. (fee * hundred) * size <= (amount * rate) * size
    BY <2>2, ProductOrder
  <2>6. fee * size * hundred = (fee * hundred) * size
        /\ (amount * rate) * size = (amount * size) * rate
    BY <2>2
  <2>7. fee * size * hundred <= cost * rate
    <3>1. PICK a \in Nat, b \in Nat, c \in Nat, d \in Nat :
              /\ a = (fee * hundred) * size /\ b = (amount * rate) * size
              /\ c = (amount * size) * rate /\ d = cost * rate
      BY <2>2
    <3>2. a <= b /\ b = c /\ c <= d
      BY <2>4, <2>5, <2>6, <3>1
    <3> QED
      BY <2>6, <3>1, <3>2
  <2> QED
    BY <1>1, <2>2, <2>3, <2>7
<1> QED
  BY <1>2, <1>3 DEF Running

\* A purchase that is mined leaves a sound contract and is sound itself.
LEMMA BoughtIsSound ==
    ASSUME SeaportInv, NEW p \in Purchases, purchases[p].pc = "sent", Accepted(p),
           NEW fill, fill = Filling(Fraction(purchases[p].units)),
           NEW got, got = Part(fill, listing.size),
           NEW fee, fee = IF purchases[p].via = "direct" THEN Part(fill, purchases[p].tip)
                          ELSE WithFees(WrapperAmount(purchases[p].units))
                               - WrapperAmount(purchases[p].units),
           status' = [status EXCEPT !.filled = fill.before + fill.num, !.size = fill.den],
           stock' = stock - got,
           Ends(p, "bought", got, fee),
           listing' = listing
    PROVE  SeaportInv'
<1>1. PICK q : q = purchases[p]
  OBVIOUS
<1>2. /\ q \in Running /\ AsComputed(q) /\ q.pc = "sent" /\ q.units \in Nat \ {0}
      /\ listing \in Listings /\ StatusType /\ stock \in 0..listing.size
      /\ AskedAsAWhole(q)
  BY <1>1, InProgress DEF Running, SeaportInv
<1>3. PICK size \in Nat \ {0} : size = listing.size
  BY <1>2, ListingIsPositive
<1>4. StatusType'
  <2>1. /\ fill.num \in Nat /\ fill.den \in Nat \ {0} /\ fill.before \in Nat
        /\ fill.before + fill.num <= fill.den
    BY <1>1, <1>2, FractionIsTheShare, FillIsNoGreaterShare DEF Fraction
  <2>2. PICK filled \in Nat, whole \in Nat \ {0} :
            filled = fill.before + fill.num /\ whole = fill.den /\ filled <= whole
    BY <2>1
  <2>3. status' = [status EXCEPT !.filled = filled, !.size = whole]
    BY <2>2
  <2>4. /\ status' \in [filled : Nat, size : Nat, cancelled : BOOLEAN]
        /\ status'.filled = filled /\ status'.size = whole
    BY <1>2, <2>3 DEF StatusType
  <2> QED
    BY <2>2, <2>4 DEF StatusType
<1>5. (~listing.partial => status.size \in {0, 1})'
  <2> SUFFICES ASSUME ~listing.partial
               PROVE  status'.size = 1
    OBVIOUS
  <2>1. q.units = listing.size /\ status.size \in {0, 1}
    BY <1>2 DEF AskedAsAWhole, SeaportInv
  <2>2. Fraction(q.units).den = 1
    BY <1>2, <2>1, WholeIsNoFraction
  <2>3. fill.den = 1
    BY <1>1, <2>1, <2>2 DEF Filling
  <2> QED
    BY <1>2, <2>3 DEF StatusType
<1>6. /\ got \in Nat /\ got * MaxUnits <= size * q.units
  BY <1>1, <1>2, <1>3, PartIsNoGreaterShare
<1>7. stock' \in 0..listing.size
  <2>1. got <= stock
    BY DEF Accepted
  <2> QED
    BY <1>2, <1>3, <1>6, <2>1
<1>8. fee \in Nat /\ fee * listing.size * Hundred <= Price * q.units * Fee
  BY <1>1, <1>2, FeeTaken
<1>9. Divisible => got <= q.units
  <2>1. Divisible => got * size <= q.units * size
    BY <1>2, <1>3, <1>6 DEF Divisible
  <2> QED
    BY <1>2, <1>3, <1>6, <2>1, ProductOrder
<1> DEFINE r == [q EXCEPT !.pc = "bought", !.tip = 0, !.value = 0, !.got = got, !.fee = fee]
<1>10. purchases' = [purchases EXCEPT ![p] = r]
  BY <1>1 DEF SeaportInv, Ends
<1>11. /\ r \in PurchaseStates /\ r.pc = "bought" /\ r.units = q.units
       /\ r.got = got /\ r.fee = fee
  BY <1>2, <1>6, <1>8 DEF Running, PurchaseStates, Ended
<1> HIDE DEF r
<1>12. Sound(r)
  BY <1>8, <1>9, <1>11 DEF Sound, AsComputed, AskedAsAWhole, SoundAmounts
<1> QED
  BY <1>2, <1>4, <1>5, <1>7, <1>10, <1>12, StepOfOnePurchase DEF SeaportInv

LEMMA MineIsSound ==
    ASSUME SeaportInv, NEW p \in Purchases, Mine(p)
    PROVE  SeaportInv'
<1>1. PICK q : q = purchases[p]
  OBVIOUS
<1>2. q.pc = "sent" /\ listing' = listing
  BY <1>1 DEF Mine, At
<1>3. CASE ~Reverts(p) /\ Funded(p)
  <2>1. Accepted(p)
    BY <1>3 DEF Reverts
  <2>2. PICK fill, got, fee :
            /\ fill = Filling(Fraction(purchases[p].units))
            /\ got = Part(fill, listing.size)
            /\ fee = IF purchases[p].via = "direct" THEN Part(fill, purchases[p].tip)
                     ELSE WithFees(WrapperAmount(purchases[p].units))
                          - WrapperAmount(purchases[p].units)
            /\ status' = [status EXCEPT !.filled = fill.before + fill.num, !.size = fill.den]
            /\ stock' = stock - got
            /\ Ends(p, "bought", got, fee)
    BY <1>3 DEF Mine
  <2> QED
    BY <1>1, <1>2, <2>1, <2>2, BoughtIsSound
<1>4. CASE /\ ~Reverts(p) /\ ~Funded(p)
           /\ Ends(p, "unfunded", 0, 0) /\ UNCHANGED <<status, stock>>
  <2>1. Excused(q.via, q.size)
    BY <1>1, <1>2, <1>4, UnfundedIsExcused DEF Reverts
  <2> QED
    BY <1>1, <1>2, <1>4, <2>1, EndsWithNothing DEF Ended
<1>5. CASE Ends(p, "reverted", 0, 0) /\ UNCHANGED <<status, stock>>
  BY <1>2, <1>5, EndsWithNothing DEF Ended
<1> QED
  BY <1>3, <1>4, <1>5 DEF Mine

\* The offerer changes neither the listing nor a purchase.
LEMMA OffererIsSound ==
    ASSUME SeaportInv, Cancel \/ MoveAway
    PROVE  SeaportInv'
<1>1. listing' = listing /\ purchases' = purchases
  BY DEF Cancel, MoveAway
<1>2. StatusType' /\ status'.size = status.size
  BY DEF Cancel, MoveAway, SeaportInv, StatusType
<1>3. stock' \in 0..listing.size
  <2>1. listing.size \in Nat /\ stock \in 0..listing.size
    BY ListingIsPositive DEF SeaportInv
  <2> QED
    BY <2>1 DEF Cancel, MoveAway
<1> QED
  BY <1>1, <1>2, <1>3, OtherSteps DEF SeaportInv

-----------------------------------------------------------------------------
(***************************************************************************)
(* The theorems.                                                           *)
(***************************************************************************)

LEMMA SeaportInit == Init => SeaportInv
<1> SUFFICES ASSUME Init PROVE SeaportInv
  OBVIOUS
<1>1. listing \in Listings /\ StatusType /\ stock \in 0..listing.size
  BY ListingIsPositive DEF Init, StatusType
<1>2. Idle \in PurchaseStates /\ Idle.pc = "refused" /\ Idle.units \in Nat
      /\ Idle.got = 0 /\ Idle.fee = 0
  BY DEF Idle, PurchaseStates, Ended
<1>3. Sound(Idle)
  BY <1>1, <1>2, NothingTaken DEF Sound, AsComputed, AskedAsAWhole
<1> QED
  BY <1>1, <1>3 DEF Init, SeaportInv

LEMMA SeaportStep == SeaportInv /\ [Next]_vars => SeaportInv'
<1> SUFFICES ASSUME SeaportInv, [Next]_vars PROVE SeaportInv'
  OBVIOUS
<1>1. ASSUME NEW p \in Purchases, Purchase(p) PROVE SeaportInv'
  BY <1>1, AskIsSound, CheckIsSound, BuildDirectIsSound, BuildWrapperIsSound, SendIsSound,
     MineIsSound DEF Purchase
<1>2. CASE UNCHANGED vars
  BY <1>2, OtherSteps DEF vars, SeaportInv, StatusType
<1> QED
  BY <1>1, <1>2, OffererIsSound DEF Next

\* The inductive invariant holds of every state the purchases can reach.
THEOREM SeaportInvariant == Spec => []SeaportInv
  BY SeaportInit, SeaportStep, PTL DEF Spec

\* Every listing, status and purchase has its type: no amount is negative and
\* the contract never counts more filled than there is, for any listing.
THEOREM SeaportTypes == Spec => []TypeOK
<1>1. SeaportInv => TypeOK
  BY DEF SeaportInv, StatusType, Sound, TypeOK
<1> QED
  BY <1>1, SeaportInvariant, PTL

\* A purchase computed from a status that was not rescaled beyond the units is
\* never short of value, whatever is filled, cut down or rescaled before it is
\* mined (fulfill-standard.ts:44-88, seaport-wrapper-utils.ts:125-142).
THEOREM FreshQuotesCover == Spec => []FreshQuoteCovers
<1>1. SeaportInv => FreshQuoteCovers
  BY DEF SeaportInv, Sound, Excused, FreshQuoteCovers, At
<1> QED
  BY <1>1, SeaportInvariant, PTL

\* Nobody receives more units than were asked for (fulfill.ts:203-218).
THEOREM NobodyGetsMore == Spec => []NeverMoreThanAsked
<1>1. SeaportInv => NeverMoreThanAsked
  BY DEF SeaportInv, Sound, SoundAmounts, NeverMoreThanAsked
<1> QED
  BY <1>1, SeaportInvariant, PTL

\* The origin fee stays within its rate of the price of the units asked for, for
\* any rate (seaport.ts:127-138, map-tips.ts:5-24).
THEOREM FeesStayWithinRate == Spec => []FeeWithinRate
<1>1. SeaportInv => FeeWithinRate
  BY DEF SeaportInv, Sound, SoundAmounts, FeeWithinRate
<1> QED
  BY <1>1, SeaportInvariant, PTL

=============================================================================
