-------------------------- MODULE OriginFeesProofs --------------------------
(***************************************************************************)
(* Origin fees reach their receivers and purchases are covered, for any     *)
(* accounts, fees, prices and length of the batch.                          *)
(***************************************************************************)
EXTENDS OriginFeesProperties, ArithmeticLemmas, SequenceTheorems, TLAPS

-----------------------------------------------------------------------------
(***************************************************************************)
(* Numbers.                                                                *)
(***************************************************************************)

\* Two fees that fit their digits are unpacked as they were packed.
LEMMA PackedIsUnpacked ==
    ASSUME NEW x \in Nat, NEW y \in Nat, x <= 20000, y <= 20000
    PROVE  /\ PackFees(x, y) \in Nat
           /\ Packed(PackFees(x, y))[1] = x
           /\ Packed(PackFees(x, y))[2] = y
  BY DEF PackFees, Packed, Base

\* Rounding the parts of a sum down loses at most one unit a part.
LEMMA RoundTwo ==
    ASSUME NEW x \in Nat, NEW y \in Nat
    PROVE  LET sum == (x + y) \div 10000
               each == (x \div 10000) + (y \div 10000)
           IN  sum >= each /\ sum <= each + 1
  OBVIOUS

LEMMA RoundThree ==
    ASSUME NEW x \in Nat, NEW y \in Nat, NEW z \in Nat
    PROVE  LET sum == (x + y + z) \div 10000
               each == (x \div 10000) + (y \div 10000) + (z \div 10000)
           IN  sum >= each /\ sum <= each + 2
  OBVIOUS

\* A product is distributed over a sum.
LEMMA Distribute ==
    ASSUME NEW p \in Nat, NEW x \in Nat, NEW y \in Nat
    PROVE  /\ p * (x + y) = p * x + p * y
           /\ (x + y) * p = p * x + p * y
           /\ p * x \in Nat
  OBVIOUS

LEMMA PartType ==
    ASSUME NEW part \in Part
    PROVE  /\ part.account \in Accounts
           /\ part.account # Zero
           /\ part.value \in Nat /\ part.value <= 10000
<1>1. ASSUME NEW fee \in Fees PROVE fee \in Nat /\ fee <= 10000
  BY FeesAssumption
<1>2. part.account \in Accounts /\ part.value \in Fees
  BY DEF Part
<1>3. part.value \in Nat /\ part.value <= 10000
  BY <1>1, <1>2
<1>4. part.account # Zero
  BY <1>2, FeesAssumption
<1> QED
  BY <1>2, <1>3, <1>4

\* The parts of a request are a sequence of parts.
LEMMA PartListType ==
    ASSUME NEW parts \in PartLists
    PROVE  /\ parts \in Seq(Part)
           /\ Len(parts) \in Nat /\ Len(parts) <= 3
           /\ parts = <<>> => Len(parts) = 0
           /\ Len(parts) = 0 => parts = <<>>
           /\ 1 \in DOMAIN parts <=> 1 <= Len(parts)
           /\ 2 \in DOMAIN parts <=> 2 <= Len(parts)
           /\ \A i \in DOMAIN parts :
                parts[i] \in Part /\ parts[i].value \in Nat /\ parts[i].value <= 10000
<1>1. PICK n \in 0..3 : parts \in [1..n -> Part]
  BY DEF PartLists
<1>2. parts \in Seq(Part) /\ Len(parts) = n /\ DOMAIN parts = 1..n
  BY <1>1
<1>3. ASSUME NEW i \in DOMAIN parts
      PROVE  parts[i] \in Part /\ parts[i].value \in Nat /\ parts[i].value <= 10000
  <2>1. parts[i] \in Part
    BY <1>1, <1>2
  <2> QED
    BY <2>1, PartType
<1>4. parts = <<>> <=> Len(parts) = 0
  BY <1>2
<1>5. (1 \in DOMAIN parts <=> 1 <= n) /\ (2 \in DOMAIN parts <=> 2 <= n)
  BY <1>2
<1>6. \A i \in DOMAIN parts : parts[i] \in Part /\ parts[i].value \in Nat /\ parts[i].value <= 10000
  BY <1>3
<1> QED
  BY <1>2, <1>4, <1>5, <1>6

LEMMA FeeValues ==
    ASSUME NEW parts \in PartLists
    PROVE  /\ PartValue(parts, 1) \in Nat /\ PartValue(parts, 1) <= 10000
           /\ PartValue(parts, 2) \in Nat /\ PartValue(parts, 2) <= 10000
           /\ TotalFee(parts) \in Nat /\ TotalFee(parts) <= 20000
           /\ OrderFee(parts) \in Nat
           /\ OrderFee(parts) - TotalFee(parts) \in Nat
<1>1. \A i \in DOMAIN parts : parts[i].value \in Nat /\ parts[i].value <= 10000
  BY PartListType
<1>2. PartValue(parts, 1) \in Nat /\ PartValue(parts, 1) <= 10000
  BY <1>1 DEF PartValue
<1>3. PartValue(parts, 2) \in Nat /\ PartValue(parts, 2) <= 10000
  BY <1>1 DEF PartValue
<1>4. TotalFee(parts) \in Nat /\ TotalFee(parts) <= 20000
  BY <1>2, <1>3 DEF TotalFee
<1>5. BaseFee \in Nat
  BY FeesAssumption
<1>6. OrderFee(parts) \in Nat /\ OrderFee(parts) - TotalFee(parts) \in Nat
  BY <1>4, <1>5 DEF OrderFee
<1> QED
  BY <1>2, <1>3, <1>4, <1>6

-----------------------------------------------------------------------------
(***************************************************************************)
(* OriginFeeReducer.                                                       *)
(***************************************************************************)

Places == [1..2 -> Accounts \cup {Zero}]

\* two accounts never share a place, and the first place is taken first
InOrder(places) ==
    /\ places[1] = places[2] => places[1] = Zero
    /\ places[1] = Zero => places[2] = Zero

\* what the places give an account
Given(places, fees, account) ==
    (IF places[1] = account THEN fees[1] ELSE 0) + (IF places[2] = account THEN fees[2] ELSE 0)

\* nothing is owed to a free place
FreeIsZero(places, fees) == \A i \in 1..2 : places[i] = Zero => fees[i] = 0

\* places once taken are kept
Extends(places, old) == \A i \in 1..2 : old[i] # Zero => places[i] = old[i]

\* a state of the reduction
Accs == [places : Places, fees : [1..2 -> Nat], fits : BOOLEAN]

\* One part is added to the account it names and to no other.
LEMMA PartIsAdded ==
    ASSUME NEW acc \in Accs, NEW part \in Part, InOrder(acc.places),
           FreeIsZero(acc.places, acc.fees)
    PROVE  LET next == ReducePart(acc, part) IN
           /\ next \in Accs
           /\ InOrder(next.places) /\ FreeIsZero(next.places, next.fees)
           /\ Extends(next.places, acc.places)
           /\ next.fits =>
                /\ acc.fits
                /\ next.fees[1] + next.fees[2] = acc.fees[1] + acc.fees[2] + part.value
                /\ \A account \in Accounts :
                     Given(next.places, next.fees, account) =
                       Given(acc.places, acc.fees, account)
                       + (IF part.account = account THEN part.value ELSE 0)
<1> DEFINE s == Slot(acc.places, part.account)
           next == ReducePart(acc, part)
<1>1. part.account \in Accounts /\ part.value \in Nat /\ part.account # Zero
  BY PartType
<1>2. s \in 0..2
  BY DEF Slot
<1>3. CASE ~acc.fits \/ s = 0
  <2>1. next = [acc EXCEPT !.fits = FALSE]
    BY <1>3 DEF ReducePart
  <2> QED
    BY <2>1 DEF Accs, Extends, InOrder, FreeIsZero
<1>4. CASE acc.fits /\ s # 0
  <2>1. next = [places |-> [acc.places EXCEPT ![s] = part.account],
                fees |-> [acc.fees EXCEPT ![s] = @ + part.value], fits |-> TRUE]
    BY <1>4 DEF ReducePart
  <2>2. s \in 1..2
    BY <1>2, <1>4
  <2>3. acc.places \in Places /\ acc.fees \in [1..2 -> Nat]
    BY DEF Accs
  <2>4. next \in Accs
    BY <1>1, <2>1, <2>2, <2>3 DEF Accs, Places
  <2>5. acc.places[s] = part.account \/ acc.places[s] = Zero
    BY <1>4, <2>2 DEF Slot
  <2>6. Extends(next.places, acc.places)
    BY <2>1, <2>2, <2>3, <2>5 DEF Extends, Places
  <2>7. FreeIsZero(next.places, next.fees)
    BY <1>1, <2>1, <2>2, <2>3 DEF FreeIsZero, Places
  <2>8. InOrder(next.places)
    BY <1>1, <1>4, <2>1, <2>2, <2>3 DEF InOrder, Places, Slot
  <2>9. next.fees[1] + next.fees[2] = acc.fees[1] + acc.fees[2] + part.value
    BY <1>1, <2>1, <2>2, <2>3
  <2>10. ASSUME NEW account \in Accounts
         PROVE  Given(next.places, next.fees, account) =
                  Given(acc.places, acc.fees, account)
                  + (IF part.account = account THEN part.value ELSE 0)
    <3> DEFINE p == acc.places  f == acc.fees  q == next.places  g == next.fees
    <3>1. account # Zero
      BY FeesAssumption
    <3>2. CASE s = 1
      <4>1. q[1] = part.account /\ q[2] = p[2] /\ g[1] = f[1] + part.value /\ g[2] = f[2]
        BY <2>1, <2>3, <3>2 DEF Places
      <4>2. p[1] = part.account \/ (p[1] = Zero /\ f[1] = 0)
        BY <2>5, <3>2 DEF FreeIsZero
      <4>3. f[1] \in Nat /\ f[2] \in Nat
        BY <2>3
      <4> HIDE DEF p, f, q, g
      <4>4. Given(q, g, account) =
              Given(p, f, account) + (IF part.account = account THEN part.value ELSE 0)
        BY <1>1, <3>1, <4>1, <4>2, <4>3 DEF Given
      <4> QED
        BY <4>4 DEF p, f, q, g
    <3>3. CASE s = 2
      <4>1. q[2] = part.account /\ q[1] = p[1] /\ g[2] = f[2] + part.value /\ g[1] = f[1]
        BY <2>1, <2>3, <3>3 DEF Places
      <4>2. p[2] = part.account \/ (p[2] = Zero /\ f[2] = 0)
        BY <2>5, <3>3 DEF FreeIsZero
      <4>3. f[1] \in Nat /\ f[2] \in Nat
        BY <2>3
      <4> HIDE DEF p, f, q, g
      <4>4. Given(q, g, account) =
              Given(p, f, account) + (IF part.account = account THEN part.value ELSE 0)
        BY <1>1, <3>1, <4>1, <4>2, <4>3 DEF Given
      <4> QED
        BY <4>4 DEF p, f, q, g
    <3> QED
      BY <2>2, <3>2, <3>3
  <2> QED
    BY <1>4, <2>1, <2>4, <2>6, <2>7, <2>8, <2>9, <2>10
<1> QED
  BY <1>2, <1>3, <1>4

\* A request that fits adds, to each account, what its parts say.
IsReduced(acc, places, parts) ==
    /\ acc \in Accs
    /\ InOrder(acc.places)
    /\ Extends(acc.places, places)
    /\ acc.fits =>
         /\ Len(parts) <= 2
         /\ FreeIsZero(acc.places, acc.fees)
         /\ acc.fees[1] + acc.fees[2] = TotalFee(parts)
         /\ \A account \in Accounts :
              Given(acc.places, acc.fees, account) = Asked(parts, account)

LEMMA RequestIsReduced ==
    ASSUME NEW places \in Places, InOrder(places), NEW parts \in PartLists
    PROVE  IsReduced(Reduce(places, parts), places, parts)
<1> DEFINE start == [places |-> places, fees |-> [i \in 1..2 |-> 0], fits |-> Len(parts) <= 2]
           one == ReducePart(start, parts[1])
           two == ReducePart(one, parts[2])
<1>1. /\ parts \in Seq(Part)
      /\ Len(parts) \in Nat /\ Len(parts) <= 3
      /\ parts = <<>> <=> Len(parts) = 0
      /\ 1 \in DOMAIN parts <=> 1 <= Len(parts)
      /\ 2 \in DOMAIN parts <=> 2 <= Len(parts)
      /\ \A i \in DOMAIN parts :
           parts[i] \in Part /\ parts[i].value \in Nat /\ parts[i].value <= 10000
  BY PartListType
<1>2. /\ start \in Accs
      /\ FreeIsZero(start.places, start.fees)
      /\ InOrder(start.places)
  BY <1>1 DEF Accs, FreeIsZero
<1>3. /\ \A account \in Accounts : Given(start.places, start.fees, account) = 0
      /\ start.fees[1] + start.fees[2] = 0
  BY DEF Given
<1>4. CASE Len(parts) = 0
  <2>1. Reduce(places, parts) = start
    BY <1>1, <1>4 DEF Reduce
  <2>2. TotalFee(parts) = 0
    BY <1>1, <1>4 DEF TotalFee, PartValue
  <2>3. \A account \in Accounts : Asked(parts, account) = 0
    BY <1>1, <1>4 DEF Asked, PartFee
  <2>4. Extends(start.places, places)
    BY DEF Extends
  <2> HIDE DEF start
  <2>5. IsReduced(start, places, parts)
    BY <1>2, <1>3, <1>4, <2>2, <2>3, <2>4 DEF IsReduced
  <2> QED
    BY <2>1, <2>5
<1>5. CASE Len(parts) = 1
  <2>1. Reduce(places, parts) = one
    BY <1>1, <1>5 DEF Reduce
  <2>2. parts[1] \in Part /\ parts[1].value \in Nat
    BY <1>1, <1>5
  <2>3. TotalFee(parts) = parts[1].value
    BY <1>1, <1>5, <2>2 DEF TotalFee, PartValue
  <2>4. ASSUME NEW account \in Accounts
        PROVE  Asked(parts, account) = IF parts[1].account = account THEN parts[1].value ELSE 0
    BY <1>1, <1>5, <2>2 DEF Asked, PartFee
  <2>5. start.places = places
    OBVIOUS
  <2> HIDE DEF start, one
  <2>6. /\ one \in Accs
        /\ InOrder(one.places) /\ FreeIsZero(one.places, one.fees)
        /\ Extends(one.places, places)
        /\ one.fits =>
             /\ one.fees[1] + one.fees[2] = 0 + parts[1].value
             /\ \A account \in Accounts :
                  Given(one.places, one.fees, account) =
                    0 + (IF parts[1].account = account THEN parts[1].value ELSE 0)
    BY <1>2, <1>3, <2>2, <2>5, PartIsAdded DEF one
  <2>7. one.fits => one.fees[1] + one.fees[2] = TotalFee(parts)
    BY <2>2, <2>3, <2>6
  <2>8. ASSUME one.fits, NEW account \in Accounts
        PROVE  Given(one.places, one.fees, account) = Asked(parts, account)
    BY <2>2, <2>4, <2>6, <2>8
  <2>9. IsReduced(one, places, parts)
    BY <1>5, <2>6, <2>7, <2>8 DEF IsReduced
  <2> QED
    BY <2>1, <2>9
<1>6. CASE Len(parts) >= 2
  <2>1. Reduce(places, parts) = two
    BY <1>1, <1>6 DEF Reduce
  <2>2. /\ parts[1] \in Part /\ parts[1].value \in Nat
        /\ parts[2] \in Part /\ parts[2].value \in Nat
    BY <1>1, <1>6
  <2>3. parts[1] \in Part /\ parts[1].value \in Nat
    BY <2>2
  <2>4. TotalFee(parts) = parts[1].value + parts[2].value
    BY <1>1, <1>6, <2>2 DEF TotalFee, PartValue
  <2>5. ASSUME NEW account \in Accounts
        PROVE  Asked(parts, account) = (IF parts[1].account = account THEN parts[1].value ELSE 0)
                                       + (IF parts[2].account = account THEN parts[2].value ELSE 0)
    BY <1>1, <1>6, <2>2 DEF Asked, PartFee
  <2>6. start.places = places /\ (start.fits => Len(parts) <= 2)
    OBVIOUS
  <2> HIDE DEF start, one, two
  <2>7. /\ one \in Accs
        /\ InOrder(one.places) /\ FreeIsZero(one.places, one.fees)
        /\ Extends(one.places, places)
        /\ one.fits =>
             /\ one.fees[1] + one.fees[2] = 0 + parts[1].value
             /\ \A account \in Accounts :
                  Given(one.places, one.fees, account) =
                    0 + (IF parts[1].account = account THEN parts[1].value ELSE 0)
    BY <1>2, <1>3, <2>3, <2>6, PartIsAdded DEF one
  <2>8. one.fits => start.fits
    BY <1>2, <2>3, PartIsAdded DEF one
  <2>9. /\ two \in Accs
        /\ InOrder(two.places) /\ FreeIsZero(two.places, two.fees)
        /\ Extends(two.places, one.places)
        /\ two.fits =>
             /\ one.fits
             /\ two.fees[1] + two.fees[2] = one.fees[1] + one.fees[2] + parts[2].value
             /\ \A account \in Accounts :
                  Given(two.places, two.fees, account) =
                    Given(one.places, one.fees, account)
                    + (IF parts[2].account = account THEN parts[2].value ELSE 0)
    BY <2>2, <2>7, PartIsAdded DEF two
  <2>10. Extends(two.places, places)
    BY <2>7, <2>9 DEF Extends
  <2>11. two.fits => two.fees[1] + two.fees[2] = TotalFee(parts)
    BY <2>2, <2>4, <2>7, <2>9
  <2>12. ASSUME two.fits, NEW account \in Accounts
         PROVE  Given(two.places, two.fees, account) = Asked(parts, account)
    <3>1. Given(two.places, two.fees, account) =
            (0 + (IF parts[1].account = account THEN parts[1].value ELSE 0))
            + (IF parts[2].account = account THEN parts[2].value ELSE 0)
      BY <2>7, <2>9, <2>12
    <3> QED
      BY <2>2, <2>5, <3>1
  <2>13. IsReduced(two, places, parts)
    BY <2>6, <2>7, <2>8, <2>9, <2>10, <2>11, <2>12 DEF IsReduced
  <2> QED
    BY <2>1, <2>13
<1>7. \A n \in Nat : n = 0 \/ n = 1 \/ n >= 2
  OBVIOUS
<1>8. Len(parts) \in Nat
  BY <1>1
<1> QED
  BY <1>4, <1>5, <1>6, <1>7, <1>8
-----------------------------------------------------------------------------
(***************************************************************************)
(* Types.                                                                  *)
(***************************************************************************)

Prepared == [request : {r \in Requests : Len(r.parts) <= 2}, fees : Nat, total : Nat]

LEMMA RequestType ==
    ASSUME NEW r \in Requests
    PROVE  /\ r.market \in Markets /\ r.weth \in BOOLEAN
           /\ r.price \in Nat /\ r.parts \in PartLists
           /\ r.weth => r.market \in Approving
<1>1. r.market \in Markets /\ r.weth \in BOOLEAN /\ r.price \in Prices /\ r.parts \in PartLists
  BY DEF Requests
<1>2. r.weth => r.market \in Approving
  BY DEF Requests
<1>3. \A price \in Prices : price \in Nat
  BY FeesAssumption
<1> QED
  BY <1>1, <1>2, <1>3

\* What is sent or approved for an order is a natural number.
LEMMA AmountType ==
    ASSUME NEW order \in Prepared
    PROVE  OrderValue(order) \in Nat /\ AssetToApprove(order) \in Nat
<1> DEFINE r == order.request
<1>1. r \in Requests /\ order.total \in Nat
  BY DEF Prepared
<1>2. r.price \in Nat /\ r.parts \in PartLists
  BY <1>1, RequestType
<1>3. TotalFee(r.parts) \in Nat /\ OrderFee(r.parts) \in Nat
  BY <1>2, FeeValues
<1>4. \A p, x \in Nat : p * x \in Nat
  BY Distribute
<1>5. \A x \in Nat : x \div 10000 \in Nat
  OBVIOUS
<1>6. \A p, x \in Nat : AddFee(p, x) \in Nat
  BY <1>4, <1>5 DEF AddFee
<1>7. \A p, x \in Nat : CalcValueWithFees(p, x) \in Nat
  BY <1>4, <1>5 DEF CalcValueWithFees
<1> QED
  BY <1>1, <1>2, <1>3, <1>6, <1>7 DEF OrderValue, AssetToApprove

LEMMA TypeInit == Init => TypeOK
  BY FeesAssumption DEF Init, TypeOK

LEMMA TypePrepare ==
    ASSUME TypeOK, InOrder(addresses), NEW r \in Requests, Prepare(r)
    PROVE  TypeOK'
<1> DEFINE acc == Reduce(addresses, r.parts)
           order == [request |-> r, fees |-> PackFees(acc.fees[1], acc.fees[2]),
                     total |-> acc.fees[1] + acc.fees[2]]
<1>1. addresses \in Places
  BY DEF TypeOK, Places
<1>2. r.parts \in PartLists /\ (r.weth => r.market \in Approving)
  BY RequestType
<1>3. IsReduced(acc, addresses, r.parts)
  BY <1>1, <1>2, RequestIsReduced
<1>4. addresses' \in Places
  BY <1>3 DEF Prepare, IsReduced, Accs
<1>5. acc.fits => order \in Prepared
  <2>1. acc.fees[1] \in Nat /\ acc.fees[2] \in Nat
    BY <1>3 DEF IsReduced, Accs
  <2>2. PackFees(acc.fees[1], acc.fees[2]) \in Nat
    BY <2>1 DEF PackFees, Base
  <2>3. acc.fits => Len(r.parts) <= 2
    BY <1>3 DEF IsReduced
  <2> HIDE DEF acc
  <2> QED
    BY <2>1, <2>2, <2>3 DEF Prepared
<1>6. orders \in Seq(Prepared) /\ approved \in [Approving -> Nat] /\ ready \subseteq DOMAIN orders
      /\ value \in Nat /\ phase = "prepare"
  BY DEF TypeOK, Prepared, Prepare
<1> HIDE DEF acc, order
<1>7. CASE acc.fits
  <2>1. orders' = Append(orders, order) /\ phase' = phase /\ ready' = ready /\ value' = value
    BY <1>7 DEF Prepare, acc, order
  <2>2. orders' \in Seq(Prepared) /\ DOMAIN orders \subseteq DOMAIN orders'
    BY <1>5, <1>6, <1>7, <2>1
  <2>3. approved' \in [Approving -> Nat]
    <3>1. AssetToApprove(order) \in Nat
      BY <1>5, <1>7, AmountType
    <3>2. approved' = IF r.weth
                      THEN [approved EXCEPT ![r.market] = @ + AssetToApprove(order)]
                      ELSE approved
      BY <1>7 DEF Prepare, acc, order
    <3> QED
      BY <1>2, <1>6, <3>1, <3>2
  <2> QED
    BY <1>4, <1>6, <2>1, <2>2, <2>3 DEF TypeOK, Places, Prepared
<1>8. CASE ~acc.fits
  <2>1. phase' = "failed" /\ UNCHANGED <<orders, approved, ready, value>>
    BY <1>8 DEF Prepare, acc
  <2> QED
    BY <1>4, <1>6, <2>1 DEF TypeOK, Places, Prepared
<1> QED
  BY <1>7, <1>8

LEMMA TypeSingle ==
    ASSUME TypeOK, NEW r \in Requests, SinglePurchase(r)
    PROVE  TypeOK'
<1> DEFINE order == [request |-> r,
                     fees |-> PackFees(PartValue(r.parts, 1), PartValue(r.parts, 2)),
                     total |-> TotalFee(r.parts)]
           most == IF r.market = "LOOKSRARE" THEN 2 ELSE 1
<1>1. r.parts \in PartLists
  BY RequestType
<1>2. Len(r.parts) \in Nat
  BY <1>1, PartListType
<1>3. CASE Len(r.parts) > most
  BY <1>3 DEF SinglePurchase, TypeOK
<1>4. CASE ~(Len(r.parts) > most)
  <2>1. Len(r.parts) <= 2
    BY <1>2, <1>4
  <2>2. /\ PartValue(r.parts, 1) \in Nat
        /\ PartValue(r.parts, 2) \in Nat
        /\ TotalFee(r.parts) \in Nat
    BY <1>1, FeeValues
  <2>3. PackFees(PartValue(r.parts, 1), PartValue(r.parts, 2)) \in Nat
    BY <2>2 DEF PackFees, Base
  <2>4. order \in Prepared
    BY <2>1, <2>2, <2>3 DEF Prepared
  <2>5. /\ phase' = "sent" /\ orders' = <<order>> /\ ready' = {1}
        /\ value' = OrderValue(order) /\ approved' = approved
        /\ addresses' = [i \in 1..2 |-> IF i \in DOMAIN r.parts
                                        THEN r.parts[i].account ELSE Zero]
    BY <1>4 DEF SinglePurchase
  <2>6. \A i \in DOMAIN r.parts : r.parts[i].account \in Accounts
    BY <1>1, PartListType, PartType
  <2>7. addresses' \in [1..2 -> Accounts \cup {Zero}]
    BY <2>5, <2>6
  <2>8. value' \in Nat
    BY <2>4, <2>5, AmountType
  <2> HIDE DEF order
  <2>9. orders' \in Seq(Prepared) /\ ready' \subseteq DOMAIN orders'
    BY <2>4, <2>5
  <2> QED
    BY <2>5, <2>7, <2>8, <2>9 DEF TypeOK, Prepared
<1> QED
  BY <1>3, <1>4

LEMMA TypeNext ==
    ASSUME TypeOK, phase = "prepare" => InOrder(addresses), [Next]_vars
    PROVE  TypeOK'
<1>1. ASSUME NEW r \in Requests, Prepare(r) PROVE TypeOK'
  BY <1>1, TypePrepare DEF Prepare
<1>2. ASSUME NEW r \in Requests, SinglePurchase(r) PROVE TypeOK'
  BY <1>2, TypeSingle
<1>3. CASE Approve
  BY <1>3 DEF Approve, TypeOK
<1>4. ASSUME NEW i \in DOMAIN orders, OrderData(i) PROVE TypeOK'
  <2>1. orders \in Seq(Prepared) /\ value \in Nat
    BY DEF TypeOK, Prepared
  <2>2. orders[i] \in Prepared
    BY <2>1
  <2>3. value' \in Nat
    BY <1>4, <2>1, <2>2, AmountType DEF OrderData
  <2> QED
    BY <1>4, <2>3 DEF OrderData, TypeOK
<1>5. CASE BulkPurchase
  BY <1>5 DEF BulkPurchase, TypeOK
<1>6. CASE Throw
  BY <1>6 DEF Throw, TypeOK
<1>7. CASE Again
  BY <1>7 DEF Again, TypeOK
<1>8. CASE UNCHANGED vars
  BY <1>8 DEF vars, TypeOK
<1> QED
  BY <1>1, <1>2, <1>3, <1>4, <1>5, <1>6, <1>7, <1>8 DEF Next

-----------------------------------------------------------------------------
(***************************************************************************)
(* The inductive invariant.  Whatever the places are by now, unpacking the  *)
(* fees of an order with them gives each account what its parts say: places *)
(* once taken are kept, and no order has a fee in a place still free.       *)
(***************************************************************************)

Settled(order, places) ==
    /\ order.total = TotalFee(order.request.parts)
    /\ Packed(order.fees)[1] + Packed(order.fees)[2] = TotalFee(order.request.parts)
    /\ FreeIsZero(places, Packed(order.fees))
    /\ \A account \in Accounts :
         Given(places, Packed(order.fees), account) = Asked(order.request.parts, account)

FeesInv ==
    /\ phase = "prepare" => InOrder(addresses)
    /\ \A i \in DOMAIN orders : Settled(orders[i], addresses)

\* An order is not disturbed by accounts that take free places later.
LEMMA SettledStays ==
    ASSUME NEW order \in Prepared, NEW old \in Places, NEW new \in Places,
           Settled(order, old), Extends(new, old)
    PROVE  Settled(order, new)
<1> DEFINE f == Packed(order.fees)
<1>1. f[1] \in Nat /\ f[2] \in Nat
  BY DEF Prepared, Packed, Base
<1>2. (old[1] # Zero => new[1] = old[1]) /\ (old[2] # Zero => new[2] = old[2])
  BY DEF Extends
<1>3. (old[1] = Zero => f[1] = 0) /\ (old[2] = Zero => f[2] = 0)
  BY DEF Settled, FreeIsZero
<1> HIDE DEF f
<1>4. FreeIsZero(new, f)
  BY <1>2, <1>3 DEF FreeIsZero
<1>5. ASSUME NEW account \in Accounts
      PROVE  Given(new, f, account) = Given(old, f, account)
  <2>1. account # Zero
    BY FeesAssumption
  <2> QED
    BY <1>1, <1>2, <1>3, <2>1 DEF Given
<1> QED
  BY <1>4, <1>5 DEF Settled, f

\* A reduced request is settled.
LEMMA ReducedIsSettled ==
    ASSUME NEW r \in Requests, NEW places \in Places, NEW acc,
           IsReduced(acc, places, r.parts), acc.fits
    PROVE  Settled([request |-> r, fees |-> PackFees(acc.fees[1], acc.fees[2]),
                    total |-> acc.fees[1] + acc.fees[2]], acc.places)
<1> DEFINE f == Packed(PackFees(acc.fees[1], acc.fees[2]))
<1>1. /\ acc.fees[1] \in Nat /\ acc.fees[2] \in Nat
      /\ acc.fees[1] + acc.fees[2] = TotalFee(r.parts)
      /\ FreeIsZero(acc.places, acc.fees)
      /\ \A account \in Accounts :
           Given(acc.places, acc.fees, account) = Asked(r.parts, account)
  BY DEF IsReduced, Accs
<1>2. TotalFee(r.parts) <= 20000
  BY RequestType, FeeValues
<1>3. \A x, y \in Nat : x + y <= 20000 => x <= 20000 /\ y <= 20000
  OBVIOUS
<1>4. f[1] = acc.fees[1] /\ f[2] = acc.fees[2]
  <2>1. acc.fees[1] + acc.fees[2] <= 20000
    BY <1>1, <1>2
  <2>2. acc.fees[1] <= 20000 /\ acc.fees[2] <= 20000
    BY <1>1, <1>3, <2>1
  <2> QED
    BY <1>1, <2>2, PackedIsUnpacked
<1> HIDE DEF f
<1>5. FreeIsZero(acc.places, f)
  BY <1>1, <1>4 DEF FreeIsZero
<1>6. \A account \in Accounts : Given(acc.places, f, account) = Asked(r.parts, account)
  BY <1>1, <1>4 DEF Given
<1>7. f[1] + f[2] = TotalFee(r.parts)
  BY <1>1, <1>4
<1> QED
  BY <1>1, <1>5, <1>6, <1>7 DEF Settled, f

LEMMA FeesInit == Init => FeesInv
  BY DEF Init, FeesInv, InOrder

LEMMA FeesPrepare ==
    ASSUME TypeOK, TypeOK', FeesInv, NEW r \in Requests, Prepare(r)
    PROVE  FeesInv'
<1> DEFINE acc == Reduce(addresses, r.parts)
           order == [request |-> r, fees |-> PackFees(acc.fees[1], acc.fees[2]),
                     total |-> acc.fees[1] + acc.fees[2]]
<1>1. addresses \in Places /\ addresses' \in Places /\ orders \in Seq(Prepared)
  BY DEF TypeOK, Places, Prepared
<1>2. IsReduced(acc, addresses, r.parts)
  BY <1>1, RequestType, RequestIsReduced DEF FeesInv, Prepare
<1>3. addresses' = acc.places /\ InOrder(addresses') /\ Extends(addresses', addresses)
  BY <1>2 DEF Prepare, IsReduced
<1>4. \A i \in DOMAIN orders : Settled(orders[i], addresses')
  BY <1>1, <1>3, SettledStays DEF FeesInv
<1>5. acc.fits => Settled(order, addresses')
  BY <1>1, <1>2, <1>3, ReducedIsSettled
<1>6. IF acc.fits THEN orders' = Append(orders, order) ELSE orders' = orders
  BY DEF Prepare
<1> HIDE DEF acc, order
<1>7. \A i \in DOMAIN orders' : Settled(orders'[i], addresses')
  <2>1. CASE acc.fits
    BY <1>1, <1>4, <1>5, <1>6, <2>1
  <2>2. CASE ~acc.fits
    BY <1>4, <1>6, <2>2
  <2> QED
    BY <2>1, <2>2
<1> QED
  BY <1>3, <1>7 DEF FeesInv

LEMMA FeesSingle ==
    ASSUME TypeOK, FeesInv, NEW r \in Requests, SinglePurchase(r)
    PROVE  FeesInv'
<1> DEFINE most == IF r.market = "LOOKSRARE" THEN 2 ELSE 1
           x == PartValue(r.parts, 1)
           y == PartValue(r.parts, 2)
           order == [request |-> r, fees |-> PackFees(x, y), total |-> TotalFee(r.parts)]
           f == Packed(PackFees(x, y))
<1>1. CASE Len(r.parts) > most
  BY <1>1 DEF SinglePurchase, FeesInv
<1>2. CASE ~(Len(r.parts) > most)
  <2>1. /\ phase' = "sent" /\ orders' = <<order>>
        /\ addresses' = [i \in 1..2 |-> IF i \in DOMAIN r.parts
                                        THEN r.parts[i].account ELSE Zero]
    BY <1>2 DEF SinglePurchase
  <2>2. r.parts \in PartLists
    BY RequestType
  <2>3. x \in Nat /\ x <= 10000 /\ y \in Nat /\ y <= 10000
    BY <2>2, FeeValues
  <2>4. f[1] = x /\ f[2] = y
    <3>1. \A n \in Nat : n <= 10000 => n <= 20000
      OBVIOUS
    <3>2. x <= 20000 /\ y <= 20000
      BY <2>3, <3>1
    <3> QED
      BY <2>3, <3>2, PackedIsUnpacked
  <2>5. \A i \in DOMAIN r.parts : r.parts[i].account # Zero
    BY <2>2, PartListType, PartType
  <2>6. /\ addresses'[1] = IF 1 \in DOMAIN r.parts THEN r.parts[1].account ELSE Zero
        /\ addresses'[2] = IF 2 \in DOMAIN r.parts THEN r.parts[2].account ELSE Zero
    BY <2>1
  <2> HIDE DEF f
  <2>7. FreeIsZero(addresses', f)
    BY <2>4, <2>5, <2>6 DEF FreeIsZero, PartValue
  <2>8. ASSUME NEW account \in Accounts
        PROVE  Given(addresses', f, account) = Asked(r.parts, account)
    <3>1. account # Zero
      BY FeesAssumption
    <3> QED
      BY <2>4, <2>6, <3>1 DEF Given, Asked, PartFee, PartValue
  <2>9. f[1] + f[2] = TotalFee(r.parts)
    BY <2>4 DEF TotalFee
  <2>10. Settled(order, addresses')
    BY <2>7, <2>8, <2>9 DEF Settled, f
  <2> HIDE DEF order
  <2>11. \A i \in DOMAIN orders' : orders'[i] = order
    BY <2>1
  <2> QED
    BY <2>1, <2>10, <2>11 DEF FeesInv
<1> QED
  BY <1>1, <1>2

LEMMA FeesNext ==
    ASSUME TypeOK, TypeOK', FeesInv, [Next]_vars
    PROVE  FeesInv'
<1>1. ASSUME NEW r \in Requests, Prepare(r) PROVE FeesInv'
  BY <1>1, FeesPrepare
<1>2. ASSUME NEW r \in Requests, SinglePurchase(r) PROVE FeesInv'
  BY <1>2, FeesSingle
<1>3. CASE Approve
  BY <1>3 DEF Approve, FeesInv
<1>4. ASSUME NEW i \in DOMAIN orders, OrderData(i) PROVE FeesInv'
  BY <1>4 DEF OrderData, FeesInv
<1>5. CASE BulkPurchase
  BY <1>5 DEF BulkPurchase, FeesInv
<1>6. CASE Throw
  BY <1>6 DEF Throw, FeesInv
<1>7. CASE Again
  BY <1>7 DEF Again, FeesInv, InOrder
<1>8. CASE UNCHANGED vars
  BY <1>8 DEF vars, FeesInv
<1> QED
  BY <1>1, <1>2, <1>3, <1>4, <1>5, <1>6, <1>7, <1>8 DEF Next

\* The types and the invariant hold together: the types of the places depend
\* on the order in which they are taken.
THEOREM FeesKept == Spec => [](TypeOK /\ FeesInv)
<1>1. Init => TypeOK /\ FeesInv
  BY TypeInit, FeesInit
<1>2. TypeOK /\ FeesInv /\ [Next]_vars => (TypeOK /\ FeesInv)'
  <2> SUFFICES ASSUME TypeOK, FeesInv, [Next]_vars
               PROVE  TypeOK' /\ FeesInv'
    OBVIOUS
  <2>1. TypeOK'
    BY TypeNext DEF FeesInv
  <2> QED
    BY <2>1, FeesNext
<1> QED
  BY <1>1, <1>2, PTL DEF Spec

\* Type correctness, for any accounts, fees and number of orders.
THEOREM TypeCorrect == Spec => []TypeOK
  BY FeesKept, PTL

\* Fees reach their accounts in every purchase sent, whatever the accounts of
\* the batch and however many orders it has.
THEOREM FeesReach == Spec => []FeesReachTheirAccount
<1>1. TypeOK /\ FeesInv => FeesReachTheirAccount
  <2> SUFFICES ASSUME TypeOK, FeesInv, NEW i \in DOMAIN orders, NEW account \in Accounts
               PROVE  Paid(orders[i], account) = Asked(orders[i].request.parts, account)
    BY DEF FeesReachTheirAccount
  <2> DEFINE order == orders[i]
  <2>1. Settled(order, addresses)
    BY DEF FeesInv
  <2>2. order.request \in Requests
    <3>1. orders \in Seq(Prepared)
      BY DEF TypeOK, Prepared
    <3>2. order \in Prepared
      BY <3>1
    <3> QED
      BY <3>2 DEF Prepared
  <2>3. Asked(order.request.parts, account) \in Nat
    <3>1. order.request.parts \in PartLists
      BY <2>2, RequestType
    <3>2. \A j \in DOMAIN order.request.parts : order.request.parts[j].value \in Nat
      BY <3>1, PartListType
    <3> QED
      BY <3>2 DEF Asked, PartFee
  <2> HIDE DEF order
  <2>4. CASE order.request.market = "RARIBLE_V2"
    <3>1. Wrapper(order, account) = 0
      BY <2>4 DEF Wrapper, SentFees
    <3> QED
      BY <2>3, <2>4, <3>1 DEF Paid, order
  <2>5. CASE order.request.market # "RARIBLE_V2"
    <3>1. Wrapper(order, account) = Given(addresses, Packed(order.fees), account)
      BY <2>5 DEF Wrapper, SentFees, Given
    <3>2. Wrapper(order, account) = Asked(order.request.parts, account)
      BY <2>1, <3>1 DEF Settled
    <3> QED
      BY <2>3, <2>5, <3>2 DEF Paid, order
  <2> QED
    BY <2>4, <2>5
<1> QED
  BY <1>1, FeesKept, PTL

-----------------------------------------------------------------------------
(***************************************************************************)
(* Amounts.                                                                *)
(***************************************************************************)

\* The wrapper's cost, with each fee rounded down, is covered.
LEMMA WrapperIsCovered ==
    ASSUME NEW price \in Nat, NEW x \in Nat, NEW y \in Nat
    PROVE  Covers(CalcValueWithFees(price, x + y), price + Share(price, x) + Share(price, y))
<1> DEFINE u == price * x  v == price * y
           a == u \div 10000  b == v \div 10000  c == (u + v) \div 10000
<1>1. u \in Nat /\ v \in Nat /\ (x + y) * price = u + v
  BY Distribute
<1>2. CalcValueWithFees(price, x + y) = c + price
  BY <1>1 DEF CalcValueWithFees
<1>3. Share(price, x) = a /\ Share(price, y) = b
  BY DEF Share
<1> HIDE DEF u, v
<1>4. c >= a + b /\ c <= a + b + 1
  BY <1>1, RoundTwo
<1>5. a \in Nat /\ b \in Nat /\ c \in Nat
  BY <1>1
<1> HIDE DEF a, b, c
<1>6. Covers(c + price, price + a + b)
  BY <1>4, <1>5 DEF Covers
<1> QED
  BY <1>2, <1>3, <1>6

\* So is the cost of a RARIBLE_V2 order, the protocol's fee included.
LEMMA ExchangeIsCovered ==
    ASSUME NEW price \in Nat, NEW x \in Nat, NEW y \in Nat, NEW z \in Nat
    PROVE  Covers(AddFee(price, x + y + z),
                  price + Share(price, x) + Share(price, y) + Share(price, z))
<1> DEFINE u == price * x  v == price * y  w == price * z
           a == u \div 10000  b == v \div 10000  d == w \div 10000
           c == (u + v + w) \div 10000
<1>1. u \in Nat /\ v \in Nat /\ w \in Nat
  BY Distribute
<1>2. price * (x + y + z + 10000) = u + v + w + price * 10000
  <2>1. x + y \in Nat /\ x + y + z \in Nat /\ 10000 \in Nat
    OBVIOUS
  <2>2. price * (x + y) = u + v
    BY Distribute
  <2>3. price * ((x + y) + z) = price * (x + y) + w
    BY <2>1, Distribute
  <2>4. price * ((x + y + z) + 10000) = price * (x + y + z) + price * 10000
    BY <2>1, Distribute
  <2> QED
    BY <2>2, <2>3, <2>4
<1>3. AddFee(price, x + y + z) = (u + v + w + price * 10000) \div 10000
  BY <1>2 DEF AddFee
<1>4. Share(price, x) = a /\ Share(price, y) = b /\ Share(price, z) = d
  BY DEF Share
<1> HIDE DEF u, v, w
<1>5. (u + v + w + price * 10000) \div 10000 = c + price
  BY <1>1
<1>6. c >= a + b + d /\ c <= a + b + d + 2
  BY <1>1, RoundThree
<1>7. a \in Nat /\ b \in Nat /\ c \in Nat /\ d \in Nat
  BY <1>1
<1> HIDE DEF a, b, c, d
<1>8. Covers(c + price, price + a + b + d)
  BY <1>6, <1>7 DEF Covers
<1> QED
  BY <1>3, <1>4, <1>5, <1>8

\* What is computed for an order covers its cost, to within two roundings.
LEMMA OrderIsCovered ==
    ASSUME NEW order \in Prepared, NEW places, Settled(order, places)
    PROVE  /\ Cost(order) \in Nat
           /\ Covers(IF order.request.weth THEN AssetToApprove(order) ELSE OrderValue(order),
                     Cost(order))
<1> DEFINE r == order.request
           x == PartValue(r.parts, 1)  y == PartValue(r.parts, 2)
           amount == IF r.weth THEN AssetToApprove(order) ELSE OrderValue(order)
<1>1. r.price \in Nat /\ r.parts \in PartLists /\ order.fees \in Nat
  BY RequestType DEF Prepared
<1>2. order.total = TotalFee(r.parts)
  BY DEF Settled
<1>3. \A price, bp \in Nat : Share(price, bp) \in Nat
  BY Distribute DEF Share
<1>4. CASE r.market = "RARIBLE_V2"
  <2> DEFINE z == OrderFee(r.parts) - TotalFee(r.parts)
  <2>1. x \in Nat /\ y \in Nat /\ z \in Nat
    BY <1>1, FeeValues
  <2>2. OrderFee(r.parts) = x + y + z
    <3>1. TotalFee(r.parts) = x + y /\ OrderFee(r.parts) \in Nat /\ x \in Nat /\ y \in Nat
      BY <1>1, FeeValues DEF TotalFee
    <3> HIDE DEF x, y
    <3> QED
      BY <3>1
  <2>3. amount = AddFee(r.price, OrderFee(r.parts))
    BY <1>4 DEF AssetToApprove, OrderValue
  <2>4. Cost(order) = r.price + Share(r.price, x) + Share(r.price, y) + Share(r.price, z)
    BY <1>4 DEF Cost
  <2> HIDE DEF x, y, z, amount
  <2>5. Covers(amount, Cost(order))
    BY <1>1, <2>1, <2>2, <2>3, <2>4, ExchangeIsCovered
  <2>6. Cost(order) \in Nat
    <3>1. Share(r.price, x) \in Nat /\ Share(r.price, y) \in Nat /\ Share(r.price, z) \in Nat
      BY <1>1, <1>3, <2>1
    <3> QED
      BY <1>1, <2>4, <3>1
  <2> QED
    BY <2>5, <2>6 DEF amount
<1>5. CASE r.market # "RARIBLE_V2"
  <2> DEFINE f == Packed(order.fees)
  <2>1. f[1] \in Nat /\ f[2] \in Nat
    BY <1>1 DEF Packed, Base
  <2>2. TotalFee(r.parts) = f[1] + f[2]
    BY DEF Settled
  <2>3. amount = CalcValueWithFees(r.price, TotalFee(r.parts))
    BY <1>2, <1>5 DEF AssetToApprove, OrderValue
  <2>4. Cost(order) = r.price + Share(r.price, f[1]) + Share(r.price, f[2])
    BY <1>5 DEF Cost, SentFees
  <2> HIDE DEF f, amount
  <2>5. Covers(amount, Cost(order))
    BY <1>1, <2>1, <2>2, <2>3, <2>4, WrapperIsCovered
  <2>6. Cost(order) \in Nat
    <3>1. Share(r.price, f[1]) \in Nat /\ Share(r.price, f[2]) \in Nat
      BY <1>1, <1>3, <2>1
    <3> QED
      BY <1>1, <2>4, <3>1
  <2> QED
    BY <2>5, <2>6 DEF amount
<1> QED
  BY <1>4, <1>5

\* What is computed for an order covers its cost, to within two roundings, for
\* any price and any fees up to the whole price.
THEOREM Covered == Spec => []EveryOrderIsCovered
<1>1. TypeOK /\ FeesInv => EveryOrderIsCovered
  <2> SUFFICES ASSUME TypeOK, FeesInv, NEW i \in DOMAIN orders
               PROVE  Covers(IF orders[i].request.weth THEN AssetToApprove(orders[i])
                                                       ELSE OrderValue(orders[i]),
                             Cost(orders[i]))
    BY DEF EveryOrderIsCovered
  <2>1. orders \in Seq(Prepared)
    BY DEF TypeOK, Prepared
  <2>2. orders[i] \in Prepared /\ Settled(orders[i], addresses)
    BY <2>1 DEF FeesInv
  <2> QED
    BY <2>2, OrderIsCovered
<1> QED
  BY <1>1, FeesKept, PTL

-----------------------------------------------------------------------------
(***************************************************************************)
(* The whole purchase.  Between the first request and the last answer the   *)
(* ether counted is that of the orders whose data has come, in any order,   *)
(* and the WETH that of all orders prepared so far.                        *)
(***************************************************************************)

CostsOf(os) == [i \in DOMAIN os |-> Cost(os[i])]
InEther(os, which) == {i \in which : ~os[i].request.weth}
InWeth(os, m) == {i \in DOMAIN os : os[i].request.weth /\ os[i].request.market = m}

\* an amount covers the terms of c, and exceeds them by two roundings each at most
WithinRoundings(amount, c, which) ==
    /\ amount \in Nat
    /\ amount >= SumOver(c, which)
    /\ amount <= SumOver(c, which) + 2 * Cardinality(which)

FundedInv ==
    /\ phase = "prepare" => ready = {} /\ value = 0
    /\ phase = "sent" => ready = DOMAIN orders
    /\ WithinRoundings(value, CostsOf(orders), InEther(orders, ready))
    /\ \A m \in Approving : WithinRoundings(approved[m], CostsOf(orders), InWeth(orders, m))

\* Nothing is owed for no orders.
LEMMA NothingIsFunded == \A c : WithinRoundings(0, c, {})
  BY SumOfNone, FS_EmptySet DEF WithinRoundings

LEMMA OneMoreIsFunded ==
    ASSUME NEW S, IsFiniteSet(S), NEW x, x \notin S,
           NEW c, \A y \in S \cup {x} : c[y] \in Nat,
           NEW amount, WithinRoundings(amount, c, S),
           NEW more \in Nat, Covers(more, c[x])
    PROVE  WithinRoundings(amount + more, c, S \cup {x})
<1>1. SumOver(c, S) \in Nat /\ SumOver(c, S \cup {x}) = SumOver(c, S) + c[x]
  BY SumOfOneMore
<1>2. Cardinality(S) \in Nat /\ Cardinality(S \cup {x}) = Cardinality(S) + 1
  BY FS_CardinalityType, FS_AddElement
<1>3. c[x] \in Nat
  OBVIOUS
<1> QED
  BY <1>1, <1>2, <1>3 DEF WithinRoundings, Covers

LEMMA SameTermsAreFunded ==
    ASSUME NEW S, IsFiniteSet(S), NEW c, NEW d, \A x \in S : c[x] = d[x],
           NEW amount, WithinRoundings(amount, c, S)
    PROVE  WithinRoundings(amount, d, S)
  BY SumOfSameTerms DEF WithinRoundings

\* The costs of orders are numbers, and those of the orders so far stay when one
\* is appended.
LEMMA CostsType ==
    ASSUME NEW os \in Seq(Prepared), NEW places, \A i \in DOMAIN os : Settled(os[i], places)
    PROVE  \A i \in DOMAIN os : CostsOf(os)[i] = Cost(os[i]) /\ CostsOf(os)[i] \in Nat
<1>1. ASSUME NEW i \in DOMAIN os
      PROVE  CostsOf(os)[i] = Cost(os[i]) /\ CostsOf(os)[i] \in Nat
  <2>1. os[i] \in Prepared /\ Settled(os[i], places)
    OBVIOUS
  <2>2. Cost(os[i]) \in Nat
    BY <2>1, OrderIsCovered
  <2> QED
    BY <2>2 DEF CostsOf
<1> QED
  BY <1>1

LEMMA DomainIsFinite ==
    ASSUME NEW os \in Seq(Prepared), NEW which, which \subseteq DOMAIN os
    PROVE  IsFiniteSet(which)
<1>1. DOMAIN os = 1..Len(os) /\ Len(os) \in Int /\ 1 \in Int
  OBVIOUS
<1>2. IsFiniteSet(1..Len(os))
  BY <1>1, FS_Interval
<1> QED
  BY <1>1, <1>2, FS_Subset

\* An order prepared adds what it needs to the WETH of its operator.
LEMMA PreparedIsFunded ==
    ASSUME NEW os \in Seq(Prepared), NEW order \in Prepared, NEW places,
           NEW m, NEW amount, NEW amountNext,
           \A i \in DOMAIN Append(os, order) : Settled(Append(os, order)[i], places),
           WithinRoundings(amount, CostsOf(os), InWeth(os, m)),
           amountNext = IF order.request.weth /\ order.request.market = m
                        THEN amount + AssetToApprove(order) ELSE amount
    PROVE  WithinRoundings(amountNext, CostsOf(Append(os, order)), InWeth(Append(os, order), m))
<1> DEFINE n == Len(os) + 1
           new == Append(os, order)
           S == InWeth(os, m)
<1>1. /\ DOMAIN new = DOMAIN os \cup {n} /\ n \notin DOMAIN os /\ new[n] = order
      /\ \A i \in DOMAIN os : new[i] = os[i]
      /\ new \in Seq(Prepared)
  OBVIOUS
<1>2. S \subseteq DOMAIN os
  BY DEF InWeth
<1>3. \A i \in DOMAIN new : Settled(new[i], places)
  OBVIOUS
<1>4. WithinRoundings(amount, CostsOf(os), S)
  OBVIOUS
<1>5. InWeth(new, m) = IF order.request.weth /\ order.request.market = m THEN S \cup {n} ELSE S
  <2> HIDE DEF new, n
  <2> QED
    BY <1>1 DEF InWeth
<1>6. amountNext = IF order.request.weth /\ order.request.market = m
                   THEN amount + AssetToApprove(order) ELSE amount
  OBVIOUS
<1> HIDE DEF new, n, S
<1>7. \A i \in DOMAIN new : CostsOf(new)[i] = Cost(new[i]) /\ CostsOf(new)[i] \in Nat
  BY <1>1, <1>3, CostsType
<1>8. WithinRoundings(amount, CostsOf(new), S)
  <2>1. \A i \in S : CostsOf(os)[i] = CostsOf(new)[i]
    BY <1>1, <1>2, <1>7 DEF CostsOf
  <2> QED
    BY <1>2, <1>4, <2>1, DomainIsFinite, SameTermsAreFunded
<1>9. CASE order.request.weth /\ order.request.market = m
  <2>1. AssetToApprove(order) \in Nat
    BY AmountType
  <2>2. Covers(AssetToApprove(order), CostsOf(new)[n])
    BY <1>1, <1>3, <1>7, <1>9, OrderIsCovered
  <2>3. IsFiniteSet(S) /\ n \notin S /\ \A i \in S \cup {n} : CostsOf(new)[i] \in Nat
    BY <1>1, <1>2, <1>7, DomainIsFinite
  <2>4. WithinRoundings(amount + AssetToApprove(order), CostsOf(new), S \cup {n})
    BY <1>8, <2>1, <2>2, <2>3, OneMoreIsFunded
  <2> QED
    BY <1>5, <1>6, <1>9, <2>4 DEF new
<1>10. CASE ~(order.request.weth /\ order.request.market = m)
  BY <1>5, <1>6, <1>8, <1>10 DEF new
<1> QED
  BY <1>9, <1>10

\* An order whose data has come adds what it needs to the ether sent.
LEMMA DataIsFunded ==
    ASSUME NEW os \in Seq(Prepared), NEW places, \A i \in DOMAIN os : Settled(os[i], places),
           NEW which, which \subseteq DOMAIN os, NEW i \in DOMAIN os, i \notin which,
           NEW amount, WithinRoundings(amount, CostsOf(os), InEther(os, which))
    PROVE  WithinRoundings(amount + OrderValue(os[i]), CostsOf(os), InEther(os, which \cup {i}))
<1> DEFINE S == InEther(os, which)
<1>1. S \subseteq DOMAIN os /\ i \notin S
  BY DEF InEther
<1>2. InEther(os, which \cup {i}) = IF os[i].request.weth THEN S ELSE S \cup {i}
  BY DEF InEther
<1>3. os[i] \in Prepared /\ Settled(os[i], places)
  OBVIOUS
<1>4. \A j \in DOMAIN os : CostsOf(os)[j] = Cost(os[j]) /\ CostsOf(os)[j] \in Nat
  BY CostsType
<1>5. WithinRoundings(amount, CostsOf(os), S)
  OBVIOUS
<1> HIDE DEF S
<1>6. CASE os[i].request.weth
  <2>1. OrderValue(os[i]) = 0
    BY <1>6 DEF OrderValue
  <2>2. amount + 0 = amount
    BY <1>5 DEF WithinRoundings
  <2> QED
    BY <1>2, <1>5, <1>6, <2>1, <2>2
<1>7. CASE ~os[i].request.weth
  <2>1. OrderValue(os[i]) \in Nat
    BY <1>3, AmountType
  <2>2. Covers(OrderValue(os[i]), CostsOf(os)[i])
    BY <1>3, <1>4, <1>7, OrderIsCovered
  <2>3. IsFiniteSet(S) /\ \A j \in S \cup {i} : CostsOf(os)[j] \in Nat
    BY <1>1, <1>4, DomainIsFinite
  <2>4. WithinRoundings(amount + OrderValue(os[i]), CostsOf(os), S \cup {i})
    BY <1>1, <1>5, <2>1, <2>2, <2>3, OneMoreIsFunded
  <2> QED
    BY <1>2, <1>7, <2>4
<1> QED
  BY <1>6, <1>7

LEMMA FundedInit == Init => FundedInv
<1> SUFFICES ASSUME Init PROVE FundedInv
  OBVIOUS
<1>1. InEther(orders, ready) = {} /\ \A m \in Approving : InWeth(orders, m) = {}
  BY DEF Init, InEther, InWeth
<1> QED
  BY <1>1, NothingIsFunded DEF Init, FundedInv

LEMMA FundedPrepare ==
    ASSUME TypeOK, TypeOK', FeesInv', FundedInv, NEW r \in Requests, Prepare(r)
    PROVE  FundedInv'
<1>1. phase = "prepare" /\ ready' = {} /\ value' = 0 /\ phase' \in {"prepare", "failed"}
  BY DEF Prepare, FundedInv
<1>2. WithinRoundings(value', CostsOf(orders'), InEther(orders', ready'))
  <2>1. InEther(orders', ready') = {}
    BY <1>1 DEF InEther
  <2> QED
    BY <1>1, <2>1, NothingIsFunded
<1>3. orders \in Seq(Prepared) /\ orders' \in Seq(Prepared) /\ approved \in [Approving -> Nat]
  BY DEF TypeOK, Prepared
<1>4. CASE orders' = orders /\ approved' = approved
  BY <1>1, <1>2, <1>4 DEF FundedInv
<1>5. ASSUME NEW order, order.request = r, orders' = Append(orders, order),
             approved' = IF r.weth
                         THEN [approved EXCEPT ![r.market] = @ + AssetToApprove(order)]
                         ELSE approved
      PROVE  FundedInv'
  <2>1. order \in Prepared
    <3>1. Len(orders) + 1 \in DOMAIN orders' /\ orders'[Len(orders) + 1] = order
      BY <1>3, <1>5
    <3>2. \A i \in DOMAIN orders' : orders'[i] \in Prepared
      BY <1>3
    <3> QED
      BY <3>1, <3>2
  <2>2. PICK places : places = addresses'
    OBVIOUS
  <2>3. \A i \in DOMAIN Append(orders, order) : Settled(Append(orders, order)[i], places)
    BY <1>5, <2>2 DEF FeesInv
  <2>4. ASSUME NEW m \in Approving
        PROVE  WithinRoundings(approved'[m], CostsOf(orders'), InWeth(orders', m))
    <3>1. approved'[m] = IF order.request.weth /\ order.request.market = m
                         THEN approved[m] + AssetToApprove(order) ELSE approved[m]
      BY <1>3, <1>5
    <3>2. WithinRoundings(approved[m], CostsOf(orders), InWeth(orders, m))
      BY DEF FundedInv
    <3>3. WithinRoundings(approved'[m], CostsOf(Append(orders, order)),
                          InWeth(Append(orders, order), m))
      BY <1>3, <2>1, <2>3, <3>1, <3>2, PreparedIsFunded
    <3> QED
      BY <1>5, <3>3
  <2> QED
    BY <1>1, <1>2, <2>4 DEF FundedInv
<1>6. \/ orders' = orders /\ approved' = approved
      \/ \E order : /\ order.request = r /\ orders' = Append(orders, order)
                    /\ approved' = IF r.weth
                                   THEN [approved EXCEPT ![r.market] = @ + AssetToApprove(order)]
                                   ELSE approved
  <2> DEFINE acc == Reduce(addresses, r.parts)
             order == [request |-> r, fees |-> PackFees(acc.fees[1], acc.fees[2]),
                       total |-> acc.fees[1] + acc.fees[2]]
  <2>1. order.request = r
    OBVIOUS
  <2>2. \/ orders' = orders /\ approved' = approved
        \/ /\ orders' = Append(orders, order)
           /\ approved' = IF r.weth
                          THEN [approved EXCEPT ![r.market] = @ + AssetToApprove(order)]
                          ELSE approved
    BY DEF Prepare
  <2> HIDE DEF order
  <2> QED
    BY <2>1, <2>2
<1> QED
  BY <1>4, <1>5, <1>6

\* A single purchase is paid in ether and adds to what was nothing.
LEMMA FundedSingle ==
    ASSUME TypeOK, TypeOK', FeesInv', FundedInv, NEW r \in Requests, SinglePurchase(r)
    PROVE  FundedInv'
<1>1. /\ phase = "prepare" /\ orders = <<>> /\ ready = {} /\ value = 0
      /\ ~r.weth /\ approved' = approved
  BY DEF SinglePurchase, FundedInv, Requests, Approving
<1>2. CASE phase' = "failed" /\ UNCHANGED <<addresses, orders, ready, value>>
  BY <1>1, <1>2 DEF FundedInv
<1>3. ASSUME NEW order, order.request = r, phase' = "sent", orders' = <<order>>, ready' = {1},
             value' = OrderValue(order)
      PROVE  FundedInv'
  <2>1. /\ orders' \in Seq(Prepared) /\ DOMAIN orders' = {1} /\ orders'[1] = order
    BY <1>3 DEF TypeOK, Prepared
  <2>2. PICK os \in Seq(Prepared) : os = orders'
    BY <2>1
  <2>3. PICK places : \A i \in DOMAIN os : Settled(os[i], places)
    BY <2>2 DEF FeesInv
  <2>4. InEther(os, {}) = {} /\ {} \cup {1} = {1}
    BY DEF InEther
  <2>5. WithinRoundings(0, CostsOf(os), InEther(os, {}))
    BY <2>4, NothingIsFunded
  <2>6. 1 \in DOMAIN os /\ os[1] = order /\ {} \subseteq DOMAIN os /\ 1 \notin {}
    BY <2>1, <2>2
  <2>7. WithinRoundings(0 + OrderValue(os[1]), CostsOf(os), InEther(os, {} \cup {1}))
    BY <2>3, <2>5, <2>6, DataIsFunded
  <2>8. OrderValue(order) \in Nat
    <3>1. os[1] \in Prepared
      BY <2>2, <2>6
    <3> QED
      BY <2>6, <3>1, AmountType
  <2>9. WithinRoundings(value', CostsOf(orders'), InEther(orders', ready'))
    BY <1>3, <2>2, <2>4, <2>6, <2>7, <2>8
  <2>10. ASSUME NEW m \in Approving
         PROVE  WithinRoundings(approved'[m], CostsOf(orders'), InWeth(orders', m))
    <3>1. InWeth(orders, m) = {} /\ InWeth(orders', m) = {}
      BY <1>1, <1>3, <2>1 DEF InWeth
    <3>2. WithinRoundings(approved[m], CostsOf(orders), {})
      BY <3>1 DEF FundedInv
    <3>3. IsFiniteSet({})
      BY FS_EmptySet
    <3>4. WithinRoundings(approved[m], CostsOf(os), {})
      BY <3>2, <3>3, SameTermsAreFunded
    <3> QED
      BY <1>1, <2>2, <3>1, <3>4
  <2> QED
    BY <1>3, <2>1, <2>9, <2>10 DEF FundedInv
<1>4. \/ phase' = "failed" /\ UNCHANGED <<addresses, orders, ready, value>>
      \/ \E order : /\ order.request = r /\ phase' = "sent" /\ orders' = <<order>>
                    /\ ready' = {1} /\ value' = OrderValue(order)
  <2> DEFINE order == [request |-> r,
                       fees |-> PackFees(PartValue(r.parts, 1), PartValue(r.parts, 2)),
                       total |-> TotalFee(r.parts)]
  <2>1. order.request = r
    OBVIOUS
  <2>2. \/ phase' = "failed" /\ UNCHANGED <<addresses, orders, ready, value>>
        \/ /\ phase' = "sent" /\ orders' = <<order>> /\ ready' = {1}
           /\ value' = OrderValue(order)
    BY DEF SinglePurchase
  <2> HIDE DEF order
  <2> QED
    BY <2>1, <2>2
<1> QED
  BY <1>2, <1>3, <1>4

LEMMA FundedData ==
    ASSUME TypeOK, FeesInv, FundedInv, NEW i \in DOMAIN orders, OrderData(i)
    PROVE  FundedInv'
<1>1. /\ phase = "data" /\ i \notin ready /\ ready' = ready \cup {i}
      /\ value' = value + OrderValue(orders[i])
      /\ UNCHANGED <<phase, addresses, orders, approved>>
  BY DEF OrderData
<1>2. orders \in Seq(Prepared) /\ ready \subseteq DOMAIN orders
  BY DEF TypeOK, Prepared
<1>3. \A j \in DOMAIN orders : Settled(orders[j], addresses)
  BY DEF FeesInv
<1>4. WithinRoundings(value, CostsOf(orders), InEther(orders, ready))
  BY DEF FundedInv
<1>5. WithinRoundings(value + OrderValue(orders[i]), CostsOf(orders),
                      InEther(orders, ready \cup {i}))
  BY <1>1, <1>2, <1>3, <1>4, DataIsFunded
<1>6. WithinRoundings(value', CostsOf(orders'), InEther(orders', ready'))
  BY <1>1, <1>5
<1>7. \A m \in Approving : WithinRoundings(approved'[m], CostsOf(orders'), InWeth(orders', m))
  BY <1>1 DEF FundedInv
<1> QED
  BY <1>1, <1>6, <1>7 DEF FundedInv

LEMMA FundedNext ==
    ASSUME TypeOK, TypeOK', FeesInv, FeesInv', FundedInv, [Next]_vars
    PROVE  FundedInv'
<1>1. ASSUME NEW r \in Requests, Prepare(r) PROVE FundedInv'
  BY <1>1, FundedPrepare
<1>2. ASSUME NEW r \in Requests, SinglePurchase(r) PROVE FundedInv'
  BY <1>2, FundedSingle
<1>3. ASSUME NEW i \in DOMAIN orders, OrderData(i) PROVE FundedInv'
  BY <1>3, FundedData
<1>4. CASE Approve \/ BulkPurchase \/ Throw \/ UNCHANGED vars
  BY <1>4 DEF Approve, BulkPurchase, Throw, vars, FundedInv
<1>5. CASE Again
  <2>1. /\ orders' = <<>> /\ ready' = {} /\ value' = 0 /\ phase' = "prepare"
        /\ approved' = [m \in Approving |-> 0]
    BY <1>5 DEF Again
  <2>2. InEther(orders', ready') = {} /\ \A m \in Approving : InWeth(orders', m) = {}
    BY <2>1 DEF InEther, InWeth
  <2> QED
    BY <2>1, <2>2, NothingIsFunded DEF FundedInv
<1> QED
  BY <1>1, <1>2, <1>3, <1>4, <1>5 DEF Next

\* Every purchase sent is funded, in ether and in WETH, for any number of orders
\* and whatever the order in which their data comes: the amounts added up along
\* the way cover the costs of all of them, and no more than two roundings an
\* order are left over.
THEOREM PurchasesAreFunded == Spec => []PurchaseIsFunded
<1>1. Init => FundedInv
  BY FundedInit
<1>2. TypeOK /\ TypeOK' /\ FeesInv /\ FeesInv' /\ FundedInv /\ [Next]_vars => FundedInv'
  BY FundedNext
<1>3. FundedInv => PurchaseIsFunded
  <2>1. \A which : TotalCost(which) = SumOver(CostsOf(orders), which)
    BY DEF TotalCost, CostsOf, SumOver, MapThenSumSet, MapThenFoldSet
  <2>2. \A amount, which : WithinRoundings(amount, CostsOf(orders), which) =>
                             Funds(amount, which)
    BY <2>1 DEF WithinRoundings, Funds
  <2> QED
    BY <2>2 DEF FundedInv, PurchaseIsFunded, InEther, InWeth
<1> QED
  BY <1>1, <1>2, <1>3, FeesKept, PTL DEF Spec

=============================================================================
