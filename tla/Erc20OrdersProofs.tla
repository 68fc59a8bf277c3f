------------------------- MODULE Erc20OrdersProofs -------------------------
(***************************************************************************)
(* Proofs about Erc20Orders, for any number of calls, any prices and any    *)
(* disturbances.                                                           *)
(***************************************************************************)
EXTENDS Erc20OrdersProperties, SequenceTheorems, TLAPS

(***************************************************************************)
(* Facts about the mempool.                                                *)
(***************************************************************************)

\* A transaction is added at the end.
LEMMA BroadcastEffect ==
    ASSUME mempool \in Seq(Transactions),
           NEW c \in Calls \cup {Nobody}, NEW what \in {"approve", "fill"},
           NEW amount \in Allowances, Broadcast(c, what, amount)
    PROVE  /\ mempool' \in Seq(Transactions)
           /\ DOMAIN mempool' = DOMAIN mempool \cup {Len(mempool) + 1}
           /\ Len(mempool) + 1 \notin DOMAIN mempool
           /\ \A i \in DOMAIN mempool : mempool'[i] = mempool[i]
           /\ mempool'[Len(mempool) + 1] = [by |-> c, what |-> what, amount |-> amount]
  <1> DEFINE tx == [by |-> c, what |-> what, amount |-> amount]
  <1>1. tx \in Transactions
    BY DEF Transactions
  <1>2. mempool' = Append(mempool, tx)
    BY DEF Broadcast
  <1> HIDE DEF tx
  <1>3. /\ mempool' \in Seq(Transactions)
        /\ Len(mempool') = Len(mempool) + 1
        /\ \A i \in 1..Len(mempool) : mempool'[i] = mempool[i]
        /\ mempool'[Len(mempool) + 1] = tx
    BY <1>1, <1>2, AppendProperties
  <1>4. DOMAIN mempool = 1..Len(mempool) /\ DOMAIN mempool' = 1..Len(mempool')
    BY <1>3
  <1> QED
    BY <1>3, <1>4, LenProperties DEF tx

\* The oldest transaction leaves, the others move up.
LEMMA TailEffect ==
    ASSUME mempool \in Seq(Transactions), mempool # <<>>, mempool' = Tail(mempool)
    PROVE  /\ mempool' \in Seq(Transactions)
           /\ 1 \in DOMAIN mempool
           /\ Head(mempool) = mempool[1]
           /\ \A i \in DOMAIN mempool' : i + 1 \in DOMAIN mempool /\ mempool'[i] = mempool[i + 1]
           /\ \A i \in DOMAIN mempool' : i \in Nat /\ i >= 1
  <1>1. /\ mempool' \in Seq(Transactions)
        /\ Len(mempool') = Len(mempool) - 1
        /\ \A i \in 1..Len(mempool') : mempool'[i] = mempool[i + 1]
    BY HeadTailProperties
  <1>2. Len(mempool) \in Nat /\ Len(mempool) # 0
    BY LenProperties, EmptySeq
  <1>3. DOMAIN mempool = 1..Len(mempool) /\ DOMAIN mempool' = 1..Len(mempool')
    BY <1>1, LenProperties
  <1> QED
    BY <1>1, <1>2, <1>3

-----------------------------------------------------------------------------
(***************************************************************************)
(* Type correctness.                                                       *)
(***************************************************************************)

\* The amount an approval is sent for is an allowance.
LEMMA AmountType ==
    ASSUME TypeOK, NEW c \in Calls, ~At(c, "idle")
    PROVE  (IF calls[c].infinite THEN Infinite ELSE calls[c].value) \in Allowances
  BY OrdersAssumption DEF TypeOK, CallStates, Ready, At, Values, Infinite, Allowances

\* Every reachable state of Erc20Orders is well typed.
THEOREM TypeCorrect == Spec => []TypeOK
<1>1. Init => TypeOK
  <2> SUFFICES ASSUME Init PROVE TypeOK
    OBVIOUS
  <2>1. mempool \in Seq(Transactions)
    BY EmptySeq DEF Init
  <2>2. calls \in [Calls -> CallStates]
    BY DEF Init, CallStates
  <2>3. allowance \in Allowances
    BY OrdersAssumption DEF Init, Allowances, Infinite
  <2> QED
    BY <2>1, <2>2, <2>3 DEF Init, TypeOK
<1>2. TypeOK /\ [Next]_vars => TypeOK'
  <2> SUFFICES ASSUME TypeOK, [Next]_vars PROVE TypeOK'
    OBVIOUS
  <2>1. ASSUME NEW c \in Calls, NEW kind \in Kinds, NEW value \in Values,
               NEW infinite \in BOOLEAN, Start(c, kind, value, infinite)
        PROVE  TypeOK'
    BY <2>1, OrdersAssumption
       DEF Start, TypeOK, CallStates, AllKinds, Values, Allowances, Infinite
  <2>2. ASSUME NEW c \in Calls, Check(c) \/ Confirm(c) \/ Estimate(c) PROVE TypeOK'
    BY <2>2 DEF Check, Confirm, Estimate, At, Goes, Ready, TypeOK, CallStates
  <2>3. ASSUME NEW c \in Calls, Post(c) \/ Quit(c) PROVE TypeOK'
    <3>1. calls' \in [Calls -> CallStates]
      BY <2>3 DEF Post, Quit, Ends, TypeOK, CallStates
    <3>2. book' \subseteq Values
      BY <2>3 DEF Post, Quit, At, Ready, TypeOK, CallStates
    <3> QED
      BY <2>3, <3>1, <3>2 DEF Post, Quit, TypeOK
  <2>4. ASSUME NEW c \in Calls, Approve(c) PROVE TypeOK'
    <3>1. calls' \in [Calls -> CallStates]
      BY <2>4 DEF Approve, At, Goes, Ready, TypeOK, CallStates
    <3>2. mempool' \in Seq(Transactions)
      BY <2>4, AmountType, BroadcastEffect DEF Approve, At, TypeOK
    <3> QED
      BY <2>4, <3>1, <3>2 DEF Approve, TypeOK
  <2>5. ASSUME NEW c \in Calls, TimeOut(c) PROVE TypeOK'
    <3>1. calls' \in [Calls -> CallStates]
      BY <2>5 DEF TimeOut, Ends, TypeOK, CallStates
    <3>2. mempool' \in Seq(Transactions)
      <4>1. Len(mempool) \in Nat /\ DOMAIN mempool = 1..Len(mempool)
        BY LenProperties DEF TypeOK
      <4>2. \A i \in DOMAIN mempool : mempool[i] \in Transactions
        BY <4>1, ElementOfSeq DEF TypeOK
      <4>3. \A i \in DOMAIN mempool : mempool'[i] \in Transactions
        BY <2>5, <4>2 DEF TimeOut, Transactions
      <4>4. mempool' \in [1..Len(mempool) -> Transactions]
        BY <2>5, <4>1, <4>3 DEF TimeOut
      <4> QED
        BY <4>1, <4>4, SeqDef
    <3> QED
      BY <2>5, <3>1, <3>2 DEF TimeOut, TypeOK
  <2>6. ASSUME NEW c \in Calls, Send(c) PROVE TypeOK'
    <3>1. calls' \in [Calls -> CallStates]
      BY <2>6 DEF Send, At, Goes, Ready, TypeOK, CallStates
    <3>2. calls[c].value \in Allowances
      BY <2>6, OrdersAssumption
         DEF Send, At, Ready, TypeOK, CallStates, Values, Allowances, Infinite
    <3>3. mempool' \in Seq(Transactions)
      BY <2>6, <3>2, BroadcastEffect DEF Send, TypeOK
    <3> QED
      BY <2>6, <3>1, <3>3 DEF Send, TypeOK
  <2>7. CASE MineApproval
    <3>1. Head(mempool) \in Transactions /\ mempool' \in Seq(Transactions)
      BY <2>7, HeadTailProperties DEF MineApproval, TypeOK
    <3>2. calls' \in [Calls -> CallStates]
      BY <2>7 DEF MineApproval, Ends, TypeOK, CallStates
    <3> QED
      BY <2>7, <3>1, <3>2 DEF MineApproval, TypeOK, Transactions
  <2>8. CASE MineFill
    <3>1. Head(mempool) \in Transactions /\ mempool' \in Seq(Transactions)
      BY <2>8, HeadTailProperties DEF MineFill, TypeOK
    <3>2. calls' \in [Calls -> CallStates]
      BY <2>8 DEF MineFill, Ends, TypeOK, CallStates
    <3>3. allowance' \in Allowances
      BY <2>8, <3>1, OrdersAssumption
         DEF MineFill, TypeOK, Transactions, Allowances, Infinite, Take
    <3>4. lost' \in BOOLEAN
      BY <2>8 DEF MineFill, TypeOK
    <3> QED
      BY <2>8, <3>1, <3>2, <3>3, <3>4 DEF MineFill, TypeOK
  <2>9. ASSUME NEW value \in Values, TakeBid(value) PROVE TypeOK'
    <3>1. allowance' \in Allowances
      BY <2>9, OrdersAssumption
         DEF TakeBid, TypeOK, Allowances, Infinite, Values, Take
    <3> QED
      BY <2>9, <3>1 DEF TakeBid, TypeOK
  <2>10. CASE UNCHANGED vars
    BY <2>10 DEF vars, TypeOK
  <2> QED
    BY <2>1, <2>2, <2>3, <2>4, <2>5, <2>6, <2>7, <2>8, <2>9, <2>10 DEF Next, Call, Mine
<1> QED
  BY <1>1, <1>2, PTL DEF Spec

-----------------------------------------------------------------------------
(***************************************************************************)
(* The infinite approval stays.                                            *)
(***************************************************************************)

\* Once the infinite approval is mined and no exact one is under way, nothing
\* that calls, the chain and other traders do brings a finite allowance back:
\* Check never leads to an approval again, and what is mined is infinite.
THEOREM InfiniteStays == Spec => InfiniteIsForever
<1>1. ASSUME TypeOK, Next, Settled PROVE Settled'
  <2> USE <1>1
  <2>0. /\ allowance = Infinite
        /\ \A c \in Calls : At(c, "approve") => calls[c].infinite
        /\ \A i \in DOMAIN mempool : mempool[i].what = "approve" => mempool[i].amount = Infinite
    BY DEF Settled, NoApprovalUnderway, Pending
  <2> SUFFICES
        /\ allowance' = Infinite
        /\ \A c \in Calls : At(c, "approve")' => calls'[c].infinite
        /\ \A i \in DOMAIN mempool' :
              mempool'[i].what = "approve" => mempool'[i].amount = Infinite
    BY DEF Settled, NoApprovalUnderway, Pending
  <2>1. ASSUME NEW c \in Calls, NEW kind \in Kinds, NEW value \in Values,
               NEW infinite \in BOOLEAN, Start(c, kind, value, infinite)
        PROVE  /\ UNCHANGED <<allowance, mempool>>
               /\ \A d \in Calls : At(d, "approve")' => calls'[d].infinite
    BY <2>1, <2>0 DEF Start, At, TypeOK
  <2>2. ASSUME NEW c \in Calls, Check(c)
        PROVE  /\ UNCHANGED <<allowance, mempool>>
               /\ \A d \in Calls : At(d, "approve")' => calls'[d].infinite
    <3>1. ~(allowance < calls[c].value)
      BY <2>2, <2>0, OrdersAssumption
         DEF Check, At, TypeOK, CallStates, Ready, Values, Infinite
    <3> QED
      BY <2>2, <2>0, <3>1 DEF Check, At, Goes, TypeOK
  <2>3. ASSUME NEW c \in Calls, Confirm(c) \/ Estimate(c) \/ Post(c) \/ Quit(c)
        PROVE  /\ UNCHANGED <<allowance, mempool>>
               /\ \A d \in Calls : At(d, "approve")' => calls'[d].infinite
    <3>1. CASE Confirm(c) \/ Estimate(c)
      <4>1. PICK pc \in {"prepared", "send"} : Goes(c, pc)
        BY <3>1 DEF Confirm, Estimate
      <4> QED
        BY <3>1, <4>1, <2>0 DEF Confirm, Estimate, At, Goes, Ready, TypeOK, CallStates
    <3>2. CASE Post(c) \/ Quit(c)
      <4>1. calls' = [calls EXCEPT ![c] = Ready] /\ UNCHANGED <<allowance, mempool>>
        BY <3>2 DEF Post, Quit, Ends
      <4> QED
        BY <4>1, <2>0 DEF At, Ready, TypeOK
    <3> QED
      BY <2>3, <3>1, <3>2
  <2>4. ASSUME NEW c \in Calls, Approve(c)
        PROVE  /\ UNCHANGED allowance
               /\ \A d \in Calls : At(d, "approve")' => calls'[d].infinite
               /\ \A i \in DOMAIN mempool' :
                     mempool'[i].what = "approve" => mempool'[i].amount = Infinite
    <3>1. calls[c].infinite
      BY <2>4, <2>0 DEF Approve
    <3>2. Infinite \in Allowances
      BY OrdersAssumption DEF Allowances, Infinite
    <3>3. \A i \in DOMAIN mempool' :
             mempool'[i].what = "approve" => mempool'[i].amount = Infinite
      <4>1. PICK by \in Calls \cup {Nobody} : Broadcast(by, "approve", Infinite)
        BY <2>4, <3>1 DEF Approve
      <4>2. /\ DOMAIN mempool' = DOMAIN mempool \cup {Len(mempool) + 1}
            /\ \A i \in DOMAIN mempool : mempool'[i] = mempool[i]
            /\ mempool'[Len(mempool) + 1]
                 = [by |-> by, what |-> "approve", amount |-> Infinite]
        <5> DEFINE approve == "approve"
        <5>1. approve \in {"approve", "fill"} /\ Broadcast(by, approve, Infinite)
          BY <4>1
        <5> HIDE DEF approve
        <5>2. /\ DOMAIN mempool' = DOMAIN mempool \cup {Len(mempool) + 1}
              /\ \A i \in DOMAIN mempool : mempool'[i] = mempool[i]
              /\ mempool'[Len(mempool) + 1]
                   = [by |-> by, what |-> approve, amount |-> Infinite]
          BY <5>1, <3>2, BroadcastEffect DEF TypeOK
        <5> QED
          BY <5>2 DEF approve
      <4> QED
        BY <2>0, <4>2
    <3> QED
      BY <2>4, <2>0, <3>3 DEF Approve, At, Goes, TypeOK
  <2>5. ASSUME NEW c \in Calls, TimeOut(c)
        PROVE  /\ UNCHANGED allowance
               /\ \A d \in Calls : At(d, "approve")' => calls'[d].infinite
               /\ \A i \in DOMAIN mempool' :
                     mempool'[i].what = "approve" => mempool'[i].amount = Infinite
    <3>1. \A i \in DOMAIN mempool : mempool[i] \in Transactions
      BY LenProperties, ElementOfSeq DEF TypeOK
    <3>2. \A i \in DOMAIN mempool' : /\ i \in DOMAIN mempool
                                     /\ mempool'[i].what = mempool[i].what
                                     /\ mempool'[i].amount = mempool[i].amount
      BY <2>5, <3>1 DEF TimeOut, Transactions
    <3> QED
      BY <2>5, <2>0, <3>2 DEF TimeOut, At, Ends, Ready, TypeOK
  <2>6. ASSUME NEW c \in Calls, Send(c)
        PROVE  /\ UNCHANGED allowance
               /\ \A d \in Calls : At(d, "approve")' => calls'[d].infinite
               /\ \A i \in DOMAIN mempool' :
                     mempool'[i].what = "approve" => mempool'[i].amount = Infinite
    <3>1. calls[c].value \in Allowances
      BY <2>6, OrdersAssumption
         DEF Send, At, Ready, TypeOK, CallStates, Values, Allowances, Infinite
    <3>2. \A i \in DOMAIN mempool' :
             mempool'[i].what = "approve" => mempool'[i].amount = Infinite
      <4>1. /\ DOMAIN mempool' = DOMAIN mempool \cup {Len(mempool) + 1}
            /\ \A i \in DOMAIN mempool : mempool'[i] = mempool[i]
            /\ mempool'[Len(mempool) + 1]
                 = [by |-> c, what |-> "fill", amount |-> calls[c].value]
        <5> DEFINE fill == "fill"
        <5>1. fill \in {"approve", "fill"} /\ Broadcast(c, fill, calls[c].value)
          BY <2>6 DEF Send
        <5> HIDE DEF fill
        <5>2. /\ DOMAIN mempool' = DOMAIN mempool \cup {Len(mempool) + 1}
              /\ \A i \in DOMAIN mempool : mempool'[i] = mempool[i]
              /\ mempool'[Len(mempool) + 1]
                   = [by |-> c, what |-> fill, amount |-> calls[c].value]
          BY <5>1, <3>1, BroadcastEffect DEF TypeOK
        <5> QED
          BY <5>2 DEF fill
      <4> QED
        BY <2>0, <4>1
    <3> QED
      BY <2>6, <2>0, <3>2 DEF Send, At, Goes, TypeOK
  <2>7. ASSUME Mine
        PROVE  /\ allowance' = Infinite
               /\ \A d \in Calls : At(d, "approve")' => calls'[d].infinite
               /\ \A i \in DOMAIN mempool' :
                     mempool'[i].what = "approve" => mempool'[i].amount = Infinite
    <3>1. /\ 1 \in DOMAIN mempool /\ Head(mempool) = mempool[1]
          /\ \A i \in DOMAIN mempool' :
                i + 1 \in DOMAIN mempool /\ mempool'[i] = mempool[i + 1]
      BY <2>7, TailEffect DEF Mine, MineApproval, MineFill, TypeOK
    <3>2. allowance' = Infinite
      BY <2>7, <2>0, <3>1 DEF Mine, MineApproval, MineFill, Take
    <3>3. \A d \in Calls : At(d, "approve")' => calls'[d].infinite
      BY <2>7, <2>0 DEF Mine, MineApproval, MineFill, At, Ends, Ready, TypeOK
    <3> QED
      BY <2>0, <3>1, <3>2, <3>3
  <2>8. ASSUME NEW value \in Values, TakeBid(value)
        PROVE  allowance' = Infinite /\ UNCHANGED <<mempool, calls>>
    BY <2>8, <2>0 DEF TakeBid, Take
  <2> QED
    BY <2>0, <2>1, <2>2, <2>3, <2>4, <2>5, <2>6, <2>7, <2>8 DEF Next, Call, At
<1>2. TypeOK /\ [Next]_vars => [Settled => Settled']_vars
  BY <1>1
<1> QED
  BY <1>2, TypeCorrect, PTL DEF Spec, InfiniteIsForever

-----------------------------------------------------------------------------
(***************************************************************************)
(* The second step does not begin before the approval is mined.  The        *)
(* induction needs to know whose transactions are in the mempool: that of a *)
(* call at "confirm" is its approval, that of a call at "sent" its          *)
(* purchase, and a call has at most one.                                    *)
(***************************************************************************)
Tied ==
    \A i \in DOMAIN mempool :
        /\ mempool[i].what = "fill" => mempool[i].by \in Calls /\ At(mempool[i].by, "sent")
        /\ mempool[i].what = "approve" /\ mempool[i].by \in Calls
             => At(mempool[i].by, "confirm")
NoDoubles ==
    \A i, j \in DOMAIN mempool :
        mempool[i].by \in Calls /\ mempool[i].by = mempool[j].by => i = j
Order == Tied /\ NoDoubles

\* A step that leaves the mempool alone, and the calls that have a transaction
\* in it, keeps the order.
LEMMA OrderKept ==
    ASSUME TypeOK, Order, UNCHANGED mempool, NEW c \in Calls,
           ~At(c, "confirm"), ~At(c, "sent"),
           \A d \in Calls : d # c => calls'[d] = calls[d]
    PROVE  Order'
  BY DEF Order, Tied, NoDoubles, At

\* A call that has no transaction sends one and waits for it.
LEMMA OrderExtended ==
    ASSUME TypeOK, Order, NEW c \in Calls, NEW by \in {c, Nobody},
           NEW what \in {"approve", "fill"}, NEW amount \in Allowances,
           Broadcast(by, what, amount),
           ~At(c, "confirm"), ~At(c, "sent"),
           what = "fill" => by = c /\ At(c, "sent")',
           what = "approve" /\ by = c => At(c, "confirm")',
           \A d \in Calls : d # c => calls'[d] = calls[d]
    PROVE  Order'
  <1> DEFINE n == Len(mempool) + 1
  <1>1. /\ DOMAIN mempool' = DOMAIN mempool \cup {n}
        /\ n \notin DOMAIN mempool
        /\ \A i \in DOMAIN mempool : mempool'[i] = mempool[i]
        /\ mempool'[n] = [by |-> by, what |-> what, amount |-> amount]
    BY BroadcastEffect DEF TypeOK
  <1>2. \A i \in DOMAIN mempool : mempool[i] \in Transactions
    BY LenProperties, ElementOfSeq DEF TypeOK
  <1>3. \A i \in DOMAIN mempool : mempool[i].by # c
    BY <1>2 DEF Order, Tied, Transactions
  <1> HIDE DEF n
  <1>4. Tied'
    BY <1>1, <1>3, OrdersAssumption DEF Order, Tied, At
  <1>5. NoDoubles'
    BY <1>1, <1>3, OrdersAssumption DEF Order, NoDoubles
  <1> QED
    BY <1>4, <1>5 DEF Order

\* The oldest transaction is mined, and the call it belongs to is the only one
\* to change.
LEMMA OrderShifted ==
    ASSUME TypeOK, Order, mempool # <<>>, mempool' = Tail(mempool),
           \A d \in Calls : d # Head(mempool).by => calls'[d] = calls[d]
    PROVE  Order'
  <1>1. /\ 1 \in DOMAIN mempool /\ Head(mempool) = mempool[1]
        /\ \A i \in DOMAIN mempool' : i + 1 \in DOMAIN mempool /\ mempool'[i] = mempool[i + 1]
        /\ \A i \in DOMAIN mempool' : i \in Nat /\ i >= 1
    BY TailEffect DEF TypeOK
  <1>2. \A i \in DOMAIN mempool' : mempool'[i].by \in Calls => mempool'[i].by # mempool[1].by
    <2> SUFFICES ASSUME NEW i \in DOMAIN mempool', mempool'[i].by \in Calls,
                        mempool'[i].by = mempool[1].by
                 PROVE  FALSE
      OBVIOUS
    <2>1. mempool[i + 1].by \in Calls /\ mempool[i + 1].by = mempool[1].by
      BY <1>1
    <2>2. i + 1 = 1
      BY <1>1, <2>1 DEF Order, NoDoubles
    <2> QED
      BY <1>1, <2>2
  <1>3. Tied'
    BY <1>1, <1>2 DEF Order, Tied, At
  <1>4. NoDoubles'
    <2> SUFFICES ASSUME NEW i \in DOMAIN mempool', NEW j \in DOMAIN mempool',
                        mempool'[i].by \in Calls, mempool'[i].by = mempool'[j].by
                 PROVE  i = j
      BY DEF NoDoubles
    <2>1. i + 1 = j + 1
      BY <1>1 DEF Order, NoDoubles
    <2> QED
      BY <1>1, <2>1
  <1> QED
    BY <1>3, <1>4 DEF Order

\* Every step keeps the order.
LEMMA OrderPreserved == TypeOK /\ Order /\ [Next]_vars => Order'
<1> SUFFICES ASSUME TypeOK, Order, [Next]_vars PROVE Order'
  OBVIOUS
<1>1. ASSUME NEW c \in Calls, NEW kind \in Kinds, NEW value \in Values,
             NEW infinite \in BOOLEAN, Start(c, kind, value, infinite)
      PROVE  Order'
  BY <1>1, OrderKept DEF Start, At, TypeOK
<1>2. ASSUME NEW c \in Calls, Check(c) \/ Estimate(c) PROVE Order'
  BY <1>2, OrderKept DEF Check, Estimate, At, Goes, TypeOK
<1>3. ASSUME NEW c \in Calls, Post(c) \/ Quit(c) PROVE Order'
  BY <1>3, OrderKept DEF Post, Quit, At, Ends, TypeOK
<1>4. ASSUME NEW c \in Calls, Approve(c) PROVE Order'
  <2> DEFINE amount == IF calls[c].infinite THEN Infinite ELSE calls[c].value
             by == IF calls[c].kind # "batch" THEN c ELSE Nobody
             approve == "approve"
  <2>1. amount \in Allowances
    BY <1>4, AmountType DEF Approve, At
  <2>2. Broadcast(by, approve, amount)
    BY <1>4 DEF Approve
  <2>3. ~At(c, "confirm") /\ ~At(c, "sent")
    BY <1>4 DEF Approve, At
  <2>4. approve = "approve" /\ by = c => At(c, "confirm")'
    BY <1>4, OrdersAssumption DEF Approve, At, Goes, TypeOK, CallStates, Ready
  <2>5. \A d \in Calls : d # c => calls'[d] = calls[d]
    BY <1>4 DEF Approve, Goes, TypeOK
  <2>6. by \in {c, Nobody} /\ approve \in {"approve", "fill"} /\ approve # "fill"
    OBVIOUS
  <2> HIDE DEF amount, by, approve
  <2> QED
    BY <2>1, <2>2, <2>3, <2>4, <2>5, <2>6, OrderExtended
<1>5. ASSUME NEW c \in Calls, Send(c) PROVE Order'
  <2> DEFINE amount == calls[c].value
             fill == "fill"
  <2>1. amount \in Allowances
    BY <1>5, OrdersAssumption
       DEF Send, At, Ready, TypeOK, CallStates, Values, Allowances, Infinite
  <2>2. Broadcast(c, fill, amount)
    BY <1>5 DEF Send
  <2>3. ~At(c, "confirm") /\ ~At(c, "sent")
    BY <1>5 DEF Send, At
  <2>4. At(c, "sent")'
    BY <1>5 DEF Send, At, Goes, TypeOK, CallStates, Ready
  <2>5. \A d \in Calls : d # c => calls'[d] = calls[d]
    BY <1>5 DEF Send, Goes, TypeOK
  <2>6. fill \in {"approve", "fill"} /\ fill # "approve"
    OBVIOUS
  <2> HIDE DEF amount, fill
  <2> QED
    BY <2>1, <2>2, <2>3, <2>4, <2>5, <2>6, OrderExtended
<1>6. ASSUME NEW c \in Calls, Confirm(c) PROVE Order'
  <2>1. \A i \in DOMAIN mempool : mempool[i].by # c
    <3>1. \A i \in DOMAIN mempool : mempool[i] \in Transactions
      BY LenProperties, ElementOfSeq DEF TypeOK
    <3> QED
      BY <1>6, <3>1 DEF Confirm, Unmined, Pending, At, Order, Tied, Transactions
  <2>2. UNCHANGED mempool /\ \A d \in Calls : d # c => calls'[d] = calls[d]
    BY <1>6 DEF Confirm, Goes, TypeOK
  <2> QED
    BY <2>1, <2>2 DEF Order, Tied, NoDoubles, At
<1>7. ASSUME NEW c \in Calls, TimeOut(c) PROVE Order'
  <2>1. \A i \in DOMAIN mempool : mempool[i] \in Transactions
    BY LenProperties, ElementOfSeq DEF TypeOK
  <2>2. /\ DOMAIN mempool' = DOMAIN mempool
        /\ \A i \in DOMAIN mempool :
              /\ mempool'[i].what = mempool[i].what
              /\ mempool'[i].by = IF mempool[i].by = c THEN Nobody ELSE mempool[i].by
    BY <1>7, <2>1 DEF TimeOut, Transactions
  <2>3. \A d \in Calls : d # c => calls'[d] = calls[d]
    BY <1>7 DEF TimeOut, Ends, TypeOK
  <2>4. \A i \in DOMAIN mempool : mempool[i].by = c => mempool[i].what = "approve"
    BY <1>7, <2>1 DEF TimeOut, At, Order, Tied, Transactions
  <2>5. Tied'
    BY <2>2, <2>3, <2>4, OrdersAssumption DEF Order, Tied, At
  <2>6. NoDoubles'
    BY <2>2, OrdersAssumption DEF Order, NoDoubles
  <2> QED
    BY <2>5, <2>6 DEF Order
<1>8. CASE Mine
  BY <1>8, OrderShifted DEF Mine, MineApproval, MineFill, Ends, TypeOK
<1>9. ASSUME NEW value \in Values, TakeBid(value) PROVE Order'
  BY <1>9 DEF TakeBid, Order, Tied, NoDoubles, At
<1>10. CASE UNCHANGED vars
  BY <1>10 DEF vars, Order, Tied, NoDoubles, At
<1> QED
  BY <1>1, <1>2, <1>3, <1>4, <1>5, <1>6, <1>7, <1>8, <1>9, <1>10 DEF Next, Call

\* A bid or a purchase that waits for its approval reaches its second step
\* only when that approval is mined, whatever else is in the mempool.
THEOREM ConfirmedFirst == Spec => []ConfirmedBeforeUse
<1>1. Init => Order
  BY DEF Init, Order, Tied, NoDoubles
<1>2. TypeOK /\ Order => ConfirmedBeforeUse
  BY DEF Order, Tied, ConfirmedBeforeUse, Unmined, Pending, At
<1> QED
  BY <1>1, <1>2, OrderPreserved, TypeCorrect, PTL DEF Spec

-----------------------------------------------------------------------------
(***************************************************************************)
(* Bids and purchases made one after the other, with nobody taking bids in  *)
(* between.  At most one call is in progress and every unmined transaction  *)
(* is its own, so that the allowance it has read is still there when it     *)
(* posts, sends and is mined.                                              *)
(***************************************************************************)
OneByOne == Disturbances = {} /\ Kinds \subseteq {"bid", "buy"}

Alone == \A c, d \in Calls : ~At(c, "idle") /\ ~At(d, "idle") => c = d

\* the allowance covers the price from the moment the first step is over; an
\* approval is sent, and unmined, only while it does not
Enough ==
    \A c \in Calls :
        /\ At(c, "approve") => allowance < calls[c].value
        /\ At(c, "confirm") => (Unmined(c, "approve") <=> allowance < calls[c].value)
        /\ At(c, "prepared") \/ At(c, "send") \/ At(c, "sent")
             => allowance >= calls[c].value
        /\ calls[c].kind # "batch"

\* transactions carry the amounts of their calls
Carried ==
    \A i \in DOMAIN mempool :
        /\ mempool[i].by \in Calls
        /\ mempool[i].what = "approve" => mempool[i].amount >= calls[mempool[i].by].value
        /\ mempool[i].what = "fill" => mempool[i].amount = calls[mempool[i].by].value

Careful == Alone /\ Enough /\ Carried

\* The call in progress, if it waits for no transaction, has an empty mempool;
\* if it waits, the mempool holds at most its own.
LEMMA OwnOnly ==
    ASSUME TypeOK, Order, Alone, Carried
    PROVE  /\ \A i \in DOMAIN mempool :
                /\ \/ At(mempool[i].by, "confirm") /\ mempool[i].what = "approve"
                   \/ At(mempool[i].by, "sent") /\ mempool[i].what = "fill"
                /\ mempool[i].by \in Calls
           /\ \A c \in Calls : ~At(c, "idle") =>
                /\ \A i \in DOMAIN mempool : mempool[i].by = c
                /\ ~At(c, "confirm") /\ ~At(c, "sent") => DOMAIN mempool = {}
           /\ (\A c \in Calls : At(c, "idle")) => DOMAIN mempool = {}
           /\ \A i, j \in DOMAIN mempool : i = j
<1>1. \A i \in DOMAIN mempool : mempool[i] \in Transactions
  BY LenProperties, ElementOfSeq DEF TypeOK
<1>2. \A i \in DOMAIN mempool :
        /\ \/ At(mempool[i].by, "confirm") /\ mempool[i].what = "approve"
           \/ At(mempool[i].by, "sent") /\ mempool[i].what = "fill"
        /\ mempool[i].by \in Calls
  <2> TAKE i \in DOMAIN mempool
  <2>1. mempool[i].by \in Calls /\ mempool[i].by # Nobody
    BY OrdersAssumption DEF Carried
  <2>2. mempool[i].what \in {"approve", "fill"}
    BY <1>1 DEF Transactions
  <2> QED
    BY <2>1, <2>2 DEF Order, Tied
<1>3. \A i \in DOMAIN mempool : mempool[i].by \in Calls /\ ~At(mempool[i].by, "idle")
  BY <1>2 DEF At
<1>4. \A c \in Calls : ~At(c, "idle") => \A i \in DOMAIN mempool : mempool[i].by = c
  BY <1>3 DEF Alone
<1>5. \A i, j \in DOMAIN mempool : i = j
  BY <1>3 DEF Alone, Order, NoDoubles
<1> QED
  BY <1>2, <1>3, <1>4, <1>5

\* A step that leaves the allowance and an empty mempool alone keeps the
\* invariant if the one call it moves has what its place asks for.
LEMMA CarefulMove ==
    ASSUME TypeOK, Careful, DOMAIN mempool = {}, UNCHANGED <<allowance, mempool>>,
           NEW c \in Calls,
           \A d \in Calls : d # c => calls'[d] = calls[d] /\ At(d, "idle"),
           At(c, "approve")' => allowance < calls'[c].value,
           ~At(c, "confirm")',
           At(c, "prepared")' \/ At(c, "send")' \/ At(c, "sent")'
             => allowance >= calls'[c].value,
           calls'[c].kind # "batch"
    PROVE  Careful'
<1>1. Alone'
  BY DEF Alone, At
<1>2. Carried'
  BY DEF Carried
<1>3. Enough'
  <2>1. \A d \in Calls : d # c => At(d, "idle")' /\ calls'[d].kind # "batch"
    BY DEF Careful, Enough, At
  <2> QED
    BY <2>1 DEF Enough, At
<1> QED
  BY <1>1, <1>2, <1>3 DEF Careful

\* Every step of calls made one after the other keeps the invariant.
LEMMA CarefulKept ==
    ASSUME OneByOne, TypeOK, Order, Careful, [Next]_vars
    PROVE  Careful'
<1>1. /\ Alone /\ Enough /\ Carried
      /\ Ready.pc = "idle" /\ Ready.kind = "none"
      /\ allowance \in Int /\ \A c \in Calls : calls[c].value \in Int
  BY OrdersAssumption
     DEF Careful, Ready, TypeOK, CallStates, Allowances, Infinite, Values
<1>2. \A c, d \in Calls : ~At(c, "idle") /\ d # c => At(d, "idle")
  BY <1>1 DEF Alone
<1>3. \A c \in Calls : ~At(c, "idle") /\ ~At(c, "confirm") /\ ~At(c, "sent") =>
         DOMAIN mempool = {}
  BY <1>1, OwnOnly
<1>4. ASSUME NEW c \in Calls, NEW kind \in Kinds, NEW value \in Values,
             NEW infinite \in BOOLEAN, Start(c, kind, value, infinite)
      PROVE  Careful'
  <2>1. \A d \in Calls : At(d, "idle")
    BY <1>4 DEF Start, OneByOne
  <2>2. DOMAIN mempool = {}
    BY <1>1, <2>1, OwnOnly
  <2>3. /\ \A d \in Calls : d # c => calls'[d] = calls[d]
        /\ calls'[c].pc = "check" /\ calls'[c].kind = kind
        /\ UNCHANGED <<allowance, mempool>>
    BY <1>4 DEF Start, TypeOK
  <2>4. kind # "batch"
    BY DEF OneByOne
  <2> QED
    BY <2>1, <2>2, <2>3, <2>4, CarefulMove DEF At
<1>5. ASSUME NEW c \in Calls, Check(c) \/ Estimate(c)
      PROVE  Careful'
  <2>1. /\ ~At(c, "idle") /\ ~At(c, "confirm") /\ ~At(c, "sent")
        /\ \A d \in Calls : d # c => calls'[d] = calls[d]
        /\ UNCHANGED <<allowance, mempool>>
        /\ calls'[c].value = calls[c].value /\ calls'[c].kind = calls[c].kind
        /\ \/ calls'[c].pc = "approve" /\ allowance < calls[c].value
           \/ calls'[c].pc \in {"prepared", "send"} /\ ~(allowance < calls[c].value)
    BY <1>1, <1>5 DEF Check, Estimate, At, Goes, TypeOK, CallStates, Ready
  <2>2. calls[c].kind # "batch"
    BY <1>1 DEF Enough
  <2> QED
    BY <1>1, <1>2, <1>3, <2>1, <2>2, CarefulMove DEF At
<1>6. ASSUME NEW c \in Calls, Post(c) \/ Quit(c)
      PROVE  Careful'
  <2>1. /\ ~At(c, "idle") /\ ~At(c, "confirm") /\ ~At(c, "sent")
        /\ \A d \in Calls : d # c => calls'[d] = calls[d]
        /\ UNCHANGED <<allowance, mempool>>
        /\ calls'[c] = Ready
    BY <1>6 DEF Post, Quit, At, Ends, TypeOK
  <2> QED
    BY <1>1, <1>2, <1>3, <2>1, CarefulMove DEF At
<1>7. ASSUME NEW c \in Calls, Confirm(c)
      PROVE  Careful'
  <2>1. /\ At(c, "confirm") /\ ~Unmined(c, "approve")
        /\ \A d \in Calls : d # c => calls'[d] = calls[d]
        /\ UNCHANGED <<allowance, mempool>>
        /\ calls'[c].value = calls[c].value /\ calls'[c].kind = calls[c].kind
        /\ calls'[c].pc = "prepared"
    BY <1>7 DEF Confirm, At, Goes, TypeOK, CallStates, Ready
  <2>2. ~At(c, "idle") /\ ~At(c, "sent") /\ allowance >= calls[c].value
        /\ calls[c].kind # "batch"
    BY <1>1, <2>1 DEF At, Enough
  <2>3. DOMAIN mempool = {}
    <3>1. \A i \in DOMAIN mempool : mempool[i].by = c
      BY <1>1, <2>2, OwnOnly
    <3>2. \A i \in DOMAIN mempool : mempool[i].what = "approve"
      BY <1>1, <2>2, <3>1, OwnOnly
    <3> QED
      BY <2>1, <3>1, <3>2 DEF Unmined, Pending
  <2> QED
    BY <1>2, <2>1, <2>2, <2>3, CarefulMove DEF At
\* a transaction is sent: it is the only one
<1>8. ASSUME NEW c \in Calls, NEW what \in {"approve", "fill"},
             NEW amount \in Allowances, NEW pc \in {"confirm", "sent"},
             ~At(c, "idle"), ~At(c, "confirm"), ~At(c, "sent"),
             Broadcast(c, what, amount), Goes(c, pc), UNCHANGED allowance,
             what = "approve" => /\ pc = "confirm" /\ amount >= calls[c].value
                                 /\ allowance < calls[c].value,
             what = "fill" => /\ pc = "sent" /\ amount = calls[c].value
                              /\ allowance >= calls[c].value
      PROVE  Careful'
  <2>1. /\ \A d \in Calls : d # c => calls'[d] = calls[d] /\ At(d, "idle")
        /\ calls'[c].pc = pc /\ calls'[c].value = calls[c].value
        /\ calls'[c].kind = calls[c].kind
    BY <1>2, <1>8 DEF Goes, At, TypeOK, CallStates, Ready
  <2>2. DOMAIN mempool = {}
    BY <1>3, <1>8
  <2>3. /\ DOMAIN mempool' = {Len(mempool) + 1}
        /\ mempool'[Len(mempool) + 1] = [by |-> c, what |-> what, amount |-> amount]
    BY <1>8, <2>2, BroadcastEffect DEF TypeOK
  <2>4. Alone'
    BY <2>1 DEF Alone, At
  <2>5. Carried'
    BY <1>8, <2>1, <2>3 DEF Carried
  <2>6. Unmined(c, "approve")' <=> what = "approve"
    BY <2>3 DEF Unmined, Pending
  <2>7. Enough'
    <3>1. calls[c].kind # "batch"
      BY <1>1 DEF Enough
    <3>2. /\ At(c, "confirm")' => (Unmined(c, "approve")' <=> allowance' < calls'[c].value)
          /\ At(c, "sent")' => allowance' >= calls'[c].value
      BY <1>1, <1>8, <2>1, <2>6 DEF At
    <3>3. ~At(c, "approve")' /\ ~At(c, "prepared")' /\ ~At(c, "send")'
      BY <2>1 DEF At
    <3>4. \A d \in Calls : d # c => At(d, "idle")' /\ calls'[d].kind # "batch"
      BY <1>1, <2>1 DEF At, Enough
    <3> QED
      BY <2>1, <3>1, <3>2, <3>3, <3>4 DEF Enough, At
  <2> QED
    BY <2>4, <2>5, <2>7 DEF Careful
<1>9. ASSUME NEW c \in Calls, Approve(c)
      PROVE  Careful'
  <2> DEFINE amount == IF calls[c].infinite THEN Infinite ELSE calls[c].value
             approve == "approve"
             confirm == "confirm"
  <2>1. amount \in Allowances /\ amount >= calls[c].value
    BY <1>9, AmountType, OrdersAssumption
       DEF Approve, At, TypeOK, CallStates, Ready, Values, Infinite
  <2>2. allowance < calls[c].value /\ calls[c].kind # "batch"
    BY <1>1, <1>9 DEF Approve, Enough
  <2>3. Broadcast(c, approve, amount) /\ Goes(c, confirm) /\ UNCHANGED allowance
    BY <1>9, <2>2 DEF Approve
  <2>4. ~At(c, "idle") /\ ~At(c, "confirm") /\ ~At(c, "sent")
    BY <1>9 DEF Approve, At
  <2>5. /\ approve \in {"approve", "fill"} /\ approve # "fill"
        /\ confirm \in {"confirm", "sent"} /\ confirm = "confirm"
    OBVIOUS
  <2> HIDE DEF amount, approve, confirm
  <2> QED
    BY <1>8, <2>1, <2>2, <2>3, <2>4, <2>5
<1>10. ASSUME NEW c \in Calls, Send(c)
       PROVE  Careful'
  <2> DEFINE amount == calls[c].value
             fill == "fill"
             sent == "sent"
  <2>1. amount \in Allowances
    BY <1>10, OrdersAssumption
       DEF Send, At, Ready, TypeOK, CallStates, Values, Allowances, Infinite
  <2>2. allowance >= calls[c].value
    BY <1>1, <1>10 DEF Send, Enough
  <2>3. Broadcast(c, fill, amount) /\ Goes(c, sent) /\ UNCHANGED allowance
    BY <1>10 DEF Send
  <2>4. ~At(c, "idle") /\ ~At(c, "confirm") /\ ~At(c, "sent")
    BY <1>10 DEF Send, At
  <2>5. /\ fill \in {"approve", "fill"} /\ fill # "approve"
        /\ sent \in {"confirm", "sent"} /\ sent = "sent" /\ amount = calls[c].value
    OBVIOUS
  <2> HIDE DEF amount, fill, sent
  <2> QED
    BY <1>8, <2>1, <2>2, <2>3, <2>4, <2>5
\* the only transaction is mined
<1>11. ASSUME Mine
       PROVE  Careful'
  <2>1. /\ mempool # <<>> /\ mempool' = Tail(mempool)
        /\ Head(mempool).what \in {"approve", "fill"}
    BY <1>11 DEF Mine, MineApproval, MineFill
  <2>2. /\ 1 \in DOMAIN mempool /\ Head(mempool) = mempool[1]
        /\ DOMAIN mempool' = {}
    <3>1. /\ 1 \in DOMAIN mempool /\ Head(mempool) = mempool[1]
          /\ \A i \in DOMAIN mempool' : i + 1 \in DOMAIN mempool
          /\ \A i \in DOMAIN mempool' : i \in Nat /\ i >= 1
      BY <2>1, TailEffect DEF TypeOK
    <3>2. \A i, j \in DOMAIN mempool : i = j
      BY <1>1, OwnOnly
    <3>3. ASSUME NEW i \in DOMAIN mempool'
          PROVE  FALSE
      <4>1. i + 1 = 1
        BY <3>1, <3>2
      <4> QED
        BY <3>1, <4>1
    <3> QED
      BY <3>1, <3>3
  <2>3. PICK c \in Calls :
          /\ c = Head(mempool).by /\ ~At(c, "idle")
          /\ Head(mempool).what = "approve" => /\ At(c, "confirm")
                                               /\ Head(mempool).amount >= calls[c].value
    BY <1>1, <2>2, OwnOnly DEF Carried, At
  <2>4. \A d \in Calls : d # c => At(d, "idle")
    BY <1>2, <2>3
  <2>5. \A d \in Calls : ~Unmined(d, "approve")'
    BY <2>2 DEF Unmined, Pending
  <2>6. Carried'
    BY <2>2 DEF Carried
  <2>7. CASE calls' = [calls EXCEPT ![c] = Ready]
    <3>1. \A d \in Calls : calls'[d].pc = "idle" /\ calls'[d].kind # "batch"
      BY <1>1, <2>4, <2>7 DEF At, TypeOK, Enough
    <3> QED
      BY <2>6, <3>1 DEF Careful, Alone, Enough, At
  <2>8. CASE /\ Head(mempool).what = "approve" /\ UNCHANGED calls
             /\ allowance' = Head(mempool).amount
    <3>1. At(c, "confirm")' /\ allowance' >= calls'[c].value
      <4>1. At(c, "confirm") /\ Head(mempool).amount >= calls[c].value
        BY <2>3, <2>8
      <4> QED
        BY <4>1, <2>8 DEF At
    <3>2. \A d \in Calls : d # c => At(d, "idle")'
      BY <2>4, <2>8 DEF At
    <3>3. Head(mempool).amount \in Int /\ calls'[c].value \in Int
      <4>1. Head(mempool) \in Transactions
        BY <2>1, HeadTailProperties DEF TypeOK
      <4> QED
        BY <1>1, <2>3, <2>8, <4>1, OrdersAssumption DEF Transactions, Allowances, Infinite
    <3>4. Enough'
      <4>1. ~(allowance' < calls'[c].value) /\ ~Unmined(c, "approve")'
        BY <2>3, <2>5, <2>8, <3>1, <3>3
      <4>2. \A d \in Calls : calls'[d].kind # "batch"
        BY <1>1, <2>8 DEF Enough
      <4> QED
        BY <3>1, <3>2, <4>1, <4>2 DEF Enough, At
    <3> QED
      BY <1>1, <2>6, <2>8, <3>4 DEF Careful, Alone, At
  <2> QED
    BY <1>11, <2>3, <2>7, <2>8 DEF Mine, MineApproval, MineFill, Ends
<1>12. ASSUME NEW c \in Calls
       PROVE  ~TimeOut(c)
  BY DEF TimeOut, OneByOne
<1>13. ASSUME NEW value \in Values
       PROVE  ~TakeBid(value)
  BY DEF TakeBid, OneByOne
<1>14. CASE UNCHANGED vars
  BY <1>14 DEF vars, Careful, Alone, Enough, Carried, At, Unmined, Pending
<1> QED
  BY <1>4, <1>5, <1>6, <1>7, <1>9, <1>10, <1>11, <1>12, <1>13, <1>14 DEF Next, Call

\* The invariant of calls made one after the other.
THEOREM StaysCareful == ASSUME OneByOne PROVE Spec => [](TypeOK /\ Order /\ Careful)
<1>1. Init => Order /\ Careful
  BY DEF Init, Order, Tied, NoDoubles, Careful, Alone, Enough, Carried, At, Ready
<1>2. TypeOK /\ Order /\ Careful /\ [Next]_vars => Order' /\ Careful'
  BY CarefulKept, OrderPreserved
<1> QED
  BY <1>1, <1>2, TypeCorrect, PTL DEF Spec

\* Made one after the other, no purchase for which gas was estimated is lost
\* in the block (send-transaction.ts:26-29).
THEOREM NothingLost == ASSUME OneByOne PROVE Spec => []PurchasesSucceed
<1>1. Init => PurchasesSucceed
  BY DEF Init, PurchasesSucceed
<1>2. ASSUME TypeOK, Order, Careful, PurchasesSucceed, [Next]_vars
      PROVE  PurchasesSucceed'
  <2>1. CASE MineFill
    <3> DEFINE c == Head(mempool).by
    <3>1. 1 \in DOMAIN mempool /\ Head(mempool) = mempool[1]
      BY <1>2, <2>1, TailEffect DEF MineFill, TypeOK
    <3>2. c \in Calls /\ At(c, "sent") /\ Head(mempool).amount = calls[c].value
      BY <1>2, <2>1, <3>1 DEF MineFill, Careful, Carried, Order, Tied
    <3>3. allowance >= Head(mempool).amount
      BY <1>2, <3>2 DEF Careful, Enough
    <3> QED
      BY <1>2, <2>1, <3>3 DEF MineFill, PurchasesSucceed
  <2>2. CASE UNCHANGED lost
    BY <1>2, <2>2 DEF PurchasesSucceed
  <2> QED
    BY <1>2, <2>1, <2>2
       DEF Next, Call, Start, Check, Approve, Confirm, TimeOut, Post, Estimate, Send,
           Quit, Mine, MineApproval, TakeBid, vars
<1> QED
  BY <1>1, <1>2, StaysCareful, PTL DEF Spec

\* Made one after the other, bids are published only when the proxy can take
\* their price (upsert-order.ts:71-81).
THEOREM Backed == ASSUME OneByOne PROVE Spec => BidsAreBacked
<1>1. TypeOK /\ Order /\ Careful => \A c \in Calls : Post(c) => allowance >= calls[c].value
  BY DEF Careful, Enough, Post
<1>2. TypeOK /\ Order /\ Careful /\ [Next]_vars =>
        [\A c \in Calls : Post(c) => allowance >= calls[c].value]_vars
  BY <1>1
<1> QED
  BY <1>2, StaysCareful, PTL DEF Spec, BidsAreBacked

\* Made one after the other, no call's approval takes away what an earlier one
\* had granted (approve-erc20.ts:24-34).
THEOREM OnlyRaise == ASSUME OneByOne PROVE Spec => ApprovalsOnlyRaise
<1>1. ASSUME TypeOK, Order, Careful, MineApproval
      PROVE  allowance' >= allowance
  <2> DEFINE c == Head(mempool).by
  <2>1. 1 \in DOMAIN mempool /\ Head(mempool) = mempool[1]
    BY <1>1, TailEffect DEF MineApproval, TypeOK
  <2>2. /\ c \in Calls /\ At(c, "confirm") /\ Unmined(c, "approve")
        /\ Head(mempool).amount >= calls[c].value
    BY <1>1, <2>1 DEF MineApproval, Careful, Carried, Order, Tied, Unmined, Pending
  <2>3. allowance < calls[c].value
    BY <1>1, <2>2 DEF Careful, Enough
  <2>4. allowance \in Int /\ calls[c].value \in Int /\ Head(mempool).amount \in Int
    <3>1. Head(mempool) \in Transactions
      BY <1>1, HeadTailProperties DEF MineApproval, TypeOK
    <3> QED
      BY <1>1, <2>2, <3>1, OrdersAssumption
         DEF TypeOK, CallStates, Ready, Transactions, Allowances, Infinite, Values
  <2> QED
    BY <1>1, <2>2, <2>3, <2>4 DEF MineApproval
<1>2. TypeOK /\ Order /\ Careful /\ [Next]_vars =>
        [MineApproval => allowance' >= allowance]_vars
  BY <1>1
<1> QED
  BY <1>2, StaysCareful, PTL DEF Spec, ApprovalsOnlyRaise

=============================================================================
