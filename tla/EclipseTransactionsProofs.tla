---------------------- MODULE EclipseTransactionsProofs ----------------------
(***************************************************************************)
(* Proofs about EclipseTransactions, for any number of calls, orders and    *)
(* retries, and any forks.                                                 *)
(***************************************************************************)
EXTENDS EclipseTransactionsProperties, TLAPS

-----------------------------------------------------------------------------
(***************************************************************************)
(* Type correctness.                                                       *)
(***************************************************************************)

\* What is left of an order after a transaction that succeeds.
LEMMA RestType ==
    ASSUME TypeOK, NEW c \in Calls, ~At(c, "idle"), Succeeds(c)
    PROVE  calls[c].order \in Addresses /\ Rest(c) \in Amounts
  <1>1. /\ calls[c].order \in Addresses
        /\ calls[c].amount \in Amounts
        /\ left[calls[c].order] \in Amounts
    BY DEF TypeOK, CallStates, Ready, At
  <1> QED
    BY <1>1, EclipseAssumption DEF Succeeds, Rest, Amounts

\* A call that goes to another place of the code keeps its type.
LEMMA GoesType ==
    ASSUME TypeOK, NEW c \in Calls, ~At(c, "idle"), NEW pc \in PCs, Goes(c, pc)
    PROVE  calls' \in [Calls -> CallStates]
  <1>1. [calls[c] EXCEPT !.pc = pc] \in CallStates
    BY DEF TypeOK, CallStates, Ready, At
  <1> QED
    BY <1>1 DEF Goes, TypeOK

\* Before its first sending a call has no transaction (part of the invariant).
NothingSentYet == \A c \in Calls : calls[c].pc \in Unsent => ledger[c] = "none"

TypeInv == TypeOK /\ NothingSentYet

\* A call goes to another place of the code, and the ledger stays as it is.
LEMMA GoesSent ==
    ASSUME TypeOK, NothingSentYet, NEW c \in Calls, NEW pc, Goes(c, pc),
           pc \in Unsent => calls[c].pc \in Unsent, UNCHANGED ledger
    PROVE  NothingSentYet'
  <1>1. \A d \in Calls : calls'[d].pc = IF d = c THEN pc ELSE calls[d].pc
    BY DEF Goes, TypeOK, CallStates, Ready
  <1> QED
    BY <1>1 DEF NothingSentYet

LEMMA TypeInvInit == Init => TypeInv
  BY EclipseAssumption
     DEF Init, TypeInv, TypeOK, NothingSentYet, Unsent, CallStates, Amounts, Ready,
         LedgerStates

LEMMA TypeInvNext == TypeInv /\ [Next]_vars => TypeInv'
  <1> SUFFICES ASSUME TypeInv, [Next]_vars PROVE TypeInv'
    OBVIOUS
  <1> USE DEF TypeInv
  <1>1. ASSUME NEW c \in Calls, NEW kind \in Kinds, NEW a \in Addresses, NEW amount \in Amounts,
               Begin(c, kind, a, amount)
        PROVE  TypeInv'
    <2>1. calls' \in [Calls -> CallStates]
      BY <1>1, EclipseAssumption DEF Begin, TypeOK, CallStates, PCs
    <2>2. NothingSentYet'
      BY <1>1 DEF Begin, chain, NothingSentYet, Unsent, TypeOK, At
    <2> QED
      BY <1>1, <2>1, <2>2 DEF Begin, chain, TypeOK
  <1>2. ASSUME NEW c \in Calls, NEW d \in Calls, NEW a \in Addresses, Again(c, d, a)
        PROVE  TypeInv'
    <2>1. calls[d] \in CallStates /\ calls[d] # Ready
      BY <1>2 DEF Again, At, TypeOK, Ready
    <2>. "prepare" \in PCs
      BY DEF PCs
    <2>4. [calls[d] EXCEPT !.pc = "prepare", !.order = a] \in CallStates
      BY <2>1 DEF CallStates
    <2>2. calls' \in [Calls -> CallStates]
      BY <1>2, <2>4 DEF Again, TypeOK
    <2>3. NothingSentYet'
      BY <1>2 DEF Again, chain, NothingSentYet, Unsent, TypeOK, At
    <2> QED
      BY <1>2, <2>2, <2>3 DEF Again, chain, TypeOK
  <1>3. ASSUME NEW c \in Calls, Prepare(c) \/ Refuse(c) \/ StartWait(c) \/ Confirm(c)
               \/ ConfirmThrows(c) \/ TimeOut(c)
        PROVE  TypeInv'
    <2>1. ~At(c, "idle")
      BY <1>3
         DEF Prepare, PrepareOpen, PrepareFill, PrepareCancel, Refuse, StartWait,
             Confirm, ConfirmThrows, TimeOut, At
    <2>2. PICK pc \in PCs : Goes(c, pc) /\ (pc \in Unsent => calls[c].pc \in Unsent)
      BY <1>3
         DEF Prepare, PrepareOpen, PrepareFill, PrepareCancel, Refuse, StartWait,
             Confirm, ConfirmThrows, TimeOut, PCs, Unsent, At
    <2>3. calls' \in [Calls -> CallStates]
      BY <2>1, <2>2, GoesType
    <2>4. NothingSentYet'
      BY <1>3, <2>2, GoesSent
         DEF Prepare, PrepareOpen, PrepareFill, PrepareCancel, Refuse, StartWait,
             Confirm, ConfirmThrows, TimeOut, Forget, chain
    <2>5. answers' \in [Calls -> SUBSET Results]
      BY <1>3
         DEF Prepare, PrepareOpen, PrepareFill, PrepareCancel, Refuse, StartWait,
             Confirm, ConfirmThrows, TimeOut, Forget, TypeOK
    <2> QED
      BY <1>3, <2>3, <2>4, <2>5
         DEF Prepare, PrepareOpen, PrepareFill, PrepareCancel, Refuse, StartWait,
             Confirm, ConfirmThrows, TimeOut, Forget, chain, TypeOK
  <1>4. ASSUME NEW c \in Calls, NEW result \in Results, Settle(c, result) PROVE TypeInv'
    <2>1. ~At(c, "idle") /\ \E pc \in PCs \ Unsent : Goes(c, pc)
      BY <1>4 DEF Settle, PCs, Unsent, At
    <2>2. calls' \in [Calls -> CallStates]
      BY <2>1, GoesType
    <2>3. NothingSentYet'
      BY <1>4, <2>1, GoesSent DEF Settle, Forget, chain
    <2> QED
      BY <1>4, <2>2, <2>3 DEF Settle, Forget, chain, TypeOK
  <1>5. ASSUME NEW c \in Calls, Send(c) PROVE TypeInv'
    <2>1. ~At(c, "idle") /\ \E pc \in PCs \ Unsent : Goes(c, pc)
      BY <1>5 DEF Send, PCs, Unsent, At
    <2>2. calls' \in [Calls -> CallStates]
      BY <2>1, GoesType
    <2>3. NothingSentYet'
      <3>1. \A d \in Calls : calls'[d].pc \in Unsent => d # c /\ calls[d].pc \in Unsent
        BY <2>1 DEF Goes, TypeOK, CallStates, Ready
      <3>2. \A d \in Calls : d # c => ledger'[d] = ledger[d]
        BY <1>5 DEF Send, TypeOK
      <3> QED
        BY <3>1, <3>2 DEF NothingSentYet
    <2>4. ledger' \in [Calls -> LedgerStates]
      BY <1>5 DEF Send, TypeOK, LedgerStates
    <2> QED
      BY <1>5, <2>2, <2>3, <2>4 DEF Send, TypeOK
  <1>6. ASSUME NEW c \in Calls, Resend(c) \/ Drop(c) \/ Expire(c) PROVE TypeInv'
    <2>1. ledger' \in [Calls -> LedgerStates]
      BY <1>6 DEF Resend, Drop, Expire, TypeOK, LedgerStates
    <2>2. \A d \in Calls : d # c => ledger'[d] = ledger[d]
      BY <1>6 DEF Resend, Drop, Expire, TypeOK
    <2>3. calls[c].pc \in Unsent => ledger'[c] = "none"
      <3>1. CASE Resend(c)
        BY <3>1 DEF Resend, At, Unsent
      <3>2. CASE Drop(c)
        BY <3>2 DEF Drop, TypeOK
      <3>3. CASE Expire(c)
        BY <3>3 DEF Expire, Unsent, NothingSentYet
      <3> QED
        BY <1>6, <3>1, <3>2, <3>3
    <2>4. NothingSentYet'
      BY <1>6, <2>2, <2>3 DEF Resend, Drop, Expire, NothingSentYet
    <2> QED
      BY <1>6, <2>1, <2>4 DEF Resend, Drop, Expire, TypeOK
  <1>7. ASSUME NEW c \in Calls, Learn(c) PROVE TypeInv'
    BY <1>7 DEF Learn, Executed, chain, TypeOK, NothingSentYet
  <1>8. ASSUME NEW c \in Calls, NotConfirmed(c) PROVE TypeInv'
    <2>1. calls[c].tries \in 0..Retries /\ calls[c] \in CallStates /\ calls[c] # Ready
      BY <1>8 DEF NotConfirmed, At, TypeOK, CallStates, Ready
    <2>2. CASE Goes(c, "unconfirmed")
      <3>1. calls' \in [Calls -> CallStates]
        BY <1>8, <2>2, GoesType DEF NotConfirmed, At, PCs
      <3>2. NothingSentYet'
        BY <1>8, <2>2, GoesSent DEF NotConfirmed, Unsent, chain
      <3> QED
        BY <1>8, <3>1, <3>2 DEF NotConfirmed, chain, TypeOK
    <2>3. CASE calls[c].tries < Retries /\ calls' = [calls EXCEPT ![c].tries = @ + 1]
      <3>1. \A t \in 0..Retries : t < Retries => t + 1 \in 0..Retries
        BY EclipseAssumption
      <3>2. [calls[c] EXCEPT !.tries = @ + 1] \in CallStates
        BY <2>1, <2>3, <3>1 DEF CallStates
      <3>3. calls' \in [Calls -> CallStates]
        BY <2>3, <3>2 DEF TypeOK
      <3>4. \A d \in Calls : calls'[d].pc = calls[d].pc
        BY <2>3, <2>1 DEF TypeOK, CallStates
      <3>5. NothingSentYet'
        BY <1>8, <3>4 DEF NotConfirmed, chain, NothingSentYet
      <3> QED
        BY <1>8, <3>3, <3>5 DEF NotConfirmed, chain, TypeOK
    <2> QED
      BY <1>8, <2>2, <2>3 DEF NotConfirmed
  <1>9. ASSUME NEW c \in Calls, Execute(c) PROVE TypeInv'
    <2>1. ~At(c, "idle")
      BY <1>9 DEF Execute, NothingSentYet, Unsent, At
    <2>2. left' \in [Addresses -> Amounts]
      BY <1>9, <2>1, RestType DEF Execute, TypeOK
    <2>3. ledger' \in [Calls -> LedgerStates] /\ NothingSentYet'
      BY <1>9 DEF Execute, TypeOK, NothingSentYet, LedgerStates, Results
    <2> QED
      BY <1>9, <2>2, <2>3 DEF Execute, TypeOK
  <1>10. CASE Finalize
    BY <1>10 DEF Finalize, TypeOK, NothingSentYet
  <1>11. CASE Fork
    BY <1>11 DEF Fork, TypeOK, NothingSentYet, LedgerStates, Executed, Results
  <1>12. CASE UNCHANGED vars
    BY <1>12 DEF vars, TypeOK, NothingSentYet
  <1> QED
    BY <1>1, <1>2, <1>3, <1>4, <1>5, <1>6, <1>7, <1>8, <1>9, <1>10, <1>11, <1>12
       DEF Next, Call, Chain

\* Every reachable state of EclipseTransactions is well typed.
THEOREM TypeCorrect == Spec => []TypeOK
<1>1. TypeInv => TypeOK
  BY DEF TypeInv
<1> QED
  BY <1>1, TypeInvInit, TypeInvNext, PTL DEF Spec

-----------------------------------------------------------------------------
(***************************************************************************)
(* What the calls report agrees with the ledger.                           *)
(***************************************************************************)

\* The answers on their way to a call say what the ledger says.
AnswersAreTrue ==
    \A c \in Calls \ undone : \A r \in answers[c] : ledger[c] = r

FinalIsExecuted == \A c \in final : Executed(c)

ReportInv == TypeInv /\ AnswersAreTrue /\ FinalIsExecuted /\ VerdictIsTrue /\ ConfirmedIsFinal

\* A result of the ledger lasts, unless a fork takes the transaction back; a
\* confirmed one lasts.
LEMMA ResultsLast ==
    ASSUME TypeInv, FinalIsExecuted, [Next]_vars
    PROVE  /\ undone \subseteq undone' /\ final \subseteq final'
           /\ \A c \in Calls : Executed(c) /\ c \notin undone' => ledger'[c] = ledger[c]
           /\ \A c \in final : ledger'[c] = ledger[c]
           /\ FinalIsExecuted'
  <1> USE DEF TypeInv
  <1>1. CASE UNCHANGED chain \/ UNCHANGED vars
    BY <1>1 DEF chain, vars, FinalIsExecuted, Executed
  <1>2. ASSUME NEW c \in Calls,
               Send(c) \/ Resend(c) \/ Execute(c) \/ Drop(c) \/ Expire(c)
        PROVE  /\ UNCHANGED <<final, undone>>
               /\ ~Executed(c)
               /\ \A d \in Calls : d # c => ledger'[d] = ledger[d]
    <2>1. /\ UNCHANGED <<final, undone>>
          /\ \A d \in Calls : d # c => ledger'[d] = ledger[d]
      BY <1>2 DEF Send, Resend, Execute, Drop, Expire, TypeOK
    <2>2. ~Executed(c)
      <3>1. CASE Send(c)
        BY <3>1 DEF Send, NothingSentYet, Unsent, At, Executed, Results
      <3>2. CASE Resend(c) \/ Execute(c) \/ Drop(c) \/ Expire(c)
        BY <3>2 DEF Resend, Execute, Drop, Expire, Executed, Results
      <3> QED
        BY <1>2, <3>1, <3>2
    <2> QED
      BY <2>1, <2>2
  <1>3. ASSUME NEW c \in Calls,
               Send(c) \/ Resend(c) \/ Execute(c) \/ Drop(c) \/ Expire(c)
        PROVE  /\ undone \subseteq undone' /\ final \subseteq final'
               /\ \A d \in Calls : Executed(d) /\ d \notin undone' => ledger'[d] = ledger[d]
               /\ \A d \in final : ledger'[d] = ledger[d]
               /\ FinalIsExecuted'
    BY <1>2, <1>3 DEF FinalIsExecuted, Executed, TypeOK
  <1>4. CASE Finalize
    BY <1>4 DEF Finalize, FinalIsExecuted, Executed, TypeOK
  <1>5. CASE Fork
    BY <1>5 DEF Fork, FinalIsExecuted, Executed, TypeOK
  <1>6. \/ UNCHANGED chain \/ UNCHANGED vars \/ Finalize \/ Fork
        \/ \E c \in Calls : Send(c) \/ Resend(c) \/ Execute(c) \/ Drop(c) \/ Expire(c)
    BY DEF Next, Call, Chain, Begin, Again, Prepare, PrepareOpen, PrepareFill,
           PrepareCancel, Refuse, Learn, Settle, TimeOut, Forget, StartWait, Confirm,
           ConfirmThrows, NotConfirmed
  <1> QED
    BY <1>1, <1>3, <1>4, <1>5, <1>6

\* Every answer that is added is what the ledger says.
LEMMA AnswersStayTrue ==
    ASSUME ReportInv, [Next]_vars
    PROVE  AnswersAreTrue'
  <1> USE DEF ReportInv, TypeInv
  <1>1. \A c \in Calls : \A r \in answers'[c] : r \in answers[c] \/ ledger[c] = r
    <2>1. ASSUME NEW d \in Calls, Learn(d)
          PROVE  \A c \in Calls : \A r \in answers'[c] : r \in answers[c] \/ ledger[c] = r
      BY <2>1 DEF Learn, TypeOK
    <2>2. ASSUME NEW d \in Calls, Forget(d)
          PROVE  \A c \in Calls : answers'[c] \subseteq answers[c]
      BY <2>2 DEF Forget, TypeOK
    <2>3. UNCHANGED answers \/ \E d \in Calls : Learn(d) \/ Forget(d)
      BY DEF Next, vars, Call, Chain, Begin, Again, Prepare, PrepareOpen, PrepareFill,
             PrepareCancel, Refuse, Send, Resend, Settle, TimeOut, StartWait, Confirm,
             ConfirmThrows, NotConfirmed, Execute, Drop, Expire, Finalize, Fork
    <2> QED
      BY <2>1, <2>2, <2>3
  <1>2. \A c \in Calls : answers'[c] \subseteq Results
    BY TypeInvNext DEF TypeOK
  <1> SUFFICES ASSUME NEW c \in Calls, c \notin undone', NEW r \in answers'[c]
               PROVE  ledger'[c] = r
    BY DEF AnswersAreTrue
  <1>3. c \notin undone
    BY ResultsLast
  <1>4. ledger[c] = r
    BY <1>1, <1>3 DEF AnswersAreTrue
  <1>5. Executed(c)
    BY <1>2, <1>4 DEF Executed
  <1> QED
    BY <1>3, <1>4, <1>5, ResultsLast

\* Where a call's report comes from: it stays, or it is the answer's, or the
\* confirmed block's.
LEMMA ReportsComeFrom ==
    ASSUME TypeInv, [Next]_vars, NEW c \in Calls
    PROVE  /\ Returned(c)' => Returned(c) \/ "ok" \in answers[c]
           /\ At(c, "failed")' => At(c, "failed") \/ "err" \in answers[c]
           /\ At(c, "confirmed")' => At(c, "confirmed") \/ (c \in final /\ ledger[c] = "ok")
  <1> USE DEF TypeInv
  <1>0. CASE calls'[c].pc = calls[c].pc
    BY <1>0 DEF Returned, At
  <1>1. ASSUME NEW pc, Goes(c, pc) PROVE calls'[c].pc = pc
    BY <1>1 DEF Goes, TypeOK, CallStates, Ready
  <1>2. ASSUME NEW d \in Calls, NEW pc, d # c, Goes(d, pc) PROVE calls'[c] = calls[c]
    BY <1>2 DEF Goes, TypeOK
  <1>3. CASE UNCHANGED calls
    BY <1>0, <1>3
  <1>4. ASSUME NEW d \in Calls, \E kind \in Kinds, a \in Addresses, amount \in Amounts :
                                   Begin(d, kind, a, amount)
        PROVE  calls'[c].pc \in {calls[c].pc, "prepare"}
    BY <1>4 DEF Begin, TypeOK
  <1>5. ASSUME NEW d \in Calls, \E e \in Calls, a \in Addresses : Again(d, e, a)
        PROVE  calls'[c].pc \in {calls[c].pc, "prepare"}
    BY <1>5 DEF Again, TypeOK, CallStates, Ready
  <1>6. ASSUME NEW d \in Calls, Prepare(d) \/ Refuse(d) \/ Send(d) \/ TimeOut(d)
        PROVE  calls'[c].pc \in {calls[c].pc, "refused", "send", "wait", "hung", "lost", "expired"}
    BY <1>1, <1>2, <1>6 DEF Prepare, PrepareOpen, PrepareFill, PrepareCancel, Refuse, Send, TimeOut
  <1>7. ASSUME NEW d \in Calls, NEW result \in Results, Settle(d, result)
        PROVE  \/ calls'[c].pc = calls[c].pc
               \/ calls'[c].pc = "ok" /\ "ok" \in answers[c]
               \/ calls'[c].pc = "failed" /\ "err" \in answers[c]
    BY <1>1, <1>2, <1>7 DEF Settle, Results
  <1>8. ASSUME NEW d \in Calls, StartWait(d)
        PROVE  \/ calls'[c].pc = calls[c].pc
               \/ At(c, "ok") /\ calls'[c].pc = "confirm"
    BY <1>1, <1>2, <1>8 DEF StartWait
  <1>9. ASSUME NEW d \in Calls, Confirm(d) \/ ConfirmThrows(d)
        PROVE  \/ calls'[c].pc \in {calls[c].pc, "unconfirmed"}
               \/ calls'[c].pc = "confirmed" /\ c \in final /\ ledger[c] = "ok"
    BY <1>1, <1>2, <1>9 DEF Confirm, ConfirmThrows
  <1>10. ASSUME NEW d \in Calls, NotConfirmed(d)
         PROVE  calls'[c].pc \in {calls[c].pc, "unconfirmed"}
    BY <1>1, <1>2, <1>10 DEF NotConfirmed, TypeOK, CallStates, Ready
  <1>11. UNCHANGED calls \/ \E d \in Calls : Call(d) /\ ~UNCHANGED calls
    BY DEF Next, Chain, vars, Execute, Drop, Expire, Finalize, Fork
  <1> QED
    BY <1>0, <1>3, <1>4, <1>5, <1>6, <1>7, <1>8, <1>9, <1>10, <1>11
       DEF Call, Resend, Learn, Returned, At

LEMMA ReportInvInit == Init => ReportInv
  BY TypeInvInit DEF Init, ReportInv, AnswersAreTrue, FinalIsExecuted, VerdictIsTrue,
                     ConfirmedIsFinal, Returned, At, Ready

LEMMA ReportInvNext == ReportInv /\ [Next]_vars => ReportInv'
  <1> SUFFICES ASSUME ReportInv, [Next]_vars PROVE ReportInv'
    OBVIOUS
  <1> USE DEF ReportInv
  <1>1. TypeInv' /\ AnswersAreTrue' /\ FinalIsExecuted'
    BY TypeInvNext, AnswersStayTrue, ResultsLast
  <1>2. VerdictIsTrue'
    <2> SUFFICES ASSUME NEW c \in Calls, c \notin undone'
                 PROVE  /\ Returned(c)' => ledger'[c] = "ok"
                        /\ At(c, "failed")' => ledger'[c] = "err"
      BY DEF VerdictIsTrue
    <2>1. c \notin undone
      BY ResultsLast
    <2>2. /\ Returned(c)' => ledger[c] = "ok"
          /\ At(c, "failed")' => ledger[c] = "err"
      BY <2>1, ReportsComeFrom DEF VerdictIsTrue, AnswersAreTrue
    <2> QED
      BY <2>2, ResultsLast DEF Executed, Results
  <1>3. ConfirmedIsFinal'
    BY ReportsComeFrom, ResultsLast DEF ConfirmedIsFinal
  <1> QED
    BY <1>1, <1>2, <1>3

\* submit() never reports another result than the ledger's: what returned was
\* executed, what threw the transaction's error failed.
THEOREM VerdictsAreTrue == Spec => []VerdictIsTrue
<1>1. ReportInv => VerdictIsTrue
  BY DEF ReportInv
<1> QED
  BY <1>1, ReportInvInit, ReportInvNext, PTL DEF Spec

\* What wait() returned is confirmed, so no fork takes it back.
THEOREM ConfirmedForGood == Spec => []ConfirmedIsFinal
<1>1. ReportInv => ConfirmedIsFinal
  BY DEF ReportInv
<1> QED
  BY <1>1, ReportInvInit, ReportInvNext, PTL DEF Spec

-----------------------------------------------------------------------------
(***************************************************************************)
(* Nobody trades twice.                                                    *)
(***************************************************************************)

Over(c) == At(c, "failed") \/ At(c, "refused")

\* The first of the calls that try one thing was made, and at most one of them
\* is not over.
IntentsBegun == \A c \in Calls : ~At(c, "idle") => ~At(calls[c].intent, "idle")
OneAttempt ==
    \A c, d \in Calls :
        c # d /\ ~At(c, "idle") /\ ~At(d, "idle") /\ calls[c].intent = calls[d].intent
        => Over(c) \/ Over(d)

IntentInv == TypeInv /\ IntentsBegun /\ OneAttempt

\* A call keeps its intent, and what is over stays over.
LEMMA IntentsStay ==
    ASSUME TypeInv, [Next]_vars, NEW c \in Calls,
           \A kind \in Kinds, a \in Addresses, amount \in Amounts : ~Begin(c, kind, a, amount),
           \A d \in Calls, a \in Addresses : ~Again(c, d, a)
    PROVE  /\ calls'[c].intent = calls[c].intent
           /\ At(c, "idle")' <=> At(c, "idle")
           /\ Over(c) => Over(c)'
  <1> USE DEF TypeInv
  <1>0. ASSUME calls'[c] = calls[c]
        PROVE  /\ calls'[c].intent = calls[c].intent
               /\ At(c, "idle")' <=> At(c, "idle")
               /\ Over(c) => Over(c)'
    BY <1>0 DEF At, Over
  <1>1. ASSUME NEW pc \in PCs, Goes(c, pc), ~At(c, "idle"), ~Over(c)
        PROVE  /\ calls'[c].intent = calls[c].intent
               /\ At(c, "idle")' <=> At(c, "idle")
               /\ Over(c) => Over(c)'
    BY <1>1 DEF Goes, At, Over, TypeOK, CallStates, Ready, PCs
  <1>2. ASSUME NEW d \in Calls, d # c, calls' = [calls EXCEPT ![d] = calls'[d]]
        PROVE  calls'[c] = calls[c]
    BY <1>2 DEF TypeOK
  <1>3. ASSUME NEW d \in Calls, Call(d), d # c PROVE calls'[c] = calls[c]
    BY <1>3
       DEF Call, Begin, Again, Prepare, PrepareOpen, PrepareFill, PrepareCancel,
           Refuse, Send, Resend, Learn, Settle, TimeOut, StartWait, Confirm,
           ConfirmThrows, NotConfirmed, Goes, TypeOK
  <1>4. CASE \/ Prepare(c) \/ Refuse(c) \/ Send(c) \/ TimeOut(c) \/ StartWait(c) \/ Confirm(c)
             \/ ConfirmThrows(c) \/ \E result \in Results : Settle(c, result)
    <2>1. ~At(c, "idle") /\ ~Over(c) /\ \E pc \in PCs : Goes(c, pc)
      BY <1>4
         DEF Prepare, PrepareOpen, PrepareFill, PrepareCancel, Refuse, Send, TimeOut,
             StartWait, Confirm, ConfirmThrows, Settle, PCs, At, Over
    <2> QED
      BY <1>1, <2>1
  <1>5. CASE NotConfirmed(c)
    <2>1. CASE Goes(c, "unconfirmed")
      BY <1>1, <1>5, <2>1 DEF NotConfirmed, At, Over, PCs
    <2>2. CASE calls' = [calls EXCEPT ![c].tries = @ + 1]
      BY <1>5, <2>2 DEF NotConfirmed, At, Over, TypeOK, CallStates, Ready
    <2> QED
      BY <1>5, <2>1, <2>2 DEF NotConfirmed
  <1>6. CASE Resend(c) \/ Learn(c) \/ Chain \/ UNCHANGED vars
    BY <1>0, <1>6 DEF Resend, Learn, Chain, Execute, Drop, Expire, Finalize, Fork, vars
  <1> QED
    BY <1>0, <1>3, <1>4, <1>5, <1>6 DEF Next, Call

LEMMA IntentInvInit == Init => IntentInv
  BY TypeInvInit DEF Init, IntentInv, IntentsBegun, OneAttempt, At, Ready

LEMMA IntentInvNext == IntentInv /\ [Next]_vars => IntentInv'
  <1> SUFFICES ASSUME IntentInv, [Next]_vars PROVE IntentInv'
    OBVIOUS
  <1> USE DEF IntentInv
  <1>1. TypeInv'
    BY TypeInvNext
  <1>2. \A c \in Calls : ~At(c, "idle") => calls[c].intent \in Calls
    BY DEF TypeInv, TypeOK, CallStates, Ready, At
  <1>3. ASSUME NEW b \in Calls, NEW kind \in Kinds, NEW a \in Addresses,
               NEW amount \in Amounts, Begin(b, kind, a, amount)
        PROVE  IntentsBegun' /\ OneAttempt'
    <2>1. /\ At(b, "idle")
          /\ calls'[b].intent = b /\ calls'[b].pc = "prepare"
          /\ \A c \in Calls : c # b => calls'[c] = calls[c]
      BY <1>3 DEF Begin, TypeInv, TypeOK
    <2>2. IntentsBegun'
      BY <1>2, <2>1 DEF IntentsBegun, At
    <2>3. OneAttempt'
      BY <1>2, <2>1 DEF IntentsBegun, OneAttempt, At, Over
    <2> QED
      BY <2>2, <2>3
  <1>4. ASSUME NEW b \in Calls, NEW e \in Calls, NEW a \in Addresses, Again(b, e, a)
        PROVE  IntentsBegun' /\ OneAttempt'
    <2>1. /\ At(b, "idle") /\ Over(e)
          /\ calls'[b].intent = calls[e].intent /\ calls'[b].pc = "prepare"
          /\ \A c \in Calls : c # b => calls'[c] = calls[c]
      BY <1>4 DEF Again, TypeInv, TypeOK, CallStates, Ready, At, Over
    <2>2. \A c \in Calls : calls[c].intent = calls[e].intent => Over(c)
      BY <1>4, <2>1 DEF Again, Over
    <2>3. ~At(e, "idle")
      BY <2>1 DEF At, Over
    <2>4. IntentsBegun'
      BY <1>2, <2>1, <2>3 DEF IntentsBegun, At
    <2>5. OneAttempt'
      BY <2>1, <2>2 DEF OneAttempt, At, Over
    <2> QED
      BY <2>4, <2>5
  <1>5. CASE /\ \A c \in Calls, kind \in Kinds, a \in Addresses, amount \in Amounts :
                  ~Begin(c, kind, a, amount)
             /\ \A c, d \in Calls, a \in Addresses : ~Again(c, d, a)
    <2>1. \A c \in Calls : /\ calls'[c].intent = calls[c].intent
                           /\ At(c, "idle")' <=> At(c, "idle")
                           /\ Over(c) => Over(c)'
      BY <1>5, IntentsStay
    <2>2. IntentsBegun'
      BY <1>2, <2>1 DEF IntentsBegun, At
    <2>3. OneAttempt'
      BY <2>1 DEF OneAttempt
    <2> QED
      BY <1>1, <2>2, <2>3
  <1> QED
    BY <1>1, <1>3, <1>4, <1>5

\* A user who tries again only what was reported to have failed trades at most
\* once, unless a fork revives a transaction.
THEOREM NobodyTradesTwice == Spec => []NoDoubleTrade
<1>1. ReportInv /\ IntentInv => NoDoubleTrade
  <2> SUFFICES ASSUME ReportInv, IntentInv, NEW c \in Calls, NEW d \in Calls, c # d,
                      calls[c].intent = calls[d].intent, ledger[c] = "ok", ledger[d] = "ok"
               PROVE  c \in undone \/ d \in undone
    BY DEF NoDoubleTrade
  <2>1. calls[c].pc \notin Unsent /\ calls[d].pc \notin Unsent
    BY DEF ReportInv, TypeInv, NothingSentYet
  <2>2. At(c, "failed") \/ At(d, "failed")
    BY <2>1 DEF IntentInv, OneAttempt, Over, At, Unsent
  <2> QED
    BY <2>2 DEF ReportInv, VerdictIsTrue
<1> QED
  BY <1>1, ReportInvInit, ReportInvNext, IntentInvInit, IntentInvNext, PTL DEF Spec

=============================================================================
