------------------------------ MODULE MintMarket ------------------------------
(***************************************************************************)
(* What minting and selling promises, with none of its transactions,        *)
(* middlewares and waits: a call makes the token it was given, and offers   *)
(* that one and no other once it is made. By whom, is all that is left open *)
(* where nobody notices that a mint failed.                                 *)
(***************************************************************************)
EXTENDS Integers

CONSTANTS Calls, Tokens

VARIABLES
    noticed,    \* whether a call notices that its mint failed
    given,      \* the call's token
    made,       \* <<call, token>>: the call made the token
    offers      \* <<call, token>>: the call offered the token

market == <<noticed, given, made, offers>>

Init ==
    /\ noticed \in BOOLEAN
    /\ given \in [Calls -> Tokens]
    /\ made = {}
    /\ offers = {}

Make(c) ==
    /\ made' = made \cup {<<c, given[c]>>}
    /\ UNCHANGED <<noticed, given, offers>>

\* it is the call's own, unless another call was given the same one and the
\* failure of this call's mint went unnoticed
Offer(c) ==
    /\ \E maker \in Calls :
         /\ <<maker, given[c]>> \in made
         /\ maker = c \/ (given[maker] = given[c] /\ ~noticed)
    /\ offers' = offers \cup {<<c, given[c]>>}
    /\ UNCHANGED <<noticed, given, made>>

Next == \E c \in Calls : Make(c) \/ Offer(c)

Spec == Init /\ [][Next]_market

=============================================================================
