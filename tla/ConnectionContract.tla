-------------------------- MODULE ConnectionContract --------------------------
(***************************************************************************)
(* What a Connector promises to the code that observes `connection`, with   *)
(* none of the pipeline: a provider is chosen or not, a state is shown, and *)
(* a wallet is only ever shown while it is the chosen one.                  *)
(***************************************************************************)
EXTENDS Integers

CONSTANTS Providers, Accounts, None

VARIABLES chosen, shown

State(st, p, a) == [status |-> st, id |-> p, account |-> a]

Init ==
    /\ chosen = None
    /\ shown = State("none", None, None)

\* the first subscription
Begin ==
    /\ shown.status = "none"
    /\ shown' = State("initializing", None, None)
    /\ UNCHANGED chosen

\* a provider becomes the chosen one; its "connecting" is shown now or later
Choose(p) ==
    /\ chosen' = p
    /\ \/ UNCHANGED shown
       \/ shown' = State("connecting", p, None)

\* the chosen provider, and no other, reports that it is connecting ...
ShowConnecting ==
    /\ chosen # None
    /\ shown # State("connecting", chosen, None)
    /\ ~(shown.status = "connected" /\ shown.id = chosen)
    /\ shown' = State("connecting", chosen, None)
    /\ UNCHANGED chosen

\* ... or connected, which cannot happen in the step that chooses it
ShowConnected(a) ==
    /\ chosen # None
    /\ shown.status # "none"
    /\ shown' = State("connected", chosen, a)
    /\ UNCHANGED chosen

\* the end of a connection, or of the initialisation
ShowDisconnected ==
    /\ shown.status # "none"
    /\ shown' = State("disconnected", None, None)
    /\ chosen' \in {chosen, None}

\* the choice is dropped without a word: the page is unloading or a wallet
\* that never got to "connecting" is forgotten
Drop ==
    /\ chosen' = None
    /\ UNCHANGED shown

\* initialisation fails, or the page is loaded again
Restart ==
    /\ shown' = State("none", None, None)
    /\ chosen' \in {chosen, None}

Next ==
    \/ Begin
    \/ \E p \in Providers : Choose(p)
    \/ ShowConnecting
    \/ \E a \in Accounts : ShowConnected(a)
    \/ ShowDisconnected
    \/ Drop
    \/ Restart

Spec == Init /\ [][Next]_<<chosen, shown>>

=============================================================================
