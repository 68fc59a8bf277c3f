------------------------ MODULE ConnectorProperties ------------------------
(***************************************************************************)
(* What the connector must do, and what it is meant to do.                  *)
(***************************************************************************)
EXTENDS Connector

Live == pipe.phase = "live" /\ ~unloading

\* Once initialisation is over, what subscribers see is the latest state of
\* the observable of the provider that is selected now: no state of a wallet
\* that was replaced arrives late, and no change is swallowed by the
\* distinctUntilChanged (connector.ts:97-145).  Only while a mapper still
\* works on the latest state may subscribers see an earlier one.
ViewTracksWallet ==
    Live => IF pipe.provider = None
            THEN pipe.view = Disconnected
            ELSE pipe.wallet.pending \/ Same(pipe.view, pipe.wallet.source)

\* A wallet whose disconnection was seen by a subscriber is no longer the
\* current provider, so that connect() can select it again (connector.ts:168).
\* Mapped providers are excepted: their first state is late, and a failure that
\* overtakes it is swallowed, "disconnected" following "disconnected".
NoGhostProvider ==
    Live /\ pipe.view = Disconnected /\ subs # {}
        => pipe.provider \in Mapped \cup {None}

\* The id kept for the next page load is that of the wallet shown as connected
\* (connector.ts:281-282 and 209: "used to save/load last connected provider").
SavedIsConnected ==
    Live /\ pipe.view.status = "connected" /\ ~pipe.wallet.pending
        => saved = pipe.view.id

\* A selected wallet that has begun to connect is deselected only when it said
\* it was disconnected, when the user disconnected it, or with the page
\* (connector.ts:160, 168): never because some other part of the application
\* subscribed, or because initialisation was still under way.
Deselected == pipe.provider # None /\ pipe'.provider = None
NoSpuriousDeselect ==
    [][ Deselected /\ ~pipe.wallet.pending =>
            \/ Live /\ pipe.wallet.source.status = "disconnected"
            \/ WalletReports(Disconnected)
            \/ WalletFails
            \/ DisconnectDone(pipe.provider)
            \/ Reload ]_vars

\* Once the page is unloading, the disconnections wallets report on their way
\* out do not make the next page forget the wallet: no erasure of the saved id
\* is begun, and only one begun before is carried out (connector.ts:138, 167
\* and the comment at 186-188).
UnloadKeepsSaved ==
    [][ unloading /\ pipe.phase = "live" =>
            /\ pipe'.clears <= pipe.clears
            /\ saved' = None => saved = None \/ pipe.clears > 0 ]_vars

\* The connector implements its contract.
Contract == INSTANCE ConnectionContract
              WITH chosen <- pipe.provider, shown <- pipe.view
ImplementsContract == Contract!Spec

\* A provider that connect() has selected outlives the end of initialisation
\* (README.md:49, "connect to selected provider", on a connector just created).
InitializationKeepsRequest ==
    [][ Return /\ pipe.provider # None => pipe'.provider # None ]_vars

\* Initialisation comes to an end once providers and storage have answered:
\* no subscriber sees "initializing" for ever.
InitializationEnds == pipe.phase = "auto" ~> pipe.phase # "auto"

\* A selected provider does not stay invisible: subscribers come to see it,
\* or to see "disconnected".
SelectionIsShown ==
    \A p \in Providers :
        Live /\ pipe.provider = p ~>
            \/ ~Live
            \/ pipe.provider # p
            \/ pipe.view.status = "disconnected"
            \/ pipe.view.id = p

\* A wallet that stays disconnected is forgotten: the next page load will not
\* try it (connector.ts:169-172).
Away == /\ Live /\ pipe.view = Disconnected /\ subs # {}
        /\ pipe.provider = None
        /\ \A c \in Callers : calls[c].pc = "idle"
LostWalletIsForgotten == <>[]Away => <>[](saved = None)

=============================================================================
