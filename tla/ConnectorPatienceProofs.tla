------------------------ MODULE ConnectorPatienceProofs ------------------------
(***************************************************************************)
(* Proofs about a Connector whose application is patient: it makes one      *)
(* request at a time and connects only when it sees "disconnected".  For    *)
(* every number of providers, accounts, subscribers and callers, and for    *)
(* slow storage too where LocalStorage is not assumed.                     *)
(***************************************************************************)
EXTENDS ConnectorProofs

-----------------------------------------------------------------------------
(* The fields of the states the program builds, and what the operators of   *)
(* the pipeline do to each field of it.                                     *)

\* The kinds of connection states are told apart by their status.
LEMMA Statuses ==
    /\ Nothing.status = "none"
    /\ Initializing.status = "initializing"
    /\ Disconnected.status = "disconnected"
    /\ \A p \in Providers : Connecting(p).status = "connecting" /\ Connecting(p).id = p
    /\ \A p \in Providers, a \in Accounts :
         Connected(p, a).status = "connected" /\ Connected(p, a).id = p
    /\ \A c \in Reports : c.status # "none"
  BY DEF Nothing, Initializing, Disconnected, Connecting, Connected, Report, Reports

\* A state that arrives is swallowed, shown, or shown to subscribers whose tap
\* callbacks deselect the provider.
LEMMA EmitShape ==
    ASSUME NEW k \in Pipes, NEW c \in Reports, IsFiniteSet(subs)
    PROVE  \/ Emit(k, c) = k
           \/ /\ ~unloading
              /\ Emit(k, c).view = c
              /\ Emit(k, c).provider = k.provider
              /\ Emit(k, c).wallet = k.wallet
              /\ Emit(k, c).clears = k.clears
           \/ /\ ~unloading /\ c = Disconnected
              /\ Emit(k, c).view = Disconnected
              /\ Emit(k, c).provider = None
              /\ Emit(k, c).wallet = NoWallet
<1> DEFINE next == [k EXCEPT !.view = c]
           n == Cardinality(subs)
<1>1. n \in Nat /\ next \in Pipes
  BY ReportTypes, FS_CardinalityType DEF Pipes
<1>2. /\ next.view = c /\ next.provider = k.provider
      /\ next.wallet = k.wallet /\ next.clears = k.clears
  BY DEF Pipes
<1>3. c.status = "disconnected" <=> c = Disconnected
  BY ReportTypes
<1>4. CASE unloading \/ Same(k.view, c)
  BY <1>4 DEF Emit
<1>5. CASE ~unloading /\ ~Same(k.view, c) /\ c # Disconnected
  <2>1. Emit(k, c) = next
    BY <1>3, <1>5 DEF Emit
  <2> HIDE DEF next
  <2> QED
    BY <1>2, <1>5, <2>1
<1>6. CASE ~unloading /\ ~Same(k.view, c) /\ c = Disconnected
  <2>1. Emit(k, c) = Tap(next, n)
    BY <1>3, <1>6 DEF Emit
  <2> HIDE DEF next, n
  <2>2. \/ Tap(next, n) = next
        \/ /\ Tap(next, n).view = next.view
           /\ Tap(next, n).provider = None /\ Tap(next, n).wallet = NoWallet
    BY <1>1, <1>6, TapEffect
  <2> QED
    BY <1>2, <1>6, <2>1, <2>2
<1> QED
  BY <1>4, <1>5, <1>6

\* switchMap's subscription to the provider that is selected, or to none.
LEMMA SwitchShape ==
    ASSUME NEW k \in Pipes, IsFiniteSet(subs)
    PROVE  /\ Switch(k).provider = k.provider
           /\ Switch(k).view \in Views
           /\ k.provider = None =>
                /\ Switch(k).wallet = NoWallet
                /\ Switch(k).view = IF unloading THEN k.view ELSE Disconnected
           /\ k.provider # None =>
                /\ Switch(k).wallet.source = Connecting(k.provider)
                /\ Switch(k).clears = k.clears
                /\ Switch(k).view \in {k.view, Connecting(k.provider)}
<1> DEFINE first == Connecting(k.provider)
           start == [source |-> first, pending |-> k.provider \in Mapped,
                     ended |-> FALSE]
           away == [k EXCEPT !.wallet = NoWallet]
           next == [k EXCEPT !.wallet = start]
<1>0. Switch(k).view \in Views
  BY SwitchType DEF Pipes
<1>1. CASE k.provider = None
  <2>1. /\ away \in Pipes /\ away.view = k.view /\ away.provider = None
        /\ away.wallet = NoWallet
    BY <1>1, InitialTypes DEF Pipes
  <2>2. Switch(k) = Emit(away, Disconnected)
    BY <1>1 DEF Switch
  <2> HIDE DEF away
  <2>3. /\ Switch(k).provider = None /\ Switch(k).wallet = NoWallet
    BY <2>1, <2>2, EmitShape, ReportTypes
  <2>4. unloading => Switch(k).view = k.view
    BY <2>1, <2>2, EmitEffect, ReportTypes
  <2>5. ~unloading => Same(Switch(k).view, Disconnected)
    BY <2>1, <2>2, EmitEffect, ReportTypes
  <2> QED
    BY <1>0, <1>1, <2>3, <2>4, <2>5, SameFacts, ReportTypes
<1>2. CASE k.provider # None
  <2>1. first \in Reports /\ first # Disconnected
    BY <1>2, ReportTypes, Statuses DEF Pipes
  <2>2. /\ next \in Pipes /\ next.provider = k.provider /\ next.view = k.view
        /\ next.wallet.source = first /\ next.clears = k.clears
    <3>1. start \in Wallets
      BY <2>1 DEF Wallets
    <3>2. start.source = first
      OBVIOUS
    <3> HIDE DEF start, first
    <3> QED
      BY <3>1, <3>2 DEF Pipes
  <2>3. Switch(k) = IF k.provider \in Mapped THEN next ELSE Emit(next, first)
    BY <1>2 DEF Switch
  <2> HIDE DEF next, first
  <2>4. CASE k.provider \in Mapped
    BY <1>0, <1>2, <2>2, <2>3, <2>4 DEF first
  <2>5. CASE k.provider \notin Mapped
    <3>1. /\ Switch(k).provider = k.provider /\ Switch(k).wallet.source = first
          /\ Switch(k).clears = k.clears /\ Switch(k).view \in {k.view, first}
      BY <2>1, <2>2, <2>3, <2>5, EmitShape
    <3> QED
      BY <1>0, <1>2, <3>1 DEF first
  <2> QED
    BY <2>4, <2>5
<1> QED
  BY <1>1, <1>2

\* this.provider.next(p), on a live pipeline and before it is live.
LEMMA SelectShape ==
    ASSUME NEW k \in Pipes, NEW p \in Providers \cup {None}, IsFiniteSet(subs)
    PROVE  /\ Select(k, p).provider = p
           /\ k.phase # "live" =>
                /\ Select(k, p).view = k.view /\ Select(k, p).wallet = k.wallet
                /\ Select(k, p).clears = k.clears
           /\ k.phase = "live" /\ k.provider = p => Select(k, p) = k
           /\ k.phase = "live" /\ k.provider # p /\ p = None =>
                /\ Select(k, p).wallet = NoWallet
                /\ Select(k, p).view = IF unloading THEN k.view ELSE Disconnected
           /\ k.phase = "live" /\ k.provider # p /\ p # None =>
                /\ Select(k, p).wallet.source = Connecting(p)
                /\ Select(k, p).clears = k.clears
                /\ Select(k, p).view \in {k.view, Connecting(p)}
<1> DEFINE next == [k EXCEPT !.provider = p]
<1>1. /\ next \in Pipes /\ next.provider = p /\ next.view = k.view
      /\ next.wallet = k.wallet /\ next.clears = k.clears
  BY DEF Pipes
<1>2. Select(k, p) = IF k.phase # "live" THEN next
                     ELSE IF k.provider = p THEN k ELSE Switch(next)
  BY DEF Select
<1> HIDE DEF next
<1> QED
  BY <1>1, <1>2, SwitchShape

\* One more subscription: the source starts, or the tap callback of the new
\* subscriber deselects a provider whose disconnection it is handed.
LEMMA ObserveShape ==
    ASSUME NEW k \in Pipes
    PROVE  \/ /\ Observe(k) = k /\ k.phase # "cold"
              /\ k.view = Disconnected => unloading \/ k.provider = None
           \/ /\ k.phase = "cold"
              /\ Observe(k) = [k EXCEPT !.phase = "auto", !.view = Initializing]
           \/ /\ k.phase # "cold" /\ k.view = Disconnected /\ ~unloading
              /\ Observe(k).view = Disconnected /\ Observe(k).phase = k.phase
              /\ Observe(k).provider = None /\ Observe(k).wallet = NoWallet
<1>1. CASE k.phase = "cold"
  BY <1>1 DEF Observe
<1>2. CASE k.phase # "cold" /\ k.view.status # "disconnected"
  BY <1>2, Statuses DEF Observe
<1>3. CASE k.phase # "cold" /\ k.view.status = "disconnected"
  <2>1. Observe(k) = Tap(k, 1) /\ k.view = Disconnected
    BY <1>3, ReportTypes DEF Observe, Pipes
  <2> QED
    BY <1>3, <2>1, TapEffect
<1> QED
  BY <1>1, <1>2, <1>3

-----------------------------------------------------------------------------
(***************************************************************************)
(* The invariant.  The properties of a patient application rest on what is  *)
(* known between its requests: who may select a provider at which time.     *)
(***************************************************************************)

\* before the pipeline is live, only checkAutoConnect selects a provider
Beginning ==
    pipe.phase # "live" =>
        /\ pipe.view = IF pipe.phase = "cold" THEN Nothing ELSE Initializing
        /\ pipe.clears = 0
        /\ leaving = {}
        /\ \A c \in Callers : calls[c].pc = "idle"
        /\ pipe.provider # None => auto.pc = "return"

\* and what it returns is "connecting" for the provider it has selected
Concluding ==
    auto.pc = "return" =>
        auto.result = IF pipe.provider = None THEN Disconnected
                      ELSE Connecting(pipe.provider)

Loading == auto.pc \in {"load", "probe"} => saved = auto.at

\* a live pipeline shows states of the selected provider, which connects once
OwnStates ==
    /\ pipe.phase = "live" => pipe.view.status # "none"
    /\ pipe.wallet.source # Disconnected => pipe.wallet.source.id = pipe.provider
    /\ pipe.view.status = "connected" =>
         pipe.view.id = pipe.provider \/ (pipe.provider = None /\ unloading)
    /\ (/\ pipe.wallet.pending
        /\ pipe.wallet.source.status = "connecting"
        /\ pipe.view.status = "connected") => pipe.view.id # pipe.provider

\* one request at a time; nothing is selected while connect() waits
Requests ==
    /\ \A c \in Callers : calls[c].pc = "waiting" =>
         /\ calls[c].target # None
         /\ pipe.view = Disconnected
         /\ unloading \/ pipe.provider = None
         /\ leaving = {}
         /\ \A d \in Callers : calls[d].pc = "waiting" => d = c
    /\ \A p \in leaving : pipe.provider \in {p, None}

\* with localStorage, an erasure comes before the next selection
Remembered ==
    LocalStorage =>
        /\ pipe.clears > 0 => pipe.provider = None
        /\ pipe.provider # None => saved = pipe.provider

Patience == Beginning /\ Concluding /\ Loading /\ OwnStates /\ Requests /\ Remembered

\* Every step of the connector of a patient application keeps the invariant.
LEMMA PatienceHolds ==
    ASSUME Patient, IInv, Patience, TypeOK', [Next]_vars
    PROVE  Patience'
<1>0. /\ IsFiniteSet(subs) /\ pipe \in Pipes /\ pipe.provider \in Providers \cup {None}
      /\ pipe.wallet \in Wallets /\ pipe.view \in Views /\ pipe.clears \in Nat
      /\ None \notin Providers /\ pipe' \in Pipes
  BY SubscribersFinite DEF IInv, TypeOK, Pipes, Providers, None
<1>1. /\ pipe.phase # "live" => pipe.wallet = NoWallet
      /\ auto.pc # "idle" => pipe.phase = "auto"
      /\ pipe.wallet.pending => pipe.provider \in Mapped
      /\ pipe.provider = None => pipe.wallet = NoWallet
  BY DEF IInv, Sound, WalletSelected, Checking
<1>2. /\ NoWallet.source = Disconnected /\ ~NoWallet.pending
      /\ NotChecking.pc = "idle" /\ Idle.pc = "idle"
  BY DEF NoWallet, NotChecking, Idle
<1>3. CASE /\ UNCHANGED <<pipe, saved, calls, leaving, unloading>>
           /\ auto' = auto
  BY <1>3 DEF Patience, Beginning, Concluding, Loading, OwnStates, Requests, Remembered
<1>4. ASSUME NEW s \in Subscribers, Subscribe(s)
      PROVE  Patience'
  <2>1. /\ pipe' = Observe(pipe) /\ auto' = StartChecking(pipe)
        /\ UNCHANGED <<saved, calls, leaving, unloading>>
    BY <1>4 DEF Subscribe
  <2>2. CASE Observe(pipe) = pipe /\ pipe.phase # "cold"
    BY <1>3, <2>1, <2>2 DEF StartChecking
  <2>3. CASE /\ pipe.phase = "cold"
             /\ Observe(pipe) = [pipe EXCEPT !.phase = "auto", !.view = Initializing]
    <3>1. /\ pipe'.phase = "auto" /\ pipe'.view = Initializing
          /\ pipe'.provider = pipe.provider /\ pipe'.wallet = pipe.wallet
          /\ pipe'.clears = pipe.clears /\ auto'.pc = "scan"
      BY <1>0, <2>1, <2>3 DEF Pipes, StartChecking, NotChecking
    <3>2. pipe.provider = None /\ pipe.wallet = NoWallet
      BY <1>1, <2>3 DEF Patience, Beginning
    <3> QED
      BY <1>2, <2>1, <2>3, <3>1, <3>2, Statuses
         DEF Patience, Beginning, Concluding, Loading, OwnStates, Requests, Remembered
  <2>4. CASE /\ pipe.phase # "cold" /\ pipe.view = Disconnected /\ ~unloading
             /\ Observe(pipe).view = Disconnected /\ Observe(pipe).phase = pipe.phase
             /\ Observe(pipe).provider = None /\ Observe(pipe).wallet = NoWallet
    <3>1. pipe.phase = "live"
      BY <2>4, Statuses DEF Patience, Beginning
    <3>2. auto.pc = "idle" /\ auto' = auto
      BY <1>1, <2>1, <2>4, <3>1 DEF StartChecking
    <3>3. /\ pipe'.phase = "live" /\ pipe'.provider = None
          /\ pipe'.view.status = "disconnected" /\ pipe'.view = pipe.view
          /\ pipe'.wallet.source = Disconnected /\ ~pipe'.wallet.pending
      BY <1>2, <2>1, <2>4, <3>1, Statuses
    <3> QED
      BY <2>1, <3>2, <3>3
         DEF Patience, Beginning, Concluding, Loading, OwnStates, Requests, Remembered
  <2> QED
    BY <1>0, <2>2, <2>3, <2>4, ObserveShape
<1>5. ASSUME NEW s \in Subscribers, Unsubscribe(s)
      PROVE  Patience'
  BY <1>3, <1>5 DEF Unsubscribe
<1>6. ASSUME NEW c \in Callers, NEW p \in Providers, Settled, Connect(c, p)
      PROVE  Patience'
  <2>1. /\ pipe.view.status = "disconnected" /\ leaving = {}
        /\ \A d \in Callers : calls[d].pc = "idle"
        /\ pipe' = Observe(pipe) /\ auto' = StartChecking(pipe)
        /\ UNCHANGED <<saved, leaving, unloading>>
    BY <1>6 DEF Connect, NoRequest
  <2>2. pipe.view = Disconnected /\ pipe.phase = "live" /\ auto.pc = "idle" /\ auto' = auto
    BY <1>0, <1>1, <2>1, ReportTypes, Statuses DEF Patience, Beginning, StartChecking
  <2>3. /\ \A d \in Callers : calls'[d].pc = "waiting" => d = c
        /\ calls'[c].target = p /\ p # None
    BY <1>0, <1>6, <2>1 DEF Connect, IInv, TypeOK
  <2>4. /\ pipe'.phase = "live" /\ pipe'.view = Disconnected
        /\ unloading \/ pipe'.provider = None
        /\ pipe' = pipe \/ (pipe'.provider = None /\ pipe'.wallet = NoWallet)
    BY <1>0, <2>1, <2>2, ObserveShape
  <2>5. OwnStates'
    BY <1>2, <2>1, <2>4, Statuses DEF Patience, OwnStates
  <2>6. Requests' /\ Remembered'
    BY <2>1, <2>3, <2>4 DEF Patience, Requests, Remembered
  <2> QED
    BY <2>1, <2>2, <2>4, <2>5, <2>6 DEF Patience, Beginning, Concluding, Loading
<1>7. ASSUME NEW c \in Callers, Settled, Resume(c)
      PROVE  Patience'
  <2> DEFINE t == calls[c].target
  <2>1. /\ calls[c].pc = "waiting" /\ calls' = [calls EXCEPT ![c] = Idle]
        /\ \/ UNCHANGED <<pipe, saved>>
           \/ pipe' = Select(pipe, t) /\ saved' = t
        /\ UNCHANGED <<subs, auto, leaving, unloading>>
    BY <1>7 DEF Resume
  <2>2. /\ t \in Providers /\ pipe.view = Disconnected /\ leaving = {}
        /\ \A d \in Callers : calls[d].pc = "waiting" => d = c
    BY <1>0, <2>1 DEF Patience, Requests, IInv, TypeOK
  <2>3. \A d \in Callers : calls'[d].pc = "idle"
    BY <1>2, <2>1, <2>2 DEF IInv, TypeOK
  <2>4. pipe.phase = "live" /\ auto.pc = "idle"
    BY <1>1, <2>1 DEF Patience, Beginning
  <2>5. CASE UNCHANGED <<pipe, saved>>
    BY <2>1, <2>2, <2>3, <2>4, <2>5
       DEF Patience, Beginning, Concluding, Loading, OwnStates, Requests, Remembered
  <2>6. CASE pipe' = Select(pipe, t) /\ saved' = t
    <3>1. /\ pipe'.phase = "live" /\ pipe'.provider = t
          /\ pipe'.view \in {Disconnected, Connecting(t)}
          /\ pipe'.clears = pipe.clears
          /\ \/ pipe'.wallet = pipe.wallet /\ pipe.provider = t
             \/ pipe'.wallet.source = Connecting(t)
      <4> HIDE DEF t
      <4>1. Select(pipe, t).phase = "live"
        BY <1>0, <2>2, <2>4, SelectPhase
      <4>2. CASE pipe.provider = t
        <5>1. Select(pipe, t) = pipe
          BY <2>4, <4>2 DEF Select
        <5> QED
          BY <2>2, <2>4, <2>6, <4>2, <5>1
      <4>3. CASE pipe.provider # t
        <5>1. /\ Select(pipe, t).provider = t
              /\ Select(pipe, t).wallet.source = Connecting(t)
              /\ Select(pipe, t).clears = pipe.clears
              /\ Select(pipe, t).view \in {pipe.view, Connecting(t)}
          BY <1>0, <2>2, <2>4, <4>3, SelectShape
        <5> QED
          BY <2>2, <2>6, <4>1, <5>1
      <4> QED
        BY <4>2, <4>3
    <3>2. pipe'.view.status \notin {"none", "connected"} /\ Connecting(t).id = t
      BY <2>2, <3>1, Statuses
    <3>3. OwnStates'
      BY <3>1, <3>2 DEF Patience, OwnStates
    <3>4. Remembered'
      BY <1>0, <1>7, <2>6, <3>1 DEF Remembered, Settled
    <3> QED
      BY <2>1, <2>2, <2>3, <2>4, <3>1, <3>3, <3>4
         DEF Patience, Beginning, Concluding, Loading, Requests
  <2> QED
    BY <2>1, <2>5, <2>6
<1>8. CASE Disconnect
  <2>1. /\ pipe.view.status = "connected" /\ leaving = {}
        /\ \A c \in Callers : calls[c].pc = "idle"
        /\ leaving' = leaving \cup {pipe.view.id}
        /\ UNCHANGED <<pipe, saved, subs, calls, auto, unloading>>
    BY <1>8 DEF Disconnect, NoRequest
  <2>2. pipe.view.id = pipe.provider \/ pipe.provider = None
    BY <2>1 DEF Patience, OwnStates
  <2>3. pipe.phase = "live"
    BY <2>1, Statuses DEF Patience, Beginning
  <2> QED
    BY <2>1, <2>2, <2>3
       DEF Patience, Beginning, Concluding, Loading, OwnStates, Requests, Remembered
<1>9. ASSUME NEW p \in leaving, Settled, DisconnectDone(p)
      PROVE  Patience'
  <2>1. /\ leaving' = leaving \ {p} /\ pipe' = Select(pipe, None)
        /\ UNCHANGED <<saved, subs, calls, auto, unloading>>
    BY <1>9 DEF DisconnectDone
  <2>2. pipe.phase = "live" /\ auto.pc = "idle"
    BY <1>1 DEF Patience, Beginning
  <2>3. \A c \in Callers : calls[c].pc # "waiting"
    BY DEF Patience, Requests
  <2>4. /\ pipe'.phase = "live" /\ pipe'.provider = None
        /\ pipe'.wallet = NoWallet
        /\ \/ pipe'.view = Disconnected
           \/ pipe'.view = pipe.view /\ unloading
           \/ pipe' = pipe
    <3>1. Select(pipe, None).phase = "live"
      BY <1>0, <2>2, SelectPhase
    <3>2. CASE pipe.provider = None
      <4>1. Select(pipe, None) = pipe
        BY <2>2, <3>2 DEF Select
      <4> QED
        BY <1>1, <2>1, <2>2, <3>2, <4>1
    <3>3. CASE pipe.provider # None
      <4>1. /\ Select(pipe, None).provider = None
            /\ Select(pipe, None).wallet = NoWallet
            /\ \/ Select(pipe, None).view = Disconnected
               \/ Select(pipe, None).view = pipe.view /\ unloading
        BY <1>0, <2>2, <3>3, SelectShape
      <4> QED
        BY <2>1, <3>1, <4>1
    <3> QED
      BY <3>2, <3>3
  <2>5. OwnStates'
    BY <1>2, <2>1, <2>2, <2>4, Statuses DEF Patience, OwnStates
  <2> QED
    BY <2>1, <2>2, <2>3, <2>4, <2>5
       DEF Patience, Beginning, Concluding, Loading, Requests, Remembered
<1>10. CASE BeforeUnload
  BY <1>10 DEF BeforeUnload, Patience, Beginning, Concluding, Loading, OwnStates,
               Requests, Remembered
<1>11. CASE Reload
  <2>1. /\ pipe' = ColdPipe /\ auto' = NotChecking /\ leaving' = {}
        /\ \A c \in Callers : calls'[c].pc = "idle"
        /\ UNCHANGED saved
    BY <1>2, <1>11 DEF Reload
  <2>2. /\ ColdPipe.view = Nothing /\ ColdPipe.clears = 0 /\ ColdPipe.provider = None
        /\ ColdPipe.wallet = NoWallet /\ ColdPipe.phase = "cold"
    BY DEF ColdPipe
  <2> QED
    BY <1>2, <2>1, <2>2, Statuses
       DEF Patience, Beginning, Concluding, Loading, OwnStates, Requests, Remembered
\* a state of the selected wallet arrives, or starts to be mapped
<1>12. ASSUME NEW k \in Pipes, NEW c \in Reports, Settled,
              pipe.phase = "live", pipe.provider # None,
              k.phase = "live", k.provider = pipe.provider, k.view = pipe.view,
              k.clears = pipe.clears,
              k.wallet.source # Disconnected => k.wallet.source.id = pipe.provider,
              ~(k.wallet.pending /\ k.wallet.source.status = "connecting"),
              c # Disconnected => c.id = pipe.provider,
              pipe' = k \/ pipe' = Emit(k, c),
              UNCHANGED <<saved, calls, auto, leaving, unloading>>
       PROVE  Patience'
  <2>1. pipe'.phase = "live" /\ auto.pc = "idle"
    BY <1>0, <1>1, <1>12, EmitEffect
  <2>2. \/ /\ pipe'.view = pipe.view /\ pipe'.provider = pipe.provider
           /\ pipe'.wallet = k.wallet /\ pipe'.clears = pipe.clears
        \/ /\ pipe'.view = c /\ pipe'.provider = pipe.provider
           /\ pipe'.wallet = k.wallet /\ pipe'.clears = pipe.clears
           /\ ~unloading
        \/ /\ pipe'.view = Disconnected /\ pipe'.provider = None
           /\ pipe'.wallet = NoWallet /\ ~unloading
    BY <1>0, <1>12, EmitShape
  <2>3. OwnStates'
    BY <1>2, <1>12, <2>2, Statuses DEF Patience, OwnStates
  <2>4. \A d \in Callers : calls[d].pc = "waiting" => unloading
    BY <1>12 DEF Patience, Requests
  <2>5. Requests'
    BY <1>12, <2>2, <2>4 DEF Patience, Requests
  <2>6. Remembered'
    BY <1>0, <1>12, <2>2 DEF Patience, Remembered
  <2> QED
    BY <1>12, <2>1, <2>3, <2>5, <2>6 DEF Patience, Beginning, Concluding, Loading
<1>13. ASSUME NEW c \in Reports, c = Disconnected \/ c.status = "connected",
              c # Disconnected => c.id = pipe.provider,
              Settled, WalletReports(c)
       PROVE  Patience'
  <2> DEFINE mapping == pipe.provider \in Mapped
             next == [pipe EXCEPT !.wallet = [source |-> c, pending |-> mapping,
                                              ended |-> FALSE]]
  <2>1. /\ next \in Pipes /\ next.provider = pipe.provider
        /\ next.phase = pipe.phase /\ next.view = pipe.view
        /\ next.clears = pipe.clears /\ next.wallet.source = c
    <3>1. [source |-> c, pending |-> mapping, ended |-> FALSE] \in Wallets
      BY DEF Wallets
    <3> QED
      BY <1>0, <3>1 DEF Pipes
  <2>2. /\ pipe.phase = "live" /\ pipe.provider # None
        /\ pipe' = next \/ pipe' = Emit(next, c)
        /\ UNCHANGED <<saved, calls, auto, leaving, unloading>>
    BY <1>13 DEF WalletReports
  <2> HIDE DEF next
  <2>3. ~(next.wallet.pending /\ next.wallet.source.status = "connecting")
    BY <1>13, <2>1, Statuses
  <2> QED
    BY <1>12, <1>13, <2>1, <2>2, <2>3
<1>14. ASSUME Settled, MapperResolves
       PROVE  Patience'
  <2> DEFINE next == [pipe EXCEPT !.wallet.pending = FALSE]
             c == pipe.wallet.source
  <2>1. /\ next \in Pipes /\ next.provider = pipe.provider
        /\ next.phase = pipe.phase /\ next.view = pipe.view
        /\ next.clears = pipe.clears /\ next.wallet.source = c
        /\ ~next.wallet.pending /\ c \in Reports
    BY <1>0 DEF Pipes, Wallets
  <2>2. /\ pipe.wallet.pending /\ pipe' = Emit(next, c)
        /\ UNCHANGED <<saved, calls, auto, leaving, unloading>>
    BY <1>14 DEF MapperResolves
  <2>3. pipe.phase = "live" /\ pipe.provider # None
    BY <1>1, <1>2, <2>2
  <2>4. c # Disconnected => c.id = pipe.provider
    BY DEF Patience, OwnStates
  <2> HIDE DEF next, c
  <2> QED
    BY <1>12, <1>14, <2>1, <2>2, <2>3, <2>4
<1>15. ASSUME Settled, WalletFails
       PROVE  Patience'
  <2> DEFINE next == [pipe EXCEPT !.wallet = NoWallet]
  <2>1. /\ next \in Pipes /\ next.provider = pipe.provider
        /\ next.phase = pipe.phase /\ next.view = pipe.view
        /\ next.clears = pipe.clears /\ next.wallet = NoWallet
    BY <1>0, InitialTypes DEF Pipes
  <2>2. /\ pipe' = Emit(next, Disconnected)
        /\ pipe.phase = "live" /\ pipe.provider # None
        /\ UNCHANGED <<saved, calls, auto, leaving, unloading>>
    BY <1>15 DEF WalletFails
  <2> HIDE DEF next
  <2> QED
    BY <1>2, <1>12, <1>15, <2>1, <2>2, ReportTypes
\* checkAutoConnect, before the pipeline is live
<1>16. ASSUME auto.pc # "idle"
       PROVE  /\ pipe.phase = "auto" /\ pipe.wallet = NoWallet
              /\ pipe.view.status # "connected" /\ pipe.clears = 0
              /\ leaving = {} /\ \A c \in Callers : calls[c].pc = "idle"
              /\ auto.pc # "return" => pipe.provider = None
  BY <1>1, <1>16, Statuses DEF Patience, Beginning
<1>17. ASSUME auto.pc # "idle", auto.pc # "return",
              pipe' = pipe, UNCHANGED <<calls, leaving>>,
              auto'.pc = "return" => auto'.result = Disconnected,
              Loading'
       PROVE  Patience'
  BY <1>2, <1>16, <1>17
     DEF Patience, Beginning, Concluding, OwnStates, Requests, Remembered
<1>18. ASSUME auto.pc \in {"scan", "probe"},
              pipe' = Select(pipe, auto.at), Conclude(Connecting(auto.at)),
              saved' = auto.at, UNCHANGED <<calls, leaving, unloading>>
       PROVE  Patience'
  <2>1. auto.at \in Providers
    BY <1>18 DEF IInv, TypeOK
  <2>2. /\ pipe'.phase = "auto" /\ pipe'.provider = auto.at
        /\ pipe'.view = pipe.view /\ pipe'.wallet = NoWallet /\ pipe'.clears = 0
    <3>1. pipe.phase = "auto" /\ pipe.wallet = NoWallet /\ pipe.clears = 0
      BY <1>16, <1>18
    <3> QED
      BY <1>0, <1>18, <2>1, <3>1, SelectShape, SelectPhase
  <2>3. auto'.pc = "return" /\ auto'.result = Connecting(auto.at) /\ auto.at # None
    BY <1>0, <1>18, <2>1 DEF Conclude
  <2> QED
    BY <1>2, <1>16, <1>18, <2>2, <2>3
       DEF Patience, Beginning, Concluding, Loading, OwnStates, Requests, Remembered
<1>19. ASSUME Settled, Scan
       PROVE  Patience'
  <2>1. /\ auto.pc = "scan" /\ UNCHANGED <<calls, leaving, unloading>>
        /\ auto \in [pc : {"idle", "scan", "load", "probe", "log", "return"},
                     at : Providers \cup {None, Foreign}, result : Reports]
    BY <1>19 DEF Scan, IInv, TypeOK
  <2>2. CASE /\ pipe' = Select(pipe, auto.at) /\ saved' = auto.at
             /\ Conclude(Connecting(auto.at))
    BY <1>18, <2>1, <2>2
  <2>3. CASE UNCHANGED <<pipe, saved>> /\ auto' = [auto EXCEPT !.at = @ + 1]
    BY <1>17, <2>1, <2>3 DEF Loading
  <2>4. CASE UNCHANGED <<pipe, saved>> /\ auto' = [auto EXCEPT !.pc = "load", !.at = saved]
    BY <1>17, <2>1, <2>4 DEF Loading
  <2>5. CASE UNCHANGED <<pipe, saved>> /\ Conclude(Disconnected)
    BY <1>17, <2>1, <2>5 DEF Loading, Conclude
  <2> QED
    BY <1>19, <2>2, <2>3, <2>4, <2>5 DEF Scan
<1>20. ASSUME Settled, Load
       PROVE  Patience'
  <2>1. /\ auto'.pc = "return" => auto'.result = Disconnected
        /\ auto.pc = "load" /\ UNCHANGED <<pipe, calls, leaving>>
        /\ Loading'
    BY <1>20 DEF Load, Conclude, Patience, Loading, IInv, TypeOK
  <2> QED
    BY <1>17, <2>1
<1>21. ASSUME Settled, Probe
       PROVE  Patience'
  <2>1. auto.pc = "probe" /\ saved = auto.at /\ UNCHANGED <<calls, leaving, unloading>>
    BY <1>21 DEF Probe, Patience, Loading
  <2>2. CASE pipe' = Select(pipe, auto.at) /\ Conclude(Connecting(auto.at)) /\ UNCHANGED saved
    BY <1>18, <2>1, <2>2
  <2>3. CASE UNCHANGED pipe /\ Conclude(Disconnected)
    BY <1>17, <2>1, <2>3 DEF Conclude, Loading
  <2>4. CASE UNCHANGED pipe /\ auto' = [auto EXCEPT !.pc = "log"]
    BY <1>17, <2>1, <2>4 DEF Loading, IInv, TypeOK
  <2> QED
    BY <1>21, <2>2, <2>3, <2>4 DEF Probe
<1>22. ASSUME Settled, Log
       PROVE  Patience'
  <2>1. auto.pc = "log" /\ UNCHANGED <<saved, calls, leaving, unloading>>
    BY <1>22 DEF Log
  <2>2. CASE Conclude(Disconnected) /\ UNCHANGED pipe
    BY <1>17, <2>1, <2>2 DEF Conclude, Loading
  <2>3. CASE /\ auto' = NotChecking
             /\ pipe' = [pipe EXCEPT !.phase = "cold", !.view = Nothing]
    <3>1. /\ pipe'.phase = "cold" /\ pipe'.view = Nothing
          /\ pipe'.provider = None /\ pipe'.wallet = NoWallet /\ pipe'.clears = 0
      BY <1>0, <1>16, <2>1, <2>3 DEF Pipes
    <3> QED
      BY <1>2, <1>16, <2>1, <2>3, <3>1, Statuses
         DEF Patience, Beginning, Concluding, Loading, OwnStates, Requests, Remembered
  <2> QED
    BY <1>22, <2>2, <2>3 DEF Log
\* the pipeline becomes live with the provider checkAutoConnect has selected
<1>23. ASSUME Settled, Return
       PROVE  Patience'
  <2> DEFINE e == Emit(pipe, auto.result)
             next == [e EXCEPT !.phase = "live"]
  <2>1. /\ auto.pc = "return" /\ auto' = NotChecking /\ pipe' = Switch(next)
        /\ UNCHANGED <<saved, calls, leaving, unloading>>
        /\ auto.result \in Reports
    BY <1>23 DEF Return, IInv, TypeOK
  <2>2. /\ e \in Pipes /\ next \in Pipes /\ next.phase = "live"
        /\ next.view = e.view /\ next.provider = e.provider
        /\ next.clears = e.clears
    <3>1. e \in Pipes
      BY <1>0, <2>1, EmitType
    <3> QED
      BY <3>1 DEF Pipes
  <2>3. /\ auto.result = IF pipe.provider = None THEN Disconnected
                         ELSE Connecting(pipe.provider)
        /\ pipe.view = Initializing /\ pipe.clears = 0
    BY <1>16, <2>1 DEF Patience, Beginning, Concluding
  <2>4. /\ e.provider = pipe.provider
        /\ e.view.status \notin {"none", "connected"}
        /\ pipe.provider # None => e.clears = 0
    <3>1. auto.result = Disconnected => pipe.provider = None
      BY <1>0, <2>3, Statuses
    <3> QED
      BY <1>0, <2>1, <2>3, <3>1, EmitShape, Statuses
  <2> HIDE DEF e, next
  <2>5. /\ pipe'.phase = "live" /\ pipe'.provider = pipe.provider
        /\ pipe'.view.status \notin {"none", "connected"}
        /\ pipe.provider = None => pipe'.wallet = NoWallet
        /\ pipe.provider # None => /\ pipe'.wallet.source = Connecting(pipe.provider)
                                   /\ pipe'.clears = 0
    BY <1>0, <2>1, <2>2, <2>4, SwitchShape, SwitchPhase, Statuses
  <2>6. OwnStates'
    BY <1>0, <1>2, <2>5, Statuses DEF OwnStates
  <2>7. Requests'
    BY <1>16, <2>1 DEF Requests
  <2>8. Remembered'
    BY <1>0, <2>1, <2>5 DEF Patience, Remembered
  <2> QED
    BY <1>2, <2>1, <2>5, <2>6, <2>7, <2>8 DEF Patience, Beginning, Concluding, Loading
<1>24. CASE Forget
  <2>1. /\ pipe'.phase = pipe.phase /\ pipe'.view = pipe.view
        /\ pipe'.provider = pipe.provider /\ pipe'.wallet = pipe.wallet
        /\ pipe.clears > 0 /\ saved' = None
        /\ pipe'.clears = pipe.clears - 1
        /\ UNCHANGED <<calls, auto, leaving, unloading>>
    BY <1>0, <1>24 DEF Forget, Pipes
  <2>2. pipe.phase = "live" /\ auto.pc = "idle"
    BY <1>1, <1>16, <2>1 DEF Patience, Beginning
  <2> QED
    BY <1>0, <2>1, <2>2
       DEF Patience, Beginning, Concluding, Loading, OwnStates, Requests, Remembered
<1>25. CASE UNCHANGED vars
  BY <1>3, <1>25 DEF vars
<1>26. CASE Settled /\ Application
  BY <1>4, <1>5, <1>6, <1>8, <1>10, <1>26 DEF Application
<1>27. CASE Settled /\ WalletAnswers
  <2>1. CASE WalletReports(Disconnected)
    BY <1>13, <1>27, <2>1, ReportTypes
  <2>2. ASSUME NEW a \in Accounts, WalletReports(Connected(pipe.provider, a))
        PROVE  Patience'
    <3>1. /\ Connected(pipe.provider, a) \in Reports
          /\ Connected(pipe.provider, a).status = "connected"
          /\ Connected(pipe.provider, a).id = pipe.provider
      BY <1>0, <2>2, ReportTypes, Statuses DEF WalletReports
    <3> QED
      BY <1>13, <1>27, <2>2, <3>1
  <2> QED
    BY <1>27, <2>1, <2>2 DEF WalletAnswers
<1>28. CASE Settled /\ Continuations
  BY <1>7, <1>9, <1>14, <1>19, <1>20, <1>21, <1>22, <1>23, <1>28
     DEF Continuations, CheckAutoConnect
<1> QED
  BY <1>11, <1>15, <1>24, <1>25, <1>26, <1>27, <1>28 DEF Next

\* A patient application starts out patiently.
LEMMA PatienceBegins == Init => Patience
<1> SUFFICES ASSUME Init
             PROVE  Patience
  OBVIOUS
<1>1. /\ pipe.phase = "cold" /\ pipe.view = Nothing
      /\ pipe.clears = 0 /\ pipe.provider = None
      /\ pipe.wallet.source = Disconnected /\ ~pipe.wallet.pending
  BY DEF Init, ColdPipe, NoWallet
<1>2. /\ auto.pc = "idle" /\ leaving = {}
      /\ \A c \in Callers : calls[c].pc = "idle"
  BY DEF Init, NotChecking, Idle
<1> QED
  BY <1>1, <1>2, Statuses
     DEF Patience, Beginning, Concluding, Loading, OwnStates, Requests, Remembered

\* The invariant of patient applications.
THEOREM StaysPatient == ASSUME Patient PROVE Spec => []Patience
<1>1. IInv /\ Patience /\ TypeOK' /\ [Next]_vars => Patience'
  BY PatienceHolds
<1> QED
  BY <1>1, PatienceBegins, TypeCorrect, SoundPipeline, PTL DEF Spec

-----------------------------------------------------------------------------
(* The properties of a patient application.                                 *)

\* With localStorage, the id kept for the next page load is that of the wallet
\* shown as connected (connector.ts:209, 281-282).
THEOREM ConnectedIsSaved ==
    ASSUME Patient, LocalStorage
    PROVE  Spec => []SavedIsConnected
<1>1. ASSUME IInv, Patience, Live, pipe.view.status = "connected"
      PROVE  saved = pipe.view.id
  <2>1. pipe.provider # None
    BY <1>1, Statuses DEF IInv, Sound, Tracks, Live
  <2> QED
    BY <1>1, <2>1 DEF Patience, OwnStates, Remembered
<1>2. IInv /\ Patience => SavedIsConnected
  BY <1>1 DEF SavedIsConnected
<1> QED
  BY <1>2, SoundPipeline, StaysPatient, PTL

\* A selected wallet that has begun to connect is deselected only when it was
\* disconnected or failed, or with the page (connector.ts:160, 168).
THEOREM DeselectsForCause ==
    ASSUME Patient
    PROVE  Spec => NoSpuriousDeselect
<1> DEFINE Cause ==
             \/ Live /\ pipe.wallet.source.status = "disconnected"
             \/ WalletReports(Disconnected)
             \/ WalletFails
             \/ DisconnectDone(pipe.provider)
             \/ Reload
<1>1. ASSUME IInv, Patience, [Next]_vars, Deselected, ~pipe.wallet.pending
      PROVE  Cause
  <2>0. /\ IsFiniteSet(subs) /\ pipe \in Pipes /\ pipe.provider # None
        /\ pipe'.provider = None /\ pipe.view \in Views
        /\ pipe.wallet \in Wallets /\ None \notin Providers
    BY <1>1, SubscribersFinite DEF IInv, TypeOK, Pipes, Deselected, Providers, None
  <2>1. ASSUME pipe' = Observe(pipe)
        PROVE  Cause
    <3>1. CASE Observe(pipe) = pipe
      BY <2>0, <2>1, <3>1
    <3>2. CASE Observe(pipe) = [pipe EXCEPT !.phase = "auto", !.view = Initializing]
      BY <2>0, <2>1, <3>2 DEF Pipes
    <3>3. CASE pipe.phase # "cold" /\ pipe.view = Disconnected /\ ~unloading
      <4>1. Live
        BY <1>1, <3>3, Statuses DEF Patience, Beginning, Live
      <4>2. Same(pipe.view, pipe.wallet.source)
        BY <1>1, <2>0, <4>1 DEF IInv, Sound, Tracks, Live
      <4> QED
        BY <3>3, <4>1, <4>2, Statuses DEF Same
    <3> QED
      BY <2>0, <3>1, <3>2, <3>3, ObserveShape
  <2>2. ASSUME NEW p \in Providers, pipe' = Select(pipe, p)
        PROVE  FALSE
    BY <2>0, <2>2, SelectShape
  <2>3. CASE Application
    BY <2>0, <2>1, <2>3
       DEF Application, Subscribe, Unsubscribe, Connect, Disconnect, BeforeUnload
  <2>4. ASSUME NEW a \in Accounts, WalletReports(Connected(pipe.provider, a))
        PROVE  FALSE
    <3> DEFINE c == Connected(pipe.provider, a)
               mapping == pipe.provider \in Mapped
               next == [pipe EXCEPT !.wallet = [source |-> c, pending |-> mapping,
                                                ended |-> FALSE]]
    <3>1. pipe.provider \in Providers
      BY <2>0 DEF Pipes
    <3>2. c \in Reports /\ c # Disconnected
      BY <3>1, ReportTypes, Statuses
    <3>3. next \in Pipes /\ next.provider = pipe.provider
      <4> HIDE DEF c
      <4>1. [source |-> c, pending |-> mapping, ended |-> FALSE] \in Wallets
        BY <3>2 DEF Wallets
      <4> QED
        BY <2>0, <4>1 DEF Pipes
    <3>4. pipe' = next \/ pipe' = Emit(next, c)
      BY <2>4 DEF WalletReports
    <3> HIDE DEF next, c
    <3> QED
      BY <2>0, <3>2, <3>3, <3>4, EmitShape
  <2>5. CASE WalletAnswers \/ WalletFails
    BY <2>4, <2>5 DEF WalletAnswers
  <2>6. ASSUME NEW c \in Callers, Resume(c)
        PROVE  FALSE
    <3>1. calls[c].target \in Providers
      BY <1>1, <2>6 DEF IInv, TypeOK, Patience, Requests, Resume
    <3> QED
      BY <2>0, <2>2, <2>6, <3>1 DEF Resume
  <2>7. ASSUME NEW p \in leaving, DisconnectDone(p)
        PROVE  Cause
    <3>1. p = pipe.provider
      BY <1>1, <2>0 DEF Patience, Requests
    <3> QED
      BY <2>7, <3>1
  <2>8. ~MapperResolves
    BY <1>1 DEF MapperResolves
  <2>9. CASE Scan \/ Probe
    <3>1. auto.at \in Providers
      BY <1>1, <2>9 DEF IInv, TypeOK, Scan, Probe
    <3> QED
      BY <2>0, <2>2, <2>9, <3>1 DEF Scan, Probe
  <2>10. ~Load
    BY <2>0 DEF Load
  <2>11. ~Log
    BY <2>0 DEF Log, Pipes
  <2>12. ~Return
    <3> SUFFICES ASSUME Return
                 PROVE  FALSE
      OBVIOUS
    <3> DEFINE e == Emit(pipe, auto.result)
               next == [e EXCEPT !.phase = "live"]
    <3>1. /\ auto.result = Connecting(pipe.provider) /\ auto.result \in Reports
          /\ pipe.provider \in Providers
      BY <1>1, <2>0 DEF Return, Patience, Concluding, IInv, TypeOK, Pipes
    <3>2. auto.result # Disconnected
      BY <3>1, Statuses
    <3>3. e \in Pipes /\ e.provider = pipe.provider
      BY <2>0, <3>1, <3>2, EmitType, EmitShape
    <3>4. next \in Pipes /\ next.provider = pipe.provider
      BY <3>3 DEF Pipes
    <3>5. pipe' = Switch(next)
      BY DEF Return
    <3> HIDE DEF next
    <3> QED
      BY <2>0, <3>4, <3>5, SwitchShape
  <2>13. ~Forget
    BY <2>0 DEF Forget, Pipes
  <2>14. ~UNCHANGED vars
    BY <2>0 DEF vars
  <2>15. CASE Continuations
    BY <2>6, <2>7, <2>8, <2>9, <2>10, <2>11, <2>12, <2>15
       DEF Continuations, CheckAutoConnect
  <2> QED
    BY <1>1, <2>3, <2>5, <2>13, <2>14, <2>15 DEF Next
<1>2. IInv /\ Patience /\ [Next]_vars =>
        [Deselected /\ ~pipe.wallet.pending => Cause]_vars
  BY <1>1
<1> QED
  BY <1>2, SoundPipeline, StaysPatient, PTL DEF Spec, NoSpuriousDeselect

-----------------------------------------------------------------------------
(* The contract.                                                            *)

\* States are those of the contract.
LEMMA ContractStates ==
    /\ Nothing = Contract!State("none", None, None)
    /\ Initializing = Contract!State("initializing", None, None)
    /\ Disconnected = Contract!State("disconnected", None, None)
    /\ \A p \in Providers : Connecting(p) = Contract!State("connecting", p, None)
    /\ \A p \in Providers, a \in Accounts :
         Connected(p, a) = Contract!State("connected", p, a)
  BY DEF Contract!State, Report, Nothing, Initializing, Disconnected,
         Connecting, Connected

\* A step of a patient connector is a step of its contract, or changes neither
\* the selected provider nor what is shown.
LEMMA ContractStep ==
    ASSUME Patient, IInv, Patience, pipe' \in Pipes, [Next]_vars
    PROVE  [Contract!Next]_<<pipe.provider, pipe.view>>
<1> DEFINE Kept == UNCHANGED <<pipe.provider, pipe.view>>
           Goal == [Contract!Next]_<<pipe.provider, pipe.view>>
<1> SUFFICES Goal
  OBVIOUS
<1>0. /\ IsFiniteSet(subs) /\ pipe \in Pipes /\ pipe.view \in Views
      /\ pipe.wallet \in Wallets /\ None \notin Providers
      /\ pipe.provider # None => pipe.provider \in Providers
  BY SubscribersFinite DEF IInv, TypeOK, Pipes, Providers, None
<1>1. CASE Kept
  BY <1>1
<1>2. CASE pipe' = pipe
  BY <1>1, <1>2
\* the steps of the contract
<1>3. ASSUME pipe.view = Nothing, pipe'.view = Initializing,
             pipe'.provider = pipe.provider
      PROVE  Goal
  <2>1. Contract!Begin
    BY <1>3, ContractStates, Statuses DEF Contract!Begin
  <2> QED
    BY <2>1 DEF Contract!Next
<1>4. ASSUME NEW p \in Providers, pipe'.provider = p,
             pipe'.view \in {pipe.view, Connecting(p)}
      PROVE  Goal
  <2>1. Contract!Choose(p)
    BY <1>4, ContractStates DEF Contract!Choose
  <2> QED
    BY <2>1 DEF Contract!Next
<1>5. ASSUME pipe.provider # None, pipe'.provider = pipe.provider,
             ~(pipe.view.status = "connected" /\ pipe.view.id = pipe.provider),
             pipe'.view = Connecting(pipe.provider)
      PROVE  Goal
  <2>1. CASE pipe.view = Connecting(pipe.provider)
    BY <1>1, <1>5, <2>1
  <2>2. CASE pipe.view # Connecting(pipe.provider)
    <3>1. Contract!ShowConnecting
      BY <1>0, <1>5, <2>2, ContractStates DEF Contract!ShowConnecting
    <3> QED
      BY <3>1 DEF Contract!Next
  <2> QED
    BY <2>1, <2>2
<1>6. ASSUME NEW a \in Accounts,
             pipe.provider # None, pipe'.provider = pipe.provider,
             pipe.view.status # "none", pipe'.view = Connected(pipe.provider, a)
      PROVE  Goal
  <2>1. Contract!ShowConnected(a)
    BY <1>0, <1>6, ContractStates DEF Contract!ShowConnected
  <2> QED
    BY <2>1 DEF Contract!Next
<1>7. ASSUME pipe.view.status # "none", pipe'.view = Disconnected,
             pipe'.provider \in {pipe.provider, None}
      PROVE  Goal
  <2>1. Contract!ShowDisconnected
    BY <1>7, ContractStates DEF Contract!ShowDisconnected
  <2> QED
    BY <2>1 DEF Contract!Next
<1>8. ASSUME pipe'.provider = None, pipe'.view = pipe.view
      PROVE  Goal
  <2>1. Contract!Drop
    BY <1>8 DEF Contract!Drop
  <2> QED
    BY <2>1 DEF Contract!Next
<1>9. ASSUME pipe'.view = Nothing, pipe'.provider \in {pipe.provider, None}
      PROVE  Goal
  <2>1. Contract!Restart
    BY <1>9, ContractStates DEF Contract!Restart
  <2> QED
    BY <2>1 DEF Contract!Next
<1> HIDE DEF Goal
\* the actions of the connector
<1>10. ASSUME pipe' = Observe(pipe)
       PROVE  Goal
  <2>1. CASE Observe(pipe) = pipe
    BY <1>2, <1>10, <2>1
  <2>2. CASE /\ pipe.phase = "cold"
             /\ Observe(pipe) = [pipe EXCEPT !.phase = "auto", !.view = Initializing]
    <3>1. /\ pipe.view = Nothing /\ pipe'.view = Initializing
          /\ pipe'.provider = pipe.provider
      BY <1>0, <1>10, <2>2 DEF Patience, Beginning, Pipes
    <3> QED
      BY <1>3, <3>1
  <2>3. CASE /\ pipe.view = Disconnected
             /\ Observe(pipe).view = Disconnected /\ Observe(pipe).provider = None
    BY <1>8, <1>10, <2>3
  <2> QED
    BY <1>0, <2>1, <2>2, <2>3, ObserveShape
<1>11. CASE Application
  BY <1>2, <1>10, <1>11
     DEF Application, Subscribe, Unsubscribe, Connect, Disconnect, BeforeUnload
<1>12. ASSUME NEW p \in Providers, pipe' = Select(pipe, p)
       PROVE  Goal
  <2>1. pipe'.provider = p
    BY <1>0, <1>12, SelectShape
  <2>2. CASE pipe.phase # "live" \/ pipe.provider = p
    <3>1. pipe'.view = pipe.view
      BY <1>0, <1>12, <2>2, SelectShape
    <3> QED
      BY <1>4, <2>1, <3>1
  <2>3. CASE pipe.phase = "live" /\ pipe.provider # p
    <3>1. pipe'.view \in {pipe.view, Connecting(p)}
      BY <1>0, <1>12, <2>3, SelectShape
    <3> QED
      BY <1>4, <2>1, <3>1
  <2> QED
    BY <2>2, <2>3
<1>13. ASSUME NEW c \in Callers, Resume(c)
       PROVE  Goal
  <2>1. calls[c].target \in Providers
    BY <1>13 DEF IInv, TypeOK, Patience, Requests, Resume
  <2> QED
    BY <1>2, <1>12, <1>13, <2>1 DEF Resume
<1>14. ASSUME NEW p \in leaving, DisconnectDone(p)
       PROVE  Goal
  <2>1. pipe.phase = "live" /\ pipe.view.status # "none"
    BY DEF Patience, Beginning, OwnStates
  <2>2. pipe' = Select(pipe, None)
    BY <1>14 DEF DisconnectDone
  <2>3. CASE pipe.provider = None
    BY <1>2, <2>1, <2>2, <2>3 DEF Select
  <2>4. CASE pipe.provider # None
    <3>1. /\ Select(pipe, None).provider = None
          /\ Select(pipe, None).view \in {pipe.view, Disconnected}
      BY <1>0, <2>1, <2>4, SelectShape
    <3> QED
      BY <1>7, <1>8, <2>1, <2>2, <3>1
  <2> QED
    BY <2>3, <2>4
<1>15. CASE Reload
  <2>1. pipe'.view = Nothing /\ pipe'.provider = None
    BY <1>15 DEF Reload, ColdPipe
  <2> QED
    BY <1>9, <2>1
\* a state of the selected wallet arrives, or starts to be mapped
<1>16. ASSUME NEW k \in Pipes, NEW c \in Reports,
              pipe.phase = "live", pipe.provider # None,
              k.provider = pipe.provider, k.view = pipe.view,
              c # Disconnected => c.id = pipe.provider,
              (pipe.view.status = "connected" /\ pipe.view.id = pipe.provider)
                => c.status # "connecting",
              pipe' = k \/ pipe' = Emit(k, c)
       PROVE  Goal
  <2>1. pipe.view.status # "none" /\ pipe.provider \in Providers
    BY <1>0, <1>16 DEF Patience, OwnStates
  <2>2. CASE pipe' = k
    BY <1>1, <1>16, <2>2
  <2>3. CASE pipe'.view = c /\ pipe'.provider = pipe.provider
    <3>1. \/ c = Disconnected
          \/ c = Connecting(pipe.provider)
          \/ \E a \in Accounts : c = Connected(pipe.provider, a)
      BY <1>16, <2>1, Statuses DEF Reports
    <3>2. c = Connecting(pipe.provider) => c.status = "connecting"
      BY <2>1, Statuses
    <3> QED
      BY <1>5, <1>6, <1>7, <1>16, <2>1, <2>3, <3>1, <3>2
  <2>4. CASE pipe'.view = Disconnected /\ pipe'.provider = None
    BY <1>7, <2>1, <2>4
  <2>5. \/ Emit(k, c) = k
        \/ Emit(k, c).view = c /\ Emit(k, c).provider = pipe.provider
        \/ Emit(k, c).view = Disconnected /\ Emit(k, c).provider = None
    BY <1>0, <1>16, EmitShape
  <2> QED
    BY <1>16, <2>2, <2>3, <2>4, <2>5
<1>17. ASSUME NEW c \in Reports, c = Disconnected \/ c.status = "connected",
              c # Disconnected => c.id = pipe.provider, WalletReports(c)
       PROVE  Goal
  <2> DEFINE mapping == pipe.provider \in Mapped
             next == [pipe EXCEPT !.wallet = [source |-> c, pending |-> mapping,
                                              ended |-> FALSE]]
  <2>1. next \in Pipes /\ next.provider = pipe.provider /\ next.view = pipe.view
    <3>1. [source |-> c, pending |-> mapping, ended |-> FALSE] \in Wallets
      BY DEF Wallets
    <3> QED
      BY <1>0, <3>1 DEF Pipes
  <2>2. /\ pipe.phase = "live" /\ pipe.provider # None
        /\ pipe' = next \/ pipe' = Emit(next, c)
    BY <1>17 DEF WalletReports
  <2>3. c.status # "connecting"
    BY <1>17, Statuses
  <2> HIDE DEF next
  <2> QED
    BY <1>16, <1>17, <2>1, <2>2, <2>3
<1>18. CASE WalletAnswers
  <2>1. CASE WalletReports(Disconnected)
    BY <1>17, <2>1, ReportTypes
  <2>2. ASSUME NEW a \in Accounts, WalletReports(Connected(pipe.provider, a))
        PROVE  Goal
    <3>1. /\ Connected(pipe.provider, a) \in Reports
          /\ Connected(pipe.provider, a).status = "connected"
          /\ Connected(pipe.provider, a).id = pipe.provider
      BY <1>0, <2>2, ReportTypes, Statuses DEF WalletReports
    <3> QED
      BY <1>17, <2>2, <3>1
  <2> QED
    BY <1>18, <2>1, <2>2 DEF WalletAnswers
<1>19. CASE MapperResolves
  <2> DEFINE next == [pipe EXCEPT !.wallet.pending = FALSE]
             c == pipe.wallet.source
  <2>1. /\ next \in Pipes /\ next.provider = pipe.provider
        /\ next.view = pipe.view /\ c \in Reports
    BY <1>0 DEF Pipes, Wallets
  <2>2. pipe.wallet.pending /\ pipe' = Emit(next, c)
    BY <1>19 DEF MapperResolves
  <2>3. pipe.phase = "live" /\ pipe.provider # None
    BY <2>2 DEF IInv, Sound, WalletSelected, NoWallet
  <2>4. /\ c # Disconnected => c.id = pipe.provider
        /\ (pipe.view.status = "connected" /\ pipe.view.id = pipe.provider)
             => c.status # "connecting"
    BY <2>2 DEF Patience, OwnStates
  <2> HIDE DEF next, c
  <2> QED
    BY <1>16, <2>1, <2>2, <2>3, <2>4
<1>20. CASE WalletFails
  <2> DEFINE next == [pipe EXCEPT !.wallet = NoWallet]
  <2>1. next \in Pipes /\ next.provider = pipe.provider /\ next.view = pipe.view
    BY <1>0, InitialTypes DEF Pipes
  <2>2. /\ pipe' = Emit(next, Disconnected)
        /\ pipe.phase = "live" /\ pipe.provider # None
    BY <1>20 DEF WalletFails
  <2> HIDE DEF next
  <2> QED
    BY <1>16, <2>1, <2>2, ReportTypes, Statuses
<1>21. CASE Scan \/ Probe
  <2>1. auto.at \in Providers
    BY <1>21 DEF IInv, TypeOK, Scan, Probe
  <2> QED
    BY <1>2, <1>12, <1>21, <2>1 DEF Scan, Probe
<1>22. CASE Log
  <2>1. pipe' = [pipe EXCEPT !.phase = "cold", !.view = Nothing] =>
          pipe'.view = Nothing /\ pipe'.provider = pipe.provider
    BY <1>0 DEF Pipes
  <2> QED
    BY <1>2, <1>9, <1>22, <2>1 DEF Log
<1>23. CASE Return
  <2> DEFINE e == Emit(pipe, auto.result)
             next == [e EXCEPT !.phase = "live"]
  <2>1. /\ pipe' = Switch(next) /\ auto.result \in Reports
        /\ pipe.view = Initializing
        /\ auto.result = IF pipe.provider = None THEN Disconnected
                         ELSE Connecting(pipe.provider)
    BY <1>23 DEF Return, IInv, TypeOK, Checking, Patience, Beginning, Concluding
  <2>2. e \in Pipes
    BY <1>0, <2>1, EmitType
  <2>3. next \in Pipes /\ next.view = e.view /\ next.provider = e.provider
    BY <2>2 DEF Pipes
  <2>4. pipe.view.status \notin {"none", "connected"}
    BY <2>1, Statuses
  <2>5. unloading => e = pipe
    BY <1>0, <2>1, EmitEffect
  <2>6. auto.result = Disconnected => pipe.provider = None
    BY <1>0, <2>1, Statuses
  <2>7. e.provider = pipe.provider /\ e.view \in {pipe.view, auto.result}
    BY <1>0, <2>1, <2>6, EmitShape
  <2> HIDE DEF e, next
  <2>8. CASE pipe.provider = None
    <3>1. pipe'.provider = None /\ pipe'.view \in {pipe.view, Disconnected}
      BY <1>0, <2>1, <2>3, <2>5, <2>7, <2>8, SwitchShape
    <3> QED
      BY <1>7, <1>8, <2>4, <3>1
  <2>9. CASE pipe.provider # None
    <3>1. /\ pipe'.provider = pipe.provider
          /\ pipe'.view \in {pipe.view, Connecting(pipe.provider)}
      BY <1>0, <2>1, <2>3, <2>7, <2>9, SwitchShape
    <3> QED
      BY <1>4, <1>0, <2>9, <3>1
  <2> QED
    BY <2>8, <2>9
<1>24. CASE Forget
  <2>1. Kept
    BY <1>0, <1>24 DEF Forget, Pipes
  <2> QED
    BY <1>1, <2>1
<1>25. CASE UNCHANGED vars
  BY <1>2, <1>25 DEF vars
<1>26. CASE Continuations
  <2>1. CASE Load
    BY <1>2, <2>1 DEF Load
  <2> QED
    BY <1>13, <1>14, <1>19, <1>21, <1>22, <1>23, <1>26, <2>1
       DEF Continuations, CheckAutoConnect
<1> QED
  BY <1>11, <1>15, <1>18, <1>20, <1>24, <1>25, <1>26 DEF Next

\* A connector whose application is patient implements its contract.
THEOREM ImplementsIt ==
    ASSUME Patient
    PROVE  Spec => ImplementsContract
<1>1. Init => Contract!Init
  BY ContractStates DEF Init, ColdPipe, Contract!Init
<1>2. IInv /\ Patience /\ TypeOK' /\ [Next]_vars =>
        [Contract!Next]_<<pipe.provider, pipe.view>>
  BY ContractStep DEF TypeOK
<1> QED
  BY <1>1, <1>2, TypeCorrect, SoundPipeline, StaysPatient, PTL
     DEF Spec, ImplementsContract, Contract!Spec

-----------------------------------------------------------------------------
(* The end of the page, for every application.                              *)

\* connect() is called with a provider of the list
Aimed == \A c \in Callers : calls[c].pc = "waiting" => calls[c].target # None

\* Once the page is unloading, nothing is erased that was not about to be
\* (connector.ts:138, 167), whether the application is patient or not.
THEOREM UnloadForgetsNothing == Spec => UnloadKeepsSaved
<1>1. Init => Aimed
  BY DEF Init, Aimed, Idle
<1>2. ASSUME TypeOK, Aimed, [Next]_vars
      PROVE  Aimed'
  <2>1. ASSUME NEW c \in Callers, NEW p \in Providers, Connect(c, p)
        PROVE  Aimed'
    BY <1>2, <2>1 DEF Connect, Aimed, TypeOK, Providers, None
  <2>2. ASSUME NEW c \in Callers, Resume(c)
        PROVE  Aimed'
    BY <1>2, <2>2 DEF Resume, Aimed, TypeOK, Idle
  <2>3. CASE Reload
    BY <2>3 DEF Reload, Aimed, Idle
  <2>4. CASE UNCHANGED calls
    BY <1>2, <2>4 DEF Aimed
  <2>5. CASE Application
    BY <2>1, <2>4, <2>5
       DEF Application, Subscribe, Unsubscribe, Disconnect, BeforeUnload
  <2>6. CASE WalletAnswers \/ WalletFails \/ Forget \/ UNCHANGED vars
    BY <2>4, <2>6 DEF WalletAnswers, WalletReports, WalletFails, Forget, vars
  <2>7. CASE Continuations
    BY <2>2, <2>4, <2>7
       DEF Continuations, DisconnectDone, MapperResolves, CheckAutoConnect,
           Scan, Load, Probe, Log, Return
  <2> QED
    BY <1>2, <2>3, <2>5, <2>6, <2>7 DEF Next
<1> DEFINE Kept == unloading /\ pipe.phase = "live" =>
                     /\ pipe'.clears <= pipe.clears
                     /\ saved' = None => saved = None \/ pipe.clears > 0
<1>3. ASSUME IInv, Aimed, [Next]_vars, unloading, pipe.phase = "live"
      PROVE  Kept
  <2>0. /\ IsFiniteSet(subs) /\ pipe \in Pipes /\ pipe.clears \in Nat
        /\ pipe.view \in Views /\ pipe.wallet \in Wallets
    BY <1>3, SubscribersFinite DEF IInv, TypeOK, Pipes
  <2>1. CASE pipe'.clears = pipe.clears /\ UNCHANGED saved
    BY <2>0, <2>1
  <2>2. Observe(pipe) = pipe
    BY <1>3, <2>0, ObserveShape
  <2>3. ASSUME NEW k \in Pipes, NEW c \in Reports
        PROVE  Emit(k, c) = k
    BY <1>3, <2>0, <2>3, EmitEffect
  <2>4. ASSUME NEW p \in Providers \cup {None}
        PROVE  Select(pipe, p).clears = pipe.clears
    <3> DEFINE next == [pipe EXCEPT !.provider = p]
               away == [next EXCEPT !.wallet = NoWallet]
    <3>1. /\ next \in Pipes /\ next.provider = p /\ next.clears = pipe.clears
          /\ away \in Pipes /\ away.clears = pipe.clears
      BY <2>0, InitialTypes DEF Pipes
    <3>2. Select(pipe, p) = IF pipe.provider = p THEN pipe ELSE Switch(next)
      BY <1>3 DEF Select
    <3>3. CASE p = None
      <4>1. Switch(next) = Emit(away, Disconnected)
        BY <3>1, <3>3 DEF Switch
      <4> HIDE DEF next, away
      <4>2. Switch(next).clears = pipe.clears
        BY <2>3, <3>1, <4>1, ReportTypes
      <4> QED
        BY <3>2, <4>2
    <3>4. CASE p # None
      <4> HIDE DEF next, away
      <4>1. Switch(next).clears = pipe.clears
        BY <2>0, <3>1, <3>4, SwitchShape
      <4> QED
        BY <3>2, <4>1
    <3> QED
      BY <3>3, <3>4
  <2>5. CASE Application
    BY <2>1, <2>2, <2>5
       DEF Application, Subscribe, Unsubscribe, Connect, Disconnect, BeforeUnload
  <2>6. ASSUME NEW c \in Reports, WalletReports(c)
        PROVE  Kept
    <3> DEFINE mapping == pipe.provider \in Mapped
               next == [pipe EXCEPT !.wallet = [source |-> c, pending |-> mapping,
                                                ended |-> FALSE]]
    <3>1. next \in Pipes /\ next.clears = pipe.clears
      <4>1. [source |-> c, pending |-> mapping, ended |-> FALSE] \in Wallets
        BY DEF Wallets
      <4> QED
        BY <2>0, <4>1 DEF Pipes
    <3>2. (pipe' = next \/ pipe' = Emit(next, c)) /\ UNCHANGED saved
      BY <2>6 DEF WalletReports
    <3> HIDE DEF next
    <3> QED
      BY <2>0, <2>3, <3>1, <3>2
  <2>7. CASE WalletAnswers
    <3>1. ASSUME NEW a \in Accounts, WalletReports(Connected(pipe.provider, a))
          PROVE  Connected(pipe.provider, a) \in Reports
      BY <2>0, <3>1, ReportTypes DEF WalletReports, Pipes
    <3> QED
      BY <2>6, <2>7, <3>1, ReportTypes DEF WalletAnswers
  <2>8. CASE WalletFails
    <3> DEFINE next == [pipe EXCEPT !.wallet = NoWallet]
    <3>1. next \in Pipes /\ next.clears = pipe.clears
      BY <2>0, InitialTypes DEF Pipes
    <3>2. pipe' = Emit(next, Disconnected) /\ UNCHANGED saved
      BY <2>8 DEF WalletFails
    <3> HIDE DEF next
    <3> QED
      BY <2>0, <2>3, <3>1, <3>2, ReportTypes
  <2>9. CASE MapperResolves
    <3> DEFINE next == [pipe EXCEPT !.wallet.pending = FALSE]
    <3>1. next \in Pipes /\ next.clears = pipe.clears /\ pipe.wallet.source \in Reports
      BY <2>0 DEF Pipes, Wallets
    <3>2. pipe' = Emit(next, pipe.wallet.source) /\ UNCHANGED saved
      BY <2>9 DEF MapperResolves
    <3> HIDE DEF next
    <3> QED
      BY <2>0, <2>3, <3>1, <3>2
  <2>10. ASSUME NEW c \in Callers, Resume(c)
         PROVE  Kept
    <3>1. calls[c].target \in Providers \cup {None} /\ calls[c].target # None
      BY <1>3, <2>10 DEF IInv, TypeOK, Aimed, Resume
    <3> QED
      BY <2>0, <2>4, <2>10, <3>1 DEF Resume
  <2>11. ASSUME NEW p \in leaving, DisconnectDone(p)
         PROVE  Kept
    BY <2>1, <2>4, <2>11 DEF DisconnectDone
  <2>12. ~CheckAutoConnect
    BY <1>3 DEF IInv, Checking, CheckAutoConnect, Scan, Load, Probe, Log, Return
  <2>13. CASE Reload
    BY <2>0, <2>13 DEF Reload, ColdPipe
  <2>14. CASE Forget
    BY <2>0, <2>14 DEF Forget, Pipes
  <2>15. CASE UNCHANGED vars
    BY <2>1, <2>15 DEF vars
  <2> QED
    BY <1>3, <2>5, <2>7, <2>8, <2>9, <2>10, <2>11, <2>12, <2>13, <2>14, <2>15
       DEF Next, Continuations
<1>4. IInv /\ Aimed /\ [Next]_vars => [Kept]_vars
  BY <1>3
<1>5. Spec => []Aimed
  BY <1>1, <1>2, TypeCorrect, PTL DEF Spec
<1> QED
  BY <1>4, <1>5, SoundPipeline, PTL DEF Spec, UnloadKeepsSaved

=============================================================================
