--------------------------- MODULE ConnectorProofs ---------------------------
(***************************************************************************)
(* Proofs about Connector for every number of providers, accounts,          *)
(* subscribers and callers, for impatient applications and slow storage     *)
(* alike.                                                                   *)
(***************************************************************************)
EXTENDS ConnectorProperties, FiniteSetTheorems, TLAPS

-----------------------------------------------------------------------------
(* The operators of the pipeline map pipelines to pipelines.                *)

\* The states the program builds are connection states.
LEMMA ReportTypes ==
    /\ Disconnected \in Reports
    /\ \A p \in Providers : Connecting(p) \in Reports
    /\ \A p \in Providers, a \in Accounts : Connected(p, a) \in Reports
    /\ Reports \subseteq Views
    /\ Nothing \in Views /\ Initializing \in Views
    /\ \A c \in Views : c.status = "disconnected" <=> c = Disconnected
<1>1. Disconnected \in Reports
  BY DEF Reports
<1>2. \A p \in Providers : Connecting(p) \in Reports
  BY DEF Reports
<1>3. \A p \in Providers, a \in Accounts : Connected(p, a) \in Reports
  BY DEF Reports
<1>4. Reports \subseteq Views /\ Nothing \in Views /\ Initializing \in Views
  BY DEF Views
<1>5. ASSUME NEW c \in Views
      PROVE  c.status = "disconnected" <=> c = Disconnected
  BY DEF Reports, Views, Report, Nothing, Initializing, Disconnected,
         Connecting, Connected
<1> QED
  BY <1>1, <1>2, <1>3, <1>4, <1>5

\* The pipeline of a page just loaded, and the absence of a wallet, are typed.
LEMMA InitialTypes == NoWallet \in Wallets /\ ColdPipe \in Pipes
<1>1. NoWallet \in Wallets
  BY ReportTypes DEF NoWallet, Wallets
<1>2. ColdPipe \in Pipes
  BY <1>1, ReportTypes DEF ColdPipe, Pipes
<1> QED
  BY <1>1, <1>2

\* A tap callback keeps the pipeline a pipeline.
LEMMA TapType ==
    ASSUME NEW k \in Pipes, NEW n \in Nat
    PROVE  Tap(k, n) \in Pipes
<1> DEFINE more == k.clears + (IF saved = None THEN 0 ELSE n)
           next == [k EXCEPT !.provider = None, !.wallet = NoWallet,
                             !.clears = more]
<1>1. more \in Nat
  BY DEF Pipes
<1>2. next \in Pipes
  <2> HIDE DEF more
  <2> QED BY <1>1, InitialTypes DEF Pipes
<1>3. Tap(k, n) = k \/ Tap(k, n) = next
  BY DEF Tap
<1> QED
  BY <1>2, <1>3

\* So does a state that arrives at the outer distinctUntilChanged.
LEMMA EmitType ==
    ASSUME NEW k \in Pipes, NEW c \in Reports, IsFiniteSet(subs)
    PROVE  Emit(k, c) \in Pipes
<1> DEFINE next == [k EXCEPT !.view = c]
<1>1. next \in Pipes
  BY ReportTypes DEF Pipes
<1>2. Cardinality(subs) \in Nat
  BY FS_CardinalityType
<1>3. Tap(next, Cardinality(subs)) \in Pipes
  BY <1>1, <1>2, TapType
<1> QED
  BY <1>1, <1>3 DEF Emit

\* So does switchMap's subscription to the selected provider.
LEMMA SwitchType ==
    ASSUME NEW k \in Pipes, IsFiniteSet(subs)
    PROVE  Switch(k) \in Pipes
<1>1. CASE k.provider = None
  <2>1. [k EXCEPT !.wallet = NoWallet] \in Pipes
    BY InitialTypes DEF Pipes
  <2> QED
    BY <1>1, <2>1, EmitType, ReportTypes DEF Switch
<1>2. CASE k.provider # None
  <2> DEFINE first == Connecting(k.provider)
             mapping == k.provider \in Mapped
             next == [k EXCEPT !.wallet = [source |-> first, pending |-> mapping,
                                           ended |-> FALSE]]
  <2>1. first \in Reports
    BY <1>2, ReportTypes DEF Pipes
  <2>2. mapping \in BOOLEAN
    OBVIOUS
  <2>3. next \in Pipes
    <3> HIDE DEF first, mapping
    <3>1. [source |-> first, pending |-> mapping, ended |-> FALSE] \in Wallets
      BY <2>1, <2>2 DEF Wallets
    <3> QED
      BY <3>1 DEF Pipes
  <2>4. Emit(next, first) \in Pipes
    <3> HIDE DEF first, next
    <3> QED BY <2>1, <2>3, EmitType
  <2>5. Switch(k) = IF mapping THEN next ELSE Emit(next, first)
    BY <1>2 DEF Switch
  <2> QED
    <3> HIDE DEF first, next, mapping
    <3> QED BY <2>3, <2>4, <2>5
<1> QED
  BY <1>1, <1>2

\* So does this.provider.next(p).
LEMMA SelectType ==
    ASSUME NEW k \in Pipes, NEW p \in Providers \cup {None}, IsFiniteSet(subs)
    PROVE  Select(k, p) \in Pipes
<1>1. [k EXCEPT !.provider = p] \in Pipes
  BY DEF Pipes
<1> QED
  BY <1>1, SwitchType DEF Select

\* So does a new subscription.
LEMMA ObserveType ==
    ASSUME NEW k \in Pipes
    PROVE  Observe(k) \in Pipes
<1>1. [k EXCEPT !.phase = "auto", !.view = Initializing] \in Pipes
  BY ReportTypes DEF Pipes
<1>2. Tap(k, 1) \in Pipes
  BY TapType
<1> QED
  BY <1>1, <1>2 DEF Observe

-----------------------------------------------------------------------------
(* Type correctness.                                                        *)

\* The subscribers can be counted.
LEMMA SubscribersFinite ==
    ASSUME TypeOK
    PROVE  IsFiniteSet(subs)
  BY ConstantsAssumption, FS_Subset DEF ConstantsAssumption, TypeOK

\* The records of calls and of checkAutoConnect start out typed.
LEMMA RecordTypes ==
    /\ Idle \in [pc : {"idle", "waiting"}, target : Providers \cup {None},
                 refuse : BOOLEAN]
    /\ NotChecking \in [pc : {"idle", "scan", "load", "probe", "log", "return"},
                        at : Providers \cup {None, Foreign}, result : Reports]
<1>1. Idle \in [pc : {"idle", "waiting"}, target : Providers \cup {None},
                refuse : BOOLEAN]
  BY DEF Idle
<1>2. NotChecking \in [pc : {"idle", "scan", "load", "probe", "log", "return"},
                       at : Providers \cup {None, Foreign}, result : Reports]
  BY ReportTypes DEF NotChecking
<1> QED
  BY <1>1, <1>2

\* A new subscription leaves the run of checkAutoConnect typed.
LEMMA StartCheckingType ==
    ASSUME TypeOK, NEW k
    PROVE  /\ StartChecking(k) \in
                [pc : {"idle", "scan", "load", "probe", "log", "return"},
                 at : Providers \cup {None, Foreign}, result : Reports]
           /\ StartChecking(k).pc \in {"scan", "probe"} =>
                StartChecking(k).at \in Providers
<1>1. 1 \in Providers
  BY ConstantsAssumption DEF ConstantsAssumption, Providers
<1> QED
  BY <1>1, RecordTypes DEF StartChecking, TypeOK, NotChecking

\* Every variable keeps its type: in particular the number of tap callbacks
\* that wait for the storage never goes below zero.
THEOREM TypeCorrect == Spec => []TypeOK
<1>1. Init => TypeOK
  BY InitialTypes, RecordTypes DEF Init, TypeOK, NotChecking
<1>2. ASSUME TypeOK, [Next]_vars
      PROVE  TypeOK'
  <2> USE <1>2 DEF TypeOK
  <2>0. IsFiniteSet(subs)
    BY SubscribersFinite
  <2>1. ASSUME NEW s \in Subscribers, Subscribe(s)
        PROVE  TypeOK'
    BY <2>1, ObserveType, StartCheckingType DEF Subscribe
  <2>2. ASSUME NEW s \in Subscribers, Unsubscribe(s)
        PROVE  TypeOK'
    BY <2>2 DEF Unsubscribe
  <2>3. ASSUME NEW c \in Callers, NEW p \in Providers, Connect(c, p)
        PROVE  TypeOK'
    <3>1. pipe' \in Pipes
      BY <2>3, ObserveType DEF Connect
    <3>2. auto' = StartChecking(pipe)
      BY <2>3 DEF Connect
    <3>3. [pc |-> "waiting", target |-> p,
           refuse |-> pipe.provider # None /\ pipe.view.status = "connected"]
            \in [pc : {"idle", "waiting"}, target : Providers \cup {None},
                 refuse : BOOLEAN]
      OBVIOUS
    <3>4. calls' \in [Callers -> [pc : {"idle", "waiting"},
                                  target : Providers \cup {None},
                                  refuse : BOOLEAN]]
      BY <2>3, <3>3 DEF Connect
    <3> QED
      BY <2>3, <3>1, <3>2, <3>4, StartCheckingType DEF Connect
  <2>4. ASSUME NEW c \in Callers, Resume(c)
        PROVE  TypeOK'
    <3>1. calls' \in [Callers -> [pc : {"idle", "waiting"},
                                  target : Providers \cup {None},
                                  refuse : BOOLEAN]]
      BY <2>4, RecordTypes DEF Resume
    <3>2. calls[c].target \in Providers \cup {None}
      OBVIOUS
    <3>3. pipe' \in Pipes /\ saved' \in Providers \cup {None, Foreign}
      BY <2>0, <2>4, <3>2, SelectType DEF Resume
    <3> QED
      BY <2>4, <3>1, <3>3 DEF Resume
  <2>5. CASE Disconnect
    <3>1. pipe.view.status = "connected" => pipe.view.id \in Providers
      BY DEF Pipes, Views, Reports, Report, Nothing, Initializing,
             Disconnected, Connecting, Connected
    <3> QED
      BY <2>5, <3>1 DEF Disconnect
  <2>6. ASSUME NEW p \in leaving, DisconnectDone(p)
        PROVE  TypeOK'
    BY <2>0, <2>6, SelectType DEF DisconnectDone
  <2>7. CASE BeforeUnload
    BY <2>7 DEF BeforeUnload
  <2>8. CASE Reload
    BY <2>8, InitialTypes, RecordTypes DEF Reload, NotChecking
  <2>9. ASSUME NEW c \in Reports, WalletReports(c)
        PROVE  TypeOK'
    <3> DEFINE mapping == pipe.provider \in Mapped
               next == [pipe EXCEPT !.wallet = [source |-> c, pending |-> mapping,
                                                ended |-> FALSE]]
    <3>1. next \in Pipes
      <4> mapping \in BOOLEAN
        OBVIOUS
      <4> HIDE DEF mapping
      <4>1. [source |-> c, pending |-> mapping, ended |-> FALSE] \in Wallets
        BY DEF Wallets
      <4> QED
        BY <4>1 DEF Pipes
    <3>2. Emit(next, c) \in Pipes
      BY <2>0, <3>1, EmitType
    <3> QED
      BY <2>9, <3>1, <3>2 DEF WalletReports
  <2>10. CASE MapperResolves
    <3>1. [pipe EXCEPT !.wallet.pending = FALSE] \in Pipes
      BY DEF Pipes, Wallets
    <3>2. pipe.wallet.source \in Reports
      BY DEF Pipes, Wallets
    <3> QED
      BY <2>0, <2>10, <3>1, <3>2, EmitType DEF MapperResolves
  <2>11. CASE WalletFails
    <3>1. [pipe EXCEPT !.wallet = NoWallet] \in Pipes
      BY InitialTypes DEF Pipes
    <3> QED
      BY <2>0, <2>11, <3>1, EmitType, ReportTypes DEF WalletFails
  <2>12. CASE Scan
    <3>1. /\ auto.at \in Providers
          /\ Select(pipe, auto.at) \in Pipes
          /\ Connecting(auto.at) \in Reports /\ Disconnected \in Reports
      BY <2>0, <2>12, SelectType, ReportTypes DEF Scan
    <3>2. auto.at < N => auto.at + 1 \in Providers
      BY <3>1, ConstantsAssumption DEF ConstantsAssumption, Providers
    <3>3. pipe' \in Pipes /\ saved' \in Providers \cup {None, Foreign}
      BY <2>12, <3>1 DEF Scan
    <3>4. CASE Conclude(Connecting(auto.at)) \/ Conclude(Disconnected)
      BY <2>12, <3>1, <3>3, <3>4 DEF Scan, Conclude
    <3>5. CASE auto.at < N /\ auto' = [auto EXCEPT !.at = @ + 1]
      BY <2>12, <3>2, <3>3, <3>5 DEF Scan
    <3>6. CASE auto' = [auto EXCEPT !.pc = "load", !.at = saved]
      BY <2>12, <3>3, <3>6 DEF Scan
    <3> QED
      BY <2>12, <3>4, <3>5, <3>6 DEF Scan
  <2>13. CASE Load
    BY <2>13, ReportTypes DEF Load, Conclude
  <2>14. CASE Probe
    <3>1. /\ auto.at \in Providers
          /\ Select(pipe, auto.at) \in Pipes
          /\ Connecting(auto.at) \in Reports /\ Disconnected \in Reports
      BY <2>0, <2>14, SelectType, ReportTypes DEF Probe
    <3> QED
      BY <2>14, <3>1 DEF Probe, Conclude
  <2>15. CASE Log
    <3>1. [pipe EXCEPT !.phase = "cold", !.view = Nothing] \in Pipes
      BY ReportTypes DEF Pipes
    <3> QED
      BY <2>15, <3>1, ReportTypes, RecordTypes DEF Log, Conclude, NotChecking
  <2>16. CASE Return
    <3>1. Emit(pipe, auto.result) \in Pipes
      BY <2>0, EmitType
    <3>2. [Emit(pipe, auto.result) EXCEPT !.phase = "live"] \in Pipes
      BY <3>1 DEF Pipes
    <3> QED
      BY <2>0, <2>16, <3>2, SwitchType, RecordTypes DEF Return, NotChecking
  <2>17. CASE Forget
    <3>1. pipe.clears > 0 => [pipe EXCEPT !.clears = @ - 1] \in Pipes
      BY DEF Pipes
    <3> QED
      BY <2>17, <3>1 DEF Forget
  <2>18. CASE UNCHANGED vars
    BY <2>18 DEF vars
  <2>19. CASE WalletAnswers
    <3>1. ASSUME NEW a \in Accounts, WalletReports(Connected(pipe.provider, a))
          PROVE  TypeOK'
      <4>1. Connected(pipe.provider, a) \in Reports
        BY <3>1, ReportTypes DEF WalletReports, Pipes
      <4> QED
        BY <2>9, <3>1, <4>1
    <3> QED
      BY <2>9, <2>19, <3>1, ReportTypes DEF WalletAnswers
  <2>20. CASE Application
    BY <2>1, <2>2, <2>3, <2>5, <2>7, <2>20 DEF Application
  <2>21. CASE Continuations
    BY <2>4, <2>6, <2>10, <2>12, <2>13, <2>14, <2>15, <2>16, <2>21
       DEF Continuations, CheckAutoConnect
  <2> HIDE DEF TypeOK
  <2> QED
    BY <1>2, <2>8, <2>11, <2>17, <2>18, <2>19, <2>20, <2>21 DEF Next
<1> QED
  BY <1>1, <1>2, PTL DEF Spec

-----------------------------------------------------------------------------
(***************************************************************************)
(* What subscribers see.  ViewTracksWallet and NoGhostProvider speak of     *)
(* live pipelines only, so they are not inductive: the step that makes a    *)
(* pipeline live relies on there being no wallet observable before it, and  *)
(* the step of a mapper on its working for a provider that is selected.     *)
(***************************************************************************)

\* the two properties, of any pipeline
Tracks(k) ==
    IF k.provider = None THEN k.view = Disconnected
    ELSE k.wallet.pending \/ Same(k.view, k.wallet.source)

Ghostless(k) ==
    k.view = Disconnected /\ subs # {} => k.provider \in Mapped \cup {None}

\* what they rest on
WalletSelected(k) ==
    /\ k.phase # "live" => k.wallet = NoWallet
    /\ k.provider = None => k.wallet = NoWallet
    /\ k.wallet.pending => k.provider \in Mapped

Sound(k) ==
    /\ WalletSelected(k)
    /\ k.phase = "live" /\ ~unloading => Tracks(k) /\ Ghostless(k)

\* checkAutoConnect runs only before the pipeline is live
Checking == auto.pc # "idle" => pipe.phase = "auto"

IInv == TypeOK /\ Sound(pipe) /\ Checking

\* Same compares by all that tells two states apart.
LEMMA SameFacts ==
    ASSUME NEW v \in Views, NEW c \in Reports
    PROVE  /\ Same(c, c)
           /\ Same(v, c) /\ v = Disconnected => c = Disconnected
           /\ Same(v, c) /\ c = Disconnected => v = Disconnected
  BY ReportTypes DEF Same, Disconnected, Report

\* What a tap callback does, and does not do.
LEMMA TapEffect ==
    ASSUME NEW k \in Pipes, NEW n \in Nat
    PROVE  /\ Tap(k, n).view = k.view /\ Tap(k, n).phase = k.phase
           /\ n # 0 /\ ~unloading => /\ Tap(k, n).provider = None
                                     /\ Tap(k, n).wallet = NoWallet
           /\ n = 0 \/ unloading => Tap(k, n) = k
<1> DEFINE next(more) == [k EXCEPT !.provider = None, !.wallet = NoWallet,
                                   !.clears = more]
<1>1. ASSUME NEW more
      PROVE  /\ next(more).view = k.view /\ next(more).phase = k.phase
             /\ next(more).provider = None /\ next(more).wallet = NoWallet
  BY DEF Pipes
<1>2. CASE n = 0 \/ unloading
  BY <1>2 DEF Tap
<1>3. CASE n # 0 /\ ~unloading
  <2>1. Tap(k, n) = next(k.clears + (IF saved = None THEN 0 ELSE n))
    BY <1>3 DEF Tap
  <2> HIDE DEF next
  <2> QED
    BY <1>1, <1>3, <2>1
<1> QED
  BY <1>2, <1>3

\* A tap callback keeps what the two properties rest on.
LEMMA TapSound ==
    ASSUME NEW k \in Pipes, NEW n \in Nat, WalletSelected(k)
    PROVE  WalletSelected(Tap(k, n))
<1>1. CASE n = 0 \/ unloading
  <2>1. Tap(k, n) = k
    BY <1>1, TapEffect
  <2> QED
    BY <2>1
<1>2. CASE n # 0 /\ ~unloading
  <2>1. /\ Tap(k, n).phase = k.phase
        /\ Tap(k, n).provider = None /\ Tap(k, n).wallet = NoWallet
    BY <1>2, TapEffect
  <2> QED
    BY <2>1 DEF WalletSelected, NoWallet
<1> QED
  BY <1>1, <1>2

\* What the outer distinctUntilChanged and the tap callbacks do.
LEMMA EmitEffect ==
    ASSUME NEW k \in Pipes, NEW c \in Reports, IsFiniteSet(subs)
    PROVE  /\ Emit(k, c).phase = k.phase
           /\ unloading => Emit(k, c) = k
           /\ ~unloading => Same(Emit(k, c).view, c)
           /\ \/ /\ Emit(k, c).provider = k.provider
                 /\ Emit(k, c).wallet = k.wallet
              \/ /\ Emit(k, c).provider = None
                 /\ Emit(k, c).wallet = NoWallet
                 /\ Emit(k, c).view = Disconnected
           /\ ~unloading /\ c = Disconnected /\ subs # {} =>
                \/ Emit(k, c).provider = None
                \/ k.view = Disconnected /\ Emit(k, c) = k
<1> DEFINE next == [k EXCEPT !.view = c]
           n == Cardinality(subs)
<1>1. next \in Pipes
  BY ReportTypes DEF Pipes
<1>2. n \in Nat /\ (n = 0 <=> subs = {})
  BY FS_CardinalityType, FS_EmptySet
<1>3. Same(c, c) /\ (c.status = "disconnected" <=> c = Disconnected)
  BY SameFacts, ReportTypes
<1>4. /\ next.view = c /\ next.phase = k.phase
      /\ next.provider = k.provider /\ next.wallet = k.wallet
  BY DEF Pipes
<1>5. k.view \in Views
  BY DEF Pipes
<1>6. CASE unloading \/ Same(k.view, c)
  <2>1. Emit(k, c) = k
    BY <1>6 DEF Emit
  <2> QED
    BY <1>5, <1>6, <2>1, SameFacts
<1>7. CASE ~unloading /\ ~Same(k.view, c) /\ c # Disconnected
  <2>1. Emit(k, c) = next
    BY <1>3, <1>7 DEF Emit
  <2> HIDE DEF next
  <2> QED
    BY <1>3, <1>4, <1>7, <2>1
<1>8. CASE ~unloading /\ ~Same(k.view, c) /\ c = Disconnected
  <2>1. Emit(k, c) = Tap(next, n)
    BY <1>3, <1>8 DEF Emit
  <2> HIDE DEF next, n
  <2>2. /\ Tap(next, n).view = next.view /\ Tap(next, n).phase = next.phase
        /\ n # 0 => /\ Tap(next, n).provider = None
                    /\ Tap(next, n).wallet = NoWallet
        /\ n = 0 => Tap(next, n) = next
    BY <1>1, <1>2, <1>8, TapEffect
  <2> QED
    BY <1>2, <1>3, <1>4, <1>8, <2>1, <2>2
<1> QED
  BY <1>6, <1>7, <1>8

\* A state that arrives from the wallet that is selected, and has nothing
\* pending, leaves the pipeline sound.
LEMMA EmitSound ==
    ASSUME NEW k \in Pipes, NEW c \in Reports, IsFiniteSet(subs),
           WalletSelected(k),
           k.provider = None => c = Disconnected,
           k.provider # None => k.wallet.source = c,
           c = Disconnected => Ghostless(k)
    PROVE  Sound(Emit(k, c))
<1> DEFINE e == Emit(k, c)
<1>1. e \in Pipes /\ e.view \in Views
  BY EmitType DEF Pipes
<1>2. WalletSelected(e)
  <2>1. CASE e.provider = k.provider /\ e.wallet = k.wallet
    BY <2>1, EmitEffect DEF WalletSelected
  <2>2. CASE e.provider = None /\ e.wallet = NoWallet
    BY <2>2 DEF WalletSelected, NoWallet
  <2> QED
    BY <2>1, <2>2, EmitEffect
<1>3. ASSUME ~unloading
      PROVE  Tracks(e)
  <2>1. Same(e.view, c)
    BY <1>3, EmitEffect
  <2>2. CASE e.provider = k.provider /\ e.wallet = k.wallet
    BY <1>1, <2>1, <2>2, SameFacts DEF Tracks
  <2>3. CASE e.provider = None /\ e.view = Disconnected
    BY <2>3 DEF Tracks
  <2> QED
    BY <2>2, <2>3, EmitEffect
<1>4. ASSUME ~unloading
      PROVE  Ghostless(e)
  <2>1. Same(e.view, c)
    BY <1>3, <1>4, EmitEffect
  <2>2. CASE c = Disconnected
    BY <1>4, <2>2, EmitEffect DEF Ghostless
  <2>3. CASE c # Disconnected
    BY <1>1, <2>1, <2>3, SameFacts DEF Ghostless
  <2> QED
    BY <2>2, <2>3
<1> QED
  BY <1>2, <1>3, <1>4 DEF Sound

\* switchMap's subscription to the selected provider of a live pipeline.
LEMMA SwitchSound ==
    ASSUME NEW k \in Pipes, IsFiniteSet(subs), k.phase = "live"
    PROVE  Sound(Switch(k))
<1>1. CASE k.provider = None
  <2> DEFINE next == [k EXCEPT !.wallet = NoWallet]
  <2>1. next \in Pipes /\ next.provider = None /\ next.wallet = NoWallet
    BY <1>1, InitialTypes DEF Pipes
  <2>2. Switch(k) = Emit(next, Disconnected)
    BY <1>1 DEF Switch
  <2> HIDE DEF next
  <2>3. WalletSelected(next) /\ Ghostless(next)
    BY <2>1 DEF WalletSelected, Ghostless, NoWallet
  <2> QED
    BY <2>1, <2>2, <2>3, EmitSound, ReportTypes
<1>2. CASE k.provider # None
  <2> DEFINE first == Connecting(k.provider)
             mapping == k.provider \in Mapped
             next == [k EXCEPT !.wallet = [source |-> first, pending |-> mapping,
                                           ended |-> FALSE]]
  <2>1. /\ first \in Reports /\ first # Disconnected
        /\ mapping \in BOOLEAN
    BY <1>2, ReportTypes DEF Pipes, Connecting, Disconnected, Report
  <2>2. /\ next \in Pipes /\ next.provider = k.provider
        /\ next.phase = "live" /\ next.view = k.view
        /\ next.wallet.source = first /\ next.wallet.pending = mapping
    <3> HIDE DEF first, mapping
    <3>1. [source |-> first, pending |-> mapping, ended |-> FALSE] \in Wallets
      BY <2>1 DEF Wallets
    <3> QED
      BY <3>1 DEF Pipes
  <2>3. Switch(k) = IF mapping THEN next ELSE Emit(next, first)
    BY <1>2 DEF Switch
  <2>4. WalletSelected(next)
    <3> HIDE DEF next
    <3> QED BY <1>2, <2>2 DEF WalletSelected
  <2>5. CASE mapping
    <3> HIDE DEF next
    <3>1. Tracks(next) /\ Ghostless(next)
      BY <1>2, <2>2, <2>5 DEF Tracks, Ghostless
    <3> QED
      BY <2>3, <2>4, <2>5, <3>1 DEF Sound
  <2>6. CASE ~mapping
    <3> HIDE DEF next, first, mapping
    <3> QED
      BY <1>2, <2>1, <2>2, <2>3, <2>4, <2>6, EmitSound
  <2> QED
    BY <2>5, <2>6
<1> QED
  BY <1>1, <1>2

\* That subscription does not move the pipeline to another phase.
LEMMA SwitchPhase ==
    ASSUME NEW k \in Pipes, IsFiniteSet(subs)
    PROVE  Switch(k).phase = k.phase
<1> DEFINE first == Connecting(k.provider)
           start == [source |-> first, pending |-> k.provider \in Mapped,
                     ended |-> FALSE]
           away == [k EXCEPT !.wallet = NoWallet]
           next == [k EXCEPT !.wallet = start]
<1>1. away \in Pipes /\ away.phase = k.phase
  BY InitialTypes DEF Pipes
<1>2. Emit(away, Disconnected).phase = k.phase
  BY <1>1, EmitEffect, ReportTypes
<1>3. CASE k.provider # None
  <2>1. first \in Reports
    BY <1>3, ReportTypes DEF Pipes
  <2>2. start \in Wallets
    BY <2>1 DEF Wallets
  <2>3. next \in Pipes /\ next.phase = k.phase
    BY <2>2 DEF Pipes
  <2>4. Emit(next, first).phase = k.phase
    BY <2>1, <2>3, EmitEffect
  <2> QED
    BY <1>3, <2>3, <2>4 DEF Switch
<1> QED
  BY <1>2, <1>3 DEF Switch

\* this.provider.next(p), whatever the phase.
LEMMA SelectSound ==
    ASSUME NEW k \in Pipes, NEW p \in Providers \cup {None}, IsFiniteSet(subs),
           Sound(k)
    PROVE  Sound(Select(k, p))
<1> DEFINE next == [k EXCEPT !.provider = p]
<1>1. /\ next \in Pipes /\ next.phase = k.phase
      /\ next.wallet = k.wallet
  BY DEF Pipes
<1>2. CASE k.phase # "live"
  <2>1. Select(k, p) = next
    BY <1>2 DEF Select
  <2> HIDE DEF next
  <2> QED
    BY <1>1, <1>2, <2>1 DEF Sound, WalletSelected, NoWallet
<1>3. CASE k.phase = "live" /\ k.provider = p
  BY <1>3 DEF Select
<1>4. CASE k.phase = "live" /\ k.provider # p
  <2>1. Select(k, p) = Switch(next)
    BY <1>4 DEF Select
  <2> HIDE DEF next
  <2> QED
    BY <1>1, <1>4, <2>1, SwitchSound
<1> QED
  BY <1>2, <1>3, <1>4

\* Selecting a provider does not move the pipeline to another phase.
LEMMA SelectPhase ==
    ASSUME NEW k \in Pipes, NEW p \in Providers \cup {None}, IsFiniteSet(subs)
    PROVE  Select(k, p).phase = k.phase
<1> DEFINE next == [k EXCEPT !.provider = p]
<1>1. next \in Pipes /\ next.phase = k.phase
  BY DEF Pipes
<1>2. Switch(next).phase = next.phase
  BY <1>1, SwitchPhase
<1> QED
  BY <1>1, <1>2 DEF Select

\* One more subscription; after it, a subscriber that is shown "disconnected"
\* by a live pipeline has deselected the provider, so Ghostless holds for
\* whatever set of subscribers there is then.
LEMMA ObserveSound ==
    ASSUME NEW k \in Pipes, Sound(k)
    PROVE  /\ Sound(Observe(k))
           /\ ~unloading /\ Observe(k).phase = "live"
                /\ Observe(k).view = Disconnected => Observe(k).provider = None
<1> DEFINE started == [k EXCEPT !.phase = "auto", !.view = Initializing]
           o == Observe(k)
<1>1. CASE k.phase = "cold"
  <2>1. o = started
    BY <1>1 DEF Observe
  <2>2. /\ started.phase = "auto" /\ started.provider = k.provider
        /\ started.wallet = k.wallet
    BY DEF Pipes
  <2> HIDE DEF started
  <2> QED
    BY <1>1, <2>1, <2>2 DEF Sound, WalletSelected
<1>2. CASE k.phase # "cold" /\ k.view.status = "disconnected"
  <2>1. o = Tap(k, 1)
    BY <1>2 DEF Observe
  <2>2. WalletSelected(o)
    BY <2>1, TapSound DEF Sound
  <2>3. k.view = Disconnected
    BY <1>2, ReportTypes DEF Pipes
  <2>4. ~unloading => o.provider = None /\ o.view = Disconnected
    BY <2>1, <2>3, TapEffect
  <2> QED
    BY <2>2, <2>4 DEF Sound, Tracks, Ghostless
<1>3. CASE k.phase # "cold" /\ k.view.status # "disconnected"
  BY <1>3, ReportTypes DEF Observe, Pipes
<1> QED
  BY <1>1, <1>2, <1>3

\* The inductive invariant, from which the two properties follow.
THEOREM SoundPipeline == Spec => []IInv
<1>1. Init => IInv
  <2> SUFFICES ASSUME Init
               PROVE  IInv
    OBVIOUS
  <2>1. TypeOK
    BY InitialTypes, RecordTypes DEF Init, TypeOK, NotChecking
  <2>2. Sound(pipe)
    BY DEF Init, ColdPipe, Sound, WalletSelected, NoWallet
  <2>3. Checking
    BY DEF Init, NotChecking, Checking
  <2> QED
    BY <2>1, <2>2, <2>3 DEF IInv
<1>2. ASSUME TypeOK, Sound(pipe), Checking, [Next]_vars
      PROVE  Sound(pipe)'
  <2>0. /\ IsFiniteSet(subs) /\ pipe \in Pipes
        /\ pipe.wallet \in Wallets /\ pipe.view \in Views
    BY <1>2, SubscribersFinite DEF TypeOK, Pipes
  <2>1. ASSUME Sound(pipe'), UNCHANGED <<subs, unloading>>
        PROVE  Sound(pipe)'
    BY <2>1 DEF Sound, WalletSelected, Tracks, Ghostless
  <2>2. ASSUME NEW s \in Subscribers, Subscribe(s)
        PROVE  Sound(pipe)'
    <3>1. /\ pipe' = Observe(pipe) /\ UNCHANGED unloading
          /\ Sound(Observe(pipe))
          /\ ~unloading /\ Observe(pipe).phase = "live"
               /\ Observe(pipe).view = Disconnected => Observe(pipe).provider = None
      BY <1>2, <2>0, <2>2, ObserveSound DEF Subscribe
    <3> QED
      BY <3>1 DEF Sound, WalletSelected, Tracks, Ghostless
  <2>3. ASSUME NEW s \in Subscribers, Unsubscribe(s)
        PROVE  Sound(pipe)'
    BY <1>2, <2>3 DEF Unsubscribe, Sound, WalletSelected, Tracks, Ghostless
  <2>4. ASSUME NEW c \in Callers, NEW p \in Providers, Connect(c, p)
        PROVE  Sound(pipe)'
    BY <1>2, <2>0, <2>1, <2>4, ObserveSound DEF Connect
  <2>5. ASSUME NEW c \in Callers, Resume(c)
        PROVE  Sound(pipe)'
    <3>1. calls[c].target \in Providers \cup {None}
      BY <1>2 DEF TypeOK
    <3>2. Sound(Select(pipe, calls[c].target))
      BY <1>2, <2>0, <3>1, SelectSound
    <3> QED
      BY <1>2, <2>1, <2>5, <3>2 DEF Resume
  <2>6. CASE Disconnect
    BY <1>2, <2>1, <2>6 DEF Disconnect
  <2>7. ASSUME NEW p \in leaving, DisconnectDone(p)
        PROVE  Sound(pipe)'
    BY <1>2, <2>0, <2>1, <2>7, SelectSound DEF DisconnectDone
  <2>8. CASE BeforeUnload
    BY <1>2, <2>8 DEF BeforeUnload, Sound, WalletSelected
  <2>9. CASE Reload
    BY <2>9 DEF Reload, ColdPipe, Sound, WalletSelected, NoWallet
  <2>10. ASSUME NEW c \in Reports, WalletReports(c)
         PROVE  Sound(pipe)'
    <3> DEFINE mapping == pipe.provider \in Mapped
               next == [pipe EXCEPT !.wallet = [source |-> c, pending |-> mapping,
                                                ended |-> FALSE]]
    <3>1. /\ next \in Pipes /\ next.provider = pipe.provider
          /\ next.phase = "live" /\ next.view = pipe.view
          /\ next.wallet.source = c /\ next.wallet.pending = mapping
      <4>1. [source |-> c, pending |-> mapping, ended |-> FALSE] \in Wallets
        BY DEF Wallets
      <4> QED
        BY <2>0, <2>10, <4>1 DEF Pipes, WalletReports
    <3>2. /\ pipe' = IF mapping THEN next ELSE Emit(next, c)
          /\ pipe.provider # None /\ UNCHANGED <<subs, unloading>>
      BY <2>10 DEF WalletReports
    <3> HIDE DEF next
    <3>3. WalletSelected(next)
      BY <3>1, <3>2 DEF WalletSelected
    <3>4. ~unloading => Ghostless(next)
      <4>1. pipe.phase = "live"
        BY <2>10 DEF WalletReports
      <4> QED
        BY <1>2, <3>1, <4>1 DEF Sound, Ghostless
    <3>5. CASE mapping
      <4>1. Tracks(next) /\ Ghostless(next)
        BY <3>1, <3>2, <3>5 DEF Tracks, Ghostless
      <4> QED
        BY <2>1, <3>2, <3>3, <3>5, <4>1 DEF Sound
    <3>6. CASE ~mapping /\ ~unloading
      BY <2>0, <2>1, <3>1, <3>2, <3>3, <3>4, <3>6, EmitSound
    <3>7. CASE ~mapping /\ unloading
      <4>1. pipe' = next
        BY <2>0, <3>1, <3>2, <3>7, EmitEffect
      <4> QED
        BY <2>1, <3>2, <3>3, <3>7, <4>1 DEF Sound
    <3> QED
      BY <3>5, <3>6, <3>7
  <2>11. CASE MapperResolves
    <3> DEFINE next == [pipe EXCEPT !.wallet.pending = FALSE]
    <3>1. /\ next \in Pipes /\ next.provider = pipe.provider
          /\ next.phase = pipe.phase /\ next.view = pipe.view
          /\ next.wallet.source = pipe.wallet.source
          /\ ~next.wallet.pending
      BY <2>0 DEF Pipes, Wallets
    <3>2. /\ pipe' = Emit(next, pipe.wallet.source)
          /\ pipe.wallet.pending /\ UNCHANGED <<subs, unloading>>
          /\ pipe.wallet.source \in Reports
      BY <2>0, <2>11 DEF MapperResolves, Wallets
    <3>3. pipe.provider \in Mapped /\ pipe.phase = "live" /\ pipe.provider # None
      BY <1>2, <3>2 DEF Sound, WalletSelected, NoWallet
    <3> HIDE DEF next
    <3>4. WalletSelected(next) /\ Ghostless(next)
      BY <3>1, <3>3 DEF WalletSelected, Ghostless
    <3> QED
      BY <2>0, <2>1, <3>1, <3>2, <3>3, <3>4, EmitSound
  <2>12. CASE WalletFails
    <3> DEFINE next == [pipe EXCEPT !.wallet = NoWallet]
    <3>1. /\ next \in Pipes /\ next.provider = pipe.provider
          /\ next.phase = "live" /\ next.view = pipe.view
          /\ next.wallet = NoWallet
      BY <2>0, <2>12, InitialTypes DEF Pipes, WalletFails
    <3>2. /\ pipe' = Emit(next, Disconnected)
          /\ pipe.provider # None /\ UNCHANGED <<subs, unloading>>
      BY <2>12 DEF WalletFails
    <3> HIDE DEF next
    <3>3. WalletSelected(next) /\ next.wallet.source = Disconnected
      BY <3>1 DEF WalletSelected, NoWallet
    <3>4. ~unloading => Ghostless(next)
      <4>1. pipe.phase = "live"
        BY <2>12 DEF WalletFails
      <4> QED
        BY <1>2, <3>1, <4>1 DEF Sound, Ghostless
    <3>5. CASE ~unloading
      BY <2>0, <2>1, <3>1, <3>2, <3>3, <3>4, <3>5, EmitSound, ReportTypes
    <3>6. CASE unloading
      <4>1. pipe' = next
        BY <2>0, <3>1, <3>2, <3>6, EmitEffect, ReportTypes
      <4> QED
        BY <2>1, <3>2, <3>3, <3>6, <4>1 DEF Sound
    <3> QED
      BY <3>5, <3>6
  <2>13. CASE Scan
    <3>1. auto.at \in Providers
      BY <1>2, <2>13 DEF TypeOK, Scan
    <3>2. Sound(Select(pipe, auto.at))
      BY <1>2, <2>0, <3>1, SelectSound
    <3>3. pipe' = Select(pipe, auto.at) \/ pipe' = pipe
      BY <2>13 DEF Scan
    <3> QED
      BY <1>2, <2>1, <2>13, <3>2, <3>3 DEF Scan
  <2>14. CASE Load
    BY <1>2, <2>1, <2>14 DEF Load
  <2>15. CASE Probe
    <3>1. auto.at \in Providers
      BY <1>2, <2>15 DEF TypeOK, Probe
    <3>2. Sound(Select(pipe, auto.at))
      BY <1>2, <2>0, <3>1, SelectSound
    <3>3. pipe' = Select(pipe, auto.at) \/ pipe' = pipe
      BY <2>15 DEF Probe
    <3> QED
      BY <1>2, <2>1, <2>15, <3>2, <3>3 DEF Probe
  <2>16. CASE Return
    <3> DEFINE e == Emit(pipe, auto.result)
               next == [e EXCEPT !.phase = "live"]
    <3>1. e \in Pipes
      BY <1>2, <2>0, EmitType DEF TypeOK
    <3>2. next \in Pipes /\ next.phase = "live"
      BY <3>1 DEF Pipes
    <3>3. pipe' = Switch(next) /\ UNCHANGED <<subs, unloading>>
      BY <2>16 DEF Return
    <3> HIDE DEF next
    <3> QED
      BY <2>0, <2>1, <3>2, <3>3, SwitchSound
  <2>17. CASE Forget
    <3> DEFINE next == [pipe EXCEPT !.clears = @ - 1]
    <3>1. /\ next.provider = pipe.provider /\ next.phase = pipe.phase
          /\ next.view = pipe.view /\ next.wallet = pipe.wallet
      BY <2>0 DEF Pipes
    <3>2. pipe' = next /\ UNCHANGED <<subs, unloading>>
      BY <2>17 DEF Forget
    <3> HIDE DEF next
    <3>3. Sound(next)
      BY <1>2, <3>1 DEF Sound, WalletSelected, Tracks, Ghostless
    <3> QED
      BY <2>1, <3>2, <3>3
  <2>18. CASE Log
    <3>1. CASE UNCHANGED pipe /\ UNCHANGED <<subs, unloading>>
      BY <1>2, <2>1, <3>1
    <3>2. CASE /\ pipe' = [pipe EXCEPT !.phase = "cold", !.view = Nothing]
               /\ UNCHANGED unloading
      <4>1. pipe.wallet = NoWallet
        BY <1>2, <2>18 DEF Log, Checking, Sound, WalletSelected
      <4>2. pipe'.wallet = pipe.wallet /\ pipe'.phase = "cold"
        BY <2>0, <3>2 DEF Pipes
      <4> QED
        BY <4>1, <4>2 DEF Sound, WalletSelected, NoWallet
    <3> QED
      BY <2>18, <3>1, <3>2 DEF Log
  <2>19. CASE UNCHANGED vars
    BY <1>2, <2>1, <2>19 DEF vars
  <2>20. CASE WalletAnswers
    <3>1. ASSUME NEW a \in Accounts, WalletReports(Connected(pipe.provider, a))
          PROVE  Sound(pipe)'
      <4>1. Connected(pipe.provider, a) \in Reports
        BY <2>0, <3>1, ReportTypes DEF WalletReports, Pipes
      <4> QED
        BY <2>10, <3>1, <4>1
    <3> QED
      BY <2>10, <2>20, <3>1, ReportTypes DEF WalletAnswers
  <2>21. CASE Application
    BY <2>2, <2>3, <2>4, <2>6, <2>8, <2>21 DEF Application
  <2>22. CASE Continuations
    BY <2>5, <2>7, <2>11, <2>13, <2>14, <2>15, <2>16, <2>18, <2>22
       DEF Continuations, CheckAutoConnect
  <2> QED
    BY <1>2, <2>9, <2>12, <2>17, <2>19, <2>20, <2>21, <2>22 DEF Next
<1>3. ASSUME TypeOK, Checking, [Next]_vars
      PROVE  Checking'
  <2>0. IsFiniteSet(subs) /\ pipe \in Pipes /\ auto.result \in Reports
    BY <1>3, SubscribersFinite DEF TypeOK
  <2>1. ASSUME pipe'.phase = pipe.phase, auto' = auto
        PROVE  Checking'
    BY <1>3, <2>1 DEF Checking
  <2>2. ASSUME pipe' = Observe(pipe), auto' = StartChecking(pipe)
        PROVE  Checking'
    <3>1. CASE pipe.phase = "cold"
      BY <2>0, <2>2, <3>1 DEF Observe, Checking, Pipes
    <3>2. CASE pipe.phase # "cold"
      <4>1. pipe'.phase = pipe.phase
        BY <2>0, <2>2, <3>2, TapEffect DEF Observe
      <4> QED
        BY <2>1, <2>2, <3>2, <4>1 DEF StartChecking
    <3> QED
      BY <3>1, <3>2
  <2>3. ASSUME NEW p \in Providers \cup {None}
        PROVE  Select(pipe, p).phase = pipe.phase
    BY <2>0, SelectPhase
  <2>4. CASE \/ \E s \in Subscribers : Subscribe(s)
             \/ \E c \in Callers, p \in Providers : Connect(c, p)
    BY <2>2, <2>4 DEF Subscribe, Connect
  <2>5. CASE \/ \E s \in Subscribers : Unsubscribe(s)
             \/ Disconnect \/ BeforeUnload \/ UNCHANGED vars
    BY <2>1, <2>5 DEF Unsubscribe, Disconnect, BeforeUnload, vars
  <2>6. ASSUME NEW c \in Callers, Resume(c)
        PROVE  Checking'
    <3>1. calls[c].target \in Providers \cup {None}
      BY <1>3 DEF TypeOK
    <3> QED
      BY <2>1, <2>3, <2>6, <3>1 DEF Resume
  <2>7. ASSUME NEW p \in leaving, DisconnectDone(p)
        PROVE  Checking'
    BY <2>1, <2>3, <2>7 DEF DisconnectDone
  <2>8. CASE Reload \/ Log \/ Return
    <3>1. CASE auto' = NotChecking
      BY <3>1 DEF NotChecking, Checking
    <3>2. CASE auto' # NotChecking /\ UNCHANGED pipe
      BY <1>3, <2>8, <3>2 DEF Reload, Log, Return, Checking
    <3> QED
      BY <2>8, <3>1, <3>2 DEF Reload, Log, Return
  <2>9. CASE WalletAnswers \/ WalletFails
    <3>1. pipe.phase = "live" /\ auto' = auto
      BY <2>9 DEF WalletAnswers, WalletReports, WalletFails
    <3> QED
      BY <1>3, <3>1 DEF Checking
  <2>10. CASE MapperResolves
    <3> DEFINE next == [pipe EXCEPT !.wallet.pending = FALSE]
    <3>1. next \in Pipes /\ next.phase = pipe.phase /\ pipe.wallet.source \in Reports
      BY <2>0 DEF Pipes, Wallets
    <3>2. pipe' = Emit(next, pipe.wallet.source) /\ auto' = auto
      BY <2>10 DEF MapperResolves
    <3> HIDE DEF next
    <3> QED
      BY <2>0, <2>1, <3>1, <3>2, EmitEffect
  <2>11. CASE Scan \/ Probe
    <3>1. auto.at \in Providers /\ auto.pc # "idle"
      BY <1>3, <2>11 DEF TypeOK, Scan, Probe
    <3>2. pipe'.phase = pipe.phase
      BY <2>3, <2>11, <3>1 DEF Scan, Probe
    <3> QED
      BY <1>3, <3>1, <3>2 DEF Checking
  <2>12. CASE Load
    BY <1>3, <2>12 DEF Load, Checking
  <2>13. CASE Forget
    BY <2>0, <2>1, <2>13 DEF Forget, Pipes
  <2> QED
    BY <1>3, <2>4, <2>5, <2>6, <2>7, <2>8, <2>9, <2>10, <2>11, <2>12, <2>13
       DEF Next, Application, Continuations, CheckAutoConnect
<1> QED
  BY <1>1, <1>2, <1>3, TypeCorrect, PTL DEF Spec, IInv

\* For every connector, every application and every wallet: what subscribers
\* see is the latest state of the selected wallet (connector.ts:97-145).
THEOREM ViewIsCurrent == Spec => []ViewTracksWallet
<1>1. IInv => ViewTracksWallet
  BY DEF IInv, Sound, Tracks, ViewTracksWallet, Live
<1> QED
  BY <1>1, SoundPipeline, PTL

\* For every connector: a wallet that is not mapped and that was seen to be
\* disconnected is not selected any more (connector.ts:168).
THEOREM NoGhosts == Spec => []NoGhostProvider
<1>1. IInv => NoGhostProvider
  BY DEF IInv, Sound, Ghostless, NoGhostProvider, Live
<1> QED
  BY <1>1, SoundPipeline, PTL

=============================================================================
