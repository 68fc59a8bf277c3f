------------------------------ MODULE Connector ------------------------------
(***************************************************************************)
(* The wallet connector of packages/connectors/connector: one Connector     *)
(* object, the rxjs pipeline behind its `connection` observable, the value  *)
(* it keeps in the IConnectorStateProvider for the next page load, the      *)
(* application that calls connect() and disconnect() and the wallets that   *)
(* answer.  The code is single threaded: every synchronous stretch of it,   *)
(* from one await to the next, is one action, and the synchronous cascade   *)
(* of the rxjs operators is computed by the operators on `pipe`.            *)
(***************************************************************************)
EXTENDS Integers, FiniteSets

CONSTANTS
    N,            \* how many connection providers the connector was given
    NumAccounts,  \* how many different connections a wallet can report
    Subscribers,  \* parts of the application that may observe `connection`
    Callers,      \* independent callers of connect()
    Mapped,       \* the providers wrapped by MappedConnectionProvider
    Patient,      \* TRUE: the application makes one request at a time, and
                  \*   calls connect() only when it sees "disconnected"
    LocalStorage, \* TRUE: the state provider answers within a microtask, as
                  \*   DefaultConnectionStateProvider does
    MaxClears     \* bound: tap callbacks waiting for getValue() at once

Providers == 1..N
None == 0             \* `undefined`, as a provider and as a saved id
Foreign == N + 1      \* a saved id that belongs to no provider of the list
Accounts == 1..NumAccounts

ASSUME ConstantsAssumption ==
    /\ N \in Nat \ {0}
    /\ NumAccounts \in Nat \ {0}
    /\ Mapped \subseteq Providers
    /\ Patient \in BOOLEAN
    /\ LocalStorage \in BOOLEAN
    /\ MaxClears \in Nat
    /\ IsFiniteSet(Subscribers)

(***************************************************************************)
(* Connection states (connection-state.ts).  `error` and `disconnect` are   *)
(* left out: nothing in the pipeline looks at them.                         *)
(***************************************************************************)
Report(st, p, a) == [status |-> st, id |-> p, account |-> a]

Nothing == Report("none", None, None)    \* no one has subscribed yet
Initializing == Report("initializing", None, None)
Disconnected == Report("disconnected", None, None)
Connecting(p) == Report("connecting", p, None)
Connected(p, a) == Report("connected", p, a)

Reports == {Disconnected} \cup {Connecting(p) : p \in Providers}
             \cup {Connected(p, a) : p \in Providers, a \in Accounts}
Views == Reports \cup {Nothing, Initializing}

VARIABLES
    pipe,      \* the connector's own pipeline, see Pipes
    saved,     \* what the state provider holds
    subs,      \* the subscribers of `connection`
    calls,     \* the connect() calls in flight
    auto,      \* the run of checkAutoConnect
    leaving,   \* the providers whose disconnect() is in flight
    unloading  \* the static Connector.pageUnloading

vars == <<pipe, saved, subs, calls, auto, leaving, unloading>>

(***************************************************************************)
(* pipe.provider  the BehaviorSubject's value                               *)
(* pipe.phase     "cold" until the first subscription, "auto" while concat  *)
(*                waits for checkAutoConnect, "live" once it has subscribed *)
(*                to the provider subject                                   *)
(* pipe.view      what shareReplay replays: the last state let through      *)
(* pipe.wallet    the observable switchMap is subscribed to: the last state *)
(*                of the raw provider, whether the mapper still works on it,*)
(*                whether the observable is over                            *)
(* pipe.clears    tap callbacks that read a saved id and will erase it      *)
(***************************************************************************)
NoWallet == [source |-> Disconnected, pending |-> FALSE, ended |-> TRUE]
Wallets == [source : Reports, pending : BOOLEAN, ended : BOOLEAN]
Pipes == [provider : Providers \cup {None}, phase : {"cold", "auto", "live"},
          view : Views, wallet : Wallets, clears : Nat]

ColdPipe == [provider |-> None, phase |-> "cold", view |-> Nothing,
             wallet |-> NoWallet, clears |-> 0]

Idle == [pc |-> "idle", target |-> None, refuse |-> FALSE]
NotChecking == [pc |-> "idle", at |-> None, result |-> Disconnected]

TypeOK ==
    /\ pipe \in Pipes
    /\ saved \in Providers \cup {None, Foreign}
    /\ subs \subseteq Subscribers
    /\ calls \in [Callers -> [pc : {"idle", "waiting"},
                              target : Providers \cup {None},
                              refuse : BOOLEAN]]
    /\ auto \in [pc : {"idle", "scan", "load", "probe", "log", "return"},
                 at : Providers \cup {None, Foreign}, result : Reports]
    /\ auto.pc \in {"scan", "probe"} => auto.at \in Providers
    /\ leaving \subseteq Providers
    /\ unloading \in BOOLEAN

-----------------------------------------------------------------------------
(***************************************************************************)
(* The operators of the pipeline, in the order a value flows through them.  *)
(***************************************************************************)

\* (mutant) the comparison forgets ids and connections
SameStatus(c1, c2) == c1.status = c2.status

\* the comparison function of the outer distinctUntilChanged
Same(c1, c2) ==
    /\ c1.status = c2.status
    /\ c1.status = "connected" => c1.id = c2.id /\ c1.account = c2.account
    /\ c1.status = "connecting" => c1.id = c2.id

\* (mutant) the tap callback leaves the provider selected
TapKeepsProvider(k, n) ==
    IF n = 0 \/ unloading THEN k
    ELSE [k EXCEPT !.clears = @ + (IF saved = None THEN 0 ELSE n)]

\* (mutant) the tap callback does not look at pageUnloading
TapWhileUnloading(k, n) ==
    IF n = 0 THEN k
    ELSE [k EXCEPT !.provider = None, !.wallet = NoWallet,
                   !.clears = @ + (IF saved = None THEN 0 ELSE n)]

\* (mutant) the tap callback does not erase the saved id
TapKeepsSaved(k, n) ==
    IF n = 0 \/ unloading THEN k
    ELSE [k EXCEPT !.provider = None, !.wallet = NoWallet]

\* the tap callback of n subscribers that are handed "disconnected": the
\* provider is dropped (its observable with it) and getValue() is called
Tap(k, n) ==
    IF n = 0 \/ unloading THEN k
    ELSE [k EXCEPT !.provider = None, !.wallet = NoWallet,
                   !.clears = @ + (IF saved = None THEN 0 ELSE n)]

\* a state arrives at the outer distinctUntilChanged
Emit(k, c) ==
    IF unloading \/ Same(k.view, c) THEN k
    ELSE IF c.status = "disconnected"
    THEN Tap([k EXCEPT !.view = c], Cardinality(subs))
    ELSE [k EXCEPT !.view = c]

\* (mutant) exhaustMap: a provider is ignored while the last one goes on
SwitchExhausts(k) ==
    IF ~k.wallet.ended THEN k
    ELSE IF k.provider = None
    THEN Emit([k EXCEPT !.wallet = NoWallet], Disconnected)
    ELSE Emit([k EXCEPT !.wallet = [source |-> Connecting(k.provider),
                                    pending |-> k.provider \in Mapped,
                                    ended |-> FALSE]],
              IF k.provider \in Mapped THEN k.view ELSE Connecting(k.provider))

\* switchMap subscribes to the observable of the provider the subject holds;
\* every provider starts with "connecting", a mapped one hands it on later
Switch(k) ==
    IF k.provider = None
    THEN Emit([k EXCEPT !.wallet = NoWallet], Disconnected)
    ELSE LET first == Connecting(k.provider)
             mapping == k.provider \in Mapped
             next == [k EXCEPT !.wallet = [source |-> first, pending |-> mapping,
                                           ended |-> FALSE]]
         IN  IF mapping THEN next ELSE Emit(next, first)

\* this.provider.next(p)
Select(k, p) ==
    IF k.phase # "live" THEN [k EXCEPT !.provider = p]
    ELSE IF k.provider = p THEN k
    ELSE Switch([k EXCEPT !.provider = p])

\* (mutant) a new subscriber's tap reacts to every state but "connected"
ObserveTapsAlways(k) ==
    IF k.phase = "cold" THEN [k EXCEPT !.phase = "auto", !.view = Initializing]
    ELSE IF k.view.status # "connected" THEN Tap(k, 1)
    ELSE k

\* one more subscription to `connection`: the first one starts the source,
\* the others get the replayed state, through a map and a tap of their own
Observe(k) ==
    IF k.phase = "cold" THEN [k EXCEPT !.phase = "auto", !.view = Initializing]
    ELSE IF k.view.status = "disconnected" THEN Tap(k, 1)
    ELSE k

\* checkAutoConnect starts with the source
StartChecking(k) ==
    IF k.phase = "cold" THEN [NotChecking EXCEPT !.pc = "scan", !.at = 1] ELSE auto

Bounded == pipe'.clears <= MaxClears

-----------------------------------------------------------------------------
(***************************************************************************)
(* The application.                                                         *)
(***************************************************************************)

Subscribe(s) ==
    /\ s \notin subs
    /\ subs' = subs \cup {s}
    /\ pipe' = Observe(pipe)
    /\ auto' = StartChecking(pipe)
    /\ Bounded
    /\ UNCHANGED <<saved, calls, leaving, unloading>>

Unsubscribe(s) ==
    /\ s \in subs
    /\ subs' = subs \ {s}
    /\ UNCHANGED <<pipe, saved, calls, auto, leaving, unloading>>

NoRequest == leaving = {} /\ \A c \in Callers : calls[c].pc = "idle"

\* connect(option) up to its await: the provider and the state it will judge
\* by are both read here, and first() has subscribed and unsubscribed
Connect(c, p) ==
    /\ calls[c].pc = "idle"
    /\ Patient => NoRequest /\ pipe.view.status = "disconnected"
    /\ pipe' = Observe(pipe)
    /\ auto' = StartChecking(pipe)
    /\ calls' = [calls EXCEPT ![c] =
                   [pc |-> "waiting", target |-> p,
                    refuse |-> /\ pipe.provider # None
                               /\ pipe.view.status = "connected"]]
    /\ Bounded
    /\ UNCHANGED <<saved, subs, leaving, unloading>>

\* connect(option) after its await: it throws, or selects the provider and
\* saves its id
Resume(c) ==
    /\ calls[c].pc = "waiting"
    /\ calls' = [calls EXCEPT ![c] = Idle]
    /\ IF calls[c].refuse
       THEN UNCHANGED <<pipe, saved>>
       ELSE /\ pipe' = Select(pipe, calls[c].target)
            /\ saved' = calls[c].target
    /\ Bounded
    /\ UNCHANGED <<subs, auto, leaving, unloading>>

\* a subscriber calls the disconnect() of the connected state it was given
Disconnect ==
    /\ pipe.view.status = "connected" /\ subs # {}
    /\ Patient => NoRequest
    /\ leaving' = leaving \cup {pipe.view.id}
    /\ UNCHANGED <<pipe, saved, subs, calls, auto, unloading>>

\* the wallet's own disconnect() has settled, well or badly
DisconnectDone(p) ==
    /\ p \in leaving
    /\ leaving' = leaving \ {p}
    /\ pipe' = Select(pipe, None)
    /\ Bounded
    /\ UNCHANGED <<saved, subs, calls, auto, unloading>>

\* window "beforeunload"
BeforeUnload ==
    /\ ~unloading
    /\ unloading' = TRUE
    /\ UNCHANGED <<pipe, saved, subs, calls, auto, leaving>>

\* the page is gone, at any moment, and loaded again: only the saved id is kept
Reload ==
    /\ pipe' = ColdPipe
    /\ subs' = {}
    /\ calls' = [c \in Callers |-> Idle]
    /\ auto' = NotChecking
    /\ leaving' = {}
    /\ unloading' = FALSE
    /\ UNCHANGED saved

-----------------------------------------------------------------------------
(***************************************************************************)
(* The wallet behind the selected provider.                                 *)
(***************************************************************************)

\* it connects, changes account, or says it is disconnected; the switchMap of
\* a mapped provider forgets the state its mapper was still working on
WalletReports(c) ==
    /\ pipe.phase = "live" /\ pipe.provider # None /\ ~pipe.wallet.ended
    /\ LET mapping == pipe.provider \in Mapped
           next == [pipe EXCEPT !.wallet = [source |-> c, pending |-> mapping,
                                            ended |-> FALSE]]
       IN  pipe' = IF mapping THEN next ELSE Emit(next, c)
    /\ Bounded
    /\ UNCHANGED <<saved, subs, calls, auto, leaving, unloading>>

WalletAnswers ==
    \/ \E a \in Accounts : WalletReports(Connected(pipe.provider, a))
    \/ WalletReports(Disconnected)

\* the mapper's promise resolves
MapperResolves ==
    /\ pipe.wallet.pending
    /\ pipe' = Emit([pipe EXCEPT !.wallet.pending = FALSE], pipe.wallet.source)
    /\ Bounded
    /\ UNCHANGED <<saved, subs, calls, auto, leaving, unloading>>

\* the observable or the mapper fails: catchError, then NEVER
WalletFails ==
    /\ pipe.phase = "live" /\ pipe.provider # None /\ ~pipe.wallet.ended
    /\ pipe' = Emit([pipe EXCEPT !.wallet = NoWallet], Disconnected)
    /\ Bounded
    /\ UNCHANGED <<saved, subs, calls, auto, leaving, unloading>>

-----------------------------------------------------------------------------
(***************************************************************************)
(* checkAutoConnect, one action from await to await.                        *)
(***************************************************************************)

Conclude(c) == auto' = [pc |-> "return", at |-> None, result |-> c]

\* (mutant) an auto-connected provider is selected but not saved
ScanForgetsToSave ==
    /\ auto.pc = "scan"
    /\ \/ /\ pipe' = Select(pipe, auto.at)
          /\ Conclude(Connecting(auto.at))
       \/ /\ auto.at = N
          /\ auto' = [auto EXCEPT !.pc = "load", !.at = saved]
          /\ UNCHANGED pipe
    /\ UNCHANGED <<saved, subs, calls, leaving, unloading>>

\* isAutoConnected() of the provider in turn has answered or failed
Scan ==
    /\ auto.pc = "scan"
    /\ \/ /\ pipe' = Select(pipe, auto.at)
          /\ saved' = auto.at
          /\ Conclude(Connecting(auto.at))
       \/ /\ auto.at < N
          /\ auto' = [auto EXCEPT !.at = @ + 1]
          /\ UNCHANGED <<pipe, saved>>
       \/ /\ auto.at = N
          /\ auto' = [auto EXCEPT !.pc = "load", !.at = saved]
          /\ UNCHANGED <<pipe, saved>>
       \/ /\ Conclude(Disconnected)
          /\ UNCHANGED <<pipe, saved>>
    /\ UNCHANGED <<subs, calls, leaving, unloading>>

\* (mutant) nothing is returned for a saved id that matches no provider
LoadHangs ==
    /\ auto.pc = "load"
    /\ auto.at \in Providers
    /\ auto' = [auto EXCEPT !.pc = "probe"]
    /\ UNCHANGED <<pipe, saved, subs, calls, leaving, unloading>>

\* getValue() has answered: ask the provider with that id, if there is one
Load ==
    /\ auto.pc = "load"
    /\ IF auto.at \in Providers
       THEN auto' = [auto EXCEPT !.pc = "probe"]
       ELSE Conclude(Disconnected)
    /\ UNCHANGED <<pipe, saved, subs, calls, leaving, unloading>>

\* isConnected() of the saved provider has answered or failed
Probe ==
    /\ auto.pc = "probe"
    /\ \/ /\ pipe' = Select(pipe, auto.at)
          /\ Conclude(Connecting(auto.at))
          /\ UNCHANGED saved
       \/ /\ saved' = None
          /\ Conclude(Disconnected)
          /\ UNCHANGED pipe
       \/ /\ auto' = [auto EXCEPT !.pc = "log"]
          /\ UNCHANGED <<pipe, saved>>
    /\ UNCHANGED <<subs, calls, leaving, unloading>>

\* the catch clause waits for getOption() before it returns; if that fails
\* too, the whole observable fails: its subscribers are gone, a connect() that
\* has its state goes on, and the next subscription starts the source again
Log ==
    /\ auto.pc = "log"
    /\ \/ Conclude(Disconnected) /\ UNCHANGED <<pipe, subs>>
       \/ /\ auto' = NotChecking
          /\ subs' = {}
          /\ pipe' = [pipe EXCEPT !.phase = "cold", !.view = Nothing]
    /\ UNCHANGED <<saved, calls, leaving, unloading>>

\* the promise defer() waits for has resolved: its state is emitted, then
\* concat subscribes to the provider subject
Return ==
    /\ auto.pc = "return"
    /\ auto' = NotChecking
    /\ pipe' = Switch([Emit(pipe, auto.result) EXCEPT !.phase = "live"])
    /\ Bounded
    /\ UNCHANGED <<saved, subs, calls, leaving, unloading>>

CheckAutoConnect == Scan \/ Load \/ Probe \/ Log \/ Return

-----------------------------------------------------------------------------
\* (mutant) the value getValue() answered with is not looked at
ForgetUnasked ==
    /\ pipe' = [pipe EXCEPT !.clears = @ - 1]
    /\ saved' = None
    /\ UNCHANGED <<subs, calls, auto, leaving, unloading>>

\* tap after its await: the saved id is erased, whatever it is by now
Forget ==
    /\ pipe.clears > 0
    /\ pipe' = [pipe EXCEPT !.clears = @ - 1]
    /\ saved' = None
    /\ UNCHANGED <<subs, calls, auto, leaving, unloading>>

Init ==
    /\ pipe = ColdPipe
    /\ saved \in Providers \cup {None, Foreign}
    /\ subs = {}
    /\ calls = [c \in Callers |-> Idle]
    /\ auto = NotChecking
    /\ leaving = {}
    /\ unloading = FALSE

\* with LocalStorage a tap callback is the next microtask to run
Settled == LocalStorage => pipe.clears = 0

Application ==
    \/ \E s \in Subscribers : Subscribe(s) \/ Unsubscribe(s)
    \/ \E c \in Callers, p \in Providers : Connect(c, p)
    \/ Disconnect
    \/ BeforeUnload

Continuations ==
    \/ \E c \in Callers : Resume(c)
    \/ \E p \in leaving : DisconnectDone(p)
    \/ MapperResolves
    \/ CheckAutoConnect

Next ==
    \/ Settled /\ (Application \/ WalletAnswers \/ WalletFails \/ Continuations)
    \/ Forget
    \/ Reload

Spec == Init /\ [][Next]_vars

(***************************************************************************)
(* Promises settle: the continuations of the connector's own code run.      *)
(* Nothing is assumed of the user or of the wallet.                         *)
(***************************************************************************)
FairSpec ==
    /\ Spec
    /\ WF_vars(Settled /\ CheckAutoConnect)
    /\ WF_vars(Settled /\ MapperResolves)
    /\ WF_vars(Settled /\ \E c \in Callers : Resume(c))
    /\ WF_vars(Forget)

=============================================================================
