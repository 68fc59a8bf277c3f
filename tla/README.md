# Verification of the Rarible SDK

TLA+ models of the parts of the Rarible SDK (`src/packages/*`) whose
correctness depends on order: asynchronous callbacks, transactions that are
sent but not yet mined, sums collected across awaits. The models are checked
with TLC on small instances (`MC*.tla`, `MC*_*.cfg`), and the main results are
proved with TLAPS for every value of the constants (`*Proofs.tla`).
`PROJECT.json` maps each definition to the lines it models and lists runs,
mutants, findings, hazards and theorems.

    tlc -config MCConnector_races.cfg MCConnector
    tlapm ConnectorProofs.tla

All paths below are relative to `src/packages/`.

## 1. Inventory

The SDK is a library: it runs in the application's JavaScript thread, keeps
little state of its own, and coordinates parties it does not control (wallet,
node, chain, Rarible API). There is no parallelism, but every `await` lets
other calls, the wallet, the chain or the page's end come in between.

| Component | State | Operations | Interacts with | Hard behaviour | What makes it correct |
|---|---|---|---|---|---|
| Wallet connector (`connectors/connector`) | selected provider (BehaviorSubject), replayed connection state, saved id, `pageUnloading` | `connect`, `connection`, `checkAutoConnect`, `disconnect` of a state | wallet providers (observables), state provider, application | initialisation racing `connect()`, late mappers, replay to several subscribers, unload | what is shown is the current state of the selected wallet; the saved id is that wallet's; a lost wallet can be reconnected |
| Wallet providers (`connectors/connector-*`, `evm`, `solana`) | session of a third-party wallet | `getConnection`, `isConnected`, `isAutoConnected` | connector, wallet's events | event order, listeners left behind | every change of account or chain is reported |
| Connector helper (`connectors/connector-helper`) | none | maps connections to SDK wallets | connector, union SDK | - | - |
| ERC-20 approvals, bids, purchases (`ethereum/sdk/src/order`) | none of its own: allowance, transactions, orders | `bid`, `buy`, `buyBatch`, `update`: "approve", then "sign" or "send-tx" | provider, token, order API | allowance read and used after awaits; receipts that do not come; calls that overlap | no order is signed or sent on an approval that may still fail; approvals do not undo each other |
| Origin fees (`order/fill-order`, `batch-purchase`, `common`) | `OriginFeeReducer.addresses`, prepared orders, `totalValue` | `buy` of `BatchOrderFiller`, single purchases through the wrapper | approvals, exchange wrapper contract | two places shared by all requests, amounts computed along several paths, rounding | every receiver gets its fee once; what is sent covers what is taken |
| Marketplace handlers (`fill-order/{seaport,looksrare*,amm,open-sea,crypto-punks}.ts`) | none; Seaport: the fraction filled, in the contract | build call data and its value | order APIs, Seaport, exchange wrapper | parts of ERC-1155 listings, filled by others meanwhile | the value covers the part; nobody pays for more than was asked for |
| Other Ethereum operations (`sell`, `cancel`, `convert-weth`, `nft/*`) | none | `mint`, lazy mint, `sell`; single transactions | provider, order and NFT APIs | a token id two calls share | only the owner's own token is offered |
| Ethereum providers (`ethereum-provider`, `web3*-ethereum`, `ethers-ethereum`) | reserve node | `send`, `call`, `estimateGas`, `wait` | node | retries, fallback to a reserve node, timeouts | a retried call is not sent twice |
| Biconomy middleware (`ethereum/biconomy-middleware`) | `biconomyState`, registry | wraps the provider's requests | Biconomy, contract nonce, wallet | a client that never starts, two requests with one nonce, answers that are lost | one request, one transaction |
| Union SDK (`sdk`) | none | dispatch by blockchain, `mintAndSell`, method middleware | all SDKs | mint, wait, retry, sell: steps that fail in between | an item is sold only once it exists, by the call that made it |
| Retrying (`sdk-common/src/utils/retry.ts`), transactions (`transaction`) | attempts left | `retry`, `conditionalRetry`, `wait` | API, node | limits of attempts | at most `num + 1` attempts, the last error is thrown |
| Solana and Eclipse SDKs (`solana-sdk`, `eclipse-sdk`, `sdk/.../eclipse`) | signed transactions, `done` flags | `sell`, `bid`, `fill`, `cancel`; `submit`, `wait` | RPC node, marketplace program | the same bytes sent every half second, notifications against polls against a timer, forks | the verdict is the ledger's; trying again does not trade twice |
| Transaction backend (`transaction-backend`) | none | HTTP routes | union SDK | - | - |
| Aptos, Immutable X SDKs and wallets; wallet abstraction (`wallet`) | none | build and send instructions | programs outside the repository | - | - |
| e2e tests, examples | - | - | - | - | - |

`PROJECT.json`, "components", says for each whether it is modelled; "hazards"
lists what is hard to test, at its line, with the properties that cover it.

## 2. Modules

    ConnectionContract        what a connector promises (abstract)
    Connector                 the rxjs pipeline, connect(), auto-connect
      ConnectorProperties       properties, refinement of ConnectionContract
        MCConnector, ConnectorProofs
          ConnectorPatienceProofs
    Erc20Orders               bids and purchases paid in one token
      Erc20OrdersProperties
        MCErc20Orders, Erc20OrdersProofs
    OriginFees                batches and single purchases through the wrapper
      OriginFeesProperties      what the contracts pay and take; properties
        MCOriginFees, OriginFeesProofs
    SeaportOrders             parts of an ERC-1155 listing on Seaport
      SeaportOrdersProperties
        MCSeaportOrders, SeaportOrdersProofs
    MintMarket                what minting and selling promises (abstract)
    MintAndSell               union SDK, web3 provider, Biconomy middleware
      MintAndSellProperties     properties, refinement of MintMarket
        MCMintAndSell, MintAndSellProofs
    EclipseTransactions       orders on Eclipse, their sending and awaiting
      EclipseTransactionsProperties
        MCEclipseTransactions, EclipseTransactionsProofs
    ArithmeticLemmas          well order, induction, quotients, sums; used by
                              OriginFeesProofs and SeaportOrdersProofs

Definitions marked `(mutant)` are broken forms of the definition that follows
them. No action uses them; they show that each property can fail.

### Connector

One `Connector` object on one page. `pipe` is the rxjs pipeline:
`pipe.provider` is the BehaviorSubject's value, `pipe.view` what `shareReplay`
replays, `pipe.wallet` the observable `switchMap` is subscribed to,
`pipe.clears` the tap callbacks that wait for `getValue()`; `pipe.phase` says
whether the source is cold, waits for `checkAutoConnect`, or is live. `saved`
is what the state provider holds, `auto` the run of `checkAutoConnect`, `calls`
the `connect()` calls in flight.

The cascade of rxjs operators is synchronous, so it is computed by operators on
`pipe`, in the order a value flows through them: `Select` is `provider.next`,
`Switch` the `switchMap`, `Emit` the outer `distinctUntilChanged`, `Tap` the
`tap` of every subscriber, `Observe` one more subscription. Every stretch of an
async function between two awaits is one action: `Connect`/`Resume`,
`Scan`/`Load`/`Probe`/`Log`/`Return`, `Disconnect`/`DisconnectDone`, `Forget`
(a tap callback after its await). `Reload` ends the page at any moment; only
`saved` survives.

The wallet is external: it may report any connection, disconnect or fail at
any time while it is subscribed to. `Mapped` providers go through
`MappedConnectionProvider`, whose states are late. `ConnectionContract` is what
an observer may rely on: a wallet is shown only while it is the chosen one.

### Erc20Orders

One owner, one token, one transfer proxy. `allowance` is the chain's,
`mempool` the owner's unmined transactions in the order of their nonces, `book`
the bids published, `calls` the SDK calls with the await each one is at. A call
goes `check -> approve -> confirm -> prepared` (first step) and then publishes
a bid (`Post`) or estimates and sends a purchase (`Estimate`, `Send`).
`Approve` models `approveErc20` with `waitTx` or, in a batch, without. `TimeOut`
is the 30 minutes of the web3 promise: the call throws and the transaction
stays. `Quit` stands for every way a call throws or is abandoned between two
awaits. Mining, which may fail an approval, and other traders (`TakeBid`) are
external. The provider is `web3-ethereum`, for web3 1.x, which rejects the
receipt of a reverted transaction: an approval that fails ends its call.
`Disturbances` switches on overlapping calls, timeouts and takers.

### OriginFees

One call of `BatchOrderFiller.buy` after the other, or a single purchase
through the wrapper. `addresses` is `OriginFeeReducer.addresses`, `orders` the
`preparedOrders` (the request, the packed fees and their sum), `approved` the
sums of `groupErc20AssetsByContract`, `value` is `totalValue`, and `ready` says
which callbacks of the `Promise.all` at batch-purchase.ts:257 are through: they
finish in any order. `Prepare` is one request: the two places for fee receivers
go to the accounts as they turn up, a third account or part fails the batch.
LOOKSRARE_V2 takes one part only and refuses more when its data are made
(`Accepted`). A request's `weth` says that it is paid in WETH: orders of X2Y2 and
LOOKSRARE that are priced in WETH are paid in ether and so belong to the others.

`OriginFeesProperties` states the other side. `Paid` is what the contracts pay an
account for an order, from the addresses of the batch and the unpacked fees, or
from the call data of a RARIBLE_V2 order; `Cost` is what they take, each fee
rounded down on its own.

### SeaportOrders

One ERC-1155 listing paid in the native currency. `status` is the contract's
`getOrderStatus()`, a fraction `filled / size` that fills of another fraction
rescale; `stock` is the offerer's balance. A purchase is asked for (`Ask`),
reads the status and the balances (`Check`), computes its fraction, value and
tip directly (`BuildDirect`) or for the exchange wrapper (`BuildWrapper`), passes
the estimation (`Send`) and is mined (`Mine`). `Gcd`, `MaxUnits`, `Fraction`,
`Tip`, `Quote`, `WithFees` and `WrapperAmount` are the code's arithmetic: `Gcd`
recurs as `gcd.ts` does (as a recursive function, so that it can be proved
about), numerators and denominators are kept apart where the code uses
BigNumber, and rounding up by (Duration - 1) / Duration is the code's way of
rounding amounts that change with time. `Filling`, `Part` and `Needed` are the
contract's. Meanwhile other purchases are mined, and the offerer cancels
(`Cancel`) or moves tokens (`MoveAway`).

### MintAndSell

Calls of `nft.mintAndSell()` of one account: `Begin`, then `MintLazily` or
`Estimate`, the transaction's hash ("send") and its receipt (`Wait`), the search
for the item (`NotFound`, `Found`) and `Sell`. `request` is where the call's
`eth_sendTransaction` is, apart from the place of the call: the timers of hash and
receipt end the call (`TimeOut`), while its request goes on and may still be
signed, relayed and mined. Between the SDK and the wallet stands the middleware:
`Lookup` (is the contract registered), `CheckLimits` (awaits `biconomyState`),
`ReadNonce`, `Relay`. `Refuse` is an error before anything is sent, `AnswerLost`
one after the broadcast, whose `res.error` ends the request; `SendPlain` is the
wallet's own transaction. Whatever stage an error comes from, `send()` calls
`_send()` once more if it says `missing or invalid parameters` (`Erred`): where
something was broadcast by then, the call is `misled`. `pool` holds what may
still be mined, `nonce` the contract's nonce: of two meta-transactions with one
nonce the second reverts.

`provider` is the package that sends: `web3-ethereum` for web3 1.x or
`web3-v4-ethereum` for 4.x. They differ in `Wait`: with 1.x the receipt of a
reverted transaction is rejected, with 4.x it resolves the promise
(to-promises.ts:18), nobody reads its status, and the search and the sale go on.

Two calls may have been given the same token id (`get-token-id.ts`), or the id of
one that timed out: `Ids` says which ids a call may be given. `MintMarket` is what
a caller may count on with either provider. A call offers only the token it was
given, once that is made; by the call itself where failures are `noticed` (1.x),
else (4.x) perhaps by another call that was given the same one (`given`).

### EclipseTransactions

Calls of `sell`, `bid`, `buy`, `acceptBid` and `cancel` on Eclipse, from
`Prepare` to `wait()`. `ledger` says what has become of a call's signed
transaction: none, in the pool, dead (its blockhash expired), "ok" or "err";
`final` are the confirmed ones, `undone` those a fork took back, `base` the
amounts left in the orders at the last confirmed block and `left` at the latest.
`answers` are the notifications and poll results on their way (`Learn`), in any
order; the first one settles the promise (`Settle`), later ones are dropped
(`Forget`), and the timer competes with them (`TimeOut`). `wait()` ends by `Confirm`, by its
last timeout (`NotConfirmed`) or by any other error (`ConfirmThrows`). `Resend` sends the same
bytes until the call is done. `Again` is the user who tries again what was
reported to have failed, and only that: `intent` ties the attempts together.
`Execute`, `Drop`, `Expire`, `Finalize` and `Fork` are the network.

## 3. Runs

| Run | Configuration | Properties | Shows |
|---|---|---|---|
| `connector_races` | 2 wallets (one mapped), 2 subscribers, 2 `connect()` at once, slow storage, at most 2 erasures waiting; fair | `TypeOK`, `ViewTracksWallet`, `NoGhostProvider`, `UnloadKeepsSaved`, `SelectionIsShown` | whatever races, subscribers see the current state of the selected wallet, a plain wallet seen disconnected is deselected, unloading forgets nothing |
| `connector_patient` | 3 wallets (one mapped), 2 accounts, one request at a time, localStorage; fair | `SavedIsConnected`, `NoSpuriousDeselect`, `ImplementsContract`, `InitializationEnds`, `LostWalletIsForgotten` | with a patient application the saved id is the connected wallet's and the contract is implemented |
| `connector_early` | as races, 1 subscriber, 1 caller | `InitializationKeepsRequest`, violated | finding 1 |
| `connector_saved` | same | `SavedIsConnected`, violated | finding 2 |
| `orders_careful` | 1 call at a time, bids and single purchases, prices 1..4 | `PurchasesSucceed`, `BidsAreBacked`, `ApprovalsOnlyRaise` | in sequence, "approve" then "send" suffices |
| `orders_overlap` | 2 calls, all kinds, price 1, timeouts, takers; fair | `TypeOK`, `ConfirmedBeforeUse`, `InfiniteIsForever`, `NoCallHangs` | what still holds when calls overlap |
| `fees_batch` | 5 markets, 3 accounts, fees 0 and 250 bp, base fee 100 bp, price 60, 2 orders, up to 3 parts | `TypeOK`, `FeesReachTheirAccount`, `EveryOrderIsCovered`, `PurchaseIsFunded` | fees reach their receivers, amounts suffice |
| `fees_x2y2` | 2 accounts, 1 order | `TwoFeesAreSupported`, violated | finding 3 |
| `seaport_parts` | 2 purchases at a time, any number in all, 5 listings of 2 or 4 units, fee 1/4, lifetime 10 s | `TypeOK`, `FreshQuoteCovers`, `NeverMoreThanAsked`, `FeeWithinRate` | while others fill parts, a purchase computed from a status that was not rescaled is funded, and one of an order sold as a whole always, nobody gets more than asked for, the fee keeps its rate |
| `seaport_remainder` | same | `QuoteCoversRemainder`, violated | finding 4 |
| `mint_and_sell` | either web3, 2 calls, 2 tokens, 1 repetition of the search; fair | `TypeOK`, `SentOnce`, `ImplementsMarket`, `CallsEnd` | no call broadcasts twice unless an error asks for it, none offers a token other than its own or one not made (with web3 1.x, not made by itself), and every call ends |
| `eclipse_forks` | 2 calls, 1 address, amounts up to 2, 1 repetition of `wait()`; fair | `TypeOK`, `VerdictIsTrue`, `NoDoubleTrade`, `ConfirmedIsFinal`, `SubmissionsEnd` | verdicts agree with the ledger until a fork, careful users do not trade twice, what is confirmed stays |

### Why the bounds are enough

* Connector: the pipeline handles one provider at a time, so two are enough to
  replace one by the other; a third lets auto-connect go past two. Two
  subscribers give two tap callbacks at once. `MaxClears` bounds erasures in
  flight: an action that would exceed it is not taken, nothing else is cut.
* Erc20Orders: prices up to 4 with an infinite value above allow an allowance
  that is short, exact, larger, and reduced by several purchases. With overlap,
  one price is enough since its properties compare the allowance with the price
  and with infinity only. `MaxPending` leaves room for both approvals and a fill.
  TLC sees one size of the mempool; the theorems cover all.
* OriginFees: three accounts are one more than the places; two orders let a
  second request take a free place, meet its account in either place, or be
  refused; price 60 with 250 bp gives 1.5 per fee, so rounding each fee and
  rounding the sum differ. Accounts are symmetric (no liveness is checked).
* SeaportOrders: the places of finished purchases are used again, so parts are
  filled until the listing is sold; two at a time let one be mined between
  another's reading and its mining. The listings cover one item and two, whole
  and partial orders, and prices that are no multiples of the size. A fee of 1/4
  and a lifetime of 10 s make every rounding show with small numbers. Purchases
  are symmetric (no liveness is checked).
* MintAndSell: two calls are enough for a shared nonce, a shared token and a
  token minted after another's estimation; the first call gets the first token,
  since only whether the two share one matters. The theorems hold for any number
  of calls and tokens.
  `Attempts` is 90 in the code: one repetition has both outcomes. The system
  stops when both calls have ended, hence no deadlock check.
* EclipseTransactions: two calls are a first attempt and its repetition, or a
  fill against a cancellation; amounts up to 2 let an order be filled in part.
  `Retries` is 4 in the code: one repetition has both outcomes.

### Fairness

`Connector!FairSpec` assumes that promises of the connector's own code settle:
storage, `isAutoConnected`, `isConnected`, the mapper. Nothing is assumed of the
user or the wallet. `Erc20Orders!FairSpec` assumes that the node answers
`allowance()` and that a receipt is delivered or its timer fires; the timer is
web3's (`to-promises.ts:12`), the ethers provider has none. Miners and the user
are not fair. `MintAndSell!FairSpec` assumes that each call proceeds: the
node answers `estimateGas` and the API the search, the user signs a lazy mint and
an order or refuses, and the timers of hash and receipt fire (`to-promises.ts` of
either package). Nothing is assumed of the request (`Serve`: the middleware, the
Biconomy client, the wallet, the relayer), of mining and of indexing.
`EclipseTransactions!FairSpec` assumes two timers, of `submit()`
(transactions.ts:154) and of `confirmTransaction()`; that an error ends `wait()`
earlier is not assumed. OriginFees and SeaportOrders state no liveness.

### Findings

1. A `connect()` made while `checkAutoConnect` runs is accepted and then
   dropped: the tap of the final "disconnected" deselects the provider
   (connector.ts:168). README.md:49 of the connector does just that.
2. `checkAutoConnect` may erase the id that a concurrent `connect()` has saved
   (connector.ts:242), so the connected wallet is not the saved one.
3. A single X2Y2 purchase with two origin fees is refused by a message that
   says two are supported (x2y2.ts:44-45); a batch accepts it.
4. The value sent for a part of a Seaport listing is scaled by the contract's
   denominator, which is no count of units: for a listing of four units it is 8
   after fills of 1/4 and 1/2, and a purchase of one unit sends the price of half
   a unit and reverts
   (fulfill-standard.ts:44; the comment at line 42 promises the minimum of what
   is asked for and what is left).

## 4. Proofs

| Theorem | Statement | Argument |
|---|---|---|
| `ConnectorProofs!TypeCorrect` | `Spec => []TypeOK` | types of the pipeline's operators, then one step per action |
| `ConnectorProofs!SoundPipeline` | `Spec => []IInv` | see below |
| `ConnectorProofs!ViewIsCurrent`, `NoGhosts` | `ViewTracksWallet`, `NoGhostProvider` | consequences of `IInv` |
| `ConnectorPatienceProofs!StaysPatient` | `Patient` implies `Spec => []Patience` | see below |
| `ConnectorPatienceProofs!ConnectedIsSaved` | `SavedIsConnected`, with a patient application and localStorage | consequence of `Patience` |
| `ConnectorPatienceProofs!DeselectsForCause` | `NoSpuriousDeselect`, patient | one step per action that deselects |
| `ConnectorPatienceProofs!ImplementsIt` | `ImplementsContract`, patient | every step maps to a step of `ConnectionContract` or a stutter |
| `ConnectorPatienceProofs!UnloadForgetsNothing` | `UnloadKeepsSaved` | no operator starts an erasure while unloading |
| `Erc20OrdersProofs!TypeCorrect` | `TypeOK` | an allowance is reduced only by what it covers |
| `Erc20OrdersProofs!ConfirmedFirst` | `ConfirmedBeforeUse` | a transaction carries the call that waits for it, see below |
| `Erc20OrdersProofs!InfiniteStays` | `InfiniteIsForever` | an infinite allowance meets no price that exceeds it, so no approval begins |
| `Erc20OrdersProofs!StaysCareful` | `OneByOne` implies `[](TypeOK /\ Order /\ Careful)` | see below |
| `Erc20OrdersProofs!NothingLost`, `Backed`, `OnlyRaise` | `PurchasesSucceed`, `BidsAreBacked`, `ApprovalsOnlyRaise`, `OneByOne` | consequences of `Careful` |
| `OriginFeesProofs!FeesKept` | `[](TypeOK /\ FeesInv)` | see below |
| `OriginFeesProofs!TypeCorrect`, `FeesReach`, `Covered` | `TypeOK`, `FeesReachTheirAccount`, `EveryOrderIsCovered` | consequences of `FeesInv`, and arithmetic |
| `OriginFeesProofs!PurchasesAreFunded` | `PurchaseIsFunded` | `FundedInv`, see below |
| `ArithmeticLemmas!SumOfNone`, `SumOfOneMore`, `SumOfSameTerms` | what a sum over a finite set is | induction over the number of elements |
| `SeaportOrdersProofs!EuclidIsGreatest` | `gcd()` returns the greatest common divisor | induction over its first argument |
| `SeaportOrdersProofs!SeaportInvariant`, `SeaportTypes` | `Spec => []SeaportInv`, `TypeOK` | see below |
| `SeaportOrdersProofs!FreshQuotesCover`, `NobodyGetsMore`, `FeesStayWithinRate` | `FreshQuoteCovers`, `NeverMoreThanAsked`, `FeeWithinRate` | a fill is no greater share than the fraction asked for |
| `MintAndSellProofs!TypeCorrect` | `TypeOK` | one step per action |
| `MintAndSellProofs!SendsOnce` | `SentOnce` | a request under way has broadcast nothing yet (`Counted`) |
| `MintAndSellProofs!Implements` | `ImplementsMarket` | with web3 1.x a call behind its receipt made its token (`Owned`), see below |
| `EclipseTransactionsProofs!TypeCorrect` | `TypeOK` | what is left of an order is never negative |
| `EclipseTransactionsProofs!VerdictsAreTrue`, `ConfirmedForGood` | `VerdictIsTrue`, `ConfirmedIsFinal` | consequences of `ReportInv`, see below |
| `EclipseTransactionsProofs!NobodyTradesTwice` | `NoDoubleTrade` | `ReportInv` and `IntentInv` |

**Connector.** `ViewTracksWallet` and `NoGhostProvider` are not inductive: during
initialisation a provider may be selected with no subscription to it, so the
step that goes live needs to know that there is no wallet then. `IInv` adds that
there is a wallet only when the pipeline is live and a provider selected, that
only a mapped provider has a mapper at work (`WalletSelected`), and that
`checkAutoConnect` runs only before the pipeline is live (`Checking`). Inside a
cascade the facts do not hold (between `Select` and the emission the view is
behind), so each operator has a lemma that re-establishes `Sound` from the
weaker fact its caller leaves; an action's proof composes them.

**A patient application** (`Patient`) makes one request at a time and connects
only when it sees "disconnected". `Patience` says what that buys: before the
pipeline is live nothing but `checkAutoConnect` has selected a provider
(`Beginning`, `Concluding`, `Loading`), what is shown as connected is the selected
wallet (`OwnStates`), no provider is selected while a `connect()` waits and a
disconnection concerns the selected wallet (`Requests`), and, with localStorage,
an erasure comes before the next selection (`Remembered`). For the refinement the
view has to be the chosen wallet's at every step that shows one, which `OwnStates`
and `ViewTracksWallet` give together.

**Erc20Orders.** `ConfirmedBeforeUse` needs to know whose transactions are in the
mempool (`Order`): that of a call at "confirm" is its approval, that of a call
at "sent" its purchase (`Tied`), and a call has at most one (`NoDoubles`), so that
none is left when it is mined or renounced. Lemmas say what sending, mining and
giving up do to a mempool of any length (`OrderExtended`, `OrderShifted`).

With bids and single purchases made one after the other and nobody taking bids
(`OneByOne`), `Careful` adds that one call is in progress (`Alone`), that every
unmined transaction carries its amount (`Carried`), and that the allowance
covers its price once the first step is over, an approval being unmined exactly
while it does not (`Enough`). The mempool then holds at most one transaction
(`OwnOnly`), so the allowance an action read is the one it acts upon.
`orders_overlap` has the interleavings that break these three properties, which
is why they are not stated there.

**OriginFees.** `FeesReachTheirAccount` looks at the end only. `FeesInv` says of
every prepared order that unpacking its fees with the places *as they are now*
gives each account what the parts say, and that it has no fee in a free place.
This is stable because places once taken are kept (`Extends`). `RequestIsReduced`
follows the reducer part by part (`PartIsAdded`); `PackedIsUnpacked` shows that
two fees within 20000 do not spill into each other. `Covered` rests on
`RoundTwo` and `RoundThree`: rounding parts down loses at most one unit a part.

`PurchaseIsFunded` compares totals over the whole batch. `FundedInv` says of every
moment of a batch that the value added up so far covers the orders paid in ether
whose data are there (`ready`), in whatever order they came, that each amount to
approve covers the orders prepared for its marketplace, and that neither exceeds
what it covers by more than two units an order. A step adds one order's amount
and one term to the sum (`SumOfOneMore`), and leaves the terms of the others as
they were (`SumOfSameTerms`).

**Sums, and induction.** The library's induction theorems take an operator, which
the provers here cannot be given. `InductionOverSet` takes the *set* of the
numbers a property holds of instead, which is enough: `SumsExist` builds the
function `MapThenSumSet` iterates for larger and larger subsets, `SumsTakeAny`
shows that it does not depend on the order in which `CHOOSE` picks the elements.
`EuclidExists` and `EuclidIsGreatest` go the same way: `gcd(a, b)` calls itself
with a first argument below `a`, so it ends, and a number and a remainder by it
have the divisors of the two numbers (`DividesRemainder`).

**SeaportOrders.** Everything rests on `FillIsNoGreaterShare`: whatever was filled
before, whether the contract rescales its fraction or the one asked for, and
whether it cuts it down, `num / den` of the fill is at most the fraction asked
for, and what is filled is at most the whole. So a fill takes of every amount no
more than `units / MaxUnits` of it (`PartIsNoGreaterShare`), while a value computed
from a size of at most `MaxUnits` is at least that much (`QuoteCovers`, for the tip
kept or left out; `WrapperCovers`). `SeaportInv` ties the two moments together:
what is sent is what was computed from the size read (`AsComputed`), and `Sound`
speaks of the listing and the purchase alone, so that it survives whatever the
contract, the offerer and the others do in between. That an order sold as a whole
is never short needs one fact more: its status is never rescaled, since the whole
is asked for as 1 of 1 (`WholeIsNoFraction`, from `EuclidIsGreatest`), and where it
is not, the contract refuses it.

**MintAndSell.** `MintInv` counts the broadcasts (`Counted`): a request under way
has broadcast nothing since it was made, so only a repetition after an error that
followed a broadcast can add one, and there is one repetition. For the refinement
it ties the transactions of the pool to their calls (`Signed`), says that a call
makes only the token it was given (`Given`) and that what is found was made
(`Known`): this is all that backs an offer with web3 4.x. With 1.x the places
after the receipt are reached only by a call that made its token (`Owned`). The
lemmas go by what an action does to one call (`ProceedMoves`, `ServeMoves`) and to
the ledger (`MineMoves`).

**EclipseTransactions.** `VerdictIsTrue` needs to know that answers on their way
say what the ledger says, unless a fork came in between (`AnswersAreTrue`), and
that what is final was executed (`FinalIsExecuted`); `ResultsLast` shows that a
result is only changed by a fork. `NoDoubleTrade` needs that of the attempts of
one intent all but one are over, with an error of the transaction or without
one having been sent (`OneAttempt`): two executed attempts would make one a
failure that the ledger calls a success.

Assumptions: `ConstantsAssumption`, `OrdersAssumption`, `FeesAssumption`,
`MintAssumption`, `EclipseAssumption` and `SeaportAssumption`, all evaluated by
TLC. The only ones with content are that a fee part is at most
10000 bp and goes to an account other than the zero address. `Patient`,
`LocalStorage` and `OneByOne` are assumptions of single theorems.

Every invariant and every action property of a passing run, and both refinements,
are proved. Model-checked only: liveness (`SelectionIsShown`,
`InitializationEnds`, `LostWalletIsForgotten`, `NoCallHangs`, `CallsEnd`,
`SubmissionsEnd`), since fairness needs ENABLED, which TLAPS does not have here.

## 5. Abstractions

* Connector: `error` and `disconnect` of a state are dropped, since the
  pipeline does not look at them. `getOptions`, `getProviders` and `add` change
  nothing. A subscription from inside `Subscribe` and its replay are one step.
* Erc20Orders: the fee is part of the price; gas is estimated against the
  latest block; two bids of one price are one; a prompt confirmed long after
  its call gave up is left out. Receipts of reverted transactions are rejected,
  as in web3 1.x: with `web3-v4-ethereum` an approval that reverts would pass
  `waitTx` (wait-tx.ts:3-8 does not read the status) and the second step would be
  sent without it. ERC-721/1155 approvals are flags that only rise.
* OriginFees: OpenSea V1 orders, royalties (`addRoyalty`) and parts of ERC-1155
  listings are left out; LOOKSRARE stands for AMM too; the sums
  to approve grow with each request instead of being taken at the end.
* SeaportOrders: several fee parts are one tip (each would be rounded down on its
  own and add an item that is rounded up); the status and the balances are read
  in one step (the code's separate requests only decide whether the purchase goes on, and the estimation
  repeats the test); a quotient that is no finite decimal is refused where the
  code's twenty digits might round to an integer; bids, ERC-20 prices, criteria,
  auctions and ERC-721 calls are left out.
* MintAndSell: what the two versions of web3 emit for a reverted transaction, and
  that the JSON-RPC engine ends a request whose response has an error, is known
  of these libraries and not of the repository. What a wallet says in its errors
  is free; an order's approval and its signature are one step (`Sell`).
* EclipseTransactions: `SubmissionsEnd` leaves out "hung", where setting up the
  subscription throws inside the promise (transactions.ts:180) and nothing ends
  the call. `sell()` and `bid()` return an order's id with no transaction to wait
  for, so `ConfirmedIsFinal` says nothing of them. Accounts and prices of the
  instructions are left out.
* What the contracts, nodes and wallets do is outside the repository and is
  modelled from its use, marked external in the map.

## 6. Plan

Done: the six families of section 2. What is worth modelling next, in order:

1. `Web3Calls`: retries of calls and the reserve node
   (web3-ethereum/src/index.ts:280-457). Property: what fails on one node
   is tried on the reserve node once, and nothing that was sent is sent again.
2. `Web3Session`: an EIP-1193 wallet's events, composed with Connector in place
   of the free wallet. Property: the account shown is in the end the wallet's.
3. `Middleware` (sdk/src/common/middleware): the order in which middlewares wrap
   a call and its result.
4. The other Seaport calls (ERC-20 prices, auctions, criteria), and royalties in
   OriginFees.

Hazards seen in the code that no property covers, because the model has nothing
to say of them: the limit of the sending loop that compares seconds with
milliseconds (transactions.ts:84), null confirmations of a rooted transaction
(:197), the wording of instruction errors (:131), the price times amount of a
bid (eclipse/order.ts:171 against bid.ts:24), a batch sent with `allowFail` after
an estimation without, fee parts of the zero address and fees of 65536 bp or
more (excluded by `FeesAssumption`).

## 7. Not modelled

Marketplace handlers beyond fees and Seaport parts, single transactions (cancel,
transfer, burn, deploy), address and id conversions, logging, the Immutable X,
Aptos and wallet adapters: they keep no state and have no order of their own to
get wrong. Most of the repository's lines are of this kind: ABIs of
contracts, generated types, call data, conversions between unions and the
blockchains' own types, tests and examples. Solana's auction house and the other
programs, the contracts and third-party wallets are not in the repository.
