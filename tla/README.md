# hathor-wallet-lib in TLA+

A verification development of the wallet library of the Hathor network: TLA+
modules translated from the source, TLC configurations that check them on small
instances, and TLAPS proofs of the properties that matter most.  Paths are those of
the repository; without a directory in front, `connection.ts` is
`src/connection.ts`.  `PROJECT.json` maps every definition to its lines and lists
the runs, the mutants (a plausible bug each property detects), the hazards and the
theorems.

## 1. The system

The library is one JavaScript program on one thread.  Everything concurrent about
it happens at an `await`, in a timer or in an event handler: a function that was
suspended goes on over state that others changed.  A wallet object talks to one of
two services, a fullnode (`new/wallet.ts`) or the wallet service
(`wallet/wallet.ts`), through HTTP requests and one websocket.

    application
       | start, stop, send, queries                    events: state, new-tx, ...
       v                                                          ^
    HathorWallet (new/wallet.ts) ---- SendTransaction, MineTransaction
       |        ^ state, wallet-update, stream          |  inputs, push
       |        |                                       v
       |     Connection (new/connection.ts, connection.ts)      Storage + MemoryStore
       |        ^ is_online, messages                            ^  ^
       |        |                                                |  |
       |     GenericWebSocket <- BaseWebSocket (websocket/)      |  |
       v                                                         |  |
    syncHistory: polling (utils/storage.ts) or stream (sync/stream.ts)
                                                                    |
       utils/storage.ts: processNewTx, processHistory, ... ---------+

### Components

| Component | State it keeps | Operations | What makes it hard | What makes it correct |
|---|---|---|---|---|
| Websocket (`websocket/base.ts`, `index.ts`) | socket, `started`, `connected`, `isOnline`, `latestPingDate`, timers for pong, heartbeat and reconnection, retry counter | `setup`, `close`, `endConnection`, `sendMessage`, handlers of open, message, error, close and the timers | late events of a closed socket, error and close for one failure, pong racing its timer, `readyState` changing under a send | one socket, timers always cancellable, retries for ever, a dead peer is noticed |
| Connection (`connection.ts`, `new/connection.ts`) | announced state, listeners, stream lock, capabilities | `start`, `stop`, legacy `setup`/`endConnection`, stream messages | a state beside the websocket's own, listeners that come and go | the announced state is the websocket's and follows a life cycle |
| Wallet service connection (`wallet/websocket.ts`, `wallet/connection.ts`) | the same and a join timer | join, its confirmation and its timeout | a join that is lost, or confirmed too late | joins again and again, online only on an established connection |
| Wallet facade (`new/wallet.ts`) | `state`, `walletStopped`, `firstConnection`, `wsTxQueue`, `newTxPromise` | `start`, `stop`, connection events, `handleWebsocketMsg`, `onNewTx`, `onEnterStateProcessing` | every `await`: messages during the synchronisation, reconnections during processing, `stop` during anything | READY means that the storage has the fullnode's history, counted once |
| History synchronisation (`utils/storage.ts` 100-560) | last loaded and last used address | `loadAddresses`, subscription, paged history, `checkGapLimit` | transactions published while it runs, requests that fail | the gap is kept, what is loaded is subscribed |
| Metadata ledger (`utils/storage.ts` 560-1480, `storage/storage.ts`) | balances, counters, utxos, locked utxos, selected utxos, best height | `processNewTx`, `processHistory`, `processMetadataChanged`, `processUtxoUnlock`, `utxoSelectAsInput` | additive updates in any order of arrival, locks that end, voided and revived transactions | the sums are those of the history; no unspent output is lost |
| Stream synchronisation (`sync/stream.ts`) | item queue, sequence numbers, window, batches of addresses, abort signal | vertices and addresses received, acknowledgement, next batch, shutdown | acknowledgements against the window, abort on any path, the lock of the connection | what succeeds is complete, the queue is bounded, nobody waits for ever |
| Sending (`new/sendTransaction.ts`, `wallet/mineTransaction.ts`) | step of `run()`, selected inputs with a timeout, job and attempts | prepare, sign, mine, push, release | two sends, a timeout while mining, a push that is answered after the websocket told of it | an input is not used twice; a failed send releases its inputs; every call ends |
| What is built (`new/sendTransaction.ts`, `utils/utxo.ts`, `tokens.ts`, `fee.ts`, `nano_contracts/builder.ts`, `template/transaction/`, `wallet/sendTransactionWalletService.ts`) | the inputs, outputs and fee so far, utxos marked | sends, token operations, contract calls, templates, of both facades | change that pays fees, fees that need inputs, rounding of deposits, rounds that choose again | the transaction balances, its fee is the one owed, its inputs are available, funds that suffice are found |
| Assembly and bytes (`utils/transaction.ts`, `models/`, `headers/`, `shielded/creation.ts`, `nano_contracts/fields`) | the fields of a transaction | blinding, headers, scripts, signatures, weight, writing, reading | limits of encodings, the order of headers, indexes of shielded outputs | what is written reads back, the balance closes, the signatures verify, the wallet's own copy is right |
| Keys (`utils/wallet.ts`, `utils/crypto.ts`, `utils/address.ts`, the access data of `storage/storage.ts`) | one record of encrypted keys | start from words, xpriv or xpub, migration, new pin and password, multisig | read, await, write; five key chains; order of keys and signatures | the pin opens every key, the addresses are those of the words, an assembled input verifies |
| Wallet service facade (`wallet/wallet.ts`) | state, token, polling, new addresses | `start`, `startReadOnly`, poll, renewal, messages, address modes, `stop` | answers in any order, `stop` during `start`, refused requests | READY is complete, the application is told, the address offered is unused |
| Atomic swap proposals (`models/partial_tx.ts`, `wallet/partialTxProposal.ts`, `wallet/api/swapService.ts`) | inputs, outputs and signatures of all participants, the version on the service | add, sign, merge, prepare, update | calls that overlap, participants in any order | no input twice, signatures of the proposal as it is |
| Promise queue (`models/promise_queue.ts`, `priority_queue.ts`, `sync/gll.ts`) | running jobs, heap | `add`, `tryToStartNextJob`, abort | jobs counted later than started, aborts | the bound, the priorities; not modelled |

How they interact: the websocket emits `is_online`, the connection turns it into
`state`, the wallet turns that into a synchronisation; the synchronisation writes
the storage and subscribes addresses on the connection; subscribed addresses make
the fullnode send messages, which the wallet parks or chains to `onNewTx`, which
writes the same storage; a send selects inputs in the storage, pushes over HTTP and
inserts its own transaction through the same chain.  The builders read the utxos of
that storage, or those the wallet service answers, and hand a list of inputs and
outputs to the assembly, which asks the keys for signatures.

The hazards are listed in `PROJECT.json`, each at its line.

## 2. Plan

In order of importance, each built so that it can be proved about (constants with
named assumptions, one action per operation, no RECURSIVE operator).

| # | Module | Extends or composes | Status |
|---|---|---|---|
| 1 | `BaseWebSocket`, `GenericWebSocket` | | done |
| 2 | `ConnectionLifecycle`, abstract, and `Connection`, which implements it | extends 1 | done, proved (`ConnectionAndSwapProofs`) |
| 3 | `WalletServiceConnection` | extends 1 | done |
| 4 | `HathorWallet` over the polling synchronisation | the connection as 2 promises it | done, proved but for liveness (`HathorWalletProofs`) |
| 5 | `Ledger` | the handlers of 4 as atomic steps | done, proved (`LedgerProofs`) |
| 6 | `StreamSync` | the connection as 2 promises it | done, proved (`StreamSyncProofs`) |
| 7 | `SendTransaction` | the selections of 5, one step per await | done, proved but for liveness (`SendingProofs`) |
| 8 | `TxFunds`, `SendData`, `TokenData`, `NanoData`, `TemplateData`, `ServiceData`, composed by `Transactions` | what step "preparing" of 7 returns | done, proved in part (`TransactionsProofs`, `SendingProofs`) |
| 9 | `Wire`, `TxBytes`, `NanoFields`, composed by `Assembly` | what steps "signing" to "pushing" of 7 make of the result of 8 | done |
| 10 | `WalletServiceWallet` | the connection as 3 promises it | done, proved (`WalletServiceWalletProofs`) |
| 11 | `Swap` | | done, proved (`ConnectionAndSwapProofs`) |
| 12 | `Keys`, `AccessData` | | done, proved (`AccessDataProofs`) |
| 13 | The proposal of the wallet service in its steps, the load limiter (`models/promise_queue.ts`), the shielded chain of the synchronisation | 7, 6, 4 | next |

Theorems left to prove: `CountedOnce` of 4 beyond what section 5 says; of 8, what
templates build and the balance of a nano contract; the invariants of 9.

## 3. Modules and code

**`BaseWebSocket`** is the class of `websocket/base.ts`.  `ws`, `started`,
`connected`, `isOnline` and `retryAttempt` are the fields.  A JavaScript timer is a
count of timers that will fire and whether the handle field names one of them
(`Armed`, `Cleared`, `Fired`): an overwritten handle leaves a timer that nobody can
clear.  The runtime is modelled too: a socket goes through
free, connecting, open, closing, terminated and back, and its last event comes after
`terminate()` returned (`LateEvent`), with the handlers that are installed at that
time (`attached`).  `dead` is a half open connection: the peer is gone and nothing
says so.  Each action is a whole handler (`OnClose` with `CloseWs`, the three timers
and the backoff; `SendPing` with the timer and the send; ...).

**`GenericWebSocket`** adds `onopen` and `onmessage` of `websocket/index.ts`.
**`Connection`** adds `start`, `stop` and the relay of `is_online` of
`connection.ts`; `legacy` remembers that `endConnection` or `setup` was called from
outside, which the old wallet did.  **`ConnectionLifecycle`** is the abstract
specification: what a listener of `state` may see.  `Connection` implements it with
`state <- connState`.

**`WalletServiceConnection`** adds the join protocol.  `start()` creates a new
websocket object there, so that a behaviour is the life of one object, and what
`stop()` leaves running goes on.

**`HathorWallet`** is the event side of `new/wallet.ts` with the synchronisation of
`utils/storage.ts`.  An async function is a process and an action is the run from
one `await` to the next:

| Function | Process variable | Actions |
|---|---|---|
| `onConnectionChangedState(CONNECTED)` | `sync[e]`, one per connection | `ConnectionUp`, `SyncReload`, `SyncLoad`, `SyncEnd`, `SyncFails` |
| `apiSyncHistory`, `loadAddresses`, `loadAddressHistory`, `checkGapLimit` | the record `l` in `sync[e]` or `newTx[r].load` | `LoadSubscribe`, `LoadFetch`, `LoadSave`, `MoreToLoad` |
| `onEnterStateProcessing`, `processTxQueue`, `processHistory` | `proc[e]` | `ProcDequeue`, `ProcClean`, `ProcWalk`, `ProcEnd` |
| `onNewTx` | `newTx[0]` in the promise chain, `newTx[e]` inside `processTxQueue` | `ChainNext`, `AddTx`, `Scan`, `Mark`, `Credit`, `CleanMetadata`, `Walk`, `WalkThrows`, `Finish`, `Resave` |
| `stop` | `stopping` | `Stop`, `StopEnd` |
| `handleWebsocketMsg` | | `HandleWebsocketMsg` |

The fullnode publishes numbered versions of transactions (`Publish`); the storage
keeps the last version saved and how many times each transaction is in the balances,
so that a transaction that is counted twice and one that is forgotten never cancel
out.  The connection is what `ConnectionLifecycle` promises.

**`Ledger`** is what those handlers do to the numbers: `processNewTx`,
`processSingleTx`, `processHistory`, `processMetadataChanged`, `processUtxoUnlock`
with both locks, the selected utxos and the dashboard.  A balance is kept per
output.  The fullnode accepts, voids, revives and rejects; it tells of a
transaction and of its parents in any order, over one ordered connection, and the
sender inserts its own transaction whenever the push is answered.  Each handler is
one step.  With the memory store the processing of a transaction has no await that
leaves the event loop between the read and the write of a balance; how the handlers
interleave is the subject of `HathorWallet`.  The code counts transactions per token
and per address; the model counts per transaction, which both sums are made of.

**`StreamSync`** is the history stream: one synchronisation per connection that
opens, each with its `StreamManager` (a record of the fields of the class) and, on
the fullnode, its stream.  The promises and callbacks of `streamSyncHistory()` are
the phases of a synchronisation: `setupStream()` with the lock of the connection, the
promise that the end, an error or an abort resolves, `shutdown()`, its wait for the
queue, and the `finally` block that emits `stream-end`.  `processQueue()` is one step
per item, with the storage in between; `shouldACK()` is translated as it is, with
the counters moved by one so that 0 stands for -1.  A reload first stops the stream
it finds locked and waits for it, then cleans the storage.  Items are numbers: the
fullnode sends them in order, the listener sees them in order.  Since the items are
numbered, which message is on its way is the difference of two counters.  A manager
that is done is forgotten.  `alone` is bookkeeping: no reload was about to clean the
storage when the stream took the lock, and no `stop()` has cleaned it since.

**`SendTransaction`** is `run()` of several sends over one storage, with the job of
`MineTransaction`.  Each await is a step: the choice of the inputs, the signature,
the selection of one input after the other, the submission and the polling of the
job, the push, the insertion by the sender, and the release, which is a loop nobody
waits for (`releases`).  The 60 second timers of `utxoSelectAsInput()` are counted per
send and utxo, because none is ever cancelled.  A send takes a number of utxos;
their values belong to the next module.

**`Transactions`** has one action for each operation that prepares a transaction, of
both facades.  The requests of an instance meet every subset of the utxos that may
be free.  `TxFunds` has what the builders share (the selections of `utils/utxo.ts`,
deposits, withdrawals and fees) and the rules of the fullnode; `SendData` is
`prepareTxData()` with its rounds of fee, change and shielded change; `TokenData` the
operations of `utils/tokens.ts`; `NanoData` the contract builder with what it marks
and releases; `TemplateData` the executors of a template with the balance the context
keeps; `ServiceData` the code of the wallet service facade, which shares none of it.
A transaction is a record of utxos, outputs, fee and contract actions.  The loops of the
code are sums, sorted sets and recursive functions here, which is what the proofs need;
`RequestsAssumption` says what a request may be: outputs of a known token that carry value
and no authority, inputs that are named once, actions of a contract call that move natural
amounts, and a token to create that no utxo and no action has, since its uid is the hash of
the transaction.

**`Assembly`** takes a plan with its inputs chosen to the bytes that are pushed:
blinding factors, headers, scripts and token indexes, signatures, weight, mining and
the copy for the history.  `TxBytes` has the writers and readers of transactions and
headers, `NanoFields` those of the arguments of a contract call, `Wire` those of
integers, values, LEB128, pushed data and scripts.  Writer and reader are two
operators as they are two functions; a reader returns what it read, the rest, and
whether there was enough.  A blueprint is made on its own, with no input and no output.
A plan that is refused before it is built, or that the writers cannot write, ends in an
error.

**`WalletServiceWallet`** is `wallet/wallet.ts`: task 0 is the call of the
application, task k is `onNewTx()` of transaction k, and a task is at one request at a
time, each one preceded by the check of its token.  `hitches` records what came in
between since the last start, and the properties name the hitches they exclude.

**`Swap`** is a `PartialTxProposal` per wallet, with two calls of one wallet at a time
when its caller is hasty, and the proposal on the service with its version.  What is
signed is the content of the transaction, so that a signature of an old one is seen.

**`Keys`** are HD keys as seed and path, encrypted data that names its password, the
access data record and the addresses of every chain.  **`AccessData`** is the life of
one record: `start()` in its variants, reload, migration, `changePin()` and
`changePassword()`, each one reading, awaiting and writing.  The memory store hands
out the record itself, so `heap` and `current` tell the record a call holds from the
one in the store.  A multisig wallet collects signatures and assembles the input.

Definitions that start with a comment "Faulty:" are not part of the system.  They
are the mutants: each replaces the definition beside it, and a run then finds the
property that forbids it violated.

## 4. Runs

| Run | Question | Bounds and why they are enough |
|---|---|---|
| `connection` | Over two starts and every interleaving of failures, timers, pongs, late events and legacy calls: is a socket or a timer leaked, does it give up, does it reconnect, is a dead peer noticed, does it implement its life cycle? | Two sockets: the one in use and one whose last event is still to come; two starts: what the first life leaves to the second; two retries: one that counts and one that is past the cap |
| `wallet_service_connection` | With joins that are lost: is the wallet online again and again? | One object; two join timers: the held one and one whose handle was overwritten |
| `wallet` | Is a READY wallet current and counted once, with its gap loaded and subscribed, and does every task end? | Three plans. One connection and two transactions with two versions at any time: new and known, valid and voided, each one fetched, parked or chained. Three connections and a stop, each between tasks, one transaction with a version per connection. One connection, one request that fails and a stop at any time |
| `ledger` | Do the metadata stay those of the history? | A transaction with a time lock and a block reward, one that spends the first output and one that spends both (so a conflict); four events: two to accept, one to void, one to revive; heights across the unlock; one reload |
| `stream` | Streams over two connections that open, drop, reload and stop: who owns the connection, is the lock freed, is a success complete, is the queue bounded, does either side wait for ever? | Two connections: the stream that runs and the one that stops it, overtakes it or is refused; four items with a window of two: two acknowledgements and a rest; an address first and one that waits for its batch (one address in the fullnode's hands at most); one fault, of the fullnode or of the storage; stops without a bound |
| `sends` | Two sends over one storage: does every selection end, does a failure release, is an input pushed by two sends, does every call end? | Two utxos, one send that takes both and may be run twice, one that takes one of them: they collide on one input, on either side; two attempts of a job: one that is retried and the last |
| `transactions` | Of every builder: does the transaction balance, is the fee the one owed, are the inputs available, are funds that suffice found, is the selection the smallest? | HTR, a token with deposits and one that pays fees, each one existing and to be created; up to three utxos of a token, a shielded one and the authorities, in every subset; amounts that are covered by one utxo, by several, with and without change; six inputs and outputs at most, a deposit of one half so that it rounds |
| `assembly` | Does what is pushed read back, balance, verify and enter the history right? | Seventy-two plans over every kind of output, header and argument, six of which end in an error (a key or a lock that does not fit, more inputs than the proofs' domain has, more outputs than a transaction has, an output without value, a name too long); a byte has 32 values and a short integer two bytes, so that each encoding is met below, at and above its limit |
| `wallet_service` | Is a READY wallet complete, does the application hear of every transaction, is the address offered unused? | Two transactions, a gap of two, two polls and two renewals: one that is retried and the last; four events: two starts and both transactions, or a start after a stop and a failed one |
| `swap` | Is an output spent twice by a proposal, are its signatures its own? | Two wallets, one with two outputs of its token (a choice for overlapping calls); four changes and two updates: each side changes after the other has signed |
| `access` | Does the pin open every key, are the addresses those of the words, does an assembled input verify? | Fourteen ways to make a wallet from the same words; two pins and two passwords, one of them in common; two addresses; three participants, two signatures; two calls that overlap |
| `wallet_gap` | violation, see section 7 | the smallest instance that shows it |

`CHECK_DEADLOCK FALSE` is there because each instance stops when its bounds are used
up (published versions, connections, starts, runs, changes) or when the one
transaction it prepares is done, which is the environment having nothing more to do.

**What the properties leave out.**  The code does violate stronger statements, and
each property names in its comment the case it excludes.

* In `HathorWallet` the plan with reconnections lets the connection and the user act
  when no task is in flight: with a task in flight the synchronisations of two
  connections overlap on one storage, and `CountedOnce` and `GapIsWatched` are violated.
  `HistoryCurrent` is claimed of the first connection, because a message parked on it
  is replayed on the next one; `GapIsWatched` of a wallet that was not stopped,
  because `stop()` keeps the last loaded index; all three where no request failed.
  A stopped wallet may keep a transaction, or say PROCESSING, when `stop()` overlaps
  a task.
* In `Ledger` the connection drops when nothing is on its way, and nothing happens to
  a transaction before its sender inserted it (`Calm`).  `CountsTheHistory` and
  `NoVoidedUtxo` hold without this too; `BalanceIsCorrect` and `NoUtxoLost` need it.
* In `SendTransaction` `calm` callers do not start a send between the choice and the
  selection of another nor while a release runs; they name inputs once, and name, try
  again or release no inputs that another send has on its way or spent.  No timer fires
  while a send of its utxo is mining, or before its release is over.  `InputsAreOwn`
  takes them: with three sends each of these is needed, because the second release, or
  the second try, of the first frees what the next one took, and the third takes it as
  well.  The other properties hold for hasty callers too.
* `AddressesAreOurs` and `SignaturesAreOfTheTx` take callers that await each call.  The
  swap is not changed after its transaction was prepared (`Reopens`), which would
  leave the data of the old one in its inputs.
* `transactions` has no NFT of a token that pays fees: the wallet service facade
  charges it for its data outputs (section 7).  `EnoughIsEnough` is claimed of outputs
  with a value and of inputs that are all to be chosen, where the fullnode facade meets no
  limit of a transaction with every change there may be, and no shielded output is alone,
  which it refuses (`new/sendTransaction.ts:692`).  `assembly` makes one transaction of
  its data.
* `ReadyIsComplete`, `AppIsCurrent` and `AddressIsRight` name the hitches they exclude.
  An answer is overtaken when addresses that come after it were stored before it, be it
  by another refresh of this session or by one that the previous session left behind.

**Fairness.**  `Connection`: the timers fire and the runtime delivers the end of a
socket (weak, the event loop does); a peer that is there answers a ping (weak); a
connection attempt ends one way or the other (weak, a TCP connect times out); the
server accepts one of infinitely many attempts (strong: it is disabled whenever an
attempt fails).  `WalletServiceConnection`: the same and a join that is tried for
ever is confirmed (strong).  `HathorWallet`: weak fairness of every task, since the
event loop runs each promise that is resolved and a request is answered or fails; no
fairness of the environment: nothing has to be published, to connect or to be
stopped.  `StreamSync`: weak fairness of what the event loop runs (the listener, the
queue, the batches, the shutdown and its timer) and of a fullnode that sends what
its window allows and hears what it is told; none of connections, faults and stops.

## 5. Proofs

Every theorem is for all values of the constants that satisfy the named assumptions.

**`ConnectionAndSwapProofs`** has the proofs of two components that share nothing.

*Connection.*  `WsInv` is the inductive invariant of the websocket: types,
`NoLeakedSocket`, `TimersAreHeld`, `FlagsAgree` and `PongTimerHasPing` need each
other, because `closeWs()` only detaches the socket that `ws` names and a timer is
cleared only through its handle.  One lemma per handler shows that it keeps `WsInv`
(`OnCloseKeeps`, `SetupKeeps`, `CloseKeeps`, `SendPingKeeps`, ...).  `ConnInv` adds
`NeverStranded`, `StateAgrees` and `PongHasSocket` (a pong timer runs only over a
socket, or its timeout would plan a reconnection beside a pending one).  The lemmas
`EventShape` and `OnCloseGivesUp` say that a websocket event either gives the
socket up and plans a retry, opens one, or leaves both alone, from which the
backoff property and the refinement follow.  The refinement
(`ImplementsItsLifecycle`) needs one more invariant, `ClosedIsDeaf`: the state is
CLOSED exactly while nobody listens, so that no event moves a closed connection.

*Swap.*  `InputsOnce` is inductive with the shape of a proposal and with
`StoredOnce`, the same of the transaction the service keeps: `addSend()` filters what
it awaited by the inputs of the moment it goes on (`AddInputGood`), whatever other
calls did meanwhile.  `SignaturesAreOfTheTx` needs `SInv`: a wallet whose caller awaits
has one call at a time, what that call captured is still so (`Awaits`), signatures
that were read or stored are of the transaction they name (`Told`), and the data of
the inputs is of the content or missing (`Honest`).  `SameContent` says that neither
signatures nor data change the content.

**`LedgerProofs`.**  The types, and `IInv`: `CountsTheHistory` with `NoVoidedUtxo`,
for any transactions, locks and spending relation and for every order of messages.
The argument: a full `processHistory()` establishes it (`ReplayCounts`); a new valid
transaction adds one to its outputs and takes one from its inputs, and the set of
spenders grows by exactly that transaction (`NewTxCounts`, `NewTxSpends`,
`NewTxKeepsCounts`); a known transaction whose voided flag did not change moves
nothing (`KnownTxCounts`); one whose flag changed is replayed; an unlock moves a
value from one balance to the other.  `NoVoidedUtxo` is needed as a pair with it in
no step, but both rest on the same case split (`OnNewTxKeepsCounts`).  Over a calm
connection `CInv` holds as well, and gives `BalanceIsCorrect` and `NoUtxoLost` once
nothing is on its way.  `Told` makes the wire part of the invariant: of each transaction
the wallet has what is right, or the last message about it does.  `Chained` is about the
fullnode, which has one valid spender of an output and only valid parents of a valid
transaction.  `SpentIsUnlocked` says that a locked output is not spent, and rests on
`Heights`: the height that unlocked an output comes before the transaction that spends
it.  So what is recorded as locked is `LockedIsIndexed`, and what is not recorded as
spent is `UnspentIsOffered`.

**`HathorWalletProofs`.**  The types; then lemmas that say which variables each kind of
step may move and how (a load, a walk, a step of `onNewTx()`, a message, an event of the
connection), which is all that the invariants cite.  `Serial`, which needs the types:
`Fresh` and `Stopped` say where a wallet stands before its first connection and after a
`stop()`, and `Alone` that at most one task runs: while a connection synchronises or
processes, messages wait in `wsTxQueue` and nothing is chained.  `Alone` holds under
`Orderly`: one connection was opened, or the plan is calm and connections come between the
tasks.  A connection that comes back during a task starts a second synchronisation beside
the first, and `CountedOnce` and `GapIsWatched` are violated (section 4): hence the plans as
they are.  The first two theorems below have that hypothesis; the third is about the
first connection, which is `Orderly`.

* `GapIsWatched`, for an `Orderly` wallet.  `GapInv` says of each load where it starts
  (at the last loaded address) and ends (a gap past the last used one), and that what is
  loaded is subscribed.
* `CountedOnce`, for one connection or a calm plan, and for transactions on the first
  addresses.  The last is needed: beyond them the run `wallet_gap` shows it violated.  `CountInv`
  says what the metadata holds in the middle of each task: a walk counts what it has passed
  (`ProcCounts`), `onNewTx()` has counted its transaction or what was stored of it before (`ChainCounts`),
  and a wallet that rests owes nothing (`RestCounts`), even when `stop()` cleaned the
  metadata under a message (`StopCounts`).  `Started` says that a load made by `onNewTx()` lies beyond the first
  gap, so that it finds nothing.
* `HistoryCurrent`, with no hypothesis.  `CurrInv` says of each transaction that its last
  version is the last the wire tells of it; or the wire is silent and it is the last of the
  queue; or both are silent and it is known: saved, about to be (`Adding`), or covered
  by a load whose page is of now (`Busy`).  An address is subscribed before its page is
  requested, so that nothing falls between the two, and a page never covers what is
  already in the history, so that it overwrites nothing (`PagesOK`).  `LaterUnheard`: nothing came of
  an address that is not loaded.

**`StreamSyncProofs`.**  `IInv` relates the counters of a manager to those of its
stream.  `Counts` holds the argument for `QueueIsBounded`: what is acknowledged and
not yet processed is always less than half a window (an acknowledgement needs more
than half a window processed since the last one, of the whole window that can be
outstanding), and what is seen is at most a window past it.  Neither is inductive
without `Flows`: the fullnode sends at most a window past what it heard, which is
at most what was sent to it.  `OwnsTheConnection`, `LockIsFreed` and `IdleAfter` are
inductive together.  `SuccessIsComplete` is an action property: it follows from
`SavedSoFar` (what is processed is in the storage unless somebody cleans it), from
`Rested` (an idle queue is empty unless aborted) and from `Flows` (an end is received
after the last item), at the only step that can succeed, `Drained`.

**`AccessDataProofs`.**  `PinOpensTheKeys` is about pins, not keys: `Sound` says of a
record that what is under a pin is under the one of its main key.  Whatever is put over
a record keeps it when it is under that pin (`OverKeepsPin`), which is what the checks of
the migration and of `changePin()` are for.  `RecordsInv` adds that a call refers to a
record that exists (`Referred`), since the record it read may be replaced before it goes on.

`AddressesAreOurs` needs to know whose keys a record has.  `OwnUnder` says that each field
is empty or the key of the words at its path, under one pin; there is one lemma for each way
to make a record (`SeedOwn`, `XprivRootOwn`, `XprivChangeOwn`, `XpubOwn`), and one for each
that changes it.  They rest on what the derivations do to a path: the compliant
and the non-compliant one, and the private and the public one, agree on the indexes of an
account (`IndexKeys`).  The migration takes the words of the record, and puts its keys under
the pin it is given: it is the right one because a record with words has a main key, which
the migration checks.  `OwnInv` adds that the shielded addresses that are stored have their keys in
the record, which `calm` is for (`OneCall`: the record a call holds is the one in the store).
For `MultisigVerifies` it says that the signatures are of different participants
(`SignaturesOK`); sorting gives different keys different places in their order
(`PlacesAreSorted`), so that the keys of the script are the account keys of all
participants in order (`ScriptKeys`), those of the signatures are some of them
(`OrderedSignatures`), and a sorted part lies in order in the sorted whole (`PlacesInOrder`).
The assumptions say what a wallet is made from: a key of its own words
and, for a group, one account key of each participant, in any order (`OriginAssumption`).

**`WalletServiceWalletProofs`.**  `Inv` has the types and three parts, inductive together.
`Life` ties the state to the connection and to the call of the application, and gives
`ReadyIsComplete`.  `Hearing`: what the application does not know is on its way, is
being handled, or will be loaded again.  `Offering`: every transaction is on its way, or
pays an address before those that are offered (`Passed`), or before an answer that was
given (`Answering`), or some refresh has yet to be answered, and its answer will be past
everything published.  A transaction that pays none of the addresses that are offered
pays one before them (`PaysBefore`): messages come in order, so that the earlier ones pay
before them too, and `PaysWithinTheGap` says that none skips a whole window.  One lemma per shape of a step
(`RetryKeeps`, `GiveUpKeeps`, `GoingOnKeeps`, ...) serves the six steps of a start.

**`TransactionsProofs`.**  `TxInv` only ties the state to the operators: what a call
returned is what its builder prepares of the utxos that were available.  It is no result
by itself but the lemma the others start from.  What is proved is about the builders,
for any utxos, tokens, versions, rates, limits and requests.

* Sums and orders.  A sum over a finite set is a fold, and each fact about sums
  (`SumRemove`, `SumDisjoint`, ...) is by induction over the naturals.  No induction over a
  predicate can be instantiated by the provers, but one over a set can: `NatSet` is proved
  from the well-founded minimum, and each use names the set of sizes for which the fact
  holds.  The recursive functions of the model are unfolded the same way.  A sorted set
  lists each of its elements once (`SortedIsDistinct`).
* Selections.  The first utxos in descending order are the largest, so that no smaller set
  covers the amount (`SelectionsAreFewest`); what a builder selects covers the amount, lies
  in what is available and has no utxo twice (`Cover` and `SelectUtxos` with their lemmas).
* Funds.  `Funds` and `Carriers` of a joined list are the sums of the two, those of a change
  are its value; `Received` of different inputs is the total of the utxos.
* The rules.  For a transaction without contract actions `Balanced` and `FeeIsRight` come
  down to one equation per token (`Simple` with the lemmas after it), minted tokens meet
  their deposit, rounded up, and melted ones what is withdrawn, rounded down (`Quotient`).
* One lemma per builder (`MintIsCorrect`, `ServiceDataIsCorrect`, ...) says that it fails or
  is `Correct`: its inputs are different and available, it balances, and its fee is right.
  The sends need more: what is covered token after token (`SendManyCovers`,
  `SelectForTokensCloses`, by induction over the order of the tokens), and that the fee,
  worked out before the native inputs and the changes are chosen, still is what is due after
  them, because the native token pays no fee, a custom change was counted and a shielded
  change is charged where it is made (`FinishIsCorrect`).

`SentIsBalanced` then holds for every request but those that build a nano contract or run a
template.  `FeeOfSentIsExact` and `SentUtxosAreRespected` hold for the same here, and for nano
contracts in `SendingProofs`; the first also excludes `ChargesData`, the NFT of a token that
pays fees through the wallet service (section 7).

**`SendingProofs`** has the proofs about sends, about contract calls, and about what is
enough to send.

*Sends.*  The types, for any number of sends, utxos and retries,
and three safety properties.  `SelectionHasTimer` is inductive with the types: a utxo
enters the selected ones together with a timer, and a timer that fires takes it out.
`FailureReleases` needs `Shape`, what each place of `run()` stands on (a send that
selects has chosen, was signed and has not failed; the index of its loop is within its
inputs), and `Releasing`: as long as a failed send has something selected, its release
has still to come to it, or another send selected it.  `InputsAreOwn` needs `CalmInv`,
about each send (`Clean`: what it holds is selected or known to be spent, what its
release has still to come to is named once) and about each two of them (`Apart`: one
chooses at a time; they have no input in common; the release of one comes to nothing
the other has, nor to anything the other may still choose).  Most steps of a send only
give something up (`Narrows`); the choice is apart from what the others hold because
that is selected (`ChoiceApart`), and what ends a selection is nobody's (`Unselect`).

*Contract calls.*  `FeeOfSentIsExact` and `SentUtxosAreRespected` are stated here, for every
builder but the template; `TransactionsProofs` has the other builders.

* The actions.  `Building` says of the inputs and outputs so far that the inputs are
  different, available, and exactly what is marked.  Each action keeps it and adds outputs of
  its own token only (`Acts`, with `DepositActs`, `WithdrawalActs`, `GrantActs`,
  `AcquireActs`), and so do all of them in order (`ActionsBuild`, by induction on their number).
* The rest of the build.  What pays the fee, be it taken from the outputs of the native token
  or selected, moves only that token (`PayFeePays`), whose outputs are not charged; the
  token to create adds the outputs of its own (`BuildTransactionIs`, `CreatesPart`).
* The fee.  So what is due after the build is what `build()` worked out of the actions,
  plus one output of the created token, which it added (`DueOfTheCall`, `CallFeeIsRight`).
* The failures.  Each exit after the actions unmarks what is marked, which is all that was
  selected (`CallIs`, `CalledReleases`).

*What is enough.*  `EnoughIsAlwaysEnough` is about the other direction: not that what is
returned is right, but that something is.  It is no invariant of the rounds alone, since each
of them can fail, so the proof follows a send from its request, with the hypotheses of the
property as `Possible`, or `Payable` for the wallet service facade.

* A selection that is asked for no more than there is finds it (`SelectUtxosFinds`,
  `SendTokensFinds`, and `PulledEnough` for a change that has to be shielded).
* Token after token, each one adds one change at most (`FewChanges`, `GoesOn`, by induction
  over the order of the tokens), and so do the shielded changes, within the limit (`FewMore`).
* So the fee, which is only known then, is at most what the property reserves: one unit per
  output and per change of a token that pays fees, and what each shielded output costs
  (`FeeIsBounded`, `ShieldedFeesAlike`).
* What is left of the native token covers the fee, and when its change is to be shielded, the
  fee of that and one unit more (`FeeLeavesEnough`, `CoverHtrFinds`); the rest is within the
  limits of a transaction (`SendFinds`, `ServiceSendFinds`, `ServiceDataFinds`).

**Model-checked only.**  Liveness (`Reconnects`, `DeadPeerNoticed`, `Joins`,
`BecomesReady`, `StopQuiesces`, `StreamSettles`, `Settles`), which is out of the reach of
the prover; of the properties of `Transactions` what templates build; `TxIsBalanced` of nano
contracts, which depends on what is asked for: the builder covers each action and the fee by
itself, and whether their sum is what the fullnode asks for is the matter of the requests of
the instance; those of `Assembly`, whose encodings are recursive over their data; of
`HathorWallet`, what the hypotheses of its theorems leave out.

## 6. Abstractions

* Latencies, dates and payloads; a retry counter up to `MaxRetry`; the heartbeat as
  a timer that may fire at any time.
* Two runs of the same handler that only differ in the order of steps nobody can see
  are one.
* In `HathorWallet`: one chain of addresses, the gap-limit policy, one page per
  batch of addresses; a request that is retried and succeeds is one request.
* In `Ledger`: outputs of the wallet only; one token; authorities, fees, shielded
  values and nano contract callers are not told apart from values.
* In `StreamSync`: at most three synchronisations run at a time in the code, the
  bound of the load limiter (`sync/gll.ts`), which two never reach; the steps of
  `stop()` of the wallet, its cleaning of the storage and the stop of the connection,
  are one; a message that finds the websocket down is lost; the acknowledgement of
  the end and the statistics are left out.
* In `SendTransaction`: values, addresses and what the prepared transaction holds;
  `Transactions` has those, and leaves out the steps, addresses, scripts and the
  order of what is chosen among equals.
* In `Assembly`: blinding factors are numbers modulo 3; the hash is a checksum that
  tells contents apart; the weight is a value that has to be set before the hash; the
  cache of the data to sign is left out; a blueprint is written and not read back.
* In `Swap`: the data to sign is the content of the transaction.
* In `AccessData`: keys, pins and ciphertexts are symbolic; the order of the public
  keys of a multisig address is arbitrary and may differ from one level of the
  derivation to the next; reading the record is one step; addresses that are
  calculated beforehand and duplicate signatures are left out; a passphrase that is
  given again is the original one.

### Not modelled

Every component is modelled at least in part, and the note of each in `PROJECT.json`
says what it leaves out.  No module covers:

* the load limiter and its priorities (`models/promise_queue.ts`, `sync/gll.ts`): one
  wallet is modelled at a time, which its bound never reaches;
* the queries of both facades, which read the storage or the service and change
  nothing, and the schemas, caches and headers of the HTTP clients;
* the proposal of the wallet service in its steps (`run()` of
  `wallet/sendTransactionWalletService.ts`) and the validations of the atomic swap
  service; the two messages the atomic swap connection adds to the websocket;
* template variables and the shuffling of inputs and outputs: substitution and
  permutation;
* cryptography: signatures, encryption, commitments and range proofs belong to the
  libraries, and are taken to do what they promise;
* the second chain of addresses in the synchronisation (shielded), which runs the
  gap limit of the first one again over other keys.

## 7. Disagreements met while modelling

Shown by a run:

* `wallet_gap`: `onNewTx()` scans more addresses with `processHistory = false`
  (`new/wallet.ts:1812`); a transaction that is found there is saved and never
  counted.

Seen in the code, and kept in the models without a run of their own:

* A message that arrives after the queue was drained and before READY stays in
  `wsTxQueue` until the next reconnection (`new/wallet.ts:970`).
* After `stop()` and `start()` only the first `gapLimit` addresses are loaded again,
  because the last loaded index was kept (`new/wallet.ts:2134`).
* `close()` leaves `latestPingDate` set: after a stop between a ping and its pong
  the next life never arms a pong timer (`websocket/base.ts:404`).
  `DeadPeerNoticed` names the case (`StalePing`) and excludes it.
* The join timer of the wallet service is overwritten, and not cleared by a close
  (`wallet/websocket.ts:129`).
* A reconnection starts a synchronisation beside the previous one, over one storage
  (`new/wallet.ts:664`); an `onNewTx()` that runs across it may restore PROCESSING
  on a READY wallet (`new/wallet.ts:1819`).
* `stop()` between the entry check of `onNewTx()` and its `addTx()` leaves a
  transaction in the cleaned storage (`new/wallet.ts:1798`).
* `reloadStorage()` keeps `wsTxQueue`, whose messages may be older than the history
  that is fetched (`new/wallet.ts:3867`).
* The dashboard handlers are added by the constructor and removed by `handleStop()`
  (`new/wallet.ts:394`).
* A reward is credited as unlocked while the best height is unknown
  (`utils/transaction.ts:345`); a locked output that is spent in the same history
  never enters the locked utxos (`utils/storage.ts:1192`).
* `processHistory()` offers again an output whose record does not carry `spent_by`
  yet (`utils/storage.ts:624`).
* After the first `stop()` nobody listens to `stream-end`, since the handler of the
  constructor is removed with the others (`connection.ts:133`): the lock of the next
  stream stays and every later stream or reload fails.  `LockIsFreed` is claimed
  until the first `stop()`.
* A reload does not see a stream that is not locked yet and may clean the storage
  under it (`new/wallet.ts:664`): the stream succeeds with a part of the history
  missing.  `SuccessIsComplete` names the case (`alone`) and excludes it.
* A storage that throws leaves `isProcessingQueue` set and the stream waiting
  (`sync/stream.ts:660`).  `StreamSettles` names the case (`stuck`) and excludes it.
* The sender's insertion with no output spent may come after later news of the same
  transaction (`new/sendTransaction.ts:1062`).

Of sending:

* The selection outlives its purpose or ends before it: a timer of an earlier
  selection is not cancelled by a later one, the 60 seconds pass while a job is
  mining, two sends overlap between the choice and the selection
  (`storage/storage.ts:600`), or the answer to an accepted push is lost and the send
  counts as failed.  `InputsAreOwn` names its callers (`calm`).
* The contract builder that fails leaves the outputs it already marked until they
  time out, when it fails before it has the list of its inputs
  (`nano_contracts/builder.ts:1037`).
* `tokenFeeAddedInDeposit` suppresses the funding of the whole fee and not only of
  the one of the token (`nano_contracts/builder.ts:950`); `contractPaysFees` without
  `contractPaysTokenDeposit` pays no deposit (`nano_contracts/builder.ts:890`).
* A token that is created beside a contract call with shielded inputs lacks the
  header that unshields them (`nano_contracts/builder.ts:903`).
* The wallet service facade charges an NFT of a token that pays fees for its data
  outputs (`wallet/wallet.ts:1967`), which the comment of line 1964 excludes.
* `prepareTxData()` of the wallet service refuses an input of the native token that
  only pays the fee; its fields are not reset between two calls of `prepareTx()`; a
  proposal whose update fails is not deleted.
* A consolidation of a token that pays fees may exceed the maximum of inputs; a melt
  throws for an output that has both authorities.
* Templates do not exclude an output that was already chosen, and take authorities
  without asking whether they are available; a second action or completion counts
  its fee or deposit again.
* `createTransactionFromData()` hands over the array of headers and pushes onto it:
  a second transaction of the same data has the shielded headers twice
  (`utils/transaction.ts:965`).
* The name of a token is limited in characters and written in bytes; the address
  field of a contract reads p2pkh only; the cache of the data to sign is never
  invalidated (`models/transaction.ts:185`); one byte after a transaction is ignored
  (`models/transaction.ts:661`); `toBytes()` of a blueprint leaves its headers out
  (`nano_contracts/on_chain_blueprint.ts:107`).

Of the wallet service, swaps and keys:

* A `stop()` during `start()` or the creation of the wallet ends in READY; a wrong pin
  leaves LOADING.
* Answers of `getNewAddresses()` that arrive out of order leave the older one; a
  refresh that fails swallows `new-tx` (`wallet/wallet.ts:707`); the addresses are not
  refreshed by a reconnection, and what happens between the load and the first join
  is not heard (`wallet/wallet.ts:908`).  `startReadOnly()` overwrites the access data
  of a wallet with keys.
* `signData()` calls that overlap mix their signatures; the data of the inputs
  outlives a change of the proposal.
* Calls of `changePin()`, `changePassword()` or `start()` that overlap lose a change; a
  wrong pin is accepted by a migration that has nothing to do, and a wrong
  passphrase cannot be noticed.
* An extended key of any depth is taken as the key of the change level
  (`utils/wallet.ts:594`).
* A multisig transaction with more signatures than needed cannot be assembled, and
  one participant may count twice.
