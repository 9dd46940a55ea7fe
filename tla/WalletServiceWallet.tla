------------------------- MODULE WalletServiceWallet -------------------------
(***************************************************************************)
(* HathorWalletServiceWallet of src/wallet/wallet.ts: the start protocol,  *)
(* the tokens of its requests, the addresses to use, the events of its     *)
(* connection and stop().  The wallet keeps no history: the application    *)
(* loads the data when the wallet becomes ready, follows 'new-tx' and      *)
(* loads again at 'reload-data'.                                           *)
(*                                                                         *)
(* Task 0 is the call of the application, which awaits one before it makes *)
(* the next, but for stop(); task k is onNewTx() of transaction k.  A task *)
(* is at a request of walletApi, and each request with authentication      *)
(* first validates or renews the token.  The connection is what            *)
(* ConnectionLifecycle says of it.                                         *)
(***************************************************************************)
EXTENDS Integers, Sequences, FiniteSetsExt

CONSTANTS
    MaxTx,              \* transactions that are published
    GapLimit,           \* unused addresses that the service answers
    MaxPolls,           \* MAX_WALLET_STATUS_POLL_ATTEMPTS
    MaxRenews,          \* MAX_AUTH_TOKEN_RENEW_ATTEMPTS
    MaxEvents           \* starts and published transactions, together

ASSUME ServiceAssumption ==
    {MaxTx, GapLimit, MaxPolls, MaxRenews, MaxEvents} \subseteq Nat \ {0}

VARIABLES
    state, walletId, seed, authPrivKey, xpub, authToken, accessData,
    newAddresses,       \* the indexes of the addresses that wait to be used
    indexToUse, singleAddress, firstAddress, firstConnection,
    connState, listeners,
    stopping,           \* stop() awaits the storage
    starts,
    tasks,
    to,                 \* the addresses the published transactions pay, in order
    inbox,              \* the messages on their way
    missed,             \* the transactions the application, which loads at READY, has not heard of
    hitches             \* what has come in between since the last start

keyVars == <<seed, xpub, accessData>>
addressVars == <<newAddresses, indexToUse, firstAddress>>
connVars == <<connState, listeners, firstConnection>>
worldVars == <<to, inbox>>
vars == <<state, walletId, keyVars, authPrivKey, authToken, addressVars, singleAddress, connVars,
          stopping, starts, tasks, worldVars, missed, hitches>>

NoAddress == -1
Txs == 1..MaxTx
\* The service's view: the first address after the last used one.
Unused == Max({to[k] + 1 : k \in DOMAIN to} \cup {0})
Window(first) == first..(first + GapLimit - 1)

\* A task at a request: how the token stands, what it polled and what was answered.
At(step, phase) == [step |-> step, phase |-> phase, tries |-> 0, polls |-> 0,
                    call |-> "new-tx", status |-> "ready", answer |-> NoAddress]
Idle == At("none", "none")
Busy(t) == tasks[t] # Idle

Init ==
    /\ state = "NOT_STARTED" /\ walletId = FALSE /\ authToken = FALSE /\ authPrivKey = FALSE
    /\ xpub \in BOOLEAN /\ seed = ~xpub /\ accessData = "none"
    /\ singleAddress \in BOOLEAN /\ newAddresses = {} /\ indexToUse = -1
    /\ firstAddress = FALSE /\ firstConnection = TRUE
    /\ connState = "CLOSED" /\ listeners = 0
    /\ stopping = FALSE /\ starts = 0
    /\ tasks = [t \in 0..MaxTx |-> Idle]
    /\ to = <<>> /\ inbox = {} /\ missed = {} /\ hitches = {}

-----------------------------------------------------------------------------
(* Requests *)

\* createWallet(), getVersionData() and the read-only token need no authentication.
Open == {"create", "version", "token"}

\* axiosInstance() with validateAndRenewAuthToken(): a wallet without walletId throws; a
\* token that is missing or expired is renewed, read-only when the key was cleared.
Ask(t, task, step) ==
    \E expired \in BOOLEAN :
        tasks' = [tasks EXCEPT ![t] =
            IF step \notin Open /\ ~walletId THEN Idle
            ELSE [step |-> step, tries |-> 1, polls |-> task.polls, call |-> task.call,
                  status |-> task.status, answer |-> task.answer,
                  phase |-> IF step \in Open \/ (authToken /\ ~expired) THEN "sent"
                            ELSE IF authPrivKey \/ ~xpub THEN "full" ELSE "readonly"]]

MostRest == <<state, keyVars, authPrivKey, authToken, addressVars, singleAddress, connVars,
              stopping, starts, worldVars, missed>>
Rest == <<MostRest, walletId>>

\* What has come in between, until the next start; what spoils everything is noted alone.
Noted(h) == IF hitches \cap {"failed", "interrupted"} # {} THEN hitches
            ELSE IF "failed" \in h THEN h \cup (hitches \cap {"skipped"})
            ELSE hitches \cup h

\* What a call that throws leaves: an onNewTx() that fails never emits its event.
Throw(t) ==
    /\ tasks' = [tasks EXCEPT ![t] = Idle]
    /\ hitches' = Noted({"failed"})

\* pollForWalletStatus() and the loop of startReadOnly() sleep and ask again, the latter
\* with a walletId that is derived again; the other calls throw.
Refused(t) ==
    IF tasks[t].step \in {"status", "token"} /\ tasks[t].polls < MaxPolls
    THEN /\ Ask(t, [tasks[t] EXCEPT !.polls = @ + 1], tasks[t].step)
         /\ walletId' = (walletId \/ tasks[t].step = "token")
         /\ UNCHANGED hitches
    ELSE Throw(t) /\ UNCHANGED walletId

\* renewAuthToken() and getReadOnlyAuthToken() get their token.
Renewed(t) ==
    /\ tasks[t].phase \in {"full", "readonly"}
    /\ authToken' = TRUE
    /\ tasks' = [tasks EXCEPT ![t].phase = "sent"]
    /\ UNCHANGED <<state, walletId, keyVars, authPrivKey, addressVars, singleAddress, connVars,
                   stopping, starts, worldVars, missed, hitches>>

\* retryOnTransientWalletError(): a renewal that is refused is tried again a few times,
\* and throws when the walletId is gone by then.
RenewRefused(t) ==
    /\ tasks[t].phase \in {"full", "readonly"}
    /\ IF tasks[t].phase = "full" /\ tasks[t].tries < MaxRenews /\ walletId
       THEN /\ tasks' = [tasks EXCEPT ![t].tries = @ + 1]
            /\ UNCHANGED <<walletId, hitches>>
       ELSE IF tasks[t].phase = "full" /\ ~walletId THEN Throw(t) /\ UNCHANGED walletId
       ELSE Refused(t)
    /\ UNCHANGED MostRest

\* A request that is refused, and one that breaks, be it for the token or not.
RequestRefused(t) ==
    /\ tasks[t].phase = "sent" /\ tasks[t].step # "version"
    /\ Refused(t)
    /\ UNCHANGED MostRest
RequestBreaks(t) ==
    /\ tasks[t].phase \in {"sent", "full", "readonly"} /\ tasks[t].step # "version"
    /\ Throw(t)
    /\ UNCHANGED Rest

-----------------------------------------------------------------------------
(* start() and startReadOnly() *)

Calls(call) == [step |-> "none", phase |-> "none", tries |-> 0, polls |-> 1,
                call |-> call, status |-> "ready", answer |-> NoAddress]
MayStart == state # "READY" /\ ~Busy(0) /\ ~stopping /\ starts + Len(to) < MaxEvents

\* start(): the access data are generated from the seed, once, and the keys taken from
\* them, or from the seed when they have none; without any the call throws, LOADING.
Start(call) ==
    /\ MayStart
    /\ state' = "LOADING" /\ starts' = starts + 1
    /\ IF seed \/ accessData = "keys"
       THEN /\ accessData' = IF accessData = "none" THEN "keys" ELSE accessData
            /\ xpub' = TRUE /\ authPrivKey' = TRUE /\ firstAddress' = TRUE
            /\ Ask(0, Calls(call), "create")
       ELSE UNCHANGED <<accessData, xpub, authPrivKey, firstAddress, tasks>>
    /\ hitches' = {}
    /\ UNCHANGED <<walletId, seed, authToken, newAddresses, indexToUse, singleAddress, connVars,
                   stopping, worldVars, missed>>

\* startReadOnly(): the access data are those of the xpub from now on.
StartReadOnly(call) ==
    /\ MayStart /\ xpub
    /\ state' = "LOADING" /\ starts' = starts + 1
    /\ walletId' = TRUE
    /\ accessData' = "xpub"
    /\ Ask(0, Calls(call), "token")
    /\ hitches' = {}
    /\ UNCHANGED <<seed, xpub, authPrivKey, authToken, addressVars, singleAddress, connVars,
                   stopping, worldVars, missed>>

\* The wallet is created, or was before: the version is asked for next.
Created ==
    /\ tasks[0].step = "create" /\ tasks[0].phase = "sent"
    /\ walletId' = TRUE
    /\ \E status \in {"creating", "ready", "error"} :
            Ask(0, [tasks[0] EXCEPT !.status = status], "version")
    /\ UNCHANGED <<state, keyVars, authPrivKey, authToken, addressVars, singleAddress, connVars,
                   stopping, starts, worldVars, missed, hitches>>

\* setupConnection() and READY, when the application loads what there is; start() clears
\* the seed and the key when it is done.  Without a walletId the call throws.
Ready(task, h) ==
    IF walletId
    THEN /\ state' = "READY"
         /\ connState' = "CONNECTING" /\ listeners' = listeners + 1
         /\ seed' = (seed /\ task.call \notin {"start", "start-now"})
         /\ authPrivKey' = (authPrivKey /\ task.call \notin {"start", "start-now"})
         /\ tasks' = [tasks EXCEPT ![0] = Idle]
         /\ missed' = {}
         /\ hitches' = Noted(h)
    ELSE /\ Throw(0)
         /\ UNCHANGED <<state, connState, listeners, seed, authPrivKey, missed>>

\* A call that changes the mode of the addresses ends here, the others end READY.
EndCall(task) ==
    IF task.call \in {"single", "multi"}
    THEN /\ tasks' = [tasks EXCEPT ![0] = Idle]
         /\ UNCHANGED <<state, connState, listeners, seed, authPrivKey, missed, hitches>>
    ELSE Ready(task, IF task.call = "readonly-skip" THEN {"skipped"} ELSE {})

\* getNewAddresses(), unless the call skips it.
FetchAddresses(task) ==
    IF task.call = "readonly-skip"
    THEN UNCHANGED <<newAddresses, indexToUse>> /\ EndCall(task)
    ELSE /\ Ask(0, task, "fresh")
         /\ UNCHANGED <<state, connState, listeners, seed, authPrivKey, missed, hitches,
                        newAddresses, indexToUse>>

\* onWalletReady(): the single address first, when that is the mode.
OnWalletReady(task) ==
    IF singleAddress
    THEN /\ Ask(0, task, "outside")
         /\ UNCHANGED <<state, connState, listeners, seed, authPrivKey, missed, hitches,
                        newAddresses, indexToUse>>
    ELSE FetchAddresses(task)

\* populateStorageVersion() never throws; start() returns here when it does not wait.
VersionKnown ==
    /\ tasks[0].step = "version" /\ tasks[0].phase = "sent"
    /\ LET task == tasks[0] IN
       IF task.call = "start-now"
       THEN /\ seed' = FALSE /\ authPrivKey' = FALSE
            /\ tasks' = [tasks EXCEPT ![0] = Idle]
            /\ UNCHANGED <<state, connState, listeners, missed, hitches, newAddresses, indexToUse>>
       ELSE IF task.status = "ready" THEN OnWalletReady(task)
       ELSE /\ IF task.status = "creating"
               THEN Ask(0, task, "status") /\ UNCHANGED hitches
               ELSE Throw(0)
            /\ UNCHANGED <<state, connState, listeners, seed, authPrivKey, missed, newAddresses,
                           indexToUse>>
    /\ UNCHANGED <<walletId, xpub, accessData, authToken, firstAddress, singleAddress,
                   firstConnection, stopping, starts, worldVars>>

\* pollForWalletStatus() is answered: ready, or still creating, which is asked again.
StatusKnown ==
    /\ tasks[0].step = "status" /\ tasks[0].phase = "sent"
    /\ \/ OnWalletReady(tasks[0]) /\ UNCHANGED walletId
       \/ /\ Refused(0)
          /\ UNCHANGED <<state, connState, listeners, seed, authPrivKey, missed, newAddresses,
                         indexToUse>>
    /\ UNCHANGED <<xpub, accessData, authToken, firstAddress, singleAddress,
                   firstConnection, stopping, starts, worldVars>>

\* The read-only token.
ReadOnlyToken ==
    /\ tasks[0].step = "token" /\ tasks[0].phase = "sent"
    /\ authToken' = TRUE
    /\ OnWalletReady(tasks[0])
    /\ UNCHANGED <<walletId, xpub, accessData, firstAddress, singleAddress, firstConnection,
                   stopping, starts, worldVars>>

-----------------------------------------------------------------------------
(* The addresses *)

FirstAddressOnly == newAddresses' = {0} /\ indexToUse' = 0

\* enableSingleAddressMode() has its answer: transactions outside the first address end
\* the mode of a wallet that starts, and the call of one that is ready.
OutsideKnown ==
    /\ tasks[0].step = "outside" /\ tasks[0].phase = "sent"
    /\ LET task == tasks[0]
           outside == Unused > 1
       IN  /\ singleAddress' = (IF task.call = "single" THEN singleAddress \/ ~outside ELSE ~outside)
           /\ IF outside
              THEN IF task.call = "single"
                   THEN /\ tasks' = [tasks EXCEPT ![0] = Idle]
                        /\ UNCHANGED <<state, connState, listeners, seed, authPrivKey, missed,
                                       hitches, newAddresses, indexToUse>>
                   ELSE FetchAddresses(task)
              ELSE IF firstAddress
              THEN FirstAddressOnly /\ EndCall(task)
              ELSE /\ Ask(0, task, "first")
                   /\ UNCHANGED <<state, connState, listeners, seed, authPrivKey, missed, hitches,
                                  newAddresses, indexToUse>>
    /\ UNCHANGED <<walletId, xpub, accessData, authToken, firstAddress, firstConnection, stopping,
                   starts, worldVars>>

\* prepareSingleAddressMode() of a wallet that does not know its first address.
FirstAddressKnown ==
    /\ tasks[0].step = "first" /\ tasks[0].phase = "sent"
    /\ firstAddress' = TRUE
    /\ FirstAddressOnly
    /\ EndCall(tasks[0])
    /\ UNCHANGED <<walletId, xpub, accessData, authToken, singleAddress, firstConnection, stopping,
                   starts, worldVars>>

\* The service answers getNewAddresses(): answers may overtake each other on their way.
AddressesAnswered(t) ==
    /\ tasks[t].step = "fresh" /\ tasks[t].phase = "sent"
    /\ tasks' = [tasks EXCEPT ![t] =
            [step |-> "fresh", phase |-> "answered", tries |-> tasks[t].tries,
             polls |-> tasks[t].polls, call |-> tasks[t].call, status |-> tasks[t].status,
             answer |-> Unused]]
    /\ hitches' = hitches \ {"unheard"}
    /\ UNCHANGED Rest

\* The answer is used, whatever was answered since and whatever the mode is now.
AddressesKnown(t) ==
    /\ tasks[t].phase = "answered"
    /\ newAddresses' = Window(tasks[t].answer) /\ indexToUse' = 0
    /\ LET late == singleAddress \/ \E n \in newAddresses : n >= tasks[t].answer + GapLimit
           overtaken == IF late THEN {"overtaken"} ELSE {}
       IN  IF tasks[t].call \in {"new-tx", "multi"}
           THEN /\ tasks' = [tasks EXCEPT ![t] = Idle]
                /\ missed' = missed \ {t}
                /\ hitches' = Noted(overtaken)
                /\ UNCHANGED <<state, connState, listeners, seed, authPrivKey>>
           ELSE Ready(tasks[t], overtaken)
    /\ UNCHANGED <<walletId, xpub, accessData, authToken, firstAddress, singleAddress,
                   firstConnection, stopping, starts, worldVars>>

MayCall == state = "READY" /\ ~Busy(0) /\ ~stopping

\* enableSingleAddressMode() of a wallet that is ready.
EnableSingle ==
    /\ MayCall
    /\ Ask(0, Calls("single"), "outside")
    /\ UNCHANGED <<Rest, hitches>>

\* enableMultiAddressMode()
EnableMulti ==
    /\ MayCall /\ singleAddress
    /\ singleAddress' = FALSE
    /\ Ask(0, Calls("multi"), "fresh")
    /\ UNCHANGED <<state, walletId, keyVars, authPrivKey, authToken, addressVars, connVars, stopping,
                   starts, worldVars, missed, hitches>>

\* getCurrentAddress(): the last address is given again when there are no more.
CurrentAddress ==
    IF singleAddress THEN Min(newAddresses)
    ELSE Min({Min(newAddresses) + indexToUse, Max(newAddresses)})

\* getNextAddress(), which marks the current one as used.
GetNextAddress ==
    /\ MayCall /\ newAddresses # {} /\ ~singleAddress
    /\ indexToUse < Cardinality(newAddresses)
    /\ indexToUse' = indexToUse + 1
    /\ UNCHANGED <<state, walletId, keyVars, authPrivKey, authToken, newAddresses, firstAddress,
                   singleAddress, connVars, stopping, starts, tasks, worldVars, missed, hitches>>

-----------------------------------------------------------------------------
(* The transactions and the connection *)

Matching(k) == to[k] \in newAddresses

\* A transaction pays one of the addresses of the wallet.  It is sent to a connection that
\* has joined, and nobody hears of it before the first join.
Publish ==
    /\ Len(to) < MaxTx /\ starts + Len(to) < MaxEvents
    /\ \E a \in 0..Max(Window(Unused)) : to' = Append(to, a)
    /\ LET k == Len(to) + 1 IN
       /\ missed' = IF state = "READY" THEN missed \cup {k} ELSE missed
       /\ inbox' = IF connState = "CONNECTED" THEN inbox \cup {k} ELSE inbox
    /\ hitches' = IF connState = "CONNECTED" THEN hitches
                  ELSE Noted(IF state = "READY" /\ firstConnection THEN {"unheard", "window"}
                             ELSE {"unheard"})
    /\ UNCHANGED <<state, walletId, keyVars, authPrivKey, authToken, addressVars, singleAddress,
                   connVars, stopping, starts, tasks>>

\* Faulty: only the address that is offered makes the wallet ask for others.
OnNewTxOffered ==
    /\ inbox # {} /\ newAddresses # {}
    /\ LET k == Min(inbox) IN
       /\ inbox' = inbox \ {k}
       /\ IF to[k] # CurrentAddress
          THEN missed' = missed \ {k} /\ UNCHANGED <<tasks, hitches>>
          ELSE /\ Ask(k, Calls("new-tx"), "fresh")
               /\ UNCHANGED <<missed, hitches>>
    /\ UNCHANGED <<state, walletId, keyVars, authPrivKey, authToken, addressVars, singleAddress,
                   connVars, stopping, starts, to>>

\* onNewTx(): what pays none of the addresses does not, although it may pay one of those
\* that are just being answered; a transaction that pays an address that waits to be used makes the wallet
\* ask for others first, which fails when it is not ready; then the event is emitted.
OnNewTx ==
    /\ inbox # {}
    /\ LET k == Min(inbox) IN
       /\ inbox' = inbox \ {k}
       /\ IF ~Matching(k)
          THEN /\ missed' = missed \ {k}
               /\ hitches' = IF \E t \in DOMAIN tasks : tasks[t].phase = "answered"
                             THEN Noted({"overtaken"}) ELSE hitches
               /\ UNCHANGED <<tasks, newAddresses, indexToUse>>
          ELSE IF state # "READY"
          THEN Throw(k) /\ UNCHANGED <<missed, newAddresses, indexToUse>>
          ELSE IF singleAddress
          THEN /\ FirstAddressOnly
               /\ missed' = missed \ {k}
               /\ UNCHANGED <<tasks, hitches>>
          ELSE /\ Ask(k, Calls("new-tx"), "fresh")
               /\ UNCHANGED <<missed, hitches, newAddresses, indexToUse>>
    /\ UNCHANGED <<state, walletId, keyVars, authPrivKey, authToken, firstAddress, singleAddress,
                   connVars, stopping, starts, to>>

\* Faulty: a reconnection is taken for the first connection.
ConnectQuietly ==
    /\ connState = "CONNECTING"
    /\ connState' = "CONNECTED"
    /\ firstConnection' = FALSE
    /\ UNCHANGED <<state, walletId, keyVars, authPrivKey, authToken, addressVars, singleAddress,
                   listeners, stopping, starts, tasks, worldVars, missed, hitches>>

\* onConnectionChangedState(): the application loads again, but for the first connection.
Connect ==
    /\ connState = "CONNECTING"
    /\ connState' = "CONNECTED"
    /\ missed' = IF firstConnection THEN missed ELSE {}
    /\ firstConnection' = FALSE
    /\ UNCHANGED <<state, walletId, keyVars, authPrivKey, authToken, addressVars, singleAddress,
                   listeners, stopping, starts, tasks, worldVars, hitches>>

\* The connection is lost with what was on its way.
Lose ==
    /\ connState = "CONNECTED"
    /\ connState' = "CONNECTING"
    /\ inbox' = {}
    /\ hitches' = IF inbox # {} THEN Noted({"unheard"}) ELSE hitches
    /\ UNCHANGED <<state, walletId, keyVars, authPrivKey, authToken, addressVars, singleAddress,
                   listeners, firstConnection, stopping, starts, tasks, to, missed>>

\* stop(), up to where it awaits the storage; the access data go when it cleans.
Stop ==
    /\ starts > 0 /\ ~stopping
    /\ walletId' = FALSE /\ state' = "NOT_STARTED" /\ firstConnection' = TRUE
    /\ stopping' = TRUE
    /\ hitches' = IF Busy(0) THEN {"interrupted"} ELSE hitches
    /\ missed' = {}
    /\ UNCHANGED <<keyVars, authPrivKey, authToken, addressVars, singleAddress, connState,
                   listeners, starts, tasks, worldVars>>

\* Faulty: the connection goes on when the wallet has stopped.
LeaveConnection ==
    /\ stopping /\ stopping' = FALSE
    /\ UNCHANGED <<state, walletId, keyVars, authPrivKey, authToken, addressVars, singleAddress,
                   connVars, starts, tasks, worldVars, missed, hitches>>

\* stop() goes on: the connection and its listeners.
StopConnection ==
    /\ stopping /\ stopping' = FALSE
    /\ connState' = "CLOSED" /\ listeners' = 0 /\ inbox' = {}
    /\ UNCHANGED <<state, walletId, keyVars, authPrivKey, authToken, addressVars, singleAddress,
                   firstConnection, starts, tasks, to, missed, hitches>>

-----------------------------------------------------------------------------

StartCalls == {"start", "start-now"}
ReadOnlyCalls == {"readonly", "readonly-skip"}

Step(t) ==
    \/ Renewed(t) \/ RenewRefused(t) \/ RequestRefused(t) \/ RequestBreaks(t)
    \/ AddressesAnswered(t) \/ AddressesKnown(t)
    \/ t = 0 /\ (Created \/ VersionKnown \/ StatusKnown \/ ReadOnlyToken \/ OutsideKnown
                   \/ FirstAddressKnown)

Next ==
    \/ \E t \in DOMAIN tasks : Step(t)
    \/ \E call \in StartCalls : Start(call)
    \/ \E call \in ReadOnlyCalls : StartReadOnly(call)
    \/ EnableSingle \/ EnableMulti \/ GetNextAddress
    \/ Publish \/ OnNewTx \/ Connect \/ Lose \/ Stop \/ StopConnection

Spec == Init /\ [][Next]_vars

-----------------------------------------------------------------------------
(* Properties *)

\* A wallet that is ready has its walletId, addresses to offer, one connection that
\* is open or being opened and one set of listeners on it, whatever its requests went
\* through and however often it was started, unless it was stopped while it started:
\* setupConnection() and stop() (wallet.ts:878, 1482).
ReadyIsComplete ==
    state = "READY" /\ "interrupted" \notin hitches =>
        /\ walletId
        /\ newAddresses # {} \/ "skipped" \in hitches
        /\ connState # "CLOSED" /\ listeners = 1

Quiet == state = "READY" /\ connState = "CONNECTED" /\ inbox = {}
         /\ \A t \in DOMAIN tasks : ~Busy(t)

\* When everything has arrived, the application knows every transaction, although the
\* wallet keeps none: it was told of it, or to load again after the connection was lost.
\* A refresh that failed swallows its event (wallet.ts:683), and nobody is told of what is
\* published between the load and the first connection (wallet.ts:908).
AppIsCurrent == Quiet /\ hitches \cap {"window", "failed", "interrupted"} = {} => missed = {}

\* When everything has arrived, the address that is offered was not used, whatever order
\* the transactions came in, unless a transaction came while there was no connection, a
\* refresh failed or its answer was overtaken (getNewAddresses(), wallet.ts:937).
AddressIsRight ==
    /\ Quiet /\ newAddresses # {}
    /\ hitches \cap {"unheard", "failed", "overtaken", "interrupted", "skipped"} = {}
    => IF singleAddress THEN CurrentAddress = 0
       ELSE \A k \in DOMAIN to : to[k] # CurrentAddress

=============================================================================
