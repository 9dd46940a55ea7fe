-------------------------- MODULE SendTransaction --------------------------
(***************************************************************************)
(* Sends over one storage (src/new/sendTransaction.ts): each one chooses   *)
(* its inputs, signs, selects the inputs one by one, has the transaction   *)
(* mined (src/wallet/mineTransaction.ts) and pushes it.  Every await is a  *)
(* step, so that the sends, the releases nobody waits for and the timers   *)
(* of the selections interleave as they may.                               *)
(*                                                                         *)
(* A send whose transaction was built by the facade starts with run() until *)
(* 'sign-tx' here.  Values are left out: a send takes a number of utxos.   *)
(***************************************************************************)
EXTENDS Integers, FiniteSets, Sequences, SequencesExt, FiniteSetsExt

CONSTANTS
    Sends,
    Utxos,                  \* the utxos of the wallet
    Amount,                 \* how many utxos every send takes
    Given,                  \* the inputs the caller names, or none
    MaxTxMiningRetries,
    MaxRuns                 \* the calls to run() of every send

ASSUME SendAssumption ==
    /\ IsFiniteSet(Utxos)
    /\ Amount \in [Sends -> Nat \ {0}]
    /\ Given \in [Sends -> Seq(Utxos)]
    /\ MaxTxMiningRetries \in Nat \ {0}
    /\ MaxRuns \in [Sends -> Nat]

VARIABLES
    \* the storage
    utxos,                  \* what the wallet takes for unspent
    utxosSelectedAsInput,
    timers,                 \* running timeouts of every send's selection of every utxo
    \* each send
    currentStep,
    call,                   \* where its run() is
    until,                  \* the argument of that run(), "end" for none
    inputs,                 \* of its transaction, once it has chosen
    index,                  \* the input updateOutputSelected(true) comes to
    releases,               \* the inputs the running updateOutputSelected(false) come to
    countTxMiningAttempts,  \* of the job of that run()
    runs,                   \* calls to run()
    minings,                \* calls to mineTx()
    failed,                 \* its last run() was rejected
    \* the network
    accepted,               \* the sends whose transaction the fullnode accepted
    learned,                \* and the ones the wallet processed since
    calm                    \* the callers wait: see Calm

storage == <<utxos, utxosSelectedAsInput, timers>>
network == <<accepted, learned, calm>>
progress == <<call, until, countTxMiningAttempts>>
counters == <<runs, minings>>
vars == <<storage, currentStep, progress, inputs, index, releases, counters, failed, network>>

Idle == "none"
Untils == {"prepare-tx", "sign-tx", "mine-tx", "end"}

-----------------------------------------------------------------------------
(* The calls *)

InputsOf(s) == ToSet(inputs[s])
Spent == UNION {InputsOf(s) : s \in accepted}
Sent(s) == s \in accepted /\ call[s] = Idle /\ ~failed[s]

\* Its inputs are selected and the transaction is on its way.
IsMining(s) == call[s] \in {"submitting", "polling", "pushing"}

\* Its inputs are on their way, or spent by it.
Holds(s) == IsMining(s) \/ Sent(s)

\* A send that started and has not selected its inputs yet.
IsOpen(s) == \/ call[s] \in {"preparing", "signing", "selecting"}
             \/ currentStep[s] # "idle" /\ minings[s] = 0

Init ==
    /\ utxos = Utxos
    /\ utxosSelectedAsInput = {}
    /\ timers = [s \in Sends |-> [u \in Utxos |-> 0]]
    /\ currentStep = [s \in Sends |-> "idle"]
    /\ call = [s \in Sends |-> Idle]
    /\ until = [s \in Sends |-> "end"]
    /\ inputs = Given
    /\ index = [s \in Sends |-> 1]
    /\ releases = [s \in Sends |-> {}]
    /\ countTxMiningAttempts = [s \in Sends |-> 0]
    /\ runs = [s \in Sends |-> 0]
    /\ minings = [s \in Sends |-> 0]
    /\ failed = [s \in Sends |-> FALSE]
    /\ accepted = {}
    /\ learned = {}
    /\ calm \in BOOLEAN /\ (calm => \A s \in Sends : IsInjective(Given[s]))

\* What run() does next, given the step that is done.
Following(step, limit) ==
    CASE step = "idle" -> "preparing"
      [] step # "idle" /\ limit = "prepare-tx" -> Idle
      [] step = "prepared" /\ limit # "prepare-tx" -> "signing"
      [] step = "signed" /\ limit = "sign-tx" -> Idle
      [] step = "signed" /\ limit \in {"mine-tx", "end"} -> "selecting"

\* The call goes on, or returns and leaves nothing of itself.
GoTo(s, place, attempts) ==
    /\ call' = [call EXCEPT ![s] = place]
    /\ until' = [until EXCEPT ![s] = IF place = Idle THEN "end" ELSE @]
    /\ countTxMiningAttempts' = [countTxMiningAttempts EXCEPT ![s] = attempts]

\* mineTx() starts with the selection of the inputs.
Follow(s, step, limit) ==
    LET place == Following(step, limit)
    IN  /\ call' = [call EXCEPT ![s] = place]
        /\ until' = [until EXCEPT ![s] = IF place = Idle THEN "end" ELSE limit]
        /\ minings' = [minings EXCEPT ![s] = IF place = "selecting" THEN @ + 1 ELSE @]

\* A call starts while no other send is between its choice and its selection and no release
\* runs, and no inputs are named, tried again or released while they are another send's.
Calm(s) == /\ \A r \in Sends : releases[r] = {}
           /\ \A r \in Sends \ {s} : /\ ~IsOpen(r)
                                     /\ Holds(r) => InputsOf(s) \cap InputsOf(r) = {}

\* run(), with runFromMining() for a transaction that is signed.
Run(s, limit) ==
    /\ call[s] = Idle /\ ~Sent(s) /\ runs[s] < MaxRuns[s]
    /\ Following(currentStep[s], limit) # Idle
    /\ calm => Calm(s)
    /\ Follow(s, currentStep[s], limit)
    /\ runs' = [runs EXCEPT ![s] = @ + 1]
    /\ failed' = [failed EXCEPT ![s] = FALSE]
    /\ UNCHANGED <<storage, currentStep, inputs, index, releases, countTxMiningAttempts, network>>

\* A run() that is rejected.  What was selected is released by a loop nobody waits for.
RejectedAnd(s, starts) ==
    /\ GoTo(s, Idle, 0)
    /\ failed' = [failed EXCEPT ![s] = TRUE]
    /\ releases' = [releases EXCEPT ![s] = @ \cup starts]
    /\ UNCHANGED <<storage, currentStep, inputs, index, counters, network>>
Rejected(s) == RejectedAnd(s, {1})

\* releaseUtxos(), of a transaction that was rejected or abandoned
ReleaseUtxos(s) ==
    /\ call[s] = Idle /\ ~Sent(s) /\ inputs[s] # <<>> /\ releases[s] = {}
    /\ calm => Calm(s)
    /\ releases' = [releases EXCEPT ![s] = @ \cup {1}]
    /\ UNCHANGED <<storage, currentStep, progress, inputs, index, counters, failed, network>>

-----------------------------------------------------------------------------
(* The steps of run() *)

\* Faulty: the choice does not ask what is selected.
InputChoicesOfAll(s) ==
    IF inputs[s] # <<>> THEN {inputs[s]} ELSE {SetToSeq(us) : us \in kSubset(Amount[s], utxos)}

\* The inputs the caller named, selected or not, or utxos that are not selected.
InputChoices(s) ==
    IF inputs[s] # <<>> THEN {inputs[s]}
    ELSE {SetToSeq(us) : us \in kSubset(Amount[s], utxos \ utxosSelectedAsInput)}

PrepareTx(s) ==
    /\ call[s] = "preparing"
    /\ \E chosen \in InputChoices(s) : inputs' = [inputs EXCEPT ![s] = chosen]
    /\ currentStep' = [currentStep EXCEPT ![s] = "prepared"]
    /\ Follow(s, "prepared", until[s])
    /\ UNCHANGED <<storage, index, releases, countTxMiningAttempts, runs, failed, network>>

\* signTx()
SignTx(s) ==
    /\ call[s] = "signing"
    /\ currentStep' = [currentStep EXCEPT ![s] = "signed"]
    /\ Follow(s, "signed", until[s])
    /\ UNCHANGED <<storage, inputs, index, releases, countTxMiningAttempts, runs, failed, network>>

\* There is not enough to choose from, or the pin is wrong.
PrepareOrSignFails(s) == call[s] \in {"preparing", "signing"} /\ RejectedAnd(s, {})

\* Faulty: the timeout is not passed.
SelectAsInputForEver(s, u) ==
    IF u \in utxos
    THEN utxosSelectedAsInput' = utxosSelectedAsInput \cup {u} /\ UNCHANGED timers
    ELSE UNCHANGED <<utxosSelectedAsInput, timers>>

\* One round of updateOutputSelected(true): utxoSelectAsInput() does nothing for an output
\* that is known to be spent, and starts a timer that nothing cancels.
SelectAsInput(s, u) ==
    IF u \in utxos
    THEN /\ utxosSelectedAsInput' = utxosSelectedAsInput \cup {u}
         /\ timers' = [timers EXCEPT ![s][u] = timers[s][u] + 1]
    ELSE UNCHANGED <<utxosSelectedAsInput, timers>>

\* mineTx() submits the job once every input is selected.
UpdateOutputSelected(s) ==
    LET last == index[s] = Len(inputs[s])
    IN  /\ call[s] = "selecting"
        /\ SelectAsInput(s, inputs[s][index[s]])
        /\ index' = [index EXCEPT ![s] = IF last THEN 1 ELSE @ + 1]
        /\ IF last THEN GoTo(s, "submitting", 1) ELSE UNCHANGED progress
        /\ UNCHANGED <<utxos, currentStep, inputs, releases, counters, failed, network>>

WorkOn(s, place, attempts) ==
    /\ GoTo(s, place, attempts)
    /\ UNCHANGED <<storage, currentStep, inputs, index, releases, counters, failed, network>>

\* submitJob(): the service takes the job
JobSubmitted(s) == call[s] = "submitting" /\ WorkOn(s, "polling", countTxMiningAttempts[s])

\* handleJobStatus(): the job is done
JobDone(s) ==
    /\ call[s] = "polling"
    /\ WorkOn(s, IF until[s] = "mine-tx" THEN Idle ELSE "pushing", 0)

\* Faulty: the last timeout rejects the send and releases nothing.
JobTimeoutKeeps(s) ==
    /\ call[s] = "polling"
    /\ IF countTxMiningAttempts[s] < MaxTxMiningRetries
       THEN WorkOn(s, "submitting", countTxMiningAttempts[s] + 1) ELSE RejectedAnd(s, {})

\* Faulty: a job that timed out is submitted again for ever.
JobTimeoutForEver(s) == call[s] = "polling" /\ WorkOn(s, "submitting", 1)

\* The job timed out: it is submitted again while there are attempts left.
JobTimeout(s) ==
    /\ call[s] = "polling"
    /\ IF countTxMiningAttempts[s] < MaxTxMiningRetries
       THEN WorkOn(s, "submitting", countTxMiningAttempts[s] + 1) ELSE Rejected(s)

\* No miners, too many requests, or a request that fails
MiningFails(s) == call[s] \in {"submitting", "polling"} /\ Rejected(s)

-----------------------------------------------------------------------------
(* The push and its end *)

\* The fullnode refuses an input that is spent.
FullnodeAccepts(s) ==
    /\ call[s] = "pushing" /\ s \notin accepted
    /\ InputsOf(s) \cap Spent = {}
    /\ accepted' = accepted \cup {s}
    /\ UNCHANGED <<storage, currentStep, progress, inputs, index, releases, counters, failed,
                   learned, calm>>

\* handlePushTx(): it succeeded
PushDone(s) == call[s] = "pushing" /\ s \in accepted /\ WorkOn(s, Idle, 0)

\* It is refused, or the request or its answer is lost.
PushFails(s) == call[s] = "pushing" /\ Rejected(s)

\* The wallet processes the transaction, inserted by the sender or sent by the fullnode.
OnNewTx(s) ==
    /\ s \in accepted \ learned
    /\ learned' = learned \cup {s}
    /\ utxos' = utxos \ InputsOf(s)
    /\ UNCHANGED <<utxosSelectedAsInput, timers, currentStep, progress, inputs, index,
                   releases, counters, failed, accepted, calm>>

-----------------------------------------------------------------------------
(* What nobody waits for *)

\* One round of updateOutputSelected(false) or releaseUtxos()
UpdateOutputReleased(s) ==
    /\ \E i \in releases[s] :
        /\ utxosSelectedAsInput' = utxosSelectedAsInput \ {inputs[s][i]}
        /\ releases' = [releases EXCEPT ![s] =
                            (@ \ {i}) \cup (IF i < Len(inputs[s]) THEN {i + 1} ELSE {})]
    /\ UNCHANGED <<utxos, timers, currentStep, progress, inputs, index, counters, failed, network>>

\* A timer of utxoSelectAsInput() fires, whoever has selected the utxo by then.  A calm
\* send is mined or released, and what was accepted has reached the wallet, before a timer
\* of one of its inputs fires.
TimerFires(s, u) ==
    /\ timers[s][u] > 0
    /\ calm => \A r \in Sends : u \in InputsOf(r) =>
                /\ ~IsMining(r) /\ call[r] # "selecting" /\ releases[r] = {}
                /\ r \notin accepted \ learned
    /\ timers' = [timers EXCEPT ![s][u] = timers[s][u] - 1]
    /\ utxosSelectedAsInput' = utxosSelectedAsInput \ {u}
    /\ UNCHANGED <<utxos, currentStep, progress, inputs, index, releases, counters, failed, network>>

Answers(s) == PrepareTx(s) \/ SignTx(s) \/ UpdateOutputSelected(s) \/ JobSubmitted(s)
              \/ JobDone(s) \/ JobTimeout(s) \/ PushDone(s)
Fails(s) == PrepareOrSignFails(s) \/ MiningFails(s) \/ PushFails(s)

Next == \E s \in Sends :
            \/ \E limit \in Untils : Run(s, limit)
            \/ ReleaseUtxos(s)
            \/ Answers(s)
            \/ Fails(s)
            \/ FullnodeAccepts(s) \/ OnNewTx(s)
            \/ UpdateOutputReleased(s)
            \/ \E u \in Utxos : TimerFires(s, u)

\* Promises go on, every request is answered or fails, every job ends, timers fire.
Fairness == \A s \in Sends :
                /\ WF_vars(Answers(s) \/ Fails(s))
                /\ WF_vars(OnNewTx(s)) /\ WF_vars(UpdateOutputReleased(s))
                /\ \A u \in Utxos : WF_vars(TimerFires(s, u))

Spec == Init /\ [][Next]_vars
FairSpec == Spec /\ Fairness

-----------------------------------------------------------------------------
(* Properties *)

TypeOK ==
    /\ utxos \subseteq Utxos /\ utxosSelectedAsInput \subseteq Utxos
    /\ timers \in [Sends -> [Utxos -> Nat]]
    /\ currentStep \in [Sends -> {"idle", "prepared", "signed"}]
    /\ call \in [Sends -> {Idle, "preparing", "signing", "selecting", "submitting", "polling",
                           "pushing"}]
    /\ until \in [Sends -> Untils]
    /\ inputs \in [Sends -> Seq(Utxos)]
    /\ index \in [Sends -> Nat \ {0}]
    /\ releases \in [Sends -> SUBSET (Nat \ {0})]
    /\ {countTxMiningAttempts, runs, minings} \subseteq [Sends -> Nat]
    /\ failed \in [Sends -> BOOLEAN]
    /\ accepted \subseteq Sends /\ learned \subseteq Sends
    /\ calm \in BOOLEAN

\* No selection lasts for ever: whoever selected an utxo, and whatever became of that
\* send, a timer that will release it is running.
SelectionHasTimer == \A u \in utxosSelectedAsInput : \E s \in Sends : timers[s][u] > 0

\* When a send has failed and its release is over, whatever failed, its inputs are free
\* again, but for those another send selects or has selected.
FailureReleases ==
    \A s \in Sends :
        failed[s] /\ minings[s] > 0 /\ releases[s] = {} =>
            \A u \in InputsOf(s) \cap utxosSelectedAsInput :
                \E r \in Sends \ {s} : u \in InputsOf(r) /\ minings[r] > 0

\* The inputs of a send that is on its way are its own: no other send is mining, pushing or
\* has spent one of them.  This is what the selection is for; it takes callers that do not
\* start in between, and that leave what another send has (calm).  A transaction that was
\* accepted and reported as failed is not a sent one: its inputs are offered again.
InputsAreOwn ==
    calm => \A s, r \in Sends :
        s # r /\ IsMining(s) /\ Holds(r) => InputsOf(s) \cap InputsOf(r) = {}

\* Every run() ends: attempts are bounded and every failure rejects.
Settles == \A s \in Sends : call[s] # Idle ~> call[s] = Idle

=============================================================================
