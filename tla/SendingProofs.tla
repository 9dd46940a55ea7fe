--------------------------- MODULE SendingProofs ---------------------------
(***************************************************************************)
(* Proofs about sends and contract calls.                                  *)
(*                                                                         *)
(* The selections of sends, for any number of sends, utxos, retries and    *)
(* calls, calm or not: no selection is without a timer, and a send that    *)
(* failed leaves nothing selected once its release has ended.              *)
(*                                                                         *)
(* What a contract call builds, for any actions and any token to create:   *)
(* its fee is exact, its inputs were available, and a build that fails     *)
(* leaves no utxo marked.  With these the theorems of TransactionsProofs   *)
(* about the fee and the inputs are stated for every builder but the       *)
(* template.                                                               *)
(*                                                                         *)
(* And sends of either facade find what there is: when the funds cover the *)
(* amounts, the changes and the fees, the rounds that choose the inputs    *)
(* end with a transaction.                                                 *)
(***************************************************************************)
EXTENDS SendTransaction, TransactionsProofs, FiniteSetTheorems, TLAPS

-----------------------------------------------------------------------------
(* Types *)

LEMMA ChosenInputs ==
  ASSUME NEW us \in SUBSET Utxos
  PROVE  SetToSeq(us) \in Seq(Utxos) /\ Len(SetToSeq(us)) = Cardinality(us)
<1> DEFINE n == Cardinality(us)
           Orderings == {f \in [1..n -> us] : IsInjective(f)}
<1>1. IsFiniteSet(us)
  BY SendAssumption, FS_Subset
<1>2. n \in Nat /\ ExistsBijection(1..n, us)
  BY <1>1, FS_CardinalityType
<1>3. PICK f : f \in Bijection(1..n, us)
  BY <1>2 DEF ExistsBijection
<1>4. f \in Orderings
  BY <1>3 DEF Bijection, Injection
<1>5. SetToSeq(us) \in Orderings
  BY <1>4 DEF SetToSeq
<1> QED
  BY <1>2, <1>5

LEMMA ChoiceType ==
  ASSUME TypeOK, NEW s \in Sends, NEW chosen \in InputChoices(s)
  PROVE  chosen \in Seq(Utxos) /\ chosen # <<>> /\ (inputs[s] # <<>> => chosen = inputs[s])
<1>1. CASE inputs[s] # <<>>
  BY <1>1 DEF InputChoices, TypeOK
<1>2. CASE inputs[s] = <<>>
  <2>1. PICK us \in SUBSET Utxos : chosen = SetToSeq(us) /\ Cardinality(us) = Amount[s]
    BY <1>2 DEF InputChoices, kSubset, TypeOK
  <2>2. Amount[s] \in Nat \ {0}
    BY SendAssumption
  <2> QED
    BY <1>2, <2>1, <2>2, ChosenInputs
<1> QED
  BY <1>1, <1>2

Calls == {Idle, "preparing", "signing", "selecting", "submitting", "polling", "pushing"}
Steps == {"idle", "prepared", "signed"}

LEMMA FollowingType ==
  ASSUME NEW step \in Steps, NEW limit \in Untils
  PROVE  /\ Following(step, limit) \in {Idle, "preparing", "signing", "selecting"}
         /\ Following(step, limit) = "preparing" <=> step = "idle"
         /\ Following(step, limit) = "signing" => step = "prepared"
         /\ Following(step, limit) = "selecting" => step = "signed"
<1>1. CASE step = "idle"
  BY <1>1 DEF Following, Idle
<1>2. CASE step = "prepared"
  BY <1>2 DEF Following, Idle, Untils
<1>3. CASE step = "signed"
  BY <1>3 DEF Following, Idle, Untils
<1> QED
  BY <1>1, <1>2, <1>3 DEF Steps

LEMMA FollowTypes ==
  ASSUME TypeOK, NEW s \in Sends, NEW step \in Steps, NEW limit \in Untils, Follow(s, step, limit)
  PROVE  call' \in [Sends -> Calls] /\ until' \in [Sends -> Untils] /\ minings' \in [Sends -> Nat]
<1>1. Following(step, limit) \in Calls
  BY FollowingType DEF Calls
<1>2. minings \in [Sends -> Nat]
  BY DEF TypeOK
<1> QED
  BY <1>1, <1>2 DEF Follow, TypeOK, Calls, Untils

LEMMA GoToTypes ==
  ASSUME TypeOK, NEW s \in Sends, NEW place \in Calls, NEW n \in Nat, GoTo(s, place, n)
  PROVE  /\ call' \in [Sends -> Calls] /\ until' \in [Sends -> Untils]
         /\ countTxMiningAttempts' \in [Sends -> Nat]
<1>1. countTxMiningAttempts \in [Sends -> Nat]
  BY DEF TypeOK
<1> QED
  BY <1>1 DEF GoTo, TypeOK, Calls, Untils

LEMMA RejectedTypes ==
  ASSUME TypeOK, NEW s \in Sends, NEW starts \in SUBSET {1}, RejectedAnd(s, starts)
  PROVE  TypeOK'
<1>1. 0 \in Nat /\ Idle \in Calls
  BY DEF Calls
<1>2. /\ call' \in [Sends -> Calls] /\ until' \in [Sends -> Untils]
      /\ countTxMiningAttempts' \in [Sends -> Nat]
  BY <1>1, GoToTypes DEF RejectedAnd
<1>3. failed' \in [Sends -> BOOLEAN]
  BY Zenon DEF RejectedAnd, TypeOK
<1>4. releases' \in [Sends -> SUBSET (Nat \ {0})]
  <2> DEFINE after == releases[s] \cup starts
  <2>1. releases \in [Sends -> SUBSET (Nat \ {0})]
    BY DEF TypeOK
  <2>. releases[s] \subseteq Nat \ {0} /\ starts \subseteq Nat \ {0}
    BY <2>1
  <2>3. after \in SUBSET (Nat \ {0})
    OBVIOUS
  <2>2. releases' = [releases EXCEPT ![s] = after]
    BY DEF RejectedAnd
  <2> HIDE DEF after
  <2> QED
    BY <2>1, <2>2, <2>3
<1> QED
  BY <1>2, <1>3, <1>4 DEF RejectedAnd, TypeOK, Calls, storage, counters, network

LEMMA WorkOnTypes ==
  ASSUME TypeOK, NEW s \in Sends, NEW place \in Calls, NEW n \in Nat, WorkOn(s, place, n)
  PROVE  TypeOK'
<1>1. /\ call' \in [Sends -> Calls] /\ until' \in [Sends -> Untils]
      /\ countTxMiningAttempts' \in [Sends -> Nat]
  BY GoToTypes DEF WorkOn
<1> QED
  BY <1>1 DEF WorkOn, TypeOK, Calls, storage, counters, network

LEMMA RunTypes ==
  ASSUME TypeOK, NEW s \in Sends, NEW limit \in Untils, Run(s, limit)
  PROVE  TypeOK'
<1>1. currentStep[s] \in Steps
  BY DEF TypeOK, Steps
<1>2. call' \in [Sends -> Calls] /\ until' \in [Sends -> Untils] /\ minings' \in [Sends -> Nat]
  BY <1>1, FollowTypes DEF Run
<1>3. runs' \in [Sends -> Nat]
  <2>1. runs \in [Sends -> Nat]
    BY DEF TypeOK
  <2> QED
    BY <2>1 DEF Run
<1>4. failed' \in [Sends -> BOOLEAN]
  BY Zenon DEF Run, TypeOK
<1> QED
  BY <1>2, <1>3, <1>4 DEF Run, TypeOK, Calls, storage, network

LEMMA PrepareTypes ==
  ASSUME TypeOK, NEW s \in Sends, PrepareTx(s)
  PROVE  TypeOK'
<1>1. PICK chosen \in InputChoices(s) : inputs' = [inputs EXCEPT ![s] = chosen]
  BY DEF PrepareTx
<1>2. inputs' \in [Sends -> Seq(Utxos)]
  BY <1>1, ChoiceType DEF TypeOK
<1>3. until[s] \in Untils /\ "prepared" \in Steps
  BY DEF TypeOK, Steps
<1>4. call' \in [Sends -> Calls] /\ until' \in [Sends -> Untils] /\ minings' \in [Sends -> Nat]
  BY <1>3, FollowTypes DEF PrepareTx
<1>5. currentStep' \in [Sends -> {"idle", "prepared", "signed"}]
  BY DEF PrepareTx, TypeOK
<1> QED
  BY <1>2, <1>4, <1>5 DEF PrepareTx, TypeOK, Calls, storage, network

LEMMA SignTypes ==
  ASSUME TypeOK, NEW s \in Sends, SignTx(s)
  PROVE  TypeOK'
<1>1. until[s] \in Untils /\ "signed" \in Steps
  BY DEF TypeOK, Steps
<1>2. call' \in [Sends -> Calls] /\ until' \in [Sends -> Untils] /\ minings' \in [Sends -> Nat]
  BY <1>1, FollowTypes DEF SignTx
<1>3. currentStep' \in [Sends -> {"idle", "prepared", "signed"}]
  BY DEF SignTx, TypeOK
<1> QED
  BY <1>2, <1>3 DEF SignTx, TypeOK, Calls, storage, network

LEMMA SelectTypes ==
  ASSUME TypeOK, NEW s \in Sends, UpdateOutputSelected(s)
  PROVE  TypeOK'
<1> DEFINE u == inputs[s][index[s]]
           last == index[s] = Len(inputs[s])
<1>1. utxosSelectedAsInput' \subseteq Utxos
  BY DEF UpdateOutputSelected, SelectAsInput, TypeOK
<1>2. timers' \in [Sends -> [Utxos -> Nat]]
  <2>1. SelectAsInput(s, u) /\ utxos \subseteq Utxos /\ timers \in [Sends -> [Utxos -> Nat]]
    BY DEF UpdateOutputSelected, TypeOK
  <2>2. CASE u \in utxos
    <3>1. timers[s][u] + 1 \in Nat
      BY <2>1, <2>2
    <3> QED
      BY <2>1, <2>2, <3>1 DEF SelectAsInput
  <2>3. CASE u \notin utxos
    BY <2>1, <2>3 DEF SelectAsInput
  <2> QED
    BY <2>2, <2>3
<1>3. index' \in [Sends -> Nat \ {0}]
  BY DEF UpdateOutputSelected, TypeOK
<1>4. /\ call' \in [Sends -> Calls] /\ until' \in [Sends -> Untils]
      /\ countTxMiningAttempts' \in [Sends -> Nat]
  <2>1. CASE last
    <3>1. GoTo(s, "submitting", 1) /\ "submitting" \in Calls /\ 1 \in Nat
      BY <2>1 DEF UpdateOutputSelected, Calls
    <3> QED
      BY <3>1, GoToTypes
  <2>2. CASE ~last
    BY <2>2 DEF UpdateOutputSelected, progress, TypeOK, Calls
  <2> QED
    BY <2>1, <2>2
<1> QED
  BY <1>1, <1>2, <1>3, <1>4 DEF UpdateOutputSelected, TypeOK, Calls, counters, network

LEMMA InitTypes == Init => TypeOK
<1> SUFFICES ASSUME Init PROVE TypeOK
  OBVIOUS
<1>1. inputs \in [Sends -> Seq(Utxos)]
  BY SendAssumption DEF Init
<1>2. failed \in [Sends -> BOOLEAN] /\ calm \in BOOLEAN
  BY Zenon DEF Init
<1> QED
  BY <1>1, <1>2 DEF Init, TypeOK, Idle, Untils

LEMMA NextTypes == TypeOK /\ [Next]_vars => TypeOK'
<1> SUFFICES ASSUME TypeOK, [Next]_vars PROVE TypeOK'
  OBVIOUS
<1>1. ASSUME NEW s \in Sends, NEW limit \in Untils, Run(s, limit) PROVE TypeOK'
  BY <1>1, RunTypes
<1>2. ASSUME NEW s \in Sends, ReleaseUtxos(s) PROVE TypeOK'
  BY <1>2 DEF ReleaseUtxos, TypeOK, storage, progress, counters, network
<1>3. ASSUME NEW s \in Sends, Answers(s) PROVE TypeOK'
  <2>1. CASE PrepareTx(s)
    BY <2>1, PrepareTypes
  <2>2. CASE SignTx(s)
    BY <2>2, SignTypes
  <2>3. CASE UpdateOutputSelected(s)
    BY <2>3, SelectTypes
  <2>4. countTxMiningAttempts[s] \in Nat /\ {Idle, "polling", "submitting", "pushing"} \subseteq Calls
    BY DEF TypeOK, Calls
  <2>5. CASE JobSubmitted(s)
    BY <2>4, <2>5, WorkOnTypes DEF JobSubmitted
  <2>6. CASE JobDone(s)
    BY <2>4, <2>6, WorkOnTypes DEF JobDone
  <2>7. CASE JobTimeout(s)
    BY <2>4, <2>7, WorkOnTypes, RejectedTypes DEF JobTimeout, Rejected
  <2>8. CASE PushDone(s)
    BY <2>4, <2>8, WorkOnTypes DEF PushDone
  <2> QED
    BY <1>3, <2>1, <2>2, <2>3, <2>5, <2>6, <2>7, <2>8 DEF Answers
<1>4. ASSUME NEW s \in Sends, Fails(s) PROVE TypeOK'
  BY <1>4, RejectedTypes DEF Fails, PrepareOrSignFails, MiningFails, PushFails, Rejected
<1>5. ASSUME NEW s \in Sends, FullnodeAccepts(s) PROVE TypeOK'
  BY <1>5 DEF FullnodeAccepts, TypeOK, storage, progress, counters
<1>6. ASSUME NEW s \in Sends, OnNewTx(s) PROVE TypeOK'
  BY <1>6 DEF OnNewTx, TypeOK, progress, counters
<1>7. ASSUME NEW s \in Sends, UpdateOutputReleased(s) PROVE TypeOK'
  BY <1>7 DEF UpdateOutputReleased, TypeOK, progress, counters, network
<1>8. ASSUME NEW s \in Sends, NEW u \in Utxos, TimerFires(s, u) PROVE TypeOK'
  <2>1. timers \in [Sends -> [Utxos -> Nat]] /\ timers[s][u] - 1 \in Nat
    BY <1>8 DEF TimerFires, TypeOK
  <2>2. timers' \in [Sends -> [Utxos -> Nat]]
    BY <1>8, <2>1 DEF TimerFires
  <2> QED
    BY <1>8, <2>2 DEF TimerFires, TypeOK, progress, counters, network
<1>9. CASE UNCHANGED vars
  BY <1>9 DEF vars, TypeOK, storage, progress, counters, network
<1> QED
  BY <1>1, <1>2, <1>3, <1>4, <1>5, <1>6, <1>7, <1>8, <1>9 DEF Next

\* Every variable keeps its type.
THEOREM TypeCorrect == Spec => []TypeOK
  BY InitTypes, NextTypes, PTL DEF Spec

-----------------------------------------------------------------------------
(* Selections end *)

LEMMA InitTimers == Init => SelectionHasTimer
  BY DEF Init, SelectionHasTimer

\* A step that selects starts a timer, and a timer that fires ends the selection.
LEMMA NextTimers == TypeOK /\ SelectionHasTimer /\ [Next]_vars => SelectionHasTimer'
<1> SUFFICES ASSUME TypeOK, SelectionHasTimer, [Next]_vars PROVE SelectionHasTimer'
  OBVIOUS
<1>1. CASE UNCHANGED <<utxosSelectedAsInput, timers>>
  BY <1>1 DEF SelectionHasTimer
<1>2. ASSUME NEW s \in Sends, UpdateOutputSelected(s) PROVE SelectionHasTimer'
  <2> DEFINE u == inputs[s][index[s]]
  <2>1. SelectAsInput(s, u) /\ utxos \subseteq Utxos /\ timers \in [Sends -> [Utxos -> Nat]]
    BY <1>2 DEF UpdateOutputSelected, TypeOK
  <2>2. CASE u \in utxos
    <3>1. timers'[s][u] > 0
      BY <2>1, <2>2 DEF SelectAsInput
    <3>2. \A r \in Sends, x \in Utxos : timers[r][x] > 0 => timers'[r][x] > 0
      BY <2>1, <2>2 DEF SelectAsInput
    <3>3. utxosSelectedAsInput' = utxosSelectedAsInput \cup {u} /\ utxosSelectedAsInput \subseteq Utxos
      BY <2>1, <2>2 DEF SelectAsInput, TypeOK
    <3> QED
      BY <3>1, <3>2, <3>3 DEF SelectionHasTimer
  <2>3. CASE u \notin utxos
    BY <1>1, <2>1, <2>3 DEF SelectAsInput
  <2> QED
    BY <2>2, <2>3
<1>3. ASSUME NEW s \in Sends, UpdateOutputReleased(s) PROVE SelectionHasTimer'
  BY <1>3 DEF UpdateOutputReleased, SelectionHasTimer
<1>4. ASSUME NEW s \in Sends, NEW u \in Utxos, TimerFires(s, u) PROVE SelectionHasTimer'
  <2>1. \A r \in Sends, x \in Utxos \ {u} : timers'[r][x] = timers[r][x]
    BY <1>4 DEF TimerFires, TypeOK
  <2> QED
    BY <1>4, <2>1 DEF TimerFires, SelectionHasTimer, TypeOK
<1>5. ASSUME NEW s \in Sends,
             \/ \E limit \in Untils : Run(s, limit)
             \/ ReleaseUtxos(s) \/ PrepareTx(s) \/ SignTx(s)
             \/ JobSubmitted(s) \/ JobDone(s) \/ JobTimeout(s) \/ PushDone(s) \/ Fails(s)
             \/ FullnodeAccepts(s) \/ OnNewTx(s)
      PROVE  SelectionHasTimer'
  <2>1. UNCHANGED <<utxosSelectedAsInput, timers>>
    BY <1>5 DEF Run, ReleaseUtxos, PrepareTx, SignTx, JobSubmitted, JobDone, JobTimeout, PushDone,
                Fails, PrepareOrSignFails, MiningFails, PushFails, Rejected, RejectedAnd, WorkOn,
                FullnodeAccepts, OnNewTx, storage
  <2> QED
    BY <1>1, <2>1
<1>6. CASE UNCHANGED vars
  BY <1>1, <1>6 DEF vars, storage
<1> QED
  BY <1>2, <1>3, <1>4, <1>5, <1>6 DEF Next, Answers

\* Every selection has a timer that will end it, whatever became of its send.
THEOREM SelectionsHaveTimers == Spec => []SelectionHasTimer
<1>1. Init => TypeOK /\ SelectionHasTimer
  BY InitTypes, InitTimers
<1>2. TypeOK /\ SelectionHasTimer /\ [Next]_vars => (TypeOK /\ SelectionHasTimer)'
  BY NextTypes, NextTimers
<1> QED
  BY <1>1, <1>2, PTL DEF Spec

-----------------------------------------------------------------------------
(* Failures release *)

\* What each place of run() stands on.
Shape == \A s \in Sends :
    /\ call[s] # Idle => ~failed[s]
    /\ call[s] = "preparing" => currentStep[s] = "idle"
    /\ call[s] = "signing" => currentStep[s] = "prepared"
    /\ call[s] = "selecting" => minings[s] > 0
    /\ minings[s] > 0 => currentStep[s] = "signed"
    /\ currentStep[s] # "idle" => inputs[s] # <<>>
    /\ call[s] = "selecting" => index[s] <= Len(inputs[s])
    /\ call[s] # "selecting" => index[s] = 1

\* The release of a send that failed has still to come to what is selected, or another
\* send selected it.
ToBeReleased(s, u) ==
    \/ \E i \in releases[s] : \E j \in DOMAIN inputs[s] : i <= j /\ inputs[s][j] = u
    \/ \E r \in Sends \ {s} : u \in InputsOf(r) /\ minings[r] > 0
Releasing ==
    \A s \in Sends : failed[s] /\ minings[s] > 0 =>
        \A u \in InputsOf(s) \cap utxosSelectedAsInput : ToBeReleased(s, u)

LEMMA InitShape == Init => Shape
  BY DEF Init, Shape, Idle

LEMMA FollowShape ==
  ASSUME TypeOK, Shape, NEW s \in Sends, NEW step \in Steps, NEW limit \in Untils,
         Follow(s, step, limit)
  PROVE  /\ \A r \in Sends \ {s} : call'[r] = call[r] /\ minings'[r] = minings[r]
         /\ call'[s] \in {Idle, "preparing", "signing", "selecting"}
         /\ call'[s] = "preparing" => step = "idle"
         /\ call'[s] = "signing" => step = "prepared"
         /\ call'[s] = "selecting" => step = "signed" /\ minings'[s] = minings[s] + 1
         /\ call'[s] # "selecting" => minings'[s] = minings[s]
<1>1. call'[s] = Following(step, limit)
  BY DEF Follow, TypeOK
<1>2. minings \in [Sends -> Nat]
  BY DEF TypeOK
<1>3. minings' = [minings EXCEPT ![s] = IF call'[s] = "selecting" THEN @ + 1 ELSE @]
  BY <1>1 DEF Follow
<1>4. \A r \in Sends \ {s} : call'[r] = call[r]
  BY DEF Follow, TypeOK
<1> QED
  BY <1>1, <1>2, <1>3, <1>4, FollowingType

LEMMA RunShape ==
  ASSUME TypeOK, Shape, NEW s \in Sends, NEW limit \in Untils, Run(s, limit)
  PROVE  Shape'
<1>1. Follow(s, currentStep[s], limit) /\ currentStep[s] \in Steps /\ call[s] = Idle
  BY DEF Run, TypeOK, Steps
<1>2. UNCHANGED <<currentStep, inputs, index>> /\ \A r \in Sends : failed'[r] => failed[r]
  BY DEF Run, TypeOK
<1>3. ~failed'[s] /\ index[s] = 1 /\ inputs[s] \in Seq(Utxos)
  BY <1>1 DEF Run, TypeOK, Shape, Idle
<1>4. inputs[s] # <<>> => 1 <= Len(inputs[s])
  BY <1>3
<1>5. minings[s] \in Nat
  BY DEF TypeOK
<1> SUFFICES ASSUME NEW r \in Sends PROVE Shape!(r)'
  BY DEF Shape
<1>6. CASE r # s
  BY <1>1, <1>2, <1>6, FollowShape DEF Shape
<1>7. CASE r = s
  BY <1>1, <1>2, <1>3, <1>4, <1>5, <1>7, FollowShape DEF Shape, Idle
<1> QED
  BY <1>6, <1>7

LEMMA PrepareShape ==
  ASSUME TypeOK, Shape, NEW s \in Sends, PrepareTx(s)
  PROVE  Shape'
<1>1. Follow(s, "prepared", until[s]) /\ until[s] \in Untils /\ "prepared" \in Steps
  BY DEF PrepareTx, TypeOK, Steps
<1>2. PICK chosen \in InputChoices(s) : inputs' = [inputs EXCEPT ![s] = chosen]
  BY DEF PrepareTx
<1>3. inputs'[s] # <<>> /\ \A r \in Sends \ {s} : inputs'[r] = inputs[r]
  BY <1>2, ChoiceType DEF TypeOK
<1>4. currentStep'[s] = "prepared" /\ \A r \in Sends \ {s} : currentStep'[r] = currentStep[r]
  BY DEF PrepareTx, TypeOK
<1>5. UNCHANGED <<index, failed>> /\ call[s] = "preparing"
  BY DEF PrepareTx
<1> SUFFICES ASSUME NEW r \in Sends PROVE Shape!(r)'
  BY DEF Shape
<1>6. CASE r # s
  BY <1>1, <1>3, <1>4, <1>5, <1>6, FollowShape DEF Shape
<1>7. CASE r = s
  <2>1. currentStep[s] = "idle" /\ ~(minings[s] > 0) /\ ~failed[s] /\ index[s] = 1
    BY <1>5 DEF Shape, Idle
  <2>2. call'[s] \in {Idle, "signing"} /\ minings'[s] = minings[s]
    BY <1>1, FollowShape
  <2> QED
    BY <1>3, <1>4, <1>5, <1>7, <2>1, <2>2 DEF Shape, Idle
<1> QED
  BY <1>6, <1>7

LEMMA SignShape ==
  ASSUME TypeOK, Shape, NEW s \in Sends, SignTx(s)
  PROVE  Shape'
<1>1. Follow(s, "signed", until[s]) /\ until[s] \in Untils /\ "signed" \in Steps
  BY DEF SignTx, TypeOK, Steps
<1>2. currentStep'[s] = "signed" /\ \A r \in Sends \ {s} : currentStep'[r] = currentStep[r]
  BY DEF SignTx, TypeOK
<1>3. UNCHANGED <<inputs, index, failed>> /\ call[s] = "signing"
  BY DEF SignTx
<1> SUFFICES ASSUME NEW r \in Sends PROVE Shape!(r)'
  BY DEF Shape
<1>4. CASE r # s
  BY <1>1, <1>2, <1>3, <1>4, FollowShape DEF Shape
<1>5. CASE r = s
  <2>1. inputs[s] # <<>> /\ ~failed[s] /\ index[s] = 1 /\ inputs[s] \in Seq(Utxos)
    BY <1>3 DEF Shape, Idle, TypeOK
  <2>2. call'[s] \in {Idle, "selecting"} /\ minings[s] \in Nat
    BY <1>1, FollowShape DEF TypeOK
  <2>3. 1 <= Len(inputs[s])
    BY <2>1
  <2>4. call'[s] = "selecting" => minings'[s] = minings[s] + 1
    BY <1>1, FollowShape
  <2> QED
    BY <1>2, <1>3, <1>5, <2>1, <2>2, <2>3, <2>4 DEF Shape, Idle
<1> QED
  BY <1>4, <1>5

\* A call that goes on from one place to another, after the selection.
LEMMA PlaceShape ==
  ASSUME TypeOK, Shape, NEW s \in Sends, NEW place \in {Idle, "submitting", "polling", "pushing"},
         call' = [call EXCEPT ![s] = place],
         place = Idle \/ ~failed'[s], \A r \in Sends \ {s} : failed'[r] = failed[r],
         UNCHANGED <<currentStep, inputs, minings>>,
         index'[s] = 1, \A r \in Sends \ {s} : index'[r] = index[r]
  PROVE  Shape'
<1>1. call'[s] = place /\ \A r \in Sends \ {s} : call'[r] = call[r]
  BY DEF TypeOK
<1> SUFFICES ASSUME NEW r \in Sends PROVE Shape!(r)'
  BY DEF Shape
<1>2. CASE r # s
  BY <1>1, <1>2 DEF Shape
<1>3. CASE r = s
  BY <1>1, <1>3 DEF Shape, Idle
<1> QED
  BY <1>2, <1>3

LEMMA WorkShape ==
  ASSUME TypeOK, Shape, NEW s \in Sends, NEW place \in {Idle, "submitting", "polling", "pushing"},
         NEW n, WorkOn(s, place, n), call[s] \in {"submitting", "polling", "pushing"}
  PROVE  Shape'
<1>1. index[s] = 1 /\ ~failed[s]
  BY DEF Shape, Idle
<1>2. call' = [call EXCEPT ![s] = place] /\ UNCHANGED <<currentStep, inputs, minings, index, failed>>
  BY DEF WorkOn, GoTo, counters
<1> QED
  BY <1>1, <1>2, PlaceShape

LEMMA RejectedShape ==
  ASSUME TypeOK, Shape, NEW s \in Sends, NEW starts, RejectedAnd(s, starts),
         call[s] \in {"preparing", "signing", "submitting", "polling", "pushing"}
  PROVE  Shape'
<1>1. index[s] = 1
  BY DEF Shape
<1>2. call' = [call EXCEPT ![s] = Idle] /\ UNCHANGED <<currentStep, inputs, minings, index>>
  BY DEF RejectedAnd, GoTo, counters
<1>3. \A r \in Sends \ {s} : failed'[r] = failed[r]
  BY DEF RejectedAnd, TypeOK
<1> QED
  BY <1>1, <1>2, <1>3, PlaceShape

LEMMA SelectShape ==
  ASSUME TypeOK, Shape, NEW s \in Sends, UpdateOutputSelected(s)
  PROVE  Shape'
<1>1. call[s] = "selecting" /\ ~failed[s] /\ index[s] <= Len(inputs[s]) /\ index[s] \in Nat
  BY DEF UpdateOutputSelected, Shape, Idle, TypeOK
<1>2. UNCHANGED <<currentStep, inputs, minings, failed>>
  BY DEF UpdateOutputSelected, counters
<1>3. Len(inputs[s]) \in Nat
  BY DEF TypeOK
<1>4. CASE index[s] = Len(inputs[s])
  <2>1. call' = [call EXCEPT ![s] = "submitting"] /\ index' = [index EXCEPT ![s] = 1]
    BY <1>4 DEF UpdateOutputSelected, GoTo
  <2>2. index'[s] = 1 /\ \A r \in Sends \ {s} : index'[r] = index[r]
    BY <2>1 DEF TypeOK
  <2> QED
    BY <1>1, <1>2, <2>1, <2>2, PlaceShape
<1>5. CASE index[s] # Len(inputs[s])
  <2>1. UNCHANGED call /\ index' = [index EXCEPT ![s] = @ + 1]
    BY <1>5 DEF UpdateOutputSelected, progress
  <2>2. index'[s] = index[s] + 1 /\ \A r \in Sends \ {s} : index'[r] = index[r]
    BY <2>1 DEF TypeOK
  <2>3. index'[s] <= Len(inputs'[s])
    BY <1>1, <1>2, <1>3, <1>5, <2>2
  <2> SUFFICES ASSUME NEW r \in Sends PROVE Shape!(r)'
    BY DEF Shape
  <2>4. CASE r # s
    BY <1>2, <2>1, <2>2, <2>4 DEF Shape
  <2>5. CASE r = s
    BY <1>1, <1>2, <2>1, <2>3, <2>5 DEF Shape
  <2> QED
    BY <2>4, <2>5
<1> QED
  BY <1>4, <1>5

LEMMA NextShape == TypeOK /\ Shape /\ [Next]_vars => Shape'
<1> SUFFICES ASSUME TypeOK, Shape, [Next]_vars PROVE Shape'
  OBVIOUS
<1>1. ASSUME NEW s \in Sends, NEW limit \in Untils, Run(s, limit) PROVE Shape'
  BY <1>1, RunShape
<1>2. ASSUME NEW s \in Sends, Answers(s) PROVE Shape'
  <2>1. CASE PrepareTx(s)
    BY <2>1, PrepareShape
  <2>2. CASE SignTx(s)
    BY <2>2, SignShape
  <2>3. CASE UpdateOutputSelected(s)
    BY <2>3, SelectShape
  <2>4. CASE JobSubmitted(s) \/ JobDone(s) \/ PushDone(s)
    BY <2>4, WorkShape DEF JobSubmitted, JobDone, PushDone
  <2>5. CASE JobTimeout(s)
    BY <2>5, WorkShape, RejectedShape DEF JobTimeout, Rejected
  <2> QED
    BY <1>2, <2>1, <2>2, <2>3, <2>4, <2>5 DEF Answers
<1>3. ASSUME NEW s \in Sends, Fails(s) PROVE Shape'
  BY <1>3, RejectedShape DEF Fails, PrepareOrSignFails, MiningFails, PushFails, Rejected
<1>4. CASE UNCHANGED <<currentStep, progress, inputs, index, counters, failed>>
  BY <1>4 DEF Shape, progress, counters
<1>5. ASSUME NEW s \in Sends,
             \/ ReleaseUtxos(s) \/ FullnodeAccepts(s) \/ OnNewTx(s) \/ UpdateOutputReleased(s)
             \/ \E u \in Utxos : TimerFires(s, u)
      PROVE  Shape'
  BY <1>4, <1>5 DEF ReleaseUtxos, FullnodeAccepts, OnNewTx, UpdateOutputReleased, TimerFires
<1>6. CASE UNCHANGED vars
  BY <1>4, <1>6 DEF vars
<1> QED
  BY <1>1, <1>2, <1>3, <1>5, <1>6 DEF Next

LEMMA InitReleasing == Init => Releasing
  BY DEF Init, Releasing

\* A step that selects nothing, and at most adds to the releases, to the sends that were
\* mined and to the ones that run.
LEMMA MonotoneReleasing ==
  ASSUME Releasing, UNCHANGED inputs, utxosSelectedAsInput' \subseteq utxosSelectedAsInput,
         \A s \in Sends : /\ failed'[s] /\ minings'[s] > 0 => failed[s] /\ minings[s] > 0
                          /\ minings[s] > 0 => minings'[s] > 0
                          /\ releases[s] \subseteq releases'[s]
  PROVE  Releasing'
<1> SUFFICES ASSUME NEW s \in Sends, failed'[s] /\ minings'[s] > 0,
                    NEW u \in InputsOf(s)', u \in utxosSelectedAsInput'
             PROVE  ToBeReleased(s, u)'
  BY DEF Releasing
<1>1. ToBeReleased(s, u)
  BY DEF Releasing, InputsOf
<1> QED
  BY <1>1 DEF ToBeReleased, InputsOf

LEMMA RunReleasing ==
  ASSUME TypeOK, Shape, Releasing, NEW s \in Sends, NEW limit \in Untils, Run(s, limit)
  PROVE  Releasing'
<1>1. Follow(s, currentStep[s], limit) /\ currentStep[s] \in Steps
  BY DEF Run, TypeOK, Steps
<1>2. ~failed'[s] /\ \A r \in Sends \ {s} : failed'[r] = failed[r]
  BY DEF Run, TypeOK
<1>3. minings[s] \in Nat
  BY DEF TypeOK
<1>4. minings'[s] \in {minings[s], minings[s] + 1}
      /\ \A r \in Sends \ {s} : minings'[r] = minings[r]
  BY <1>1, FollowShape
<1>5. UNCHANGED <<inputs, utxosSelectedAsInput, releases>>
  BY DEF Run, storage
<1> QED
  BY <1>2, <1>3, <1>4, <1>5, MonotoneReleasing

\* The send that chooses was never mined, so nobody's inputs count on it.
LEMMA PrepareReleasing ==
  ASSUME TypeOK, Shape, Releasing, NEW s \in Sends, PrepareTx(s)
  PROVE  Releasing'
<1>1. Follow(s, "prepared", until[s]) /\ until[s] \in Untils /\ "prepared" \in Steps
  BY DEF PrepareTx, TypeOK, Steps
<1>2. ~failed[s] /\ ~(minings[s] > 0)
  BY DEF PrepareTx, Shape, Idle
<1>3. call'[s] # "selecting" /\ \A r \in Sends : minings'[r] = minings[r]
  BY <1>1, FollowShape
<1>4. UNCHANGED <<failed, utxosSelectedAsInput, releases>>
  BY DEF PrepareTx, storage
<1>5. \A r \in Sends \ {s} : inputs'[r] = inputs[r]
  BY DEF PrepareTx, TypeOK
<1> SUFFICES ASSUME NEW r \in Sends, failed[r], minings[r] > 0,
                    NEW u \in InputsOf(r)', u \in utxosSelectedAsInput
             PROVE  ToBeReleased(r, u)'
  BY <1>3, <1>4 DEF Releasing
<1>6. r # s /\ inputs'[r] = inputs[r]
  BY <1>2, <1>5
<1>7. ToBeReleased(r, u)
  BY <1>6 DEF Releasing, InputsOf
<1> QED
  BY <1>2, <1>3, <1>4, <1>5, <1>6, <1>7 DEF ToBeReleased, InputsOf

LEMMA SignReleasing ==
  ASSUME TypeOK, Shape, Releasing, NEW s \in Sends, SignTx(s)
  PROVE  Releasing'
<1>1. Follow(s, "signed", until[s]) /\ until[s] \in Untils /\ "signed" \in Steps
  BY DEF SignTx, TypeOK, Steps
<1>2. ~failed[s] /\ minings[s] \in Nat
  BY DEF SignTx, Shape, Idle, TypeOK
<1>3. minings'[s] \in {minings[s], minings[s] + 1}
      /\ \A r \in Sends \ {s} : minings'[r] = minings[r]
  BY <1>1, FollowShape
<1>4. UNCHANGED <<inputs, failed, utxosSelectedAsInput, releases>>
  BY DEF SignTx, storage
<1> QED
  BY <1>2, <1>3, <1>4, MonotoneReleasing

\* What is selected now is an input of a send that is being mined and has not failed.
LEMMA SelectReleasing ==
  ASSUME TypeOK, Shape, Releasing, NEW s \in Sends, UpdateOutputSelected(s)
  PROVE  Releasing'
<1> DEFINE x == inputs[s][index[s]]
<1>1. ~failed[s] /\ minings[s] > 0 /\ index[s] \in 1..Len(inputs[s])
  BY DEF UpdateOutputSelected, Shape, Idle, TypeOK
<1>2. x \in InputsOf(s)
  BY <1>1 DEF InputsOf, ToSet, TypeOK
<1>3. utxosSelectedAsInput' \subseteq utxosSelectedAsInput \cup {x}
  BY DEF UpdateOutputSelected, SelectAsInput
<1>4. UNCHANGED <<inputs, failed, releases, minings>>
  BY DEF UpdateOutputSelected, counters
<1> HIDE DEF x
<1> SUFFICES ASSUME NEW r \in Sends, failed[r], minings[r] > 0,
                    NEW u \in InputsOf(r), u \in utxosSelectedAsInput'
             PROVE  ToBeReleased(r, u)
  BY <1>4 DEF Releasing, ToBeReleased, InputsOf
<1>5. CASE u = x
  BY <1>1, <1>2, <1>5 DEF ToBeReleased
<1>6. CASE u # x
  BY <1>3, <1>6 DEF Releasing
<1> QED
  BY <1>5, <1>6

LEMMA RejectedReleasing ==
  ASSUME TypeOK, Releasing, NEW s \in Sends, NEW starts \in SUBSET {1}, RejectedAnd(s, starts),
         starts = {1} \/ ~(minings[s] > 0)
  PROVE  Releasing'
<1>1. UNCHANGED <<inputs, utxosSelectedAsInput, minings>>
  BY DEF RejectedAnd, storage, counters
<1>2. /\ \A r \in Sends \ {s} : failed'[r] = failed[r] /\ releases'[r] = releases[r]
      /\ releases'[s] = releases[s] \cup starts
  BY DEF RejectedAnd, TypeOK
<1> SUFFICES ASSUME NEW r \in Sends, failed'[r], minings[r] > 0,
                    NEW u \in InputsOf(r), u \in utxosSelectedAsInput
             PROVE  ToBeReleased(r, u)'
  BY <1>1 DEF Releasing, InputsOf
<1>3. CASE r # s
  <2>1. ToBeReleased(r, u)
    BY <1>2, <1>3 DEF Releasing
  <2> QED
    BY <1>1, <1>2, <1>3, <2>1 DEF ToBeReleased, InputsOf
<1>4. CASE r = s
  <2>1. 1 \in releases'[r]
    BY <1>2, <1>4
  <2>2. inputs[r] \in Seq(Utxos)
    BY DEF TypeOK
  <2>3. PICK j \in DOMAIN inputs[r] : inputs[r][j] = u
    BY <2>2 DEF InputsOf, ToSet
  <2>4. 1 <= j
    BY <2>2, <2>3
  <2> QED
    BY <1>1, <2>1, <2>3, <2>4 DEF ToBeReleased
<1> QED
  BY <1>3, <1>4

\* The release that comes to an input leaves the ones behind it to its next round.
LEMMA ReleaseReleasing ==
  ASSUME TypeOK, Releasing, NEW s \in Sends, UpdateOutputReleased(s)
  PROVE  Releasing'
<1>1. PICK i \in releases[s] :
        /\ utxosSelectedAsInput' = utxosSelectedAsInput \ {inputs[s][i]}
        /\ releases' = [releases EXCEPT ![s] =
                            (@ \ {i}) \cup (IF i < Len(inputs[s]) THEN {i + 1} ELSE {})]
  BY DEF UpdateOutputReleased
<1>2. /\ releases'[s] = (releases[s] \ {i}) \cup (IF i < Len(inputs[s]) THEN {i + 1} ELSE {})
      /\ \A r \in Sends \ {s} : releases'[r] = releases[r]
  BY <1>1 DEF TypeOK
<1>3. UNCHANGED <<inputs, failed, minings>>
  BY DEF UpdateOutputReleased, counters
<1> SUFFICES ASSUME NEW r \in Sends, failed[r], minings[r] > 0,
                    NEW u \in InputsOf(r), u \in utxosSelectedAsInput'
             PROVE  ToBeReleased(r, u)'
  BY <1>3 DEF Releasing, InputsOf
<1>4. ToBeReleased(r, u)
  BY <1>1 DEF Releasing
<1>5. CASE r # s
  BY <1>2, <1>3, <1>4, <1>5 DEF ToBeReleased, InputsOf
<1>6. CASE r = s
  <2>1. CASE \E q \in Sends \ {s} : u \in InputsOf(q) /\ minings[q] > 0
    BY <1>3, <1>6, <2>1 DEF ToBeReleased, InputsOf
  <2>2. CASE \E k \in releases[s] : \E j \in DOMAIN inputs[s] : k <= j /\ inputs[s][j] = u
    <3>1. PICK k \in releases[s], j \in DOMAIN inputs[s] : k <= j /\ inputs[s][j] = u
      BY <2>2
    <3>2. j # i
      BY <1>1, <3>1
    <3>3. inputs[s] \in Seq(Utxos) /\ k \in Nat /\ i \in Nat
      BY <1>1 DEF TypeOK
    <3>4. j \in Nat /\ j <= Len(inputs[s])
      BY <3>1, <3>3
    <3>5. CASE k # i
      <4>1. k \in releases'[s]
        BY <1>2, <3>1, <3>5
      <4> QED
        BY <1>3, <1>6, <3>1, <4>1 DEF ToBeReleased
    <3>6. CASE k = i
      <4>1. i < Len(inputs[s]) /\ i + 1 <= j
        BY <3>1, <3>2, <3>3, <3>4, <3>6
      <4>2. i + 1 \in releases'[s]
        BY <1>2, <4>1
      <4> QED
        BY <1>3, <1>6, <3>1, <4>1, <4>2 DEF ToBeReleased
    <3> QED
      BY <3>5, <3>6
  <2> QED
    BY <1>4, <1>6, <2>1, <2>2 DEF ToBeReleased
<1> QED
  BY <1>5, <1>6

LEMMA NextReleasing == TypeOK /\ Shape /\ Releasing /\ [Next]_vars => Releasing'
<1> SUFFICES ASSUME TypeOK, Shape, Releasing, [Next]_vars PROVE Releasing'
  OBVIOUS
<1>1. ASSUME NEW s \in Sends, NEW limit \in Untils, Run(s, limit) PROVE Releasing'
  BY <1>1, RunReleasing
<1>2. CASE /\ UNCHANGED <<inputs, failed, releases, minings>>
           /\ utxosSelectedAsInput' \subseteq utxosSelectedAsInput
  BY <1>2, MonotoneReleasing
<1>3. ASSUME NEW s \in Sends, ReleaseUtxos(s) PROVE Releasing'
  <2>1. \A r \in Sends : releases[r] \subseteq releases'[r]
    BY <1>3 DEF ReleaseUtxos, TypeOK
  <2> QED
    BY <1>3, <2>1, MonotoneReleasing DEF ReleaseUtxos, storage, counters
<1>4. ASSUME NEW s \in Sends, Answers(s) PROVE Releasing'
  <2>1. CASE PrepareTx(s)
    BY <2>1, PrepareReleasing
  <2>2. CASE SignTx(s)
    BY <2>2, SignReleasing
  <2>3. CASE UpdateOutputSelected(s)
    BY <2>3, SelectReleasing
  <2>4. ASSUME NEW place, NEW n, WorkOn(s, place, n) PROVE Releasing'
    BY <1>2, <2>4 DEF WorkOn, storage, counters
  <2>5. CASE JobTimeout(s)
    BY <2>4, <2>5, RejectedReleasing DEF JobTimeout, Rejected
  <2> QED
    BY <1>4, <2>1, <2>2, <2>3, <2>4, <2>5 DEF Answers, JobSubmitted, JobDone, PushDone
<1>5. ASSUME NEW s \in Sends, Fails(s) PROVE Releasing'
  <2>1. CASE PrepareOrSignFails(s)
    <3>1. ~(minings[s] > 0)
      BY <2>1 DEF PrepareOrSignFails, Shape
    <3> QED
      BY <2>1, <3>1, RejectedReleasing DEF PrepareOrSignFails
  <2>2. CASE MiningFails(s) \/ PushFails(s)
    BY <2>2, RejectedReleasing DEF MiningFails, PushFails, Rejected
  <2> QED
    BY <1>5, <2>1, <2>2 DEF Fails
<1>6. ASSUME NEW s \in Sends,
             FullnodeAccepts(s) \/ OnNewTx(s) \/ \E u \in Utxos : TimerFires(s, u)
      PROVE  Releasing'
  BY <1>2, <1>6 DEF FullnodeAccepts, OnNewTx, TimerFires, storage, counters
<1>7. ASSUME NEW s \in Sends, UpdateOutputReleased(s) PROVE Releasing'
  BY <1>7, ReleaseReleasing
<1>8. CASE UNCHANGED vars
  BY <1>2, <1>8 DEF vars, storage, counters
<1> QED
  BY <1>1, <1>3, <1>4, <1>5, <1>6, <1>7, <1>8 DEF Next

\* A send that failed leaves none of its inputs selected once its release has ended, but
\* for those another send selects: whatever failed, and however the calls, the releases
\* and the timers of all the sends interleave.
THEOREM FailuresRelease == Spec => []FailureReleases
<1>1. Init => TypeOK /\ Shape /\ Releasing
  BY InitTypes, InitShape, InitReleasing
<1>2. TypeOK /\ Shape /\ Releasing /\ [Next]_vars => (TypeOK /\ Shape /\ Releasing)'
  BY NextTypes, NextShape, NextReleasing
<1>3. Releasing => FailureReleases
  BY DEF Releasing, ToBeReleased, FailureReleases
<1> QED
  BY <1>1, <1>2, <1>3, PTL DEF Spec

-----------------------------------------------------------------------------
(* The inputs of calm sends are their own *)

Owns(s) == IsOpen(s) \/ Holds(s)

\* What the release of the send has still to come to.
Pending(s) == {u \in InputsOf(s) :
                \E i \in releases[s] : \E j \in DOMAIN inputs[s] : i <= j /\ inputs[s][j] = u}

\* Each send by itself: what it holds is selected or known to be spent.
Clean(s) ==
    /\ IsInjective(inputs[s])
    /\ releases[s] \subseteq DOMAIN inputs[s]
    /\ \A i, j \in releases[s] : i = j
    /\ releases[s] # {} => call[s] = Idle /\ ~Sent(s)
    /\ Holds(s) => InputsOf(s) \cap utxos \subseteq utxosSelectedAsInput
    /\ call[s] = "selecting" => \A i \in DOMAIN inputs[s] :
            i < index[s] /\ inputs[s][i] \in utxos => inputs[s][i] \in utxosSelectedAsInput
    /\ s \in learned => s \in accepted /\ InputsOf(s) \cap utxos = {}
    /\ s \in accepted \/ IsMining(s) \/ call[s] = "selecting" => currentStep[s] = "signed"

\* Two sends: one chooses at a time, they have no input in common, and the release of one
\* comes to nothing of the other, nor to what the other may still choose.
Apart(s, r) ==
    /\ ~(IsOpen(s) /\ IsOpen(r))
    /\ Owns(s) /\ Owns(r) => InputsOf(s) \cap InputsOf(r) = {}
    /\ Owns(s) => InputsOf(s) \cap Pending(r) = {}
    /\ Pending(s) \cap Pending(r) = {}
    /\ IsOpen(r) => Pending(s) \cap utxos \subseteq utxosSelectedAsInput

CalmInv ==
    /\ \A s \in Sends : Clean(s)
    /\ \A s, r \in Sends : s # r => Apart(s, r)

\* What a step of another send leaves of this one.
Same(r) ==
    /\ call'[r] = call[r] /\ currentStep'[r] = currentStep[r] /\ minings'[r] = minings[r]
    /\ failed'[r] = failed[r] /\ index'[r] = index[r] /\ releases'[r] = releases[r]
    /\ inputs'[r] = inputs[r]
    /\ (r \in accepted' <=> r \in accepted) /\ (r \in learned' <=> r \in learned)

LEMMA SameSend ==
  ASSUME NEW r \in Sends, Same(r)
  PROVE  /\ IsOpen(r)' <=> IsOpen(r)
         /\ Holds(r)' <=> Holds(r)
         /\ Owns(r)' <=> Owns(r)
         /\ IsMining(r)' <=> IsMining(r)
         /\ Sent(r)' <=> Sent(r)
         /\ InputsOf(r)' = InputsOf(r) /\ Pending(r)' = Pending(r)
<1>1. (IsMining(r)' <=> IsMining(r)) /\ (Sent(r)' <=> Sent(r)) /\ (IsOpen(r)' <=> IsOpen(r))
  BY DEF Same, IsMining, Sent, IsOpen
<1>2. InputsOf(r)' = InputsOf(r)
  BY DEF Same, InputsOf
<1>3. Pending(r)' = Pending(r)
  BY <1>2 DEF Same, Pending
<1> QED
  BY <1>1, <1>2, <1>3 DEF Holds, Owns

LEMMA NothingPending ==
  ASSUME NEW r \in Sends, releases[r] = {}
  PROVE  Pending(r) = {}
  BY DEF Pending

\* A step of one send that takes no input, and may start its release.
LEMMA Narrows ==
  ASSUME TypeOK, CalmInv, NEW s \in Sends,
         UNCHANGED <<utxos, utxosSelectedAsInput, accepted, learned>>,
         \A r \in Sends \ {s} : Same(r),
         inputs'[s] = inputs[s],
         IsOpen(s)' => IsOpen(s), Owns(s)' => Owns(s), Holds(s)' => Holds(s),
         call'[s] = "selecting" => index'[s] = 1,
         s \in accepted \/ IsMining(s)' \/ call'[s] = "selecting" => currentStep'[s] = "signed",
         \/ releases'[s] = {}
         \/ /\ releases'[s] = {1} /\ inputs[s] # <<>> /\ call'[s] = Idle /\ ~Sent(s)'
            /\ \A r \in Sends \ {s} :
                /\ Owns(r) => InputsOf(s) \cap InputsOf(r) = {}
                /\ InputsOf(s) \cap Pending(r) = {}
                /\ IsOpen(r) => InputsOf(s) \cap utxos \subseteq utxosSelectedAsInput
  PROVE  CalmInv'
<1>1. InputsOf(s)' = InputsOf(s)
  BY DEF InputsOf
<1>2. Pending(s)' = {} \/ (releases'[s] # {} /\ Pending(s)' \subseteq InputsOf(s))
  BY <1>1 DEF Pending
<1>3. inputs[s] \in Seq(Utxos) /\ (inputs[s] # <<>> => 1 \in DOMAIN inputs[s])
  BY DEF TypeOK
<1>4. ASSUME NEW r \in Sends PROVE Clean(r)'
  <2>1. CASE r # s
    <3>1. Clean(r) /\ Same(r)
      BY <2>1 DEF CalmInv
    <3> QED
      BY <3>1, SameSend DEF Clean, Same
  <2>2. CASE r = s
    <3>1. IsInjective(inputs'[s])
      BY DEF CalmInv, Clean
    <3>2. releases'[s] \subseteq DOMAIN inputs'[s] /\ \A i, j \in releases'[s] : i = j
      BY <1>3
    <3>3. call'[s] = "selecting" => \A i \in DOMAIN inputs'[s] : ~(i < index'[s])
      BY <1>3
    <3>4. \A k : k \in DOMAIN inputs'[s] => k \in DOMAIN inputs[s]
      OBVIOUS
    <3>5. Clean(s)
      BY DEF CalmInv
    <3> QED
      BY <1>1, <2>2, <3>1, <3>2, <3>3, <3>5 DEF Clean
  <2> QED
    BY <2>1, <2>2
<1>5. ASSUME NEW a \in Sends, NEW b \in Sends, a # b PROVE Apart(a, b)'
  <2>1. Apart(a, b) /\ Apart(b, a)
    BY <1>5 DEF CalmInv
  <2>2. CASE a # s /\ b # s
    BY <2>1, <2>2, SameSend DEF Apart
  <2>3. CASE a = s
    <3>1. /\ IsOpen(b)' <=> IsOpen(b)
          /\ Owns(b)' <=> Owns(b)
          /\ InputsOf(b)' = InputsOf(b) /\ Pending(b)' = Pending(b)
      BY <1>5, <2>3, SameSend
    <3> QED
      BY <1>1, <1>2, <1>5, <2>1, <2>3, <3>1 DEF Apart
  <2>4. CASE b = s
    <3>1. /\ IsOpen(a)' <=> IsOpen(a)
          /\ Owns(a)' <=> Owns(a)
          /\ InputsOf(a)' = InputsOf(a) /\ Pending(a)' = Pending(a)
      BY <1>5, <2>4, SameSend
    <3> QED
      BY <1>1, <1>2, <1>5, <2>1, <2>4, <3>1 DEF Apart
  <2> QED
    BY <2>2, <2>3, <2>4
<1> QED
  BY <1>4, <1>5 DEF CalmInv

LEMMA WorkCalm ==
  ASSUME TypeOK, Shape, CalmInv, NEW s \in Sends,
         NEW place \in {Idle, "submitting", "polling", "pushing"}, NEW n, WorkOn(s, place, n),
         IsMining(s)
  PROVE  CalmInv'
<1>1. /\ UNCHANGED <<utxos, utxosSelectedAsInput, accepted, learned, inputs, currentStep, minings,
                     failed, index, releases>>
      /\ call' = [call EXCEPT ![s] = place]
  BY DEF WorkOn, GoTo, storage, counters, network
<1>2. call'[s] = place /\ \A r \in Sends \ {s} : call'[r] = call[r]
  BY <1>1 DEF TypeOK
<1>3. \A r \in Sends \ {s} : Same(r)
  BY <1>1, <1>2 DEF Same
<1>4. Holds(s) /\ Owns(s) /\ currentStep[s] = "signed" /\ call[s] # Idle
  BY DEF Holds, Owns, CalmInv, Clean, IsMining, Idle
<1>5. IsOpen(s)' => IsOpen(s)
  BY <1>1, <1>2 DEF IsOpen, Idle
<1>6. releases[s] = {}
  BY <1>4 DEF CalmInv, Clean
<1>7. call'[s] # "selecting"
  BY <1>2 DEF Idle
<1> QED
  BY <1>1, <1>3, <1>4, <1>5, <1>6, <1>7, Narrows

\* A send that is mining is rejected: it starts the release of what it holds.
LEMMA RejectedCalm ==
  ASSUME TypeOK, Shape, CalmInv, NEW s \in Sends, NEW starts \in SUBSET {1},
         RejectedAnd(s, starts), IsMining(s) \/ starts = {}, call[s] # Idle
  PROVE  CalmInv'
<1>1. /\ UNCHANGED <<utxos, utxosSelectedAsInput, accepted, learned, inputs, currentStep, minings,
                     index>>
      /\ call' = [call EXCEPT ![s] = Idle] /\ failed' = [failed EXCEPT ![s] = TRUE]
      /\ releases' = [releases EXCEPT ![s] = releases[s] \cup starts]
  BY DEF RejectedAnd, GoTo, storage, counters, network
<1>2. /\ call'[s] = Idle /\ failed'[s] = TRUE /\ releases'[s] = releases[s] \cup starts
      /\ \A r \in Sends \ {s} : /\ call'[r] = call[r] /\ failed'[r] = failed[r]
                                /\ releases'[r] = releases[r]
  BY <1>1 DEF TypeOK
<1>3. \A r \in Sends \ {s} : Same(r)
  BY <1>1, <1>2 DEF Same
<1>4. ~Sent(s)' /\ ~IsMining(s)' /\ ~Holds(s)' /\ (IsOpen(s)' => IsOpen(s))
  BY <1>1, <1>2 DEF Sent, IsMining, Holds, IsOpen, Idle
<1>5. releases[s] = {} /\ Clean(s)
  BY DEF CalmInv, Clean
<1>6. releases'[s] = {} \/ (releases'[s] = {1} /\ IsMining(s))
  BY <1>2, <1>5
<1>7. IsMining(s) => /\ inputs[s] # <<>> /\ Owns(s)
                     /\ InputsOf(s) \cap utxos \subseteq utxosSelectedAsInput
  BY <1>5 DEF Clean, Holds, Owns, Shape
<1>8. \A r \in Sends \ {s} : Apart(s, r)
  BY DEF CalmInv
<1>9. s \in accepted => currentStep'[s] = "signed"
  BY <1>1, <1>5 DEF Clean
<1>10. call'[s] # "selecting" /\ (Owns(s)' => Owns(s))
  BY <1>2, <1>4 DEF Owns, Idle
<1> QED
  BY <1>1, <1>2, <1>3, <1>4, <1>6, <1>7, <1>8, <1>9, <1>10, Narrows DEF Apart

LEMMA SignCalm ==
  ASSUME TypeOK, Shape, CalmInv, NEW s \in Sends, SignTx(s)
  PROVE  CalmInv'
<1>1. Follow(s, "signed", until[s]) /\ until[s] \in Untils /\ "signed" \in Steps
  BY DEF SignTx, TypeOK, Steps
<1>2. currentStep'[s] = "signed" /\ \A r \in Sends \ {s} : currentStep'[r] = currentStep[r]
  BY DEF SignTx, TypeOK
<1>3. /\ UNCHANGED <<utxos, utxosSelectedAsInput, accepted, learned, inputs, index, failed, releases>>
      /\ call[s] = "signing"
  BY DEF SignTx, storage, network
<1>4. /\ \A r \in Sends \ {s} : call'[r] = call[r] /\ minings'[r] = minings[r]
      /\ call'[s] \in {Idle, "selecting"}
  BY <1>1, FollowShape
<1>5. \A r \in Sends \ {s} : Same(r)
  BY <1>2, <1>3, <1>4 DEF Same
<1>6. IsOpen(s) /\ Owns(s) /\ releases[s] = {} /\ index[s] = 1
  BY <1>3 DEF IsOpen, Owns, CalmInv, Clean, Idle, Shape
<1>7. s \notin accepted
  BY <1>3 DEF CalmInv, Clean, Shape
<1>8. ~IsMining(s)' /\ ~Sent(s)' /\ ~Holds(s)'
  BY <1>3, <1>4, <1>7 DEF IsMining, Sent, Holds, Idle
<1> QED
  BY <1>2, <1>3, <1>5, <1>6, <1>8, Narrows

\* The caller releases what no other send holds, while none is open.
LEMMA ReleaseCalm ==
  ASSUME TypeOK, Shape, CalmInv, calm, NEW s \in Sends, ReleaseUtxos(s)
  PROVE  CalmInv'
<1>1. /\ UNCHANGED <<utxos, utxosSelectedAsInput, accepted, learned, call, inputs, currentStep,
                     minings, failed, index>>
      /\ releases' = [releases EXCEPT ![s] = releases[s] \cup {1}]
      /\ call[s] = Idle /\ ~Sent(s) /\ inputs[s] # <<>> /\ releases[s] = {} /\ Calm(s)
  BY DEF ReleaseUtxos, storage, progress, counters, network
<1>2. releases'[s] = {1} /\ \A r \in Sends \ {s} : releases'[r] = releases[r]
  BY <1>1 DEF TypeOK
<1>3. \A r \in Sends \ {s} : Same(r)
  BY <1>1, <1>2 DEF Same
<1>4. (IsOpen(s)' <=> IsOpen(s)) /\ (Sent(s)' <=> Sent(s)) /\ (IsMining(s)' <=> IsMining(s))
  BY <1>1 DEF IsOpen, Sent, IsMining
<1>5. (Holds(s)' <=> Holds(s)) /\ (Owns(s)' <=> Owns(s))
  BY <1>4 DEF Holds, Owns
<1>6. \A r \in Sends \ {s} : /\ Owns(r) => InputsOf(s) \cap InputsOf(r) = {}
                             /\ Pending(r) = {} /\ ~IsOpen(r)
  BY <1>1, NothingPending DEF Calm, Owns
<1>7. call'[s] # "selecting" /\ ~IsMining(s)'
  BY <1>1 DEF IsMining, Idle
<1>8. s \in accepted => currentStep'[s] = "signed"
  BY <1>1 DEF CalmInv, Clean
<1> QED
  BY <1>1, <1>2, <1>3, <1>4, <1>5, <1>6, <1>7, <1>8, Narrows

\* A calm call starts: no other send is open and nothing is being released.
LEMMA RunCalm ==
  ASSUME TypeOK, Shape, CalmInv, calm, NEW s \in Sends, NEW limit \in Untils, Run(s, limit)
  PROVE  CalmInv'
<1>1. Follow(s, currentStep[s], limit) /\ currentStep[s] \in Steps /\ call[s] = Idle /\ Calm(s)
  BY DEF Run, TypeOK, Steps
<1>2. /\ UNCHANGED <<utxos, utxosSelectedAsInput, accepted, learned, inputs, currentStep, index,
                     releases>>
      /\ failed' = [failed EXCEPT ![s] = FALSE]
  BY DEF Run, storage, network
<1>3. \A r \in Sends \ {s} : call'[r] = call[r] /\ minings'[r] = minings[r] /\ failed'[r] = failed[r]
  BY <1>1, <1>2, FollowShape DEF TypeOK
<1>4. \A r \in Sends \ {s} : Same(r)
  BY <1>2, <1>3 DEF Same
<1>5. call'[s] \in {"preparing", "signing", "selecting"}
  <2>1. call'[s] = Following(currentStep[s], limit)
    BY <1>1 DEF Follow, TypeOK
  <2>2. Following(currentStep[s], limit) # Idle
    BY DEF Run
  <2> QED
    BY <1>1, <2>1, <2>2, FollowingType
<1>6. ~IsMining(s)' /\ ~Sent(s)' /\ ~Holds(s)'
  BY <1>5 DEF IsMining, Sent, Holds, Idle
<1>7. \A r \in Sends : Pending(r) = {} /\ releases[r] = {}
  BY <1>1, NothingPending DEF Calm
<1>8. \A r \in Sends : InputsOf(r)' = InputsOf(r) /\ Pending(r)' = {}
  BY <1>2, <1>7 DEF InputsOf, Pending
<1>9. \A r \in Sends \ {s} : ~IsOpen(r) /\ (Owns(r) => InputsOf(s) \cap InputsOf(r) = {})
  BY <1>1 DEF Calm, Owns
<1>10. ASSUME NEW r \in Sends PROVE Clean(r)'
  <2>1. Clean(r)
    BY DEF CalmInv
  <2>2. CASE r # s
    BY <1>2, <1>4, <2>1, <2>2, SameSend DEF Clean, Same
  <2>3. CASE r = s
    <3>1. index[s] = 1 /\ inputs[s] \in Seq(Utxos)
      BY <1>1 DEF Shape, Idle, TypeOK
    <3>2. \A i \in DOMAIN inputs[s] : ~(i < index[s])
      BY <3>1
    <3>3. call'[s] = "selecting" => currentStep[s] = "signed"
      BY <1>1, FollowShape
    <3> QED
      BY <1>2, <1>6, <1>7, <1>8, <2>1, <2>3, <3>2, <3>3 DEF Clean
  <2> QED
    BY <2>2, <2>3
<1>11. ASSUME NEW a \in Sends, NEW b \in Sends, a # b PROVE Apart(a, b)'
  <2>1. Apart(a, b)
    BY <1>11 DEF CalmInv
  <2>2. \A r \in Sends \ {s} : ~IsOpen(r)' /\ (Owns(r)' <=> Owns(r))
    BY <1>4, <1>9, SameSend
  <2>3. CASE a # s /\ b # s
    BY <1>8, <2>1, <2>2, <2>3 DEF Apart
  <2>4. CASE a = s
    BY <1>8, <1>9, <1>11, <2>2, <2>4 DEF Apart
  <2>5. CASE b = s
    BY <1>8, <1>9, <1>11, <2>2, <2>5 DEF Apart
  <2> QED
    BY <2>3, <2>4, <2>5
<1> QED
  BY <1>10, <1>11 DEF CalmInv

\* The order of a set has each of its members once, and nothing else.
LEMMA ChosenInjective ==
  ASSUME NEW us \in SUBSET Utxos
  PROVE  IsInjective(SetToSeq(us)) /\ ToSet(SetToSeq(us)) \subseteq us
<1> DEFINE n == Cardinality(us)
           Orderings == {f \in [1..n -> us] : IsInjective(f)}
<1>1. IsFiniteSet(us)
  BY SendAssumption, FS_Subset
<1>2. n \in Nat /\ ExistsBijection(1..n, us)
  BY <1>1, FS_CardinalityType
<1>3. PICK f : f \in Bijection(1..n, us)
  BY <1>2 DEF ExistsBijection
<1>4. f \in Orderings
  BY <1>3 DEF Bijection, Injection
<1>5. SetToSeq(us) \in Orderings
  BY <1>4 DEF SetToSeq
<1> QED
  BY <1>2, <1>5 DEF ToSet

\* The choice is of what no send holds, nor will release.
LEMMA ChoiceApart ==
  ASSUME TypeOK, CalmInv, NEW s \in Sends, IsOpen(s), NEW chosen \in InputChoices(s)
  PROVE  /\ IsInjective(chosen)
         /\ \A r \in Sends \ {s} : /\ Owns(r) => ToSet(chosen) \cap InputsOf(r) = {}
                                   /\ ToSet(chosen) \cap Pending(r) = {}
<1>1. CASE inputs[s] # <<>>
  <2>1. chosen = inputs[s]
    BY <1>1 DEF InputChoices
  <2>2. Owns(s) /\ ToSet(chosen) = InputsOf(s)
    BY <2>1 DEF Owns, InputsOf
  <2> QED
    BY <2>1, <2>2 DEF CalmInv, Clean, Apart
<1>2. CASE inputs[s] = <<>>
  <2>1. PICK us \in SUBSET Utxos :
            chosen = SetToSeq(us) /\ us \subseteq utxos \ utxosSelectedAsInput
    BY <1>2 DEF InputChoices, kSubset, TypeOK
  <2>2. IsInjective(chosen) /\ ToSet(chosen) \subseteq us
    BY <2>1, ChosenInjective
  <2> SUFFICES ASSUME NEW r \in Sends \ {s}
               PROVE  /\ Owns(r) => us \cap InputsOf(r) = {}
                      /\ us \cap Pending(r) = {}
    BY <2>2
  <2>3. ~IsOpen(r) /\ Pending(r) \cap utxos \subseteq utxosSelectedAsInput
    BY DEF CalmInv, Apart
  <2>4. Owns(r) => InputsOf(r) \cap utxos \subseteq utxosSelectedAsInput
    BY <2>3 DEF CalmInv, Clean, Owns
  <2> QED
    BY <2>1, <2>3, <2>4
<1> QED
  BY <1>1, <1>2

LEMMA PrepareCalm ==
  ASSUME TypeOK, Shape, CalmInv, NEW s \in Sends, PrepareTx(s)
  PROVE  CalmInv'
<1>1. Follow(s, "prepared", until[s]) /\ until[s] \in Untils /\ "prepared" \in Steps
  BY DEF PrepareTx, TypeOK, Steps
<1>2. PICK chosen \in InputChoices(s) : inputs' = [inputs EXCEPT ![s] = chosen]
  BY DEF PrepareTx
<1>3. inputs'[s] = chosen /\ \A r \in Sends \ {s} : inputs'[r] = inputs[r]
  BY <1>2 DEF TypeOK
<1>4. currentStep'[s] = "prepared" /\ \A r \in Sends \ {s} : currentStep'[r] = currentStep[r]
  BY DEF PrepareTx, TypeOK
<1>5. /\ UNCHANGED <<utxos, utxosSelectedAsInput, accepted, learned, index, failed, releases>>
      /\ call[s] = "preparing"
  BY DEF PrepareTx, storage, network
<1>6. /\ \A r \in Sends \ {s} : call'[r] = call[r] /\ minings'[r] = minings[r]
      /\ call'[s] \in {Idle, "signing"}
  BY <1>1, FollowShape
<1>7. \A r \in Sends \ {s} : Same(r)
  BY <1>3, <1>4, <1>5, <1>6 DEF Same
<1>8. IsOpen(s) /\ releases[s] = {} /\ currentStep[s] = "idle"
  BY <1>5 DEF IsOpen, CalmInv, Clean, Idle, Shape
<1>9. s \notin accepted /\ s \notin learned
  BY <1>8 DEF CalmInv, Clean
<1>10. ~IsMining(s)' /\ ~Sent(s)' /\ ~Holds(s)'
  BY <1>5, <1>6, <1>9 DEF IsMining, Sent, Holds, Idle
<1>11. Pending(s)' = {}
  BY <1>5, <1>8 DEF Pending
<1>12. InputsOf(s)' = ToSet(chosen)
  BY <1>3 DEF InputsOf
<1>13. /\ IsInjective(chosen)
       /\ \A r \in Sends \ {s} : /\ Owns(r) => ToSet(chosen) \cap InputsOf(r) = {}
                                 /\ ToSet(chosen) \cap Pending(r) = {}
  BY <1>8, ChoiceApart
<1>14. ASSUME NEW r \in Sends PROVE Clean(r)'
  <2>1. CASE r # s
    <3>1. Clean(r) /\ Same(r)
      BY <1>7, <2>1 DEF CalmInv
    <3> QED
      BY <1>5, <3>1, SameSend DEF Clean, Same
  <2>2. CASE r = s
    BY <1>3, <1>5, <1>6, <1>8, <1>9, <1>10, <1>13, <2>2 DEF Clean, Idle
  <2> QED
    BY <2>1, <2>2
<1>15. ASSUME NEW a \in Sends, NEW b \in Sends, a # b PROVE Apart(a, b)'
  <2>1. Apart(a, b) /\ Apart(b, a)
    BY <1>15 DEF CalmInv
  <2>2. CASE a # s /\ b # s
    BY <1>5, <1>7, <2>1, <2>2, SameSend DEF Apart
  <2>3. CASE a = s
    <3>1. /\ IsOpen(b)' <=> IsOpen(b)
          /\ Owns(b)' <=> Owns(b)
          /\ InputsOf(b)' = InputsOf(b) /\ Pending(b)' = Pending(b)
      BY <1>7, <1>15, <2>3, SameSend
    <3>2. ~IsOpen(b)
      BY <1>8, <2>1, <2>3 DEF Apart
    <3> QED
      BY <1>11, <1>12, <1>13, <1>15, <2>3, <3>1, <3>2 DEF Apart
  <2>4. CASE b = s
    <3>1. /\ IsOpen(a)' <=> IsOpen(a)
          /\ Owns(a)' <=> Owns(a)
          /\ InputsOf(a)' = InputsOf(a) /\ Pending(a)' = Pending(a)
      BY <1>7, <1>15, <2>4, SameSend
    <3>2. ~IsOpen(a) /\ Pending(a) \cap utxos \subseteq utxosSelectedAsInput
      BY <1>8, <2>1, <2>4 DEF Apart
    <3> QED
      BY <1>5, <1>11, <1>12, <1>13, <1>15, <2>4, <3>1, <3>2 DEF Apart
  <2> QED
    BY <2>2, <2>3, <2>4
<1> QED
  BY <1>14, <1>15 DEF CalmInv

\* One more input is selected; the last one ends the choice.
LEMMA SelectCalm ==
  ASSUME TypeOK, Shape, CalmInv, NEW s \in Sends, UpdateOutputSelected(s)
  PROVE  CalmInv'
<1> DEFINE n == index[s]
           u == inputs[s][n]
<1>1. /\ UNCHANGED <<utxos, inputs, currentStep, minings, failed, accepted, learned, releases>>
      /\ call[s] = "selecting" /\ SelectAsInput(s, u)
      /\ index' = [index EXCEPT ![s] = IF n = Len(inputs[s]) THEN 1 ELSE n + 1]
  BY DEF UpdateOutputSelected, counters, network
<1>2. /\ inputs[s] \in Seq(Utxos) /\ n \in Nat \ {0} /\ n <= Len(inputs[s])
      /\ DOMAIN inputs[s] = 1..Len(inputs[s])
  BY <1>1 DEF TypeOK, Shape
<1>3. /\ utxosSelectedAsInput \subseteq utxosSelectedAsInput'
      /\ u \in utxos => u \in utxosSelectedAsInput'
  BY <1>1 DEF SelectAsInput
<1>4. /\ call'[s] = IF n = Len(inputs[s]) THEN "submitting" ELSE "selecting"
      /\ \A r \in Sends \ {s} : call'[r] = call[r]
  BY <1>1 DEF UpdateOutputSelected, GoTo, progress, TypeOK, Idle
<1>5. /\ index'[s] = IF n = Len(inputs[s]) THEN 1 ELSE n + 1
      /\ \A r \in Sends \ {s} : index'[r] = index[r]
  BY <1>1 DEF TypeOK
<1>6. \A r \in Sends \ {s} : Same(r)
  BY <1>1, <1>4, <1>5 DEF Same
<1>7. \A r \in Sends : InputsOf(r)' = InputsOf(r) /\ Pending(r)' = Pending(r)
  BY <1>1 DEF InputsOf, Pending
<1>8. IsOpen(s) /\ Owns(s) /\ ~Sent(s)' /\ ~(call'[s] = Idle)
  BY <1>1, <1>4 DEF IsOpen, Owns, Sent, Idle
<1>9. Clean(s) /\ releases[s] = {} /\ currentStep[s] = "signed"
  BY <1>1 DEF CalmInv, Clean, Idle
<1> HIDE DEF u
<1>10. \A i \in DOMAIN inputs[s] : i <= n /\ inputs[s][i] \in utxos => inputs[s][i] \in utxosSelectedAsInput'
  <2> SUFFICES ASSUME NEW i \in DOMAIN inputs[s], i <= n, inputs[s][i] \in utxos
               PROVE  inputs[s][i] \in utxosSelectedAsInput'
    OBVIOUS
  <2>1. i < n \/ i = n
    BY <1>2
  <2>2. CASE i < n
    BY <1>1, <1>3, <1>9, <2>2 DEF Clean
  <2>3. CASE i = n
    BY <1>3, <2>3 DEF u
  <2> QED
    BY <2>1, <2>2, <2>3
<1>11. Holds(s)' => InputsOf(s) \cap utxos \subseteq utxosSelectedAsInput'
  <2> SUFFICES ASSUME Holds(s)' PROVE InputsOf(s) \cap utxos \subseteq utxosSelectedAsInput'
    OBVIOUS
  <2>1. n = Len(inputs[s])
    BY <1>4, <1>8 DEF Holds, IsMining
  <2>2. \A i \in DOMAIN inputs[s] : i <= n
    BY <1>2, <2>1
  <2>3. InputsOf(s) = {inputs[s][i] : i \in DOMAIN inputs[s]}
    BY DEF InputsOf, ToSet
  <2> QED
    BY <1>10, <2>2, <2>3
<1>12. call'[s] = "selecting" => \A i \in DOMAIN inputs[s] : i < index'[s] => i <= n
  BY <1>2, <1>4, <1>5
<1>13. ASSUME NEW r \in Sends PROVE Clean(r)'
  <2>1. CASE r # s
    <3>1. Clean(r) /\ Same(r)
      BY <1>6, <2>1 DEF CalmInv
    <3> QED
      BY <1>1, <1>3, <3>1, SameSend DEF Clean, Same
  <2>2. CASE r = s
    BY <1>1, <1>7, <1>9, <1>10, <1>11, <1>12, <2>2 DEF Clean
  <2> QED
    BY <2>1, <2>2
<1>14. \A r \in Sends : (IsOpen(r)' => IsOpen(r)) /\ (Owns(r)' => Owns(r))
  BY <1>6, <1>8, SameSend
<1>15. ASSUME NEW a \in Sends, NEW b \in Sends, a # b PROVE Apart(a, b)'
  BY <1>1, <1>3, <1>7, <1>14, <1>15 DEF CalmInv, Apart
<1> QED
  BY <1>13, <1>15 DEF CalmInv

LEMMA AcceptedCalm ==
  ASSUME TypeOK, Shape, CalmInv, NEW s \in Sends, FullnodeAccepts(s)
  PROVE  CalmInv'
<1>1. /\ UNCHANGED <<utxos, utxosSelectedAsInput, call, inputs, currentStep, minings, failed, index,
                     releases, learned>>
      /\ call[s] = "pushing" /\ accepted' = accepted \cup {s}
  BY DEF FullnodeAccepts, storage, progress, counters
<1>2. \A r \in Sends \ {s} : Same(r)
  BY <1>1 DEF Same
<1>3. IsMining(s) /\ IsMining(s)' /\ Holds(s) /\ Holds(s)' /\ Owns(s) /\ Owns(s)'
      /\ (IsOpen(s)' <=> IsOpen(s)) /\ call[s] # Idle /\ ~Sent(s)'
  BY <1>1 DEF IsMining, Holds, Owns, IsOpen, Idle, Sent
<1>4. \A r \in Sends : InputsOf(r)' = InputsOf(r) /\ Pending(r)' = Pending(r)
  BY <1>1 DEF InputsOf, Pending
<1>5. \A r \in Sends : (IsOpen(r)' <=> IsOpen(r)) /\ (Owns(r)' <=> Owns(r))
  BY <1>2, <1>3, SameSend
<1>6. ASSUME NEW r \in Sends PROVE Clean(r)'
  <2>1. Clean(r)
    BY DEF CalmInv
  <2>2. CASE r # s
    BY <1>1, <1>2, <2>1, <2>2, SameSend DEF Clean, Same
  <2>3. CASE r = s
    BY <1>1, <1>3, <1>4, <2>1, <2>3 DEF Clean
  <2> QED
    BY <2>2, <2>3
<1>7. \A a, b \in Sends : a # b => Apart(a, b)'
  BY <1>1, <1>4, <1>5 DEF CalmInv, Apart
<1> QED
  BY <1>6, <1>7 DEF CalmInv

LEMMA OnNewTxCalm ==
  ASSUME TypeOK, Shape, CalmInv, NEW s \in Sends, OnNewTx(s)
  PROVE  CalmInv'
<1>1. /\ UNCHANGED <<utxosSelectedAsInput, call, inputs, currentStep, minings, failed, index,
                     releases, accepted>>
      /\ s \in accepted /\ learned' = learned \cup {s} /\ utxos' = utxos \ InputsOf(s)
  BY DEF OnNewTx, progress, counters
<1>2. \A r \in Sends : /\ IsOpen(r)' <=> IsOpen(r)
                       /\ Sent(r)' <=> Sent(r)
                       /\ IsMining(r)' <=> IsMining(r)
  BY <1>1 DEF IsOpen, Sent, IsMining
<1>3. \A r \in Sends : (Holds(r)' <=> Holds(r)) /\ (Owns(r)' <=> Owns(r))
  BY <1>2 DEF Holds, Owns
<1>4. \A r \in Sends : InputsOf(r)' = InputsOf(r) /\ Pending(r)' = Pending(r)
  BY <1>1 DEF InputsOf, Pending
<1>5. \A r \in Sends : Clean(r)'
  BY <1>1, <1>2, <1>3, <1>4 DEF CalmInv, Clean
<1>6. \A a, b \in Sends : a # b => Apart(a, b)'
  BY <1>1, <1>3, <1>2, <1>4 DEF CalmInv, Apart
<1> QED
  BY <1>5, <1>6 DEF CalmInv

\* What no longer is selected is held by nobody, and nothing else comes to be released.
LEMMA Unselect ==
  ASSUME CalmInv, UNCHANGED <<utxos, call, inputs, currentStep, minings, failed, index, accepted,
                              learned>>,
         NEW u, utxosSelectedAsInput' = utxosSelectedAsInput \ {u},
         \A r \in Sends : Holds(r) \/ call[r] = "selecting" => u \notin InputsOf(r),
         \A r \in Sends : /\ releases'[r] # {} => releases[r] # {}
                          /\ releases'[r] \subseteq DOMAIN inputs[r]
                          /\ \A i, j \in releases'[r] : i = j
                          /\ Pending(r)' \subseteq Pending(r) \ {u}
  PROVE  CalmInv'
<1>1. \A r \in Sends : /\ IsOpen(r)' <=> IsOpen(r)
                       /\ Sent(r)' <=> Sent(r)
                       /\ IsMining(r)' <=> IsMining(r)
  BY DEF IsOpen, Sent, IsMining
<1>2. \A r \in Sends : (Holds(r)' <=> Holds(r)) /\ (Owns(r)' <=> Owns(r))
  BY <1>1 DEF Holds, Owns
<1>3. \A r \in Sends : InputsOf(r)' = InputsOf(r)
  BY DEF InputsOf
<1>4. ASSUME NEW r \in Sends PROVE Clean(r)'
  <2>1. Clean(r)
    BY DEF CalmInv
  <2>2. call[r] = "selecting" => \A i \in DOMAIN inputs[r] : inputs[r][i] # u
    BY DEF InputsOf, ToSet
  <2> QED
    BY <1>1, <1>2, <1>3, <2>1, <2>2 DEF Clean
<1>5. \A a, b \in Sends : a # b => Apart(a, b)'
  BY <1>1, <1>2, <1>3 DEF CalmInv, Apart
<1> QED
  BY <1>4, <1>5 DEF CalmInv

LEMMA ReleasedCalm ==
  ASSUME TypeOK, Shape, CalmInv, NEW s \in Sends, UpdateOutputReleased(s)
  PROVE  CalmInv'
<1>1. PICK i \in releases[s] :
        /\ utxosSelectedAsInput' = utxosSelectedAsInput \ {inputs[s][i]}
        /\ releases' = [releases EXCEPT ![s] =
                            (releases[s] \ {i}) \cup (IF i < Len(inputs[s]) THEN {i + 1} ELSE {})]
  BY DEF UpdateOutputReleased
<1> DEFINE u == inputs[s][i]
           rest == IF i < Len(inputs[s]) THEN {i + 1} ELSE {}
<1>2. UNCHANGED <<utxos, call, inputs, currentStep, minings, failed, index, accepted, learned>>
  BY DEF UpdateOutputReleased, progress, counters, network
<1>3. Clean(s) /\ releases[s] = {i} /\ i \in DOMAIN inputs[s]
  BY DEF CalmInv, Clean
<1>4. /\ inputs[s] \in Seq(Utxos) /\ DOMAIN inputs[s] = 1..Len(inputs[s]) /\ Len(inputs[s]) \in Nat
      /\ releases \in [Sends -> SUBSET (Nat \ {0})]
  BY DEF TypeOK
<1>5. releases'[s] = rest /\ \A r \in Sends \ {s} : releases'[r] = releases[r]
  BY <1>1, <1>3, <1>4
<1>6. /\ rest \subseteq DOMAIN inputs[s] /\ (\A j, k \in rest : j = k)
      /\ \A j \in rest : \A k \in DOMAIN inputs[s] : j <= k => i <= k /\ k # i
  BY <1>3, <1>4
<1>7. u \in InputsOf(s) /\ u \in Pending(s)
  <2>1. u \in InputsOf(s)
    BY <1>3 DEF InputsOf, ToSet
  <2>2. i <= i
    BY <1>3, <1>4
  <2> QED
    BY <1>3, <2>1, <2>2 DEF Pending
<1> HIDE DEF u, rest
<1>8. Pending(s)' \subseteq Pending(s) \ {u}
  <2> SUFFICES ASSUME NEW v \in Pending(s)' PROVE v \in Pending(s) /\ v # u
    OBVIOUS
  <2>1. PICK j \in rest : \E k \in DOMAIN inputs[s] : j <= k /\ inputs[s][k] = v
    BY <1>2, <1>5 DEF Pending
  <2>2. PICK k \in DOMAIN inputs[s] : j <= k /\ inputs[s][k] = v
    BY <2>1
  <2>3. i <= k /\ k # i
    BY <1>6, <2>2
  <2>4. v \in InputsOf(s)
    BY <1>2 DEF Pending, InputsOf
  <2>5. v \in Pending(s)
    BY <1>3, <2>2, <2>3, <2>4 DEF Pending
  <2>6. v # u
    BY <1>3, <2>2, <2>3 DEF Clean, IsInjective, u
  <2> QED
    BY <2>5, <2>6
<1>9. \A r \in Sends \ {s} : Pending(r)' \subseteq Pending(r) \ {u}
  <2> SUFFICES ASSUME NEW r \in Sends \ {s} PROVE Pending(r)' \subseteq Pending(r) \ {u}
    OBVIOUS
  <2>1. Pending(r)' = Pending(r)
    BY <1>2, <1>5 DEF Pending, InputsOf
  <2>2. Pending(s) \cap Pending(r) = {}
    BY DEF CalmInv, Apart
  <2> QED
    BY <1>7, <2>1, <2>2
<1>10. \A r \in Sends : Holds(r) \/ call[r] = "selecting" => u \notin InputsOf(r)
  <2> SUFFICES ASSUME NEW r \in Sends, Holds(r) \/ call[r] = "selecting" PROVE u \notin InputsOf(r)
    OBVIOUS
  <2>1. Owns(r)
    BY DEF Owns, IsOpen
  <2>2. r # s
    BY <1>3 DEF Clean, Holds, IsMining, Idle
  <2> QED
    BY <1>7, <2>1, <2>2 DEF CalmInv, Apart
<1>11. \A r \in Sends : /\ releases'[r] # {} => releases[r] # {}
                        /\ releases'[r] \subseteq DOMAIN inputs[r]
                        /\ \A j, k \in releases'[r] : j = k
                        /\ Pending(r)' \subseteq Pending(r) \ {u}
  BY <1>3, <1>5, <1>6, <1>8, <1>9 DEF CalmInv, Clean
<1>12. utxosSelectedAsInput' = utxosSelectedAsInput \ {u}
  BY <1>1 DEF u
<1> QED
  BY <1>2, <1>10, <1>11, <1>12, Unselect

LEMMA TimerCalm ==
  ASSUME TypeOK, Shape, CalmInv, calm, NEW s \in Sends, NEW u \in Utxos, TimerFires(s, u)
  PROVE  CalmInv'
<1>1. /\ UNCHANGED <<utxos, call, inputs, currentStep, minings, failed, index, accepted, learned,
                     releases>>
      /\ utxosSelectedAsInput' = utxosSelectedAsInput \ {u}
      /\ \A r \in Sends : u \in InputsOf(r) =>
            ~IsMining(r) /\ call[r] # "selecting" /\ releases[r] = {} /\ r \notin accepted \ learned
  BY DEF TimerFires, progress, counters, network
<1>2. CASE u \in utxos
  <2>1. \A r \in Sends : Pending(r)' = Pending(r)
    BY <1>1 DEF Pending, InputsOf
  <2>2. \A r \in Sends : u \notin Pending(r)
    BY <1>1 DEF Pending
  <2>3. ASSUME NEW r \in Sends, Holds(r) \/ call[r] = "selecting" PROVE u \notin InputsOf(r)
    <3>1. CASE r \in learned
      BY <1>2, <3>1 DEF CalmInv, Clean
    <3>2. CASE r \notin learned
      BY <1>1, <2>3, <3>2 DEF Holds, Sent
    <3> QED
      BY <3>1, <3>2
  <2>4. \A r \in Sends : /\ releases'[r] # {} => releases[r] # {}
                         /\ releases'[r] \subseteq DOMAIN inputs[r]
                         /\ \A j, k \in releases'[r] : j = k
                         /\ Pending(r)' \subseteq Pending(r) \ {u}
    BY <1>1, <2>1, <2>2 DEF CalmInv, Clean
  <2> QED
    BY <1>1, <2>3, <2>4, Unselect
<1>3. CASE u \notin utxos
  <2>1. \A r \in Sends : /\ IsOpen(r)' <=> IsOpen(r)
                         /\ Sent(r)' <=> Sent(r)
                         /\ IsMining(r)' <=> IsMining(r)
    BY <1>1 DEF IsOpen, Sent, IsMining
  <2>2. \A r \in Sends : (Holds(r)' <=> Holds(r)) /\ (Owns(r)' <=> Owns(r))
    BY <2>1 DEF Holds, Owns
  <2>3. \A r \in Sends : InputsOf(r)' = InputsOf(r) /\ Pending(r)' = Pending(r)
    BY <1>1 DEF InputsOf, Pending
  <2>4. \A v \in utxos : v \in utxosSelectedAsInput => v \in utxosSelectedAsInput'
    BY <1>1, <1>3
  <2>5. \A r \in Sends : Clean(r)'
    BY <1>1, <2>1, <2>2, <2>3, <2>4 DEF CalmInv, Clean
  <2>6. \A a, b \in Sends : a # b => Apart(a, b)'
    BY <1>1, <2>1, <2>2, <2>3, <2>4 DEF CalmInv, Apart
  <2> QED
    BY <2>5, <2>6 DEF CalmInv
<1> QED
  BY <1>2, <1>3

LEMMA InitCalm == Init /\ calm => CalmInv
<1> SUFFICES ASSUME Init, calm PROVE CalmInv
  OBVIOUS
<1>1. \A s \in Sends : /\ call[s] = Idle /\ currentStep[s] = "idle" /\ releases[s] = {}
                       /\ s \notin accepted /\ s \notin learned /\ IsInjective(inputs[s])
  BY DEF Init
<1>2. \A s \in Sends : ~IsOpen(s) /\ ~IsMining(s) /\ ~Sent(s) /\ ~Holds(s) /\ ~Owns(s)
  BY <1>1 DEF IsOpen, IsMining, Sent, Holds, Owns, Idle
<1>3. \A s \in Sends : Pending(s) = {}
  BY <1>1, NothingPending
<1>4. \A s \in Sends : Clean(s)
  BY <1>1, <1>2 DEF Clean, Idle
<1> QED
  BY <1>2, <1>3, <1>4 DEF CalmInv, Apart

LEMMA NextCalm ==
  TypeOK /\ Shape /\ (calm => CalmInv) /\ [Next]_vars => (calm => CalmInv)'
<1> SUFFICES ASSUME TypeOK, Shape, calm => CalmInv, [Next]_vars, calm' PROVE CalmInv'
  OBVIOUS
<1>1. CASE UNCHANGED vars
  <2>1. /\ UNCHANGED <<utxos, utxosSelectedAsInput, call, inputs, currentStep, minings, failed, index,
                       releases, accepted, learned>>
        /\ CalmInv
    BY <1>1 DEF vars, storage, progress, counters, network
  <2>2. \A r \in Sends : Same(r)
    BY <2>1 DEF Same
  <2>3. \A r \in Sends : Clean(r)'
    BY <2>1, <2>2, SameSend DEF CalmInv, Clean
  <2>4. \A a, b \in Sends : a # b => Apart(a, b)'
    BY <2>1, <2>2, SameSend DEF CalmInv, Apart
  <2> QED
    BY <2>3, <2>4 DEF CalmInv
<1>2. CASE Next
  <2>1. calm
    BY <1>2 DEF Next, Run, Answers, Fails, PrepareTx, SignTx, UpdateOutputSelected, JobSubmitted,
                JobDone, JobTimeout, PushDone, PrepareOrSignFails, MiningFails, PushFails, Rejected,
                RejectedAnd, WorkOn, ReleaseUtxos, FullnodeAccepts, OnNewTx, UpdateOutputReleased,
                TimerFires, network
  <2>2. CalmInv
    BY <2>1
  <2>3. ASSUME NEW s \in Sends, Answers(s) PROVE CalmInv'
    <3>1. CASE PrepareTx(s)
      BY <2>2, <3>1, PrepareCalm
    <3>2. CASE SignTx(s)
      BY <2>2, <3>2, SignCalm
    <3>3. CASE UpdateOutputSelected(s)
      BY <2>2, <3>3, SelectCalm
    <3>4. CASE JobSubmitted(s) \/ JobDone(s) \/ PushDone(s)
      BY <2>2, <3>4, WorkCalm DEF JobSubmitted, JobDone, PushDone, IsMining
    <3>5. CASE JobTimeout(s)
      BY <2>2, <3>5, WorkCalm, RejectedCalm DEF JobTimeout, Rejected, IsMining, Idle
    <3> QED
      BY <2>3, <3>1, <3>2, <3>3, <3>4, <3>5 DEF Answers
  <2>4. ASSUME NEW s \in Sends, Fails(s) PROVE CalmInv'
    BY <2>2, <2>4, RejectedCalm
       DEF Fails, PrepareOrSignFails, MiningFails, PushFails, Rejected, IsMining, Idle
  <2> QED
    BY <1>2, <2>1, <2>2, <2>3, <2>4, RunCalm, ReleaseCalm, AcceptedCalm, OnNewTxCalm, ReleasedCalm,
       TimerCalm DEF Next
<1> QED
  BY <1>1, <1>2

\* Callers that choose one at a time, and leave what another send has, never have two sends
\* on their way with one input, nor one with an input that a sent transaction spent, for any
\* number of sends, through failures, retries, releases and the timers that outlive a send
\* (utxosSelectedAsInput; prepareTx(), updateOutputSelected(), releaseUtxos()).
THEOREM InputsAreTheirOwn == Spec => []InputsAreOwn
<1> DEFINE Inv == calm => CalmInv
<1>1. Init => TypeOK /\ Shape /\ Inv
  BY InitTypes, InitShape, InitCalm
<1>2. TypeOK /\ Shape /\ Inv /\ [Next]_vars => (TypeOK /\ Shape /\ Inv)'
  BY NextTypes, NextShape, NextCalm
<1>3. Inv => InputsAreOwn
  BY DEF CalmInv, Apart, Owns, Holds, InputsAreOwn
<1> HIDE DEF Inv
<1> QED
  BY <1>1, <1>2, <1>3, PTL DEF Spec

-----------------------------------------------------------------------------
(* The contract builder while it builds *)

\* Outputs that are made by Output.
IsOutput(x) == x = Output(x.token, x.value, x.authorities, x.kind)
Listed(s) == Listing(s) /\ \A i \in 1..Len(s) : IsOutput(s[i])

LEMMA ListedJoin ==
  ASSUME NEW s, NEW t, Listed(s), Listed(t)
  PROVE  Listed(s \o t)
<1> DEFINE r == s \o t
           m == Len(s)
           n == Len(t)
<1>1. /\ Listing(r) /\ m \in Nat /\ n \in Nat /\ Len(r) = m + n
      /\ \A i \in 1..m : r[i] = s[i]
      /\ \A i \in 1..n : r[i + m] = t[i]
  BY JoinIs DEF Listed
<1>2. (\A i \in 1..m : IsOutput(s[i])) /\ \A i \in 1..n : IsOutput(t[i])
  BY DEF Listed
<1> HIDE DEF r, m, n
<1>3. ASSUME NEW i \in 1..Len(r) PROVE IsOutput(r[i])
  <2>1. CASE i <= m
    <3>1. i \in 1..m
      BY <1>1, <2>1
    <3> QED
      BY <1>1, <1>2, <3>1
  <2>2. CASE ~(i <= m)
    <3>1. i - m \in 1..n /\ (i - m) + m = i
      BY <1>1, <2>2
    <3>2. r[(i - m) + m] = t[i - m]
      BY <1>1, <3>1
    <3> QED
      BY <1>2, <3>1, <3>2
  <2> QED
    BY <2>1, <2>2
<1>4. Listed(r)
  BY <1>1, <1>3 DEF Listed
<1> QED
  BY <1>4 DEF r

LEMMA ListedOne ==
  ASSUME NEW token, NEW v \in Nat, NEW rights, NEW kind
  PROVE  Listed(<<>>) /\ Listed(<<Output(token, v, rights, kind)>>)
<1> DEFINE o == Output(token, v, rights, kind)
<1>1. o.token = token /\ o.value = v /\ o.authorities = rights /\ o.kind = kind
  BY DEF Output
<1>2. IsOutput(o)
  BY <1>1 DEF IsOutput
<1> HIDE DEF o
<1>3. Listing(<<o>>)
  BY <1>1, FundsOfOne
<1>4. Listed(<<o>>)
  BY <1>2, <1>3 DEF Listed
<1>5. Listed(<<>>)
  BY FundsOfNone DEF Listed
<1> QED
  BY <1>4, <1>5 DEF o

LEMMA ListedMore ==
  /\ \A token, kind : \A v \in Nat : Listed(Positive(token, v, kind)) /\ Listed(Change(token, v))
  /\ \A wanted, token, kind : Listed(Another(wanted, token, kind))
<1>1. ASSUME NEW token, NEW kind, NEW v \in Nat PROVE Listed(Positive(token, v, kind))
  BY ListedOne DEF Positive
<1>2. ASSUME NEW wanted, NEW token, NEW kind PROVE Listed(Another(wanted, token, kind))
  <2>1. Another(wanted, token, kind) = IF wanted THEN <<Output(token, 0, {kind}, "authority")>> ELSE <<>>
    BY Zenon DEF Another, Authority
  <2> QED
    BY <2>1, ListedOne
<1> QED
  BY <1>1, <1>2 DEF Change

\* The inputs are different and available, and they are what is marked.
Building(b, available) ==
    /\ b = [ok |-> b.ok, inputs |-> b.inputs, outputs |-> b.outputs, marked |-> b.marked,
            feeAdded |-> b.feeAdded]
    /\ b.ok \in BOOLEAN
    /\ Distinct(b.inputs, available) /\ b.marked = Range(b.inputs)
    /\ Listed(b.outputs)

\* Only one token moved, and what fails chose nothing.
MovedOnly(token, b, next) ==
    /\ \A t : t # token =>
            /\ Cardinality(Carriers(next.outputs, t)) = Cardinality(Carriers(b.outputs, t))
            /\ Available(Range(next.inputs), t) = Available(Range(b.inputs), t)
    /\ ~next.ok => next.inputs = b.inputs

\* What is being built, by its parts, and its edits.
Record(p, q, r, s, t) == [ok |-> p, inputs |-> q, outputs |-> r, marked |-> s, feeAdded |-> t]
Stops(b) == [b EXCEPT !.ok = FALSE]
WithOutputs(b, o) == [b EXCEPT !.outputs = o]
Took(b, i, o, m) == [b EXCEPT !.inputs = i, !.outputs = o, !.marked = m]
WithFee(b, f) == [b EXCEPT !.feeAdded = f]

LEMMA BuildingIs ==
  ASSUME NEW available, NEW b, Building(b, available)
  PROVE  \E p, q, r, n, s :
            /\ b = Record(p, q, r, n, s) /\ p \in BOOLEAN /\ Distinct(q, available) /\ Listed(r) /\ n = Range(q)
            /\ b.ok = p /\ b.inputs = q /\ b.outputs = r
<1>1. /\ b = Record(b.ok, b.inputs, b.outputs, b.marked, b.feeAdded) /\ b.ok \in BOOLEAN
      /\ Distinct(b.inputs, available) /\ Listed(b.outputs) /\ b.marked = Range(b.inputs)
  BY DEF Record, Building
<1> WITNESS b.ok, b.inputs, b.outputs, b.marked, b.feeAdded
<1> QED
  BY <1>1

LEMMA EditOk ==
  ASSUME NEW available, NEW b, Building(b, available), NEW e, e = Stops(b)
  PROVE  Building(e, available) /\ e.ok = FALSE /\ e.inputs = b.inputs /\ e.outputs = b.outputs
<1>1. PICK p, q, r, n, s :
        /\ b = Record(p, q, r, n, s) /\ p \in BOOLEAN /\ Distinct(q, available) /\ Listed(r) /\ n = Range(q)
        /\ b.ok = p /\ b.inputs = q /\ b.outputs = r
  BY BuildingIs
<1>2. e = Record(FALSE, q, r, n, s)
  BY <1>1 DEF Record, Stops
<1>3. /\ e.ok = FALSE /\ e.inputs = q /\ e.outputs = r /\ e.marked = Range(q)
      /\ e = Record(e.ok, e.inputs, e.outputs, e.marked, e.feeAdded)
  BY <1>1, <1>2 DEF Record
<1> QED
  BY <1>1, <1>3 DEF Building, Record

LEMMA EditOutputs ==
  ASSUME NEW available, NEW b, Building(b, available), NEW o, Listed(o), NEW e, e = WithOutputs(b, o)
  PROVE  Building(e, available) /\ e.ok = b.ok /\ e.inputs = b.inputs /\ e.outputs = o
<1>1. PICK p, q, r, n, s :
        /\ b = Record(p, q, r, n, s) /\ p \in BOOLEAN /\ Distinct(q, available) /\ Listed(r) /\ n = Range(q)
        /\ b.ok = p /\ b.inputs = q /\ b.outputs = r
  BY BuildingIs
<1>2. e = Record(p, q, o, n, s)
  BY <1>1 DEF Record, WithOutputs
<1>3. /\ e.ok = p /\ e.inputs = q /\ e.outputs = o /\ e.marked = Range(q)
      /\ e = Record(e.ok, e.inputs, e.outputs, e.marked, e.feeAdded)
  BY <1>1, <1>2 DEF Record
<1> QED
  BY <1>1, <1>3 DEF Building, Record

LEMMA EditInputs ==
  ASSUME NEW available, NEW b, Building(b, available), NEW i, Distinct(i, available), NEW o, Listed(o),
         NEW m, m = Range(i), NEW e, e = Took(b, i, o, m)
  PROVE  Building(e, available) /\ e.ok = b.ok /\ e.inputs = i /\ e.outputs = o
<1>1. PICK p, q, r, n, s :
        /\ b = Record(p, q, r, n, s) /\ p \in BOOLEAN /\ Distinct(q, available) /\ Listed(r) /\ n = Range(q)
        /\ b.ok = p /\ b.inputs = q /\ b.outputs = r
  BY BuildingIs
<1>2. e = Record(p, i, o, m, s)
  BY <1>1 DEF Record, Took
<1>3. /\ e.ok = p /\ e.inputs = i /\ e.outputs = o /\ e.marked = Range(i)
      /\ e = Record(e.ok, e.inputs, e.outputs, e.marked, e.feeAdded)
  BY <1>1, <1>2 DEF Record
<1> QED
  BY <1>1, <1>3 DEF Building, Record

LEMMA EditFee ==
  ASSUME NEW available, NEW b, Building(b, available), NEW f, NEW e, e = WithFee(b, f)
  PROVE  Building(e, available) /\ e.ok = b.ok /\ e.inputs = b.inputs /\ e.outputs = b.outputs
<1>1. PICK p, q, r, n, s :
        /\ b = Record(p, q, r, n, s) /\ p \in BOOLEAN /\ Distinct(q, available) /\ Listed(r) /\ n = Range(q)
        /\ b.ok = p /\ b.inputs = q /\ b.outputs = r
  BY BuildingIs
<1>2. e = Record(p, q, r, n, f)
  BY <1>1 DEF Record, WithFee
<1>3. /\ e.ok = p /\ e.inputs = q /\ e.outputs = r /\ e.marked = Range(q)
      /\ e = Record(e.ok, e.inputs, e.outputs, e.marked, e.feeAdded)
  BY <1>1, <1>2 DEF Record
<1> QED
  BY <1>1, <1>3 DEF Building, Record

\* getUtxosForAmount() with markUtxoSelected() and the change.
LEMMA SelectInputsBuilds ==
  ASSUME NEW available \in SUBSET KnownUtxos, NEW b, Building(b, available), b.ok,
         NEW token, NEW amount \in Int
  PROVE  /\ Building(SelectInputs(b, token, amount, available), available)
         /\ MovedOnly(token, b, SelectInputs(b, token, amount, available))
<1> DEFINE us == {u \in Available(available, token) \ b.marked : ~UtxoOf[u].shielded}
           sorted == Sorted(us, Descending)
           picked == SelectUtxos(sorted, amount)
           next == SelectInputs(b, token, amount, available)
           chosen == picked.utxos
           before == b.inputs
           made == b.outputs
           change == picked.change
<1>1. next = IF ~picked.ok THEN Stops(b)
             ELSE Took(b, before \o chosen, made \o Change(token, change), b.marked \cup Range(chosen))
  BY Zenon DEF SelectInputs, Stops, Took
<1>2. us \in SUBSET KnownUtxos /\ us \in SUBSET available /\ us \cap Range(before) = {} /\ us \in SUBSET Available(available, token)
  BY AvailablePart DEF Building
<1>3. b.ok \in BOOLEAN /\ Distinct(before, available) /\ b.marked = Range(before) /\ Listed(made)
  BY DEF Building
<1> HIDE DEF us
<1>4. Distinct(sorted, us)
  BY <1>2, SortedIsDistinct
<1> HIDE DEF sorted, next
<1>5. Picks(picked, us, amount)
  BY <1>2, <1>4, SelectUtxosPicks
<1> HIDE DEF picked
<1>6. CASE picked = Failed
  <2>1. next = Stops(b)
    BY <1>1, <1>6 DEF Failed
  <2>2. Building(next, available) /\ next.ok = FALSE /\ next.inputs = b.inputs /\ next.outputs = b.outputs
    BY <2>1, EditOk
  <2> QED
    BY <2>2 DEF MovedOnly, next
<1>7. CASE picked # Failed
  <2>1. /\ Distinct(chosen, us) /\ amount > 0 /\ Total(Range(chosen)) >= amount
        /\ picked.ok = TRUE /\ change = Total(Range(chosen)) - amount
    BY <1>5, <1>7 DEF Picks
  <2> HIDE DEF chosen, before, made, change
  <2>2. Distinct(chosen, available) /\ Range(chosen) \in SUBSET us
    BY <1>2, <2>1, DistinctPart
  <2>3. Range(before) \cap Range(chosen) = {}
    BY <1>2, <2>2
  <2>4. Distinct(before \o chosen, available) /\ Range(before \o chosen) = Range(before) \cup Range(chosen)
    BY <1>3, <2>2, <2>3, DistinctJoin
  <2>5. change \in Nat
    <3>1. Total(Range(chosen)) \in Nat
      BY <1>2, <2>2, TotalType
    <3> QED
      BY <2>1, <3>1
  <2>6. Listed(Change(token, change)) /\ Listed(made \o Change(token, change))
    BY <1>3, <2>5, ListedMore, ListedJoin
  <2>7. next = Took(b, before \o chosen, made \o Change(token, change), b.marked \cup Range(chosen))
    BY <1>1, <2>1
  <2>8. b.marked \cup Range(chosen) = Range(before \o chosen)
    BY <1>3, <2>4
  <2>9. /\ Building(next, available) /\ next.ok = b.ok
        /\ next.inputs = before \o chosen /\ next.outputs = made \o Change(token, change)
    <3> DEFINE all == before \o chosen
               paid == made \o Change(token, change)
               marked == b.marked \cup Range(chosen)
    <3>1. Distinct(all, available) /\ Listed(paid) /\ marked = Range(all) /\ next = Took(b, all, paid, marked)
      BY <2>4, <2>6, <2>7, <2>8
    <3> HIDE DEF all, paid, marked
    <3>2. Building(b, available)
      OBVIOUS
    <3>3. Building(next, available) /\ next.ok = b.ok /\ next.inputs = all /\ next.outputs = paid
      BY ONLY <3>1, <3>2, EditInputs
    <3> QED
      BY <3>3 DEF all, paid
  <2>10. ASSUME NEW t, t # token
         PROVE  /\ Cardinality(Carriers(next.outputs, t)) = Cardinality(Carriers(made, t))
                /\ Available(Range(next.inputs), t) = Available(Range(before), t)
    <3>1. Listing(Change(token, change)) /\ Cardinality(Carriers(Change(token, change), t)) = 0
      BY <2>5, <2>10, FundsOfChange
    <3>2. Listing(made) /\ Cardinality(Carriers(made, t)) \in Nat
      BY <1>3, FundsType DEF Listed
    <3>3. Cardinality(Carriers(made \o Change(token, change), t))
          = Cardinality(Carriers(made, t)) + Cardinality(Carriers(Change(token, change), t))
      BY <3>1, <3>2, FundsJoin
    <3>4. Available(Range(chosen), t) = {}
      BY <1>2, <2>2, <2>10 DEF Available
    <3>5. Available(Range(before) \cup Range(chosen), t) = Available(Range(before), t) \cup Available(Range(chosen), t)
      BY DEF Available
    <3>6. Cardinality(Carriers(next.outputs, t)) = Cardinality(Carriers(made, t))
      BY <2>9, <3>1, <3>2, <3>3
    <3> QED
      BY <2>4, <2>9, <3>4, <3>5, <3>6
  <2>11. MovedOnly(token, b, next)
    BY <2>9, <2>10 DEF MovedOnly, before, made
  <2> QED
    BY <2>9, <2>11 DEF next
<1> QED
  BY <1>6, <1>7

-----------------------------------------------------------------------------
(* The actions of a contract call *)

\* What a contract call may ask for.
ActionIs(a) ==
    /\ a.type \in {"deposit", "withdrawal", "grant", "acquire"}
    /\ a.type \in {"deposit", "withdrawal"} => a.amount \in Nat
CreationIs(r) ==
    Creates(r) => r.create.token \in Tokens /\ r.create.amount \in Nat /\ r.create.data \in Nat

\* What an action does to what is being built: outputs of its own token are all it adds.
Acts(b, a, next, available) ==
    /\ Building(next, available)
    /\ \A t : t # a.token => Cardinality(Carriers(next.outputs, t)) = Cardinality(Carriers(b.outputs, t))

LEMMA CreationCosts ==
  ASSUME NEW r, CreationIs(r), Creates(r)
  PROVE  HtrToCreateToken(r.create) \in Nat
<1>1. r.create.token \in Tokens /\ r.create.amount \in Nat /\ r.create.data \in Nat
  BY DEF CreationIs
<1>2. DepositAmount(r.create.amount) \in Nat
  BY <1>1, DepositIsLeast
<1>3. FeePerOutput \in Nat
  BY TxFundsAssumption
<1> QED
  BY <1>1, <1>2, <1>3 DEF HtrToCreateToken, TransactionHTRDeposit, DataFee

LEMMA DepositActs ==
  ASSUME NEW available \in SUBSET KnownUtxos, NEW b, Building(b, available), b.ok,
         NEW r, CreationIs(r), NEW a, a.amount \in Nat
  PROVE  Acts(b, a, ExecuteDeposit(b, a, r, available), available)
<1> DEFINE pays == /\ a.token = HTR
                   /\ Creates(r)
                   /\ ~r.create.contractPaysTokenDeposit
                   /\ ~r.contractPaysFees
           amount == a.amount + (IF pays THEN HtrToCreateToken(r.create) ELSE 0)
           next == ExecuteDeposit(b, a, r, available)
<1>1. PICK e, f : f = (b.feeAdded \/ pays) /\ e = WithFee(b, f)
  OBVIOUS
<1>2. next = SelectInputs(e, a.token, amount, available)
  BY <1>1, Zenon DEF ExecuteDeposit, WithFee
<1>3. amount \in Int
  BY CreationCosts
<1> HIDE DEF pays, amount, next
<1>4. Building(e, available) /\ e.ok = b.ok /\ e.inputs = b.inputs /\ e.outputs = b.outputs
  <2>1. e = WithFee(b, f) /\ Building(b, available)
    BY <1>1
  <2> QED
    BY ONLY <2>1, EditFee
<1>5. Building(next, available) /\ MovedOnly(a.token, e, next)
  BY <1>2, <1>3, <1>4, SelectInputsBuilds
<1>6. Acts(b, a, next, available)
  BY <1>4, <1>5 DEF Acts, MovedOnly
<1> QED
  BY <1>6 DEF next

LEMMA JoinActs ==
  ASSUME NEW available, NEW b, Building(b, available), NEW a, NEW more, Listed(more),
         \A t : t # a.token => Cardinality(Carriers(more, t)) = 0
  PROVE  /\ Listed(b.outputs \o more)
         /\ \A t : t # a.token => Cardinality(Carriers(b.outputs \o more, t)) = Cardinality(Carriers(b.outputs, t))
<1> DEFINE made == b.outputs
<1>1. Listed(made)
  BY DEF Building
<1> HIDE DEF made
<1>2. Listed(made \o more)
  BY <1>1, ListedJoin
<1>3. ASSUME NEW t, t # a.token PROVE Cardinality(Carriers(made \o more, t)) = Cardinality(Carriers(made, t))
  <2>1. Listing(made) /\ Listing(more)
    BY <1>1 DEF Listed
  <2>2. Cardinality(Carriers(made \o more, t)) = Cardinality(Carriers(made, t)) + Cardinality(Carriers(more, t))
    BY <2>1, FundsJoin
  <2>3. Cardinality(Carriers(made, t)) \in Nat
    BY <2>1, FundsType
  <2> QED
    BY <1>3, <2>2, <2>3
<1> QED
  BY <1>2, <1>3 DEF made

\* Outputs that are added.
LEMMA AddsActs ==
  ASSUME NEW available, NEW b, Building(b, available), NEW a, NEW more, Listed(more),
         \A t : t # a.token => Cardinality(Carriers(more, t)) = 0,
         NEW e, e = WithOutputs(b, b.outputs \o more)
  PROVE  Acts(b, a, e, available)
<1>1. PICK o : o = b.outputs \o more
  OBVIOUS
<1>2. Listed(o) /\ \A t : t # a.token => Cardinality(Carriers(o, t)) = Cardinality(Carriers(b.outputs, t))
  BY <1>1, JoinActs
<1>3. e = WithOutputs(b, o)
  BY <1>1
<1>4. Building(e, available) /\ e.ok = b.ok /\ e.inputs = b.inputs /\ e.outputs = o
  BY <1>2, <1>3, EditOutputs
<1> QED
  BY <1>2, <1>4 DEF Acts

LEMMA WithdrawalActs ==
  ASSUME NEW available \in SUBSET KnownUtxos, NEW b, Building(b, available),
         NEW r, CreationIs(r), NEW a, a.amount \in Nat
  PROVE  Acts(b, a, ExecuteWithdrawal(b, a, r), available)
<1> DEFINE taken == IF /\ a.token = HTR
                       /\ Creates(r)
                       /\ r.create.contractPaysTokenDeposit
                       /\ ~CreatesFeeToken(r)
                    THEN HtrToCreateToken(r.create) ELSE 0
           more == Positive(a.token, a.amount - taken, "withdrawal")
           next == ExecuteWithdrawal(b, a, r)
<1>1. next = IF a.amount < taken THEN Stops(b) ELSE WithOutputs(b, b.outputs \o more)
  BY Zenon DEF ExecuteWithdrawal, Stops, WithOutputs
<1>2. taken \in Nat
  BY CreationCosts
<1> HIDE DEF taken, next
<1>3. CASE a.amount < taken
  <2>1. next = Stops(b)
    BY <1>1, <1>3
  <2>2. Building(next, available) /\ next.ok = FALSE /\ next.inputs = b.inputs /\ next.outputs = b.outputs
    BY <2>1, EditOk
  <2> QED
    BY <2>2 DEF Acts, next
<1>4. CASE ~(a.amount < taken)
  <2>1. a.amount - taken \in Nat
    BY <1>2, <1>4
  <2>2. Listed(more) /\ \A t : t # a.token => Cardinality(Carriers(more, t)) = 0
    BY <2>1, ListedMore, FundsOfPositive
  <2> HIDE DEF more
  <2>3. next = WithOutputs(b, b.outputs \o more)
    BY <1>1, <1>4
  <2> QED
    BY <2>2, <2>3, AddsActs DEF next
<1> QED
  BY <1>3, <1>4

LEMMA AcquireActs ==
  ASSUME NEW available, NEW b, Building(b, available), NEW a
  PROVE  Acts(b, a, ExecuteAcquireAuthority(b, a), available)
<1> DEFINE more == <<Authority(a.token, a.authority)>>
           next == ExecuteAcquireAuthority(b, a)
<1>1. more = <<Output(a.token, 0, {a.authority}, "authority")>>
  BY DEF Authority
<1>2. Listed(more) /\ \A t : Cardinality(Carriers(more, t)) = 0
  BY <1>1, ListedOne, FundsOfAuthority
<1>3. next = WithOutputs(b, b.outputs \o more)
  <2>1. next = WithOutputs(b, Append(b.outputs, Authority(a.token, a.authority)))
    BY Zenon DEF ExecuteAcquireAuthority, WithOutputs
  <2>2. b.outputs \in Seq(Range(b.outputs))
    BY DEF Building, Listed, Listing
  <2>3. Append(b.outputs, Authority(a.token, a.authority)) = b.outputs \o more
    BY <2>2
  <2> QED
    BY <2>1, <2>3
<1> HIDE DEF more, next
<1>4. Acts(b, a, next, available)
  BY <1>2, <1>3, AddsActs
<1> QED
  BY <1>4 DEF next

LEMMA GrantActs ==
  ASSUME NEW available \in SUBSET KnownUtxos, NEW b, Building(b, available), NEW a
  PROVE  Acts(b, a, ExecuteGrantAuthority(b, a, available), available)
<1> DEFINE rest == available \ b.marked
           granted == AuthorityUtxos(a.token, a.authority, rest)
           u == Head(granted)
           more == Another(a.another, a.token, a.authority)
           before == b.inputs
           next == ExecuteGrantAuthority(b, a, available)
<1>1. next = IF granted = <<>> THEN Stops(b)
             ELSE Took(b, Append(before, u), b.outputs \o more, b.marked \cup {u})
  BY Zenon DEF ExecuteGrantAuthority, Stops, Took
<1>2. Listed(more) /\ \A t : Cardinality(Carriers(more, t)) = 0
  BY ListedMore, FundsOfAnother
<1>3. rest \in SUBSET KnownUtxos /\ Distinct(before, available) /\ b.marked = Range(before)
  BY DEF Building
<1> HIDE DEF next, more
<1>4. CASE granted = <<>>
  <2>1. next = Stops(b)
    BY <1>1, <1>4
  <2>2. Building(next, available) /\ next.ok = FALSE /\ next.inputs = b.inputs /\ next.outputs = b.outputs
    BY <2>1, EditOk
  <2> QED
    BY <2>2 DEF Acts, next
<1>5. CASE granted # <<>>
  <2>1. u \in rest /\ Distinct(<<u>>, rest) /\ Range(<<u>>) = {u}
    BY <1>3, <1>5, FirstAuthority
  <2>2. u \in available /\ u \notin Range(before)
    BY <1>3, <2>1
  <2> HIDE DEF before, u, granted, rest
  <2>3. Distinct(<<u>>, available)
    BY <2>1, <2>2, DistinctPart DEF Distinct
  <2>4. Range(before) \cap Range(<<u>>) = {}
    BY <2>1, <2>2
  <2> DEFINE i == before \o <<u>>
             o == b.outputs \o more
             m == b.marked \cup {u}
  <2>5. Append(before, u) = i
    BY <1>3 DEF Distinct
  <2>6. Distinct(i, available) /\ m = Range(i)
    BY <1>3, <2>1, <2>3, <2>4, DistinctJoin
  <2>7. Listed(o) /\ \A t : t # a.token => Cardinality(Carriers(o, t)) = Cardinality(Carriers(b.outputs, t))
    BY <1>2, JoinActs
  <2>8. next = Took(b, i, o, m)
    BY <1>1, <1>5, <2>5
  <2> HIDE DEF i, o, m
  <2>9. Building(b, available)
    OBVIOUS
  <2>10. Building(next, available) /\ next.ok = b.ok /\ next.inputs = i /\ next.outputs = o
    BY ONLY <2>6, <2>7, <2>8, <2>9, EditInputs
  <2> QED
    BY <2>7, <2>10 DEF Acts, next
<1> QED
  BY <1>4, <1>5

\* One action of buildInputsOutputs().
Executed(b, a, r, available) ==
    IF ~b.ok THEN b
    ELSE CASE a.type = "deposit" -> ExecuteDeposit(b, a, r, available)
           [] a.type = "withdrawal" -> ExecuteWithdrawal(b, a, r)
           [] a.type = "grant" -> ExecuteGrantAuthority(b, a, available)
           [] a.type = "acquire" -> ExecuteAcquireAuthority(b, a)
NothingBuilt == [ok |-> TRUE, inputs |-> <<>>, outputs |-> <<>>, marked |-> {}, feeAdded |-> FALSE]

\* What BuildInputsOutputs iterates over.
Executes(upTo, r, available) ==
    upTo = [i \in 0..Len(r.actions) |->
              IF i = 0 THEN NothingBuilt ELSE Executed(upTo[i - 1], r.actions[i], r, available)]

LEMMA ExecutedActs ==
  ASSUME NEW available \in SUBSET KnownUtxos, NEW b, Building(b, available),
         NEW r, CreationIs(r), NEW a, ActionIs(a)
  PROVE  Acts(b, a, Executed(b, a, r, available), available)
<1>1. CASE ~b.ok
  <2>1. Executed(b, a, r, available) = b
    BY <1>1 DEF Executed
  <2> QED
    BY <2>1 DEF Acts
<1>2. CASE b.ok
  <2>1. CASE a.type = "deposit"
    <3>1. Executed(b, a, r, available) = ExecuteDeposit(b, a, r, available)
      BY <1>2, <2>1 DEF Executed
    <3>2. a.amount \in Nat
      BY <2>1 DEF ActionIs
    <3> QED
      BY <1>2, <3>1, <3>2, DepositActs
  <2>2. CASE a.type = "withdrawal"
    <3>1. Executed(b, a, r, available) = ExecuteWithdrawal(b, a, r)
      BY <1>2, <2>2 DEF Executed
    <3>2. a.amount \in Nat
      BY <2>2 DEF ActionIs
    <3> QED
      BY <3>1, <3>2, WithdrawalActs
  <2>3. CASE a.type = "grant"
    <3>1. Executed(b, a, r, available) = ExecuteGrantAuthority(b, a, available)
      BY <1>2, <2>3 DEF Executed
    <3> QED
      BY <3>1, GrantActs
  <2>4. CASE a.type = "acquire"
    <3>1. Executed(b, a, r, available) = ExecuteAcquireAuthority(b, a)
      BY <1>2, <2>4 DEF Executed
    <3> QED
      BY <3>1, AcquireActs
  <2> QED
    BY <2>1, <2>2, <2>3, <2>4 DEF ActionIs
<1> QED
  BY <1>1, <1>2 DEF Building

LEMMA ExecutesExists ==
  ASSUME NEW r, Len(r.actions) \in Nat, NEW available
  PROVE  \E upTo : Executes(upTo, r, available)
<1> DEFINE n == Len(r.actions)
           After(g, i) == IF i = 0 THEN NothingBuilt ELSE Executed(g[i - 1], r.actions[i], r, available)
           Reached(g, k) == \A i \in 0..n : i <= k => g[i] = After(g, i)
           N == {k \in Nat : \E g : Reached(g, k)}
<1>1. n \in Nat
  OBVIOUS
<1>2. 0 \in N
  <2> DEFINE g == [i \in 0..n |-> NothingBuilt]
  <2>1. Reached(g, 0)
    <3> SUFFICES ASSUME NEW i \in 0..n, i <= 0 PROVE g[i] = After(g, i)
      OBVIOUS
    <3>1. i = 0
      BY <1>1
    <3> QED
      BY <3>1
  <2> QED
    BY <2>1
<1>3. ASSUME NEW k \in Nat, k \in N PROVE k + 1 \in N
  <2>1. PICK g : Reached(g, k)
    BY <1>3
  <2> DEFINE h == [i \in 0..n |-> IF i <= k THEN g[i] ELSE After(g, i)]
  <2>2. ASSUME NEW i \in 0..n, i <= k + 1 PROVE h[i] = After(h, i)
    <3>1. h[i] = After(g, i)
      <4>1. CASE i <= k
        <5>1. h[i] = g[i]
          BY <4>1
        <5> QED
          BY <2>1, <4>1, <5>1
      <4>2. CASE ~(i <= k)
        BY <4>2
      <4> QED
        BY <4>1, <4>2
    <3>2. CASE i = 0
      BY <3>1, <3>2
    <3>3. CASE i # 0
      <4>1. i - 1 \in 0..n /\ i - 1 <= k
        BY <1>1, <2>2, <3>3
      <4>2. h[i - 1] = g[i - 1]
        BY <4>1
      <4> HIDE DEF h
      <4> QED
        BY <3>1, <3>3, <4>2
    <3> QED
      BY <3>2, <3>3
  <2> HIDE DEF h, After
  <2>3. Reached(h, k + 1)
    BY <2>2
  <2> QED
    BY <2>3
<1>4. Nat \subseteq N
  <2> HIDE DEF N
  <2> QED
    BY <1>2, <1>3, NatSet
<1>5. PICK g : Reached(g, n)
  <2>1. n \in N
    <3> HIDE DEF N
    <3> QED
      BY <1>1, <1>4
  <2> QED
    BY <2>1
<1> DEFINE it == [i \in 0..n |-> g[i]]
<1>6. ASSUME NEW i \in 0..n PROVE it[i] = After(it, i)
  <2>1. i <= n /\ it[i] = g[i]
    BY <1>1
  <2>2. it[i] = After(g, i)
    BY <1>5, <2>1
  <2>3. CASE i = 0
    BY <2>2, <2>3
  <2>4. CASE i # 0
    <3>1. i - 1 \in 0..n
      BY <1>1, <2>4
    <3>2. it[i - 1] = g[i - 1]
      BY <3>1
    <3> HIDE DEF it
    <3> QED
      BY <2>2, <2>4, <3>2
  <2> QED
    BY <2>3, <2>4
<1>7. it = [i \in 0..n |-> it[i]]
  OBVIOUS
<1> HIDE DEF it, After
<1>8. it = [i \in 0..n |-> After(it, i)]
  BY <1>6, <1>7
<1>9. Executes(it, r, available)
  BY <1>8 DEF Executes, After
<1> QED
  BY <1>9

LEMMA BuildUnfolds ==
  ASSUME NEW r, Len(r.actions) \in Nat, NEW available
  PROVE  \E upTo : /\ BuildInputsOutputs(r, available) = upTo[Len(r.actions)]
                   /\ upTo[0] = NothingBuilt
                   /\ \A i \in 1..Len(r.actions) : upTo[i] = Executed(upTo[i - 1], r.actions[i], r, available)
<1> DEFINE n == Len(r.actions)
           it == CHOOSE upTo : Executes(upTo, r, available)
<1>1. BuildInputsOutputs(r, available) = it[n]
  BY Zenon DEF BuildInputsOutputs, Executes, Executed, NothingBuilt
<1>2. Executes(it, r, available)
  BY ExecutesExists
<1> HIDE DEF it
<1>3. n \in Nat
  OBVIOUS
<1>4. \A i \in 0..n :
        it[i] = IF i = 0 THEN NothingBuilt ELSE Executed(it[i - 1], r.actions[i], r, available)
  BY <1>2 DEF Executes
<1>5. 0 \in 0..n /\ \A i \in 1..n : i \in 0..n /\ i # 0
  BY <1>3
<1>6. it[0] = NothingBuilt
  BY <1>4, <1>5
<1>7. \A i \in 1..n : it[i] = Executed(it[i - 1], r.actions[i], r, available)
  BY <1>4, <1>5
<1> QED
  BY <1>1, <1>6, <1>7

\* What a contract call is.
ContractIs(r) ==
    /\ r.actions \in Seq(Range(r.actions)) /\ CreationIs(r)
    /\ \A i \in DOMAIN r.actions : ActionIs(r.actions[i])

\* The actions build what is complete but for the fee and the token to create, and no
\* output of a token without an action.
LEMMA ActionsBuild ==
  ASSUME NEW available \in SUBSET KnownUtxos, NEW r, ContractIs(r)
  PROVE  /\ Building(BuildInputsOutputs(r, available), available)
         /\ \A t : (\A i \in DOMAIN r.actions : r.actions[i].token # t) =>
                   Cardinality(Carriers(BuildInputsOutputs(r, available).outputs, t)) = 0
<1> DEFINE n == Len(r.actions)
           built == BuildInputsOutputs(r, available)
           Unacted(t) == \A i \in DOMAIN r.actions : r.actions[i].token # t
           Good(x) == Building(x, available) /\ \A t : Unacted(t) => Cardinality(Carriers(x.outputs, t)) = 0
<1>1. n \in Nat /\ DOMAIN r.actions = 1..n
  BY DEF ContractIs
<1>2. PICK upTo : /\ built = upTo[n]
                  /\ upTo[0] = NothingBuilt
                  /\ \A i \in 1..n : upTo[i] = Executed(upTo[i - 1], r.actions[i], r, available)
  BY <1>1, BuildUnfolds
<1>3. Good(NothingBuilt)
  <2> DEFINE b == NothingBuilt
  <2>1. b.ok = TRUE /\ b.inputs = <<>> /\ b.outputs = <<>> /\ b.marked = {}
        /\ b = [ok |-> b.ok, inputs |-> b.inputs, outputs |-> b.outputs, marked |-> b.marked, feeAdded |-> b.feeAdded]
    BY DEF NothingBuilt
  <2> HIDE DEF b
  <2>2. Listed(<<>>) /\ \A t : Cardinality(Carriers(<<>>, t)) = 0
    BY FundsOfNone, ListedOne
  <2>3. Distinct(<<>>, available) /\ Range(<<>>) = {}
    BY DistinctNone
  <2>4. Building(b, available) /\ \A t : Cardinality(Carriers(b.outputs, t)) = 0
    BY <2>1, <2>2, <2>3 DEF Building
  <2> QED
    BY <2>4 DEF b
<1> HIDE DEF built, n
<1> DEFINE N == {k \in Nat : k <= n => Good(upTo[k])}
<1> HIDE DEF Good
<1>4. 0 \in N
  BY <1>2, <1>3
<1>5. ASSUME NEW k \in Nat, k \in N PROVE k + 1 \in N
  <2> SUFFICES ASSUME k + 1 <= n PROVE Good(upTo[k + 1])
    OBVIOUS
  <2>1. Good(upTo[k]) /\ k + 1 \in 1..n /\ (k + 1) - 1 = k
    BY <1>1, <1>5
  <2> DEFINE a == r.actions[k + 1]
  <2>2. upTo[k + 1] = Executed(upTo[k], a, r, available)
    BY <1>2, <2>1
  <2>3. ActionIs(a) /\ CreationIs(r) /\ (\A t : Unacted(t) => t # a.token) /\ Building(upTo[k], available)
    BY <1>1, <2>1 DEF ContractIs, Good
  <2> HIDE DEF a, Unacted
  <2>4. Acts(upTo[k], a, upTo[k + 1], available)
    BY <2>2, <2>3, ExecutedActs
  <2> QED
    BY <2>1, <2>3, <2>4 DEF Acts, Good
<1> HIDE DEF N
<1>6. n \in N
  BY <1>1, <1>4, <1>5, NatSet
<1>7. Good(built)
  BY <1>1, <1>2, <1>6 DEF N
<1> QED
  BY <1>7 DEF Good, built

-----------------------------------------------------------------------------
(* What the fee comes out of *)

LEMMA FirstHtrIs ==
  ASSUME NEW outputs, Listed(outputs), NEW kinds, FirstHtr(outputs, kinds) # 0
  PROVE  LET i == FirstHtr(outputs, kinds)
         IN  i \in 1..Len(outputs) /\ outputs[i].token = HTR /\ outputs[i].value \in Nat
<1> DEFINE found == {i \in Carriers(outputs, HTR) : outputs[i].kind \in kinds}
           first == FirstHtr(outputs, kinds)
<1>1. first = IF found = {} THEN 0 ELSE Min(found)
  BY Zenon DEF FirstHtr
<1>2. Carriers(outputs, HTR) \in SUBSET (1..Len(outputs)) /\ Len(outputs) \in Nat
  BY CarriersAreFinite DEF Listed, Listing
<1>3. found \in SUBSET Nat /\ found \in SUBSET Carriers(outputs, HTR)
  BY <1>2
<1> HIDE DEF found, first
<1>4. found # {} /\ first = Min(found)
  BY <1>1 DEF first
<1>5. first \in Carriers(outputs, HTR)
  BY <1>3, <1>4, MinIsLeast
<1>6. first \in 1..Len(outputs) /\ outputs[first].token = HTR
  BY <1>2, <1>5 DEF Carriers
<1>7. outputs[first].value \in Nat
  BY <1>6 DEF Listed, Listing
<1> QED
  BY <1>6, <1>7 DEF first

LEMMA PartListed ==
  ASSUME NEW s, Listed(s), NEW a \in Int, NEW c \in Int, 1 <= a, c <= Len(s)
  PROVE  /\ Listed(SubSeq(s, a, c)) /\ Len(s) \in Nat
         /\ DOMAIN SubSeq(s, a, c) = 1..Len(SubSeq(s, a, c))
         /\ Len(SubSeq(s, a, c)) = IF a <= c THEN c - a + 1 ELSE 0
         /\ \A i \in 1..Len(SubSeq(s, a, c)) : SubSeq(s, a, c)[i] = s[i + a - 1]
<1> DEFINE r == SubSeq(s, a, c)
<1>1. s \in Seq(Range(s)) /\ Len(s) \in Nat /\ DOMAIN s = 1..Len(s)
  BY DEF Listed, Listing
<1>2. r \in Seq(Range(s)) /\ DOMAIN r = 1..Len(r) /\ Len(r) = IF a <= c THEN c - a + 1 ELSE 0
  BY <1>1
<1>3. \A i \in 1..Len(r) : r[i] = s[i + a - 1] /\ i + a - 1 \in 1..Len(s)
  BY <1>1, <1>2
<1>4. \A i \in 1..Len(s) : s[i].value \in Nat /\ IsOutput(s[i])
  BY DEF Listed, Listing
<1> HIDE DEF r
<1>5. \A i \in 1..Len(r) : r[i].value \in Nat /\ IsOutput(r[i])
  BY <1>3, <1>4
<1>6. r \in Seq(Range(r))
  BY <1>2 DEF Range
<1>7. Listed(r)
  BY <1>5, <1>6 DEF Listed, Listing
<1> QED
  BY <1>1, <1>2, <1>3, <1>7 DEF r

\* A list is what comes before one of its elements, the element and what comes after.
LEMMA RemovedIs ==
  ASSUME NEW s, Listed(s), NEW i \in 1..Len(s)
  PROVE  /\ Listed(RemoveAt(s, i))
         /\ \A t : t # s[i].token => Cardinality(Carriers(RemoveAt(s, i), t)) = Cardinality(Carriers(s, t))
<1> DEFINE n == Len(s)
           a == SubSeq(s, 1, i - 1)
           c == SubSeq(s, i + 1, n)
           o == <<s[i]>>
           whole == (a \o o) \o c
<1>1. s \in Seq(Range(s)) /\ n \in Nat /\ DOMAIN s = 1..n /\ s[i].value \in Nat /\ IsOutput(s[i])
  BY DEF Listed, Listing
<1>2. RemoveAt(s, i) = a \o c
  BY <1>1, Zenon DEF RemoveAt
<1>3. /\ Listed(a) /\ Len(a) = i - 1 /\ DOMAIN a = 1..Len(a)
      /\ \A j \in 1..Len(a) : a[j] = s[j]
  <2>1. 1 \in Int /\ i - 1 \in Int /\ 1 <= 1 /\ i - 1 <= Len(s)
    BY <1>1
  <2>2. /\ Listed(a) /\ Len(a) = (IF 1 <= i - 1 THEN i - 1 - 1 + 1 ELSE 0) /\ DOMAIN a = 1..Len(a)
        /\ \A j \in 1..Len(a) : a[j] = s[j + 1 - 1]
    BY <2>1, PartListed
  <2> HIDE DEF a
  <2>3. Len(a) = i - 1
    BY <1>1, <2>2
  <2>4. \A j \in 1..Len(a) : j + 1 - 1 = j
    BY <1>1, <2>3
  <2> QED
    BY <2>2, <2>3, <2>4
<1>4. /\ Listed(c) /\ Len(c) = n - i /\ DOMAIN c = 1..Len(c)
      /\ \A j \in 1..Len(c) : c[j] = s[j + i]
  <2>1. i + 1 \in Int /\ n \in Int /\ 1 <= i + 1 /\ n <= Len(s)
    BY <1>1
  <2>2. /\ Listed(c) /\ Len(c) = (IF i + 1 <= n THEN n - (i + 1) + 1 ELSE 0) /\ DOMAIN c = 1..Len(c)
        /\ \A j \in 1..Len(c) : c[j] = s[j + (i + 1) - 1]
    BY <2>1, PartListed
  <2> HIDE DEF c
  <2>3. Len(c) = n - i
    <3>1. i \in 1..n
      OBVIOUS
    <3> HIDE DEF n
    <3>2. CASE i + 1 <= n
      BY <1>1, <2>2, <3>1, <3>2
    <3>3. CASE ~(i + 1 <= n)
      BY <1>1, <2>2, <3>1, <3>3
    <3> QED
      BY <3>2, <3>3
  <2>4. \A j \in 1..Len(c) : j + (i + 1) - 1 = j + i
    BY <1>1, <2>3
  <2> QED
    BY <2>2, <2>3, <2>4
<1>5. Listed(o) /\ Len(o) = 1 /\ o[1] = s[i]
  <2>1. Listing(o)
    BY <1>1, FundsOfOne
  <2> QED
    BY <1>1, <2>1 DEF Listed
<1> HIDE DEF a, c, o
<1>6. Listed(a \o o) /\ Listed(whole) /\ Listed(a \o c)
  BY <1>3, <1>4, <1>5, ListedJoin
<1>7. /\ Len(a \o o) = i
      /\ (\A j \in 1..Len(a) : (a \o o)[j] = a[j]) /\ (\A j \in 1..1 : (a \o o)[j + Len(a)] = o[j])
  <2>1. /\ Len(a \o o) = Len(a) + Len(o) /\ (\A j \in 1..Len(a) : (a \o o)[j] = a[j])
        /\ \A j \in 1..Len(o) : (a \o o)[j + Len(a)] = o[j]
    <3>1. Listing(a) /\ Listing(o)
      BY <1>3, <1>5 DEF Listed
    <3> QED
      BY <3>1, JoinIs
  <2> QED
    BY <1>1, <1>3, <1>5, <2>1
<1>8. /\ Len(whole) = n /\ DOMAIN whole = 1..n
      /\ (\A j \in 1..i : whole[j] = (a \o o)[j]) /\ \A j \in 1..(n - i) : whole[j + i] = c[j]
  <2> DEFINE b == a \o o
  <2>1. Listed(b) /\ Listed(c) /\ Len(b) = i /\ Len(c) = n - i
    BY <1>4, <1>6, <1>7
  <2> HIDE DEF b
  <2>2. /\ Len(b \o c) = Len(b) + Len(c) /\ DOMAIN (b \o c) = 1..Len(b) + Len(c)
        /\ (\A j \in 1..Len(b) : (b \o c)[j] = b[j])
        /\ \A j \in 1..Len(c) : (b \o c)[j + Len(b)] = c[j]
    <3>1. Listing(b) /\ Listing(c)
      BY <2>1 DEF Listed
    <3> QED
      BY <3>1, JoinIs
  <2>3. i + (n - i) = n
    BY <1>1
  <2>4. /\ Len(b \o c) = n /\ DOMAIN (b \o c) = 1..n
        /\ (\A j \in 1..i : (b \o c)[j] = b[j])
        /\ \A j \in 1..(n - i) : (b \o c)[j + i] = c[j]
    BY <2>1, <2>2, <2>3
  <2> QED
    BY <2>4 DEF b
<1>9. ASSUME NEW j \in 1..n PROVE whole[j] = s[j]
  <2> HIDE DEF whole
  <2>1. CASE j < i
    <3>1. j \in 1..i /\ j \in 1..Len(a)
      BY <1>1, <1>3, <2>1
    <3> QED
      BY <1>3, <1>7, <1>8, <3>1
  <2>2. CASE j = i
    <3>1. i \in 1..i /\ 1 + Len(a) = i /\ 1 \in 1..1
      BY <1>1, <1>3
    <3>2. (a \o o)[1 + Len(a)] = o[1]
      BY <1>7, <3>1
    <3> QED
      BY <1>5, <1>8, <2>2, <3>1, <3>2
  <2>3. CASE j > i
    <3>1. j - i \in 1..(n - i) /\ (j - i) + i = j /\ j - i \in 1..Len(c)
      BY <1>1, <1>4, <2>3
    <3>2. whole[(j - i) + i] = c[j - i] /\ c[j - i] = s[(j - i) + i]
      BY <1>4, <1>8, <3>1
    <3> QED
      BY <3>1, <3>2
  <2> QED
    BY <1>1, <2>1, <2>2, <2>3
<1>10. whole = s
  <2>1. whole \in Seq(Range(whole))
    BY <1>6 DEF Listed, Listing
  <2> HIDE DEF whole
  <2>2. whole = [j \in 1..n |-> whole[j]] /\ s = [j \in 1..n |-> s[j]]
    BY <1>1, <1>8, <2>1
  <2> QED
    BY <1>9, <2>2
<1>11. ASSUME NEW t, t # s[i].token
       PROVE  Cardinality(Carriers(a \o c, t)) = Cardinality(Carriers(s, t))
  <2>1. Listing(a) /\ Listing(o) /\ Listing(c) /\ Listing(a \o o)
    BY <1>3, <1>4, <1>5, <1>6 DEF Listed
  <2>2. Cardinality(Carriers(o, t)) = 0
    BY <1>1, <1>11, FundsOfOne DEF o
  <2>3. /\ Cardinality(Carriers(a, t)) \in Nat /\ Cardinality(Carriers(c, t)) \in Nat
    BY <2>1, FundsType
  <2>4. Cardinality(Carriers(whole, t)) = Cardinality(Carriers(a \o o, t)) + Cardinality(Carriers(c, t))
    BY <2>1, FundsJoin
  <2>5. Cardinality(Carriers(a \o o, t)) = Cardinality(Carriers(a, t)) + Cardinality(Carriers(o, t))
    BY <2>1, FundsJoin
  <2>6. Cardinality(Carriers(a \o c, t)) = Cardinality(Carriers(a, t)) + Cardinality(Carriers(c, t))
    BY <2>1, FundsJoin
  <2> HIDE DEF whole
  <2> QED
    BY <1>10, <2>2, <2>3, <2>4, <2>5, <2>6
<1> QED
  BY <1>2, <1>6, <1>11

\* An output with less value.
Lowered(s, i, v) == [s EXCEPT ![i].value = v]

LEMMA LoweredIs ==
  ASSUME NEW s, Listed(s), NEW i \in 1..Len(s), NEW v \in Nat, NEW next, next = Lowered(s, i, v)
  PROVE  Listed(next) /\ \A t : Carriers(next, t) = Carriers(s, t)
<1> DEFINE n == Len(s)
           o == s[i]
<1>1. s \in Seq(Range(s)) /\ n \in Nat /\ DOMAIN s = 1..n
  BY DEF Listed, Listing
<1>2. \A j \in 1..n : s[j].value \in Nat /\ IsOutput(s[j])
  BY DEF Listed, Listing
<1>3. PICK p : p = [o EXCEPT !.value = v]
  OBVIOUS
<1>4. DOMAIN next = 1..n /\ next[i] = p /\ \A j \in 1..n : j # i => next[j] = s[j]
  BY <1>1, <1>3 DEF Lowered
<1>5. next = [j \in 1..n |-> next[j]]
  BY <1>1 DEF Lowered
<1>6. p = Output(o.token, v, o.authorities, o.kind) /\ p.token = o.token /\ p.authorities = o.authorities
  <2>1. o = Output(o.token, o.value, o.authorities, o.kind)
    BY <1>2 DEF IsOutput
  <2>2. PICK w, x, y, z : w = o.token /\ x = o.value /\ y = o.authorities /\ z = o.kind
    OBVIOUS
  <2>3. o = [token |-> w, value |-> x, authorities |-> y, kind |-> z]
    BY <2>1, <2>2 DEF Output
  <2> HIDE DEF o
  <2>4. p = [token |-> w, value |-> v, authorities |-> y, kind |-> z]
    BY <1>3, <2>3
  <2> QED
    BY <2>2, <2>4 DEF Output
<1>7. p.value = v /\ IsOutput(p)
  BY <1>6 DEF Output, IsOutput
<1> HIDE DEF o
<1>8. \A j \in 1..n : /\ next[j].value \in Nat /\ IsOutput(next[j])
                      /\ next[j].token = s[j].token /\ next[j].authorities = s[j].authorities
  BY <1>2, <1>4, <1>6, <1>7 DEF o
<1>9. next \in Seq(Range(next)) /\ Len(next) = n
  <2>1. \A j \in 1..n : next[j] \in Range(next)
    BY <1>4 DEF Range
  <2>2. next \in [1..n -> Range(next)] /\ n \in Nat
    BY ONLY <1>1, <1>5, <2>1
  <2> HIDE DEF n
  <2> QED
    BY ONLY <2>2
<1>10. Listed(next)
  BY <1>8, <1>9 DEF Listed, Listing
<1>11. \A t : Carriers(next, t) = Carriers(s, t)
  BY <1>1, <1>4, <1>8 DEF Carriers
<1> QED
  BY <1>10, <1>11

LEMMA DeductIs ==
  ASSUME NEW outputs, Listed(outputs), NEW i \in 1..Len(outputs), NEW amount \in Nat
  PROVE  /\ Listed(Deduct(outputs, i, amount))
         /\ \A t : t # outputs[i].token =>
                Cardinality(Carriers(Deduct(outputs, i, amount), t)) = Cardinality(Carriers(outputs, t))
<1> DEFINE next == Deduct(outputs, i, amount)
           left == outputs[i].value - amount
<1>1. outputs[i].value \in Nat
  BY DEF Listed, Listing
<1>2. CASE outputs[i].value > amount
  <2>1. next = Lowered(outputs, i, left) /\ left \in Nat
    <3>1. next = [outputs EXCEPT ![i].value = @ - amount]
      BY <1>2, Zenon DEF Deduct
    <3>2. [outputs EXCEPT ![i].value = @ - amount] = [outputs EXCEPT ![i].value = left]
      BY Zenon
    <3> QED
      BY <1>1, <1>2, <3>1, <3>2 DEF Lowered
  <2> HIDE DEF next, left
  <2>2. Listed(next) /\ \A t : Carriers(next, t) = Carriers(outputs, t)
    <3>1. Listed(outputs) /\ i \in 1..Len(outputs)
      OBVIOUS
    <3> QED
      BY ONLY <2>1, <3>1, LoweredIs
  <2> QED
    BY <2>2 DEF next
<1>3. CASE ~(outputs[i].value > amount)
  <2>1. next = RemoveAt(outputs, i)
    BY <1>3, Zenon DEF Deduct
  <2> QED
    BY <2>1, RemovedIs
<1> QED
  BY <1>2, <1>3

\* What is deducted from a native output.
LEMMA DeductMoves ==
  ASSUME NEW available, NEW b, Building(b, available), NEW i \in 1..Len(b.outputs), b.outputs[i].token = HTR,
         NEW amount \in Nat, NEW next, next = WithOutputs(b, Deduct(b.outputs, i, amount))
  PROVE  Building(next, available) /\ next.ok = b.ok /\ next.inputs = b.inputs /\ MovedOnly(HTR, b, next)
<1>1. PICK made, o : made = b.outputs /\ o = Deduct(made, i, amount)
  OBVIOUS
<1>2. Listed(made) /\ i \in 1..Len(made) /\ made[i].token = HTR /\ Building(b, available) /\ b.ok \in BOOLEAN
  BY <1>1 DEF Building
<1>3. Listed(o) /\ \A t : t # HTR => Cardinality(Carriers(o, t)) = Cardinality(Carriers(made, t))
  <2>1. /\ Listed(Deduct(made, i, amount))
        /\ \A t : t # made[i].token =>
              Cardinality(Carriers(Deduct(made, i, amount), t)) = Cardinality(Carriers(made, t))
    BY <1>2, DeductIs
  <2> QED
    BY <1>1, <1>2, <2>1
<1>4. next = WithOutputs(b, o)
  BY <1>1
<1>5. Building(next, available) /\ next.ok = b.ok /\ next.inputs = b.inputs /\ next.outputs = o
  BY ONLY <1>2, <1>3, <1>4, EditOutputs
<1> QED
  BY <1>1, <1>3, <1>5 DEF MovedOnly

LEMMA DeductFeePays ==
  ASSUME NEW available, NEW b, Building(b, available), NEW total \in Nat
  PROVE  Building(DeductFee(b, total), available) /\ MovedOnly(HTR, b, DeductFee(b, total))
<1> DEFINE i == FirstHtr(b.outputs, {"change", "withdrawal"})
           next == DeductFee(b, total)
<1>1. next = IF i = 0 THEN Stops(b)
             ELSE IF b.outputs[i].value < total THEN Stops(b)
             ELSE WithOutputs(b, Deduct(b.outputs, i, total))
  BY Zenon DEF DeductFee, Stops, WithOutputs
<1>2. ASSUME next = Stops(b) PROVE Building(next, available) /\ MovedOnly(HTR, b, next)
  <2>1. Building(b, available) /\ next = Stops(b)
    BY <1>2
  <2> HIDE DEF next
  <2>2. Building(next, available) /\ next.ok = FALSE /\ next.inputs = b.inputs /\ next.outputs = b.outputs
    BY ONLY <2>1, EditOk
  <2> QED
    BY <2>2 DEF MovedOnly
<1>3. ASSUME i # 0, next = WithOutputs(b, Deduct(b.outputs, i, total))
      PROVE  Building(next, available) /\ MovedOnly(HTR, b, next)
  <2> DEFINE made == b.outputs
  <2>1. Listed(made)
    BY DEF Building
  <2>2. i \in 1..Len(made) /\ made[i].token = HTR
    <3> HIDE DEF made
    <3>1. FirstHtr(made, {"change", "withdrawal"}) # 0
      BY <1>3 DEF made
    <3>2. LET j == FirstHtr(made, {"change", "withdrawal"})
          IN  j \in 1..Len(made) /\ made[j].token = HTR /\ made[j].value \in Nat
      BY <2>1, <3>1, FirstHtrIs
    <3> QED
      BY <3>2 DEF made
  <2>3. i \in 1..Len(b.outputs) /\ b.outputs[i].token = HTR /\ Building(b, available) /\ total \in Nat
    BY <2>2
  <2>4. next = WithOutputs(b, Deduct(b.outputs, i, total))
    BY <1>3
  <2> HIDE DEF i, next, made
  <2>5. Building(next, available) /\ next.ok = b.ok /\ next.inputs = b.inputs /\ MovedOnly(HTR, b, next)
    BY ONLY <2>3, <2>4, DeductMoves
  <2> QED
    BY <2>5
<1> HIDE DEF i, next
<1>4. Building(next, available) /\ MovedOnly(HTR, b, next)
  BY <1>1, <1>2, <1>3
<1> QED
  BY <1>4 DEF next

LEMMA FundFeePays ==
  ASSUME NEW available \in SUBSET KnownUtxos, NEW b, Building(b, available), b.ok, NEW total \in Nat
  PROVE  Building(FundFee(b, total, available), available) /\ MovedOnly(HTR, b, FundFee(b, total, available))
<1> DEFINE i == FirstHtr(b.outputs, {"change"})
           covered == IF i = 0 THEN 0 ELSE Min({b.outputs[i].value, total})
           left == IF i = 0 THEN b ELSE WithOutputs(b, Deduct(b.outputs, i, total))
           next == FundFee(b, total, available)
<1>1. next = IF covered = total THEN left ELSE SelectInputs(left, HTR, total - covered, available)
  BY Zenon DEF FundFee, WithOutputs
<1>2. covered \in Nat /\ Building(left, available) /\ left.ok = b.ok /\ left.inputs = b.inputs /\ MovedOnly(HTR, b, left)
  <2>1. CASE i = 0
    <3>1. covered = 0 /\ left = b
      BY <2>1
    <3>2. Building(b, available) /\ MovedOnly(HTR, b, b)
      BY DEF MovedOnly
    <3> HIDE DEF covered, left
    <3> QED
      BY <3>1, <3>2
  <2>2. CASE i # 0
    <3> DEFINE made == b.outputs
    <3>1. Listed(made)
      BY DEF Building
    <3>2. i \in 1..Len(made) /\ made[i].token = HTR /\ made[i].value \in Nat
      <4> HIDE DEF made
      <4>1. FirstHtr(made, {"change"}) # 0
        BY <2>2 DEF made
      <4>2. LET j == FirstHtr(made, {"change"})
            IN  j \in 1..Len(made) /\ made[j].token = HTR /\ made[j].value \in Nat
        BY <3>1, <4>1, FirstHtrIs
      <4> QED
        BY <4>2 DEF made
    <3>3. i \in 1..Len(b.outputs) /\ b.outputs[i].token = HTR /\ Building(b, available) /\ total \in Nat
      BY <3>2
    <3>4. left = WithOutputs(b, Deduct(b.outputs, i, total)) /\ covered = Min({made[i].value, total})
      BY <2>2
    <3> HIDE DEF i, left, covered, made
    <3>5. Building(left, available) /\ left.ok = b.ok /\ left.inputs = b.inputs /\ MovedOnly(HTR, b, left)
      BY ONLY <3>3, <3>4, DeductMoves
    <3>6. covered \in Nat
      <4>1. {made[i].value, total} \in SUBSET Nat /\ {made[i].value, total} # {}
        BY <3>2
      <4>2. Min({made[i].value, total}) \in {made[i].value, total}
        BY <4>1, MinIsLeast
      <4> QED
        BY <3>4, <4>1, <4>2
    <3> QED
      BY <3>5, <3>6
  <2> QED
    BY <2>1, <2>2
<1> HIDE DEF covered, left, next
<1>3. CASE covered = total
  <2>1. next = left
    BY <1>1, <1>3
  <2> QED
    BY <1>2, <2>1 DEF next
<1>4. CASE covered # total
  <2>1. next = SelectInputs(left, HTR, total - covered, available) /\ total - covered \in Int /\ left.ok
    BY <1>1, <1>2, <1>4
  <2>2. Building(next, available) /\ MovedOnly(HTR, left, next)
    BY <1>2, <2>1, SelectInputsBuilds
  <2>3. MovedOnly(HTR, b, next)
    BY <1>2, <2>2 DEF MovedOnly
  <2> QED
    BY <2>2, <2>3 DEF next
<1> QED
  BY <1>3, <1>4

LEMMA PayFeePays ==
  ASSUME NEW available \in SUBSET KnownUtxos, NEW b, Building(b, available), b.ok, NEW total \in Nat, NEW r
  PROVE  Building(PayFee(b, total, r, available), available) /\ MovedOnly(HTR, b, PayFee(b, total, r, available))
<1> DEFINE next == PayFee(b, total, r, available)
<1>1. next = IF total = 0 THEN b
             ELSE IF r.contractPaysFees THEN DeductFee(b, total)
             ELSE IF b.feeAdded THEN b
             ELSE FundFee(b, total, available)
  BY Zenon DEF PayFee
<1> HIDE DEF next
<1>2. Building(b, available) /\ MovedOnly(HTR, b, b)
  BY DEF MovedOnly
<1>3. Building(DeductFee(b, total), available) /\ MovedOnly(HTR, b, DeductFee(b, total))
  BY DeductFeePays
<1>4. Building(FundFee(b, total, available), available) /\ MovedOnly(HTR, b, FundFee(b, total, available))
  BY FundFeePays
<1>5. Building(next, available) /\ MovedOnly(HTR, b, next)
  BY <1>1, <1>2, <1>3, <1>4
<1> QED
  BY <1>5 DEF next

-----------------------------------------------------------------------------
(* The token that a contract call creates *)

\* A transaction, by its parts.
Complete(spent, paid, fee, actions, tokens, created) ==
    [ok |-> TRUE, inputs |-> spent, outputs |-> paid, fee |-> fee,
     shielded |-> <<>>, actions |-> actions, tokens |-> tokens, created |-> created]

\* Native inputs, and one output of each token that is made.
MakesOnly(spent, paid, made, us) ==
    /\ Distinct(spent, us) /\ Listing(paid)
    /\ \A t : t # HTR => /\ Available(Range(spent), t) = {}
                         /\ Cardinality(Carriers(paid, t)) = IF t \in made THEN 1 ELSE 0

Part(x, made, us) ==
    \/ x = Failed
    \/ \E spent, paid, fee, tokens, created :
        x = Complete(spent, paid, fee, <<>>, tokens, created) /\ MakesOnly(spent, paid, made, us)

LEMMA MintsPart ==
  ASSUME NEW us \in SUBSET KnownUtxos, NEW token \in Tokens, NEW amount \in Nat, NEW another,
         NEW count \in Nat, NEW pays
  PROVE  Part(PrepareMintTxData(token, amount, <<>>, another, count, pays, us), {token}, us)
<1> DEFINE one == <<Output(token, amount, {}, "mint")>>
           more == Another(another, token, "mint")
           minted == one \o more
           data == DataOutputs(count)
           deposit == IF pays THEN 0
                      ELSE IF Version[token] = "deposit" THEN DepositAmount(amount) + count ELSE count
           fee == IF pays \/ Version[token] = "deposit" THEN 0
                  ELSE FeePerOutput * Cardinality(Carriers(minted, token))
           needed == deposit + fee
           cover == Cover(HTR, needed, us)
           x == PrepareMintTxData(token, amount, <<>>, another, count, pays, us)
<1>1. x = IF ~cover.ok THEN Failed
          ELSE [Tx(<<>> \o cover.inputs, cover.outputs \o minted \o data, fee) EXCEPT !.tokens = {token}]
  BY Zenon DEF PrepareMintTxData, TransactionHTRDeposit, DataFee, FeeForMintAndCreate
<1>2. \A k : Listing(one) /\ Cardinality(Carriers(one, k)) = (IF token = k THEN 1 ELSE 0)
  BY FundsOfOutput
<1>3. \A k : Listing(more) /\ Cardinality(Carriers(more, k)) = 0
  BY FundsOfAnother
<1>4. \A k : Listing(data) /\ (k # HTR => Cardinality(Carriers(data, k)) = 0)
  BY FundsOfData
<1> HIDE DEF one, more, data
<1>5. \A k : Listing(minted) /\ Cardinality(Carriers(minted, k)) = (IF token = k THEN 1 ELSE 0)
  BY <1>2, <1>3, JoinIs, FundsJoin
<1> HIDE DEF minted
<1>6. deposit \in Nat
  BY DepositIsLeast
<1>7. fee \in Nat
  BY <1>5, TokensPayFees
<1> HIDE DEF fee, deposit
<1>8. needed \in Nat
  BY <1>6, <1>7
<1> HIDE DEF needed
<1>9. Covers(cover, HTR, needed, us)
  BY <1>8, CoverCovers
<1> HIDE DEF cover, x
<1>10. CASE cover = Failed
  <2>1. x = Failed
    BY <1>1, <1>10 DEF Failed
  <2> QED
    BY <2>1 DEF Part, x
<1>11. CASE cover # Failed
  <2>1. PICK change \in Nat :
            /\ Distinct(cover.inputs, Available(us, HTR))
            /\ Total(Range(cover.inputs)) = needed + change
            /\ cover = [ok |-> TRUE, inputs |-> cover.inputs, outputs |-> Change(HTR, change)]
    BY <1>9, <1>11 DEF Covers
  <2> DEFINE chosen == cover.inputs
             first == Change(HTR, change) \o minted
             paid == first \o data
             spent == <<>> \o chosen
  <2>2. cover.ok = TRUE /\ cover.outputs = Change(HTR, change)
    <3>1. cover = [ok |-> TRUE, inputs |-> chosen, outputs |-> Change(HTR, change)]
      BY <2>1
    <3> HIDE DEF chosen
    <3> QED
      BY <3>1
  <2>3. \A k : Listing(Change(HTR, change)) /\ (k # HTR => Cardinality(Carriers(Change(HTR, change), k)) = 0)
    BY FundsOfChange
  <2>4. \A k : Listing(first) /\ (k # HTR => Cardinality(Carriers(first, k)) = (IF token = k THEN 1 ELSE 0))
    BY <1>5, <2>3, JoinIs, FundsJoin
  <2> HIDE DEF first
  <2>5. \A k : Listing(paid) /\ (k # HTR => Cardinality(Carriers(paid, k)) = (IF token = k THEN 1 ELSE 0))
    BY <1>4, <2>4, JoinIs, FundsJoin
  <2> HIDE DEF chosen
  <2>6. Distinct(chosen, Available(us, HTR)) /\ Available(us, HTR) \in SUBSET us
    BY <2>1, AvailablePart DEF chosen
  <2>7. Distinct(chosen, us) /\ Range(chosen) \in SUBSET Available(us, HTR)
    BY <2>6, DistinctPart
  <2>8. Distinct(<<>>, us) /\ Range(<<>>) = {}
    BY DistinctNone
  <2>9. Distinct(spent, us) /\ Range(spent) = Range(chosen)
    <3>1. Range(<<>>) \cap Range(chosen) = {}
      BY <2>8
    <3>2. Distinct(spent, us) /\ Range(spent) = Range(<<>>) \cup Range(chosen)
      BY <2>7, <2>8, <3>1, DistinctJoin
    <3> QED
      BY <2>8, <3>2
  <2>10. x = [Tx(spent, paid, fee) EXCEPT !.tokens = {token}]
    BY <1>1, <2>2 DEF chosen, first
  <2> HIDE DEF spent, paid
  <2>11. x = Complete(spent, paid, fee, <<>>, {token}, {})
    BY <2>10 DEF Tx, Complete
  <2>12. \A t : t # HTR => Available(Range(spent), t) = {}
    BY <2>7, <2>9 DEF Available
  <2>13. \A t : t # HTR => Cardinality(Carriers(paid, t)) = IF t \in {token} THEN 1 ELSE 0
    BY <2>5
  <2>14. MakesOnly(spent, paid, {token}, us)
    BY <2>5, <2>9, <2>12, <2>13 DEF MakesOnly
  <2> QED
    BY <2>11, <2>14 DEF Part, x
<1> QED
  BY <1>10, <1>11

LEMMA CreatesPart ==
  ASSUME NEW us \in SUBSET KnownUtxos, NEW token \in Tokens, NEW amount \in Nat, NEW mint, NEW melt,
         NEW count \in Nat, NEW pays
  PROVE  Part(PrepareCreateTokenData(token, amount, mint, melt, count, pays, us), {token}, us)
<1> DEFINE more == Another(melt, token, "melt")
           x == PrepareMintTxData(token, amount, <<>>, mint, count, pays, us)
           y == PrepareCreateTokenData(token, amount, mint, melt, count, pays, us)
<1>1. y = IF ~x.ok THEN Failed ELSE [x EXCEPT !.outputs = @ \o more, !.tokens = {}, !.created = {token}]
  BY Zenon DEF PrepareCreateTokenData
<1>2. Part(x, {token}, us)
  BY MintsPart
<1>3. \A k : Listing(more) /\ Cardinality(Carriers(more, k)) = 0
  BY FundsOfAnother
<1> HIDE DEF x, y, more
<1>4. CASE x = Failed
  <2>1. y = Failed
    BY <1>1, <1>4 DEF Failed
  <2> QED
    BY <2>1 DEF Part, y
<1>5. CASE x # Failed
  <2>1. PICK spent, paid, fee, tokens, created :
          x = Complete(spent, paid, fee, <<>>, tokens, created) /\ MakesOnly(spent, paid, {token}, us)
    BY <1>2, <1>5 DEF Part
  <2> DEFINE all == paid \o more
  <2>2. x.ok = TRUE
    BY <2>1 DEF Complete
  <2>3. y = [x EXCEPT !.outputs = @ \o more, !.tokens = {}, !.created = {token}]
    BY <1>1, <2>2
  <2>4. y = Complete(spent, all, fee, <<>>, {}, {token})
    BY <2>1, <2>3 DEF Complete
  <2>5. Listing(paid)
    BY <2>1 DEF MakesOnly
  <2>6. ASSUME NEW k PROVE Listing(all) /\ Cardinality(Carriers(all, k)) = Cardinality(Carriers(paid, k))
    <3>1. Listing(all) /\ Cardinality(Carriers(all, k)) = Cardinality(Carriers(paid, k)) + Cardinality(Carriers(more, k))
      BY <1>3, <2>5, JoinIs, FundsJoin
    <3>2. Cardinality(Carriers(paid, k)) \in Nat
      BY <2>5, FundsType
    <3> QED
      BY <1>3, <3>1, <3>2
  <2> HIDE DEF all
  <2>7. MakesOnly(spent, all, {token}, us)
    BY <2>1, <2>6 DEF MakesOnly
  <2> QED
    BY <2>4, <2>7 DEF Part, y
<1> QED
  BY <1>4, <1>5

\* The tokens that a call creates.
Made(r) == IF Creates(r) THEN {r.create.token} ELSE {}

LEMMA BuildTransactionIs ==
  ASSUME NEW available \in SUBSET KnownUtxos, NEW r, CreationIs(r), NEW b
  PROVE  Part(BuildTransaction(r, b, available), Made(r), available \ b.marked)
<1> DEFINE create == r.create
           pays == \/ r.contractPaysFees
                   \/ CreatesFeeToken(r)
                   \/ create.contractPaysTokenDeposit
                   \/ b.feeAdded
           us == available \ b.marked
           x == BuildTransaction(r, b, available)
<1>1. x = IF Creates(r)
          THEN PrepareCreateTokenData(create.token, create.amount, create.another, create.another,
                                      create.data, pays, us)
          ELSE Tx(<<>>, <<>>, 0)
  BY Zenon DEF BuildTransaction
<1> HIDE DEF pays, x
<1>2. us \in SUBSET KnownUtxos
  OBVIOUS
<1> HIDE DEF us
<1>3. CASE Creates(r)
  <2>1. create.token \in Tokens /\ create.amount \in Nat /\ create.data \in Nat
    BY <1>3 DEF CreationIs
  <2> HIDE DEF create
  <2>2. Part(x, {create.token}, us)
    BY <1>1, <1>2, <1>3, <2>1, CreatesPart
  <2>3. Made(r) = {create.token}
    BY <1>3 DEF Made, create
  <2> QED
    BY <2>2, <2>3 DEF x, us
<1>4. CASE ~Creates(r)
  <2>1. x = Complete(<<>>, <<>>, 0, <<>>, {}, {})
    BY <1>1, <1>4 DEF Tx, Complete
  <2>2. Made(r) = {}
    BY <1>4 DEF Made
  <2>3. Distinct(<<>>, us) /\ Range(<<>>) = {}
    BY DistinctNone
  <2>4. Listing(<<>>) /\ \A t : Cardinality(Carriers(<<>>, t)) = 0
    BY FundsOfNone
  <2>5. \A t : Available({}, t) = {}
    BY DEF Available
  <2>6. MakesOnly(<<>>, <<>>, {}, us)
    BY <2>3, <2>4, <2>5 DEF MakesOnly
  <2>7. Part(x, Made(r), us)
    BY <2>1, <2>2, <2>6 DEF Part
  <2> QED
    BY <2>7 DEF x, us
<1> QED
  BY <1>3, <1>4

-----------------------------------------------------------------------------
(* build() of a contract call *)

\* The fee of a call, and what the builder looks for to pay it.
CallFee(r, built) ==
    CalculateFee(built.inputs, built.outputs, r.actions)
    + (IF CreatesFeeToken(r) THEN FeePerOutput ELSE 0)
CallCost(r, built) == CallFee(r, built) + (IF CreatesFeeToken(r) THEN DataFee(r.create.data) ELSE 0)

\* The custom tokens move as the actions want, and one output of a token that is created.
MovesAs(spent, paid, built, r) ==
    \A t : t # HTR =>
        /\ Cardinality(Carriers(paid, t))
            = Cardinality(Carriers(built.outputs, t)) + (IF t \in Made(r) THEN 1 ELSE 0)
        /\ Available(Range(spent), t) = Available(Range(built.inputs), t)

\* What a call returns, given what its actions build.
Called(x, r, built, available) ==
    \/ x.ok = FALSE /\ (built.ok => x.marked = {})
    \/ \E spent, paid, tokens, created :
        /\ x = Complete(spent, paid, CallFee(r, built), r.actions, tokens, created)
        /\ Distinct(spent, available) /\ Listing(paid) /\ MovesAs(spent, paid, built, r)

Finished(x, p, fee, r) ==
    [x EXCEPT !.inputs = @ \o p.inputs, !.outputs = @ \o p.outputs, !.fee = fee, !.actions = r.actions,
              !.tokens = (@ \cup ActionTokens(r)) \ {HTR}]

LEMMA FinishedIs ==
  ASSUME NEW spent, NEW paid, NEW f, NEW tokens, NEW created, NEW x,
         x = Complete(spent, paid, f, <<>>, tokens, created), NEW p, NEW fee, NEW r
  PROVE  Finished(x, p, fee, r)
         = Complete(spent \o p.inputs, paid \o p.outputs, fee, r.actions,
                    (tokens \cup ActionTokens(r)) \ {HTR}, created)
<1> DEFINE y == Finished(x, p, fee, r)
<1>1. PICK i, o, a, n : i = p.inputs /\ o = p.outputs /\ a = r.actions /\ n = ActionTokens(r)
  OBVIOUS
<1>2. y = [x EXCEPT !.inputs = @ \o i, !.outputs = @ \o o, !.fee = fee, !.actions = a,
                    !.tokens = (@ \cup n) \ {HTR}]
  BY <1>1 DEF Finished
<1> HIDE DEF y
<1>3. y = Complete(spent \o i, paid \o o, fee, a, (tokens \cup n) \ {HTR}, created)
  BY <1>2 DEF Complete
<1> QED
  BY <1>1, <1>3 DEF y

LEMMA CompletesCall ==
  ASSUME NEW available \in SUBSET KnownUtxos, NEW r, NEW built, NEW p, Building(p, available), MovedOnly(HTR, built, p),
         NEW spent, NEW paid, MakesOnly(spent, paid, Made(r), available \ p.marked)
  PROVE  /\ Distinct(spent \o p.inputs, available) /\ Listing(paid \o p.outputs)
         /\ MovesAs(spent \o p.inputs, paid \o p.outputs, built, r)
<1> DEFINE before == p.inputs
           made == p.outputs
           rest == available \ p.marked
<1>1. Distinct(before, available) /\ p.marked = Range(before) /\ Listing(made)
  BY DEF Building, Listed
<1>2. Distinct(spent, rest) /\ Listing(paid) /\ rest \in SUBSET available
  BY DEF MakesOnly
<1>3. Distinct(spent, available) /\ Range(spent) \in SUBSET rest
  BY <1>2, DistinctPart
<1>4. Range(spent) \cap Range(before) = {}
  BY <1>1, <1>3
<1> HIDE DEF before, made, rest
<1>5. Distinct(spent \o before, available) /\ Range(spent \o before) = Range(spent) \cup Range(before)
  BY <1>1, <1>3, <1>4, DistinctJoin
<1>6. Listing(paid \o made)
  BY <1>1, <1>2, JoinIs
<1>7. ASSUME NEW t, t # HTR
      PROVE  /\ Cardinality(Carriers(paid \o made, t))
                = Cardinality(Carriers(built.outputs, t)) + (IF t \in Made(r) THEN 1 ELSE 0)
             /\ Available(Range(spent \o before), t) = Available(Range(built.inputs), t)
  <2>1. Cardinality(Carriers(paid \o made, t)) = Cardinality(Carriers(paid, t)) + Cardinality(Carriers(made, t))
    BY <1>1, <1>2, FundsJoin
  <2>2. Cardinality(Carriers(made, t)) \in Nat
    BY <1>1, FundsType
  <2>3. Cardinality(Carriers(made, t)) = Cardinality(Carriers(built.outputs, t))
        /\ Available(Range(before), t) = Available(Range(built.inputs), t)
    BY <1>7 DEF MovedOnly, before, made
  <2>4. Available(Range(spent), t) = {} /\ Cardinality(Carriers(paid, t)) = (IF t \in Made(r) THEN 1 ELSE 0)
    BY <1>7 DEF MakesOnly
  <2>5. Available(Range(spent) \cup Range(before), t) = Available(Range(spent), t) \cup Available(Range(before), t)
    BY DEF Available
  <2>6. Available(Range(spent \o before), t) = Available(Range(built.inputs), t)
    BY <1>5, <2>3, <2>4, <2>5
  <2>7. Cardinality(Carriers(paid \o made, t))
        = Cardinality(Carriers(built.outputs, t)) + (IF t \in Made(r) THEN 1 ELSE 0)
    BY <2>1, <2>2, <2>3, <2>4
  <2> QED
    BY <2>6, <2>7
<1>8. MovesAs(spent \o before, paid \o made, built, r)
  BY <1>7 DEF MovesAs
<1> QED
  BY <1>5, <1>6, <1>8 DEF before, made

LEMMA CallIs ==
  ASSUME NEW available \in SUBSET KnownUtxos, NEW r, ContractIs(r),
         CallCost(r, BuildInputsOutputs(r, available)) \in Nat
  PROVE  Called(BuildNano(r, available), r, BuildInputsOutputs(r, available), available)
<1> DEFINE built == BuildInputsOutputs(r, available)
           fee == CallFee(r, built)
           cost == CallCost(r, built)
           p == PayFee(built, cost, r, available)
           part == BuildTransaction(r, p, available)
           x == BuildNano(r, available)
<1>1. x = IF ~built.ok THEN FailedBuild(built.marked, <<>>)
          ELSE IF cost > r.maxFee THEN FailedBuild(built.marked, built.inputs)
          ELSE IF ~p.ok THEN FailedBuild(p.marked, built.inputs)
          ELSE IF ~part.ok THEN FailedBuild(p.marked, p.inputs)
          ELSE Finished(part, p, fee, r)
  BY Zenon DEF BuildNano, CallFee, CallCost, Finished
<1>2. Building(built, available) /\ cost \in Nat /\ CreationIs(r)
  BY ActionsBuild DEF ContractIs
<1> HIDE DEF built, fee, cost, x
<1>3. ASSUME built.ok
      PROVE  Building(p, available) /\ MovedOnly(HTR, built, p)
  BY <1>2, <1>3, PayFeePays
<1> HIDE DEF p
<1>4. Part(part, Made(r), available \ p.marked)
  BY <1>2, BuildTransactionIs
<1> HIDE DEF part
<1>5. ASSUME NEW marked, NEW used, marked = Range(used)
      PROVE  FailedBuild(marked, used).ok = FALSE /\ FailedBuild(marked, used).marked = {}
  BY <1>5 DEF FailedBuild
<1>6. CASE ~built.ok
  <2>1. x.ok = FALSE
    BY <1>1, <1>6 DEF FailedBuild
  <2> QED
    BY <1>6, <2>1 DEF Called, x, built
<1>7. CASE built.ok /\ cost > r.maxFee
  <2>1. x = FailedBuild(built.marked, built.inputs) /\ built.marked = Range(built.inputs)
    BY <1>1, <1>2, <1>7 DEF Building
  <2>2. x.ok = FALSE /\ x.marked = {}
    BY <1>5, <2>1
  <2> QED
    BY <2>2 DEF Called, x, built
<1>8. CASE built.ok /\ ~(cost > r.maxFee) /\ ~p.ok
  <2>1. x = FailedBuild(p.marked, built.inputs) /\ p.marked = Range(built.inputs)
    BY <1>1, <1>3, <1>8 DEF Building, MovedOnly
  <2>2. x.ok = FALSE /\ x.marked = {}
    BY <1>5, <2>1
  <2> QED
    BY <2>2 DEF Called, x, built
<1>9. CASE built.ok /\ ~(cost > r.maxFee) /\ p.ok /\ ~part.ok
  <2>1. x = FailedBuild(p.marked, p.inputs) /\ p.marked = Range(p.inputs)
    BY <1>1, <1>3, <1>9 DEF Building
  <2>2. x.ok = FALSE /\ x.marked = {}
    BY <1>5, <2>1
  <2> QED
    BY <2>2 DEF Called, x, built
<1>10. CASE built.ok /\ ~(cost > r.maxFee) /\ p.ok /\ part.ok
  <2>1. x = Finished(part, p, fee, r)
    BY <1>1, <1>10
  <2>2. part # Failed
    BY <1>10 DEF Failed
  <2>3. PICK spent, paid, f, tokens, created :
          /\ part = Complete(spent, paid, f, <<>>, tokens, created)
          /\ MakesOnly(spent, paid, Made(r), available \ p.marked)
    BY <1>4, <2>2 DEF Part
  <2>4. x = Complete(spent \o p.inputs, paid \o p.outputs, fee, r.actions,
                     (tokens \cup ActionTokens(r)) \ {HTR}, created)
    <3>1. part = Complete(spent, paid, f, <<>>, tokens, created)
      BY <2>3
    <3> QED
      BY ONLY <2>1, <3>1, FinishedIs
  <2>5. Building(p, available) /\ MovedOnly(HTR, built, p) /\ available \in SUBSET KnownUtxos
    BY <1>3, <1>10
  <2>6. /\ Distinct(spent \o p.inputs, available) /\ Listing(paid \o p.outputs)
        /\ MovesAs(spent \o p.inputs, paid \o p.outputs, built, r)
    BY ONLY <2>3, <2>5, CompletesCall
  <2>7. Called(x, r, built, available)
    <3>1. PICK s, o, n : s = spent \o p.inputs /\ o = paid \o p.outputs /\ n = (tokens \cup ActionTokens(r)) \ {HTR}
      OBVIOUS
    <3>2. /\ x = Complete(s, o, CallFee(r, built), r.actions, n, created)
          /\ Distinct(s, available) /\ Listing(o) /\ MovesAs(s, o, built, r)
      BY <2>4, <2>6, <3>1 DEF fee
    <3> QED
      BY <3>2, Zenon DEF Called
  <2> QED
    BY <2>7 DEF x, built
<1> QED
  BY <1>6, <1>7, <1>8, <1>9, <1>10

-----------------------------------------------------------------------------
(* The fee of a contract call *)

ActionsOf(actions, type, t) == {i \in DOMAIN actions : actions[i].type = type /\ actions[i].token = t}

\* What is due for a token, with the actions.
DueOfCall(us, paid, actions, t) ==
    LET out == Cardinality(Carriers(paid, t)) + Cardinality(ActionsOf(actions, "deposit", t))
    IN  IF out > 0 THEN out
        ELSE IF Available(us, t) # {} \/ ActionsOf(actions, "withdrawal", t) # {} THEN 1 ELSE 0

LEMMA ActionsAreFinite ==
  ASSUME NEW actions, actions \in Seq(Range(actions)), NEW type, NEW t
  PROVE  /\ Cardinality(ActionsOf(actions, type, t)) \in Nat
         /\ Cardinality(ActionsOf(actions, type, t)) = 0 <=> ActionsOf(actions, type, t) = {}
<1>1. DOMAIN actions = 1..Len(actions) /\ Len(actions) \in Nat
  OBVIOUS
<1>2. IsFiniteSet(DOMAIN actions)
  BY <1>1, FS_Interval
<1>3. IsFiniteSet(ActionsOf(actions, type, t))
  BY <1>2, FS_Subset DEF ActionsOf
<1> QED
  BY <1>3, FS_CardinalityType, FS_EmptySet

LEMMA DueOfCallType ==
  ASSUME NEW us, NEW paid, Listing(paid), NEW actions, actions \in Seq(Range(actions)), NEW t
  PROVE  DueOfCall(us, paid, actions, t) \in Nat
<1>1. Cardinality(Carriers(paid, t)) \in Nat
  BY FundsType
<1>2. Cardinality(ActionsOf(actions, "deposit", t)) \in Nat
  BY ActionsAreFinite
<1> QED
  BY <1>1, <1>2 DEF DueOfCall

LEMMA CalculatedFeeOfCall ==
  ASSUME NEW spent, Distinct(spent, KnownUtxos), NEW paid, Listing(paid),
         NEW actions, actions \in Seq(Range(actions))
  PROVE  /\ CalculateFee(spent, paid, actions)
            = FeePerOutput * SumFunctionOnSet([t \in FeeTokens |-> DueOfCall(Range(spent), paid, actions, t)], FeeTokens)
         /\ SumFunctionOnSet([t \in FeeTokens |-> DueOfCall(Range(spent), paid, actions, t)], FeeTokens) \in Nat
<1> DEFINE DueOf(t) ==
             LET out == Cardinality(Carriers(paid, t)) + Cardinality(ActionsOf(actions, "deposit", t))
             IN  IF out > 0 THEN out
                 ELSE IF Carriers(SpentOutputs(spent), t) # {} \/ ActionsOf(actions, "withdrawal", t) # {}
                 THEN 1 ELSE 0
           f == [t \in FeeTokens |-> DueOf(t)]
           g == [t \in FeeTokens |-> DueOfCall(Range(spent), paid, actions, t)]
<1>1. CalculateFee(spent, paid, actions) = FeePerOutput * SumFunction(f)
  BY Zenon DEF CalculateFee, ActionsOf
<1>2. \A t : DueOf(t) = DueOfCall(Range(spent), paid, actions, t)
  <2> SUFFICES ASSUME NEW t PROVE DueOf(t) = DueOfCall(Range(spent), paid, actions, t)
    OBVIOUS
  <2>1. Carriers(SpentOutputs(spent), t) = {} <=> Available(Range(spent), t) = {}
    BY ReceivedIs
  <2> QED
    BY <2>1 DEF DueOfCall
<1>3. f = g
  BY <1>2
<1>4. SumFunction(g) = SumFunctionOnSet(g, FeeTokens)
  BY Zenon DEF SumFunction
<1>5. \A t \in FeeTokens : g[t] \in Nat
  BY DueOfCallType
<1> HIDE DEF f, g
<1>6. CalculateFee(spent, paid, actions) = FeePerOutput * SumFunctionOnSet(g, FeeTokens)
  BY <1>1, <1>3, <1>4
<1>7. SumFunctionOnSet(g, FeeTokens) \in Nat
  BY <1>5, TokensPayFees, SumNat
<1> QED
  BY <1>6, <1>7 DEF g

\* The larger of two numbers, the second one at most 1.
LEMMA MostOf ==
  ASSUME NEW m \in Nat, NEW k \in Nat
  PROVE  Max({m, Min({k, 1})}) = IF m > 0 THEN m ELSE IF k = 0 THEN 0 ELSE 1
<1> DEFINE low == Min({k, 1})
<1>1. low = IF k = 0 THEN 0 ELSE 1
  <2>1. {k, 1} \in SUBSET Nat /\ {k, 1} # {}
    OBVIOUS
  <2>2. Min({k, 1}) \in {k, 1} /\ \A n \in {k, 1} : Min({k, 1}) <= n
    BY <2>1, MinIsLeast
  <2> QED
    BY <2>2
<1> HIDE DEF low
<1>2. Max({m, low}) \in {m, low} /\ \A j \in {m, low} : j <= Max({m, low})
  <2>1. \E h \in {m, low} : \A j \in {m, low} : j <= h
    <3>1. CASE m <= low
      BY <1>1, <3>1
    <3>2. CASE ~(m <= low)
      BY <1>1, <3>2
    <3> QED
      BY <3>1, <3>2
  <2> QED
    BY <2>1 DEF Max
<1>3. /\ Max({m, low}) \in Nat /\ (Max({m, low}) = m \/ Max({m, low}) = low)
      /\ m <= Max({m, low}) /\ low <= Max({m, low})
  BY <1>1, <1>2
<1>4. Max({m, low}) = IF m > 0 THEN m ELSE IF k = 0 THEN 0 ELSE 1
  BY <1>1, <1>3
<1> QED
  BY <1>4 DEF low

LEMMA FeeDueOfCall ==
  ASSUME NEW x, Distinct(x.inputs, KnownUtxos), Listing(x.outputs), x.actions \in Seq(Range(x.actions)),
         NEW t \in Tokens
  PROVE  FeeDue(x, t) = IF t \in FeeTokens THEN FeePerOutput * DueOfCall(Range(x.inputs), x.outputs, x.actions, t)
                        ELSE 0
<1> DEFINE us == Range(x.inputs)
           came == Cardinality(Available(us, t))
           out == Cardinality(Carriers(x.outputs, t))
           deposits == Cardinality(ActionsOf(x.actions, "deposit", t))
           withdrawals == Cardinality(ActionsOf(x.actions, "withdrawal", t))
           given == Cardinality(Carriers(SpentOutputs(x.inputs), t)) + withdrawals
           paid == out + deposits
           due == DueOfCall(us, x.outputs, x.actions, t)
<1>1. FeeDue(x, t) = IF t \in Tokens /\ Version[t] = "fee" THEN FeePerOutput * Max({paid, Min({given, 1})}) ELSE 0
  BY Zenon DEF FeeDue, ActionsOf
<1>2. out \in Nat
  BY FundsType
<1>3. /\ deposits \in Nat /\ withdrawals \in Nat
      /\ withdrawals = 0 <=> ActionsOf(x.actions, "withdrawal", t) = {}
  BY ActionsAreFinite
<1>4. Cardinality(Carriers(SpentOutputs(x.inputs), t)) = came
  BY ReceivedIs
<1>5. came \in Nat /\ (came = 0 <=> Available(us, t) = {})
  <2>1. IsFiniteSet(us)
    BY DistinctIsBijection
  <2> HIDE DEF us
  <2>2. IsFiniteSet(Available(us, t))
    BY <2>1, AvailablePart, FS_Subset
  <2> QED
    BY <2>2, FS_CardinalityType, FS_EmptySet
<1>6. due = IF paid > 0 THEN paid
            ELSE IF Available(us, t) # {} \/ ActionsOf(x.actions, "withdrawal", t) # {} THEN 1 ELSE 0
  BY Zenon DEF DueOfCall
<1> HIDE DEF us, came, out, deposits, withdrawals, due
<1>7. given = came + withdrawals /\ given \in Nat /\ paid \in Nat
  BY <1>2, <1>3, <1>4, <1>5
<1> HIDE DEF given, paid
<1>8. Max({paid, Min({given, 1})}) = IF paid > 0 THEN paid ELSE IF given = 0 THEN 0 ELSE 1
  BY <1>7, MostOf
<1>9. given = 0 <=> ~(Available(us, t) # {} \/ ActionsOf(x.actions, "withdrawal", t) # {})
  BY <1>3, <1>5, <1>7
<1>10. Max({paid, Min({given, 1})}) = due
  BY <1>6, <1>8, <1>9
<1>11. FeeDue(x, t) = IF t \in FeeTokens THEN FeePerOutput * due ELSE 0
  BY <1>1, <1>10 DEF FeeTokens
<1> QED
  BY <1>11 DEF due, us

\* The fee that is due for a call.
LEMMA FeeIsDueOfCall ==
  ASSUME NEW x, Distinct(x.inputs, KnownUtxos), Listing(x.outputs), x.actions \in Seq(Range(x.actions))
  PROVE  SumFunction([t \in Tokens |-> FeeDue(x, t)])
         = FeePerOutput * SumFunctionOnSet([t \in FeeTokens |-> DueOfCall(Range(x.inputs), x.outputs, x.actions, t)],
                                           FeeTokens)
<1> DEFINE f == [t \in Tokens |-> FeeDue(x, t)]
           due(t) == DueOfCall(Range(x.inputs), x.outputs, x.actions, t)
           g == [t \in FeeTokens |-> due(t)]
<1>1. \A t \in Tokens : FeeDue(x, t) = (IF t \in FeeTokens THEN FeePerOutput * due(t) ELSE 0) /\ due(t) \in Nat
  <2>1. ASSUME NEW t \in Tokens PROVE FeeDue(x, t) = IF t \in FeeTokens THEN FeePerOutput * due(t) ELSE 0
    BY FeeDueOfCall
  <2>2. ASSUME NEW t \in Tokens PROVE due(t) \in Nat
    BY DueOfCallType
  <2> QED
    BY <2>1, <2>2
<1> HIDE DEF due
<1>2. /\ FeeTokens \in SUBSET Tokens /\ IsFiniteSet(FeeTokens) /\ FeePerOutput \in Nat /\ IsFiniteSet(Tokens)
  BY TokensPayFees, KnownUtxosAreFinite
<1>3. \A t \in FeeTokens : f[t] = FeePerOutput * g[t] /\ g[t] \in Nat
  BY <1>1, <1>2
<1>4. \A t \in Tokens : f[t] \in Int
  BY <1>1, <1>2
<1>5. \A t \in Tokens \ FeeTokens : f[t] = 0
  BY <1>1
<1>6. SumFunction(f) = SumFunctionOnSet(f, Tokens)
  BY Zenon DEF SumFunction
<1> HIDE DEF f, g
<1>7. SumFunctionOnSet(f, Tokens) = SumFunctionOnSet(f, FeeTokens)
  BY <1>2, <1>4, <1>5, SumZeros
<1>8. SumFunctionOnSet(f, FeeTokens) = FeePerOutput * SumFunctionOnSet(g, FeeTokens)
  BY <1>2, <1>3, SumScaled
<1> QED
  BY <1>6, <1>7, <1>8 DEF f, g, due

\* The token that the call creates is new: no action and no utxo is of it.
IsFresh(r, available) ==
    Creates(r) =>
        /\ \A i \in DOMAIN r.actions : r.actions[i].token # r.create.token
        /\ \A u \in available : UtxoOf[u].token # r.create.token

LEMMA DueOfTheCall ==
  ASSUME NEW available \in SUBSET KnownUtxos, NEW r, ContractIs(r), IsFresh(r, available),
         NEW built, built = BuildInputsOutputs(r, available),
         NEW spent, NEW paid, MovesAs(spent, paid, built, r), NEW t \in FeeTokens
  PROVE  DueOfCall(Range(spent), paid, r.actions, t)
         = DueOfCall(Range(built.inputs), built.outputs, r.actions, t) + (IF t \in Made(r) THEN 1 ELSE 0)
<1> DEFINE out == Cardinality(Carriers(paid, t))
           before == Cardinality(Carriers(built.outputs, t))
           deposits == Cardinality(ActionsOf(r.actions, "deposit", t))
           came == Available(Range(spent), t) # {}
           had == Available(Range(built.inputs), t) # {}
           withdrawn == ActionsOf(r.actions, "withdrawal", t) # {}
           late == DueOfCall(Range(spent), paid, r.actions, t)
           early == DueOfCall(Range(built.inputs), built.outputs, r.actions, t)
<1>1. t # HTR
  BY TokensPayFees
<1>2. out = before + (IF t \in Made(r) THEN 1 ELSE 0) /\ (came <=> had)
  BY <1>1 DEF MovesAs
<1>3. /\ Building(built, available)
      /\ (\A i \in DOMAIN r.actions : r.actions[i].token # t) => before = 0
  BY ActionsBuild
<1>4. r.actions \in Seq(Range(r.actions))
  BY DEF ContractIs
<1>5. before \in Nat
  BY <1>3, FundsType DEF Building, Listed
<1>6. deposits \in Nat
  BY <1>4, ActionsAreFinite
<1>7. /\ late = IF out + deposits > 0 THEN out + deposits ELSE IF came \/ withdrawn THEN 1 ELSE 0
      /\ early = IF before + deposits > 0 THEN before + deposits ELSE IF had \/ withdrawn THEN 1 ELSE 0
  BY Zenon DEF DueOfCall
<1>8. early \in Nat
  BY <1>3, <1>4, DueOfCallType DEF Building, Listed
<1>9. ASSUME t \in Made(r)
      PROVE  before = 0 /\ deposits = 0 /\ ~had /\ ~withdrawn
  <2>1. Creates(r) /\ t = r.create.token
    BY <1>9 DEF Made
  <2>2. \A i \in DOMAIN r.actions : r.actions[i].token # t
    BY <2>1 DEF IsFresh
  <2>3. \A type : ActionsOf(r.actions, type, t) = {}
    BY <2>2 DEF ActionsOf
  <2>4. deposits = 0
    BY <2>3, FS_EmptySet
  <2>5. ~had
    <3>1. Range(built.inputs) \in SUBSET available
      BY <1>3 DEF Building, Distinct, Range
    <3> QED
      BY <2>1, <3>1 DEF IsFresh, Available
  <2> QED
    BY <1>3, <2>2, <2>3, <2>4, <2>5
<1> HIDE DEF out, before, deposits, came, had, withdrawn, late, early
<1>10. CASE t \in Made(r)
  <2>1. late = 1 /\ early = 0
    BY <1>2, <1>7, <1>9, <1>10
  <2> QED
    BY <1>10, <2>1 DEF late, early
<1>11. CASE t \notin Made(r)
  <2>1. out = before
    BY <1>2, <1>5, <1>11
  <2>2. late = early
    BY <1>2, <1>7, <2>1
  <2> QED
    BY <1>8, <1>11, <2>2 DEF late, early
<1> QED
  BY <1>10, <1>11

LEMMA CallFeeType ==
  ASSUME NEW available \in SUBSET KnownUtxos, NEW r, ContractIs(r),
         NEW built, built = BuildInputsOutputs(r, available)
  PROVE  /\ CallFee(r, built) = FeePerOutput * SumFunctionOnSet(
                [t \in FeeTokens |-> DueOfCall(Range(built.inputs), built.outputs, r.actions, t)], FeeTokens)
              + (IF CreatesFeeToken(r) THEN FeePerOutput ELSE 0)
         /\ CallFee(r, built) \in Nat /\ CallCost(r, built) \in Nat
         /\ SumFunctionOnSet([t \in FeeTokens |-> DueOfCall(Range(built.inputs), built.outputs, r.actions, t)],
                             FeeTokens) \in Nat
<1> DEFINE spent == built.inputs
           paid == built.outputs
           actions == r.actions
           sum == SumFunctionOnSet([t \in FeeTokens |-> DueOfCall(Range(spent), paid, actions, t)], FeeTokens)
           fee == CalculateFee(spent, paid, actions)
<1>1. Building(built, available) /\ actions \in Seq(Range(actions)) /\ CreationIs(r)
  BY ActionsBuild DEF ContractIs
<1>2. Distinct(spent, available) /\ Listing(paid)
  BY <1>1 DEF Building, Listed
<1> HIDE DEF spent, paid, actions
<1>3. Distinct(spent, KnownUtxos)
  BY <1>2, DistinctPart
<1>4. fee = FeePerOutput * sum /\ sum \in Nat
  BY <1>1, <1>2, <1>3, CalculatedFeeOfCall
<1>5. CallFee(r, built) = fee + (IF CreatesFeeToken(r) THEN FeePerOutput ELSE 0)
  BY DEF CallFee, spent, paid, actions
<1>6. CallCost(r, built) = CallFee(r, built) + (IF CreatesFeeToken(r) THEN r.create.data ELSE 0)
  BY DEF CallCost, DataFee
<1>7. CreatesFeeToken(r) => r.create.data \in Nat
  BY <1>1 DEF CreationIs, CreatesFeeToken
<1>8. FeePerOutput \in Nat
  BY TokensPayFees
<1> HIDE DEF sum, fee
<1>9. FeePerOutput * sum \in Nat
  BY <1>4, <1>8
<1>10. CallFee(r, built) = FeePerOutput * sum + (IF CreatesFeeToken(r) THEN FeePerOutput ELSE 0)
       /\ CallFee(r, built) \in Nat /\ CallCost(r, built) \in Nat
  <2> DEFINE k == FeePerOutput * sum
  <2>1. k \in Nat /\ fee = k
    BY <1>4, <1>9
  <2> HIDE DEF k
  <2>2. CallFee(r, built) = k + (IF CreatesFeeToken(r) THEN FeePerOutput ELSE 0) /\ CallFee(r, built) \in Nat
    BY <1>5, <1>8, <2>1
  <2>3. CallCost(r, built) \in Nat
    BY <1>6, <1>7, <2>2
  <2> QED
    BY <2>2, <2>3 DEF k
<1> QED
  BY <1>4, <1>10 DEF sum, spent, paid, actions

\* The fee of a call is what is due for its transaction.
LEMMA CallFeeIsRight ==
  ASSUME NEW available \in SUBSET KnownUtxos, NEW r, ContractIs(r), IsFresh(r, available),
         NEW built, built = BuildInputsOutputs(r, available),
         NEW spent, NEW paid, NEW tokens, NEW created, Distinct(spent, available), Listing(paid),
         MovesAs(spent, paid, built, r),
         NEW x, x = Complete(spent, paid, CallFee(r, built), r.actions, tokens, created)
  PROVE  FeeIsRight(x)
<1> DEFINE late(t) == DueOfCall(Range(spent), paid, r.actions, t)
           early(t) == DueOfCall(Range(built.inputs), built.outputs, r.actions, t)
           f == [t \in FeeTokens |-> late(t)]
           g == [t \in FeeTokens |-> early(t)]
           S == SumFunctionOnSet(f, FeeTokens)
           T == SumFunctionOnSet(g, FeeTokens)
           sum == SumFunction([t \in Tokens |-> FeeDue(x, t)])
<1>1. /\ x.inputs = spent /\ x.outputs = paid /\ x.fee = CallFee(r, built) /\ x.actions = r.actions
      /\ x.shielded = <<>>
  BY DEF Complete
<1>2. r.actions \in Seq(Range(r.actions)) /\ CreationIs(r)
  BY DEF ContractIs
<1>3. Distinct(spent, KnownUtxos)
  BY DistinctPart
<1>4. sum = FeePerOutput * S
  <2>1. /\ Distinct(x.inputs, KnownUtxos) /\ Listing(x.outputs) /\ x.actions \in Seq(Range(x.actions))
    BY <1>1, <1>2, <1>3
  <2>2. sum = FeePerOutput * SumFunctionOnSet(
                  [t \in FeeTokens |-> DueOfCall(Range(x.inputs), x.outputs, x.actions, t)], FeeTokens)
    BY <2>1, FeeIsDueOfCall
  <2> QED
    BY <1>1, <2>2
<1>5. /\ CallFee(r, built) = FeePerOutput * T + (IF CreatesFeeToken(r) THEN FeePerOutput ELSE 0)
      /\ CallFee(r, built) \in Nat /\ T \in Nat
  BY CallFeeType
<1>6. \A t \in FeeTokens : late(t) = early(t) + (IF t \in Made(r) THEN 1 ELSE 0) /\ early(t) \in Nat
  <2>1. ASSUME NEW t \in FeeTokens PROVE late(t) = early(t) + (IF t \in Made(r) THEN 1 ELSE 0)
    BY DueOfTheCall
  <2>2. ASSUME NEW t \in FeeTokens PROVE early(t) \in Nat
    <3>1. Listing(built.outputs)
      BY ActionsBuild DEF Building, Listed
    <3> QED
      BY <1>2, <3>1, DueOfCallType
  <2> QED
    BY <2>1, <2>2
<1> HIDE DEF late, early, sum
<1>7. \A t \in FeeTokens : f[t] = g[t] + (IF t \in Made(r) THEN 1 ELSE 0) /\ g[t] \in Nat
  BY <1>6
<1>8. IsFiniteSet(FeeTokens) /\ FeePerOutput \in Nat
  BY TokensPayFees
<1> HIDE DEF f, g
<1>9. S = T + (IF CreatesFeeToken(r) THEN 1 ELSE 0)
  <2>1. CASE CreatesFeeToken(r)
    <3> DEFINE c == r.create.token
    <3>1. c \in FeeTokens /\ Made(r) = {c}
      BY <1>2, <2>1 DEF CreatesFeeToken, CreationIs, FeeTokens, Made
    <3> HIDE DEF c
    <3> DEFINE rest == FeeTokens \ {c}
    <3>2. /\ \A t \in FeeTokens : f[t] \in Int /\ g[t] \in Int
          /\ f[c] = g[c] + 1 /\ \A t \in rest : f[t] \in Int /\ f[t] = g[t]
      BY <1>7, <3>1
    <3>3. IsFiniteSet(rest)
      BY <1>8, FS_Subset
    <3> HIDE DEF rest
    <3>4. SumFunctionOnSet(f, rest) = SumFunctionOnSet(g, rest)
      BY <3>2, <3>3, SumAgree
    <3>5. S = f[c] + SumFunctionOnSet(f, rest) /\ T = g[c] + SumFunctionOnSet(g, rest)
      BY <1>8, <3>1, <3>2, SumRemove DEF rest
    <3>6. SumFunctionOnSet(g, rest) \in Int /\ g[c] \in Int
      <4>1. \A t \in rest : g[t] \in Int
        BY <3>2 DEF rest
      <4> QED
        BY <3>1, <3>2, <3>3, <4>1, SumInt
    <3> HIDE DEF S, T
    <3> QED
      BY <2>1, <3>2, <3>4, <3>5, <3>6
  <2>2. CASE ~CreatesFeeToken(r)
    <3>1. \A t \in FeeTokens : t \notin Made(r)
      BY <2>2 DEF CreatesFeeToken, FeeTokens, Made
    <3>2. \A t \in FeeTokens : f[t] \in Int /\ f[t] = g[t]
      BY <1>7, <3>1
    <3>3. S = T
      BY <1>8, <3>2, SumAgree
    <3> HIDE DEF S, T
    <3> QED
      BY <1>5, <2>2, <3>3
  <2> QED
    BY <2>1, <2>2
<1> HIDE DEF S, T
<1>10. FeePerOutput * S = CallFee(r, built)
  <2>1. CASE CreatesFeeToken(r)
    <3>1. FeePerOutput * (T + 1) = FeePerOutput * T + FeePerOutput
      BY <1>5, <1>8
    <3> QED
      BY <1>5, <1>9, <2>1, <3>1
  <2>2. CASE ~CreatesFeeToken(r)
    <3>1. S = T /\ FeePerOutput * T \in Int
      BY <1>5, <1>8, <1>9, <2>2
    <3> QED
      BY <1>5, <2>2, <3>1
  <2> QED
    BY <2>1, <2>2
<1>11. x.fee = sum + ShieldedFees(x.shielded)
  BY <1>1, <1>4, <1>5, <1>10, NothingShielded
<1> QED
  BY <1>11 DEF FeeIsRight, sum

-----------------------------------------------------------------------------
(* What the calls return *)

LEMMA CallRequestIs ==
  ASSUME NEW r \in Requests, r.builder = "nano", NEW available \in SUBSET r.wallet
  PROVE  available \in SUBSET KnownUtxos /\ ContractIs(r) /\ IsFresh(r, available)
<1>1. r.wallet \subseteq KnownUtxos
  BY RequestIs
<1>2. /\ r.actions \in Seq(Range(r.actions))
      /\ \A i \in DOMAIN r.actions :
            /\ r.actions[i].type \in {"deposit", "withdrawal", "grant", "acquire"}
            /\ r.actions[i].type \in {"deposit", "withdrawal"} => r.actions[i].amount \in Nat
      /\ Creates(r) =>
            /\ r.create.token \in Tokens /\ r.create.amount \in Nat /\ r.create.data \in Nat
            /\ \A i \in DOMAIN r.actions : r.actions[i].token # r.create.token
            /\ \A u \in r.wallet : UtxoOf[u].token # r.create.token
  BY RequestsAssumption
<1>3. CreationIs(r) /\ IsFresh(r, available)
  BY <1>2 DEF CreationIs, IsFresh
<1>4. \A i \in DOMAIN r.actions : ActionIs(r.actions[i])
  BY <1>2 DEF ActionIs
<1> QED
  BY <1>1, <1>2, <1>3, <1>4 DEF ContractIs

LEMMA CallReturns ==
  ASSUME NEW r \in Requests, r.builder = "nano", NEW available \in SUBSET r.wallet
  PROVE  /\ Called(Prepared(r, available), r, BuildInputsOutputs(r, available), available)
         /\ Prepared(r, available).ok =>
                FeeIsRight(Prepared(r, available)) /\ Distinct(Prepared(r, available).inputs, available)
<1> DEFINE built == BuildInputsOutputs(r, available)
           x == Prepared(r, available)
<1>1. available \in SUBSET KnownUtxos /\ ContractIs(r) /\ IsFresh(r, available)
  BY CallRequestIs
<1>2. x = BuildNano(r, available)
  BY DEF Prepared
<1>3. CallCost(r, built) \in Nat
  BY <1>1, CallFeeType
<1>4. Called(BuildNano(r, available), r, built, available)
  BY <1>1, <1>3, CallIs
<1> HIDE DEF x
<1>5. Called(x, r, built, available)
  BY <1>2, <1>4
<1>6. ASSUME x.ok
      PROVE  FeeIsRight(x) /\ Distinct(x.inputs, available)
  <2>1. PICK b : b = built
    OBVIOUS
  <2>2. b = BuildInputsOutputs(r, available) /\ Called(x, r, b, available)
    BY <1>5, <2>1
  <2>3. PICK spent, paid, tokens, created :
          /\ x = Complete(spent, paid, CallFee(r, b), r.actions, tokens, created)
          /\ Distinct(spent, available) /\ Listing(paid) /\ MovesAs(spent, paid, b, r)
    BY <1>6, <2>2 DEF Called
  <2>4. FeeIsRight(x)
    BY ONLY <1>1, <2>2, <2>3, CallFeeIsRight
  <2>5. x.inputs = spent
    BY <2>3 DEF Complete
  <2> QED
    BY <2>3, <2>4, <2>5
<1> QED
  BY <1>5, <1>6 DEF x

LEMMA CalledReleases ==
  ASSUME NEW x, NEW r, NEW built, NEW available, Called(x, r, built, available), ~x.ok, built.ok
  PROVE  x.marked = {}
<1>1. ASSUME NEW spent, NEW paid, NEW fee, NEW actions, NEW tokens, NEW created
      PROVE  Complete(spent, paid, fee, actions, tokens, created).ok = TRUE
  BY DEF Complete
<1> QED
  BY <1>1 DEF Called

\* The fee of what is sent, minted, melted, created, delegated, destroyed or called is
\* exact, also when the change, the native inputs, the shielded change or the token that
\* a contract call creates are added after the fee was worked out.  The nft of a token
\* that pays fees, whose data outputs the wallet service charges, is not among them, and
\* the template, whose author writes the fee, is not either.
THEOREM FeeOfSentIsExact ==
    TxSpec => [](request.builder # "template" /\ ~ChargesData(request) => FeeIsExact)
<1>1. TxInv => (request.builder # "template" /\ ~ChargesData(request) => FeeIsExact)
  <2> SUFFICES ASSUME TxInv, request.builder # "template", ~ChargesData(request), tx.ok
               PROVE  FeeIsRight(tx)
    BY DEF FeeIsExact
  <2>1. CASE request.builder = "nano"
    <3>1. request \in Requests /\ free \in SUBSET request.wallet /\ tx = Prepared(request, free)
      BY DEF TxInv, None
    <3> QED
      BY <2>1, <3>1, CallReturns
  <2>2. CASE request.builder # "nano"
    BY <2>2, ReturnsAreRight DEF Right
  <2> QED
    BY <2>1, <2>2
<1> QED
  BY <1>1, CallsReturnWhatTheyPrepare, PTL

\* The same calls, and the nft, spend utxos that are available and none of them twice;
\* a contract call that fails once its actions were executed, whether the fee is more
\* than the call allows, cannot be paid, or the token it creates cannot be, leaves no
\* utxo marked.
THEOREM SentUtxosAreRespected ==
    TxSpec => [](request.builder # "template" => UtxosAreRespected)
<1>1. TxInv => (request.builder # "template" => UtxosAreRespected)
  <2> SUFFICES ASSUME TxInv, request.builder # "template"
               PROVE  UtxosAreRespected
    OBVIOUS
  <2>1. ASSUME tx # None, request.builder = "nano"
        PROVE  /\ Called(tx, request, BuildInputsOutputs(request, free), free)
               /\ tx.ok => Distinct(tx.inputs, free)
    <3>1. request \in Requests /\ free \in SUBSET request.wallet /\ tx = Prepared(request, free)
      BY <2>1 DEF TxInv
    <3> QED
      BY <2>1, <3>1, CallReturns
  <2>2. FailedBuildReleases
    <3> SUFFICES ASSUME tx # None, request.builder = "nano", ~tx.ok, BuildInputsOutputs(request, free).ok
                 PROVE  tx.marked = {}
      BY DEF FailedBuildReleases
    <3> QED
      BY <2>1, CalledReleases
  <2>3. ASSUME tx.ok
        PROVE  /\ \A u \in Range(tx.inputs) : u \in free
               /\ \A i, j \in DOMAIN tx.inputs : tx.inputs[i] = tx.inputs[j] => i = j
    <3>1. tx # None
      BY <2>3 DEF None
    <3>2. Distinct(tx.inputs, free)
      <4>1. CASE request.builder = "nano"
        BY <2>1, <2>3, <3>1, <4>1
      <4>2. CASE request.builder # "nano"
        BY <2>3, <4>2, ReturnsAreRight DEF Right
      <4> QED
        BY <4>1, <4>2
    <3> QED
      BY <3>2 DEF Distinct, Range
  <2> QED
    BY <2>2, <2>3 DEF UtxosAreRespected, InputsAreAvailable
<1> QED
  BY <1>1, CallsReturnWhatTheyPrepare, PTL

-----------------------------------------------------------------------------
(* What is enough to send *)

\* Selections that are asked for no more than there is find it.
LEMMA SelectUtxosFinds ==
  ASSUME NEW us \in SUBSET KnownUtxos, NEW stock, Distinct(stock, us), Range(stock) = us,
         NEW amount \in Nat \ {0}, Total(us) >= amount
  PROVE  SelectUtxos(stock, amount).ok = TRUE
<1> DEFINE n == Len(stock)
           Alone(i) == UtxoOf[stock[i]].value >= amount
           stops == {i \in DOMAIN stock : Taken(stock, i).amount >= amount /\ i + 1 \in DOMAIN stock /\ ~Alone(i + 1)}
           last == FirstStop(n, stops)
           alone == {i \in 1..last : Alone(i)}
           chosen == IF alone = {} THEN Taken(stock, last) ELSE Selection(<<stock[Max(alone)]>>)
<1>1. stock # <<>>
  <2>1. ASSUME stock = <<>> PROVE FALSE
    <3>1. us = {}
      BY <2>1, DistinctNone
    <3>2. Total(us) = 0
      BY <3>1, SumEmpty DEF Total
    <3> QED
      BY <3>2
  <2> QED
    BY <2>1
<1>2. SelectUtxos(stock, amount)
      = IF amount <= 0 \/ chosen.amount < amount THEN Failed
        ELSE [ok |-> TRUE, utxos |-> chosen.utxos, change |-> chosen.amount - amount]
  BY <1>1, Zenon DEF SelectUtxos, Until, FirstStop, Failed
<1>3. n \in Nat \ {0} /\ DOMAIN stock = 1..n /\ \A i \in 1..n : stock[i] \in us
  BY <1>1 DEF Distinct
<1>4. Enumerates(stock, us) /\ Cardinality(us) = n
  BY DistinctEnumerates, DistinctIsBijection
<1>5. Taken(stock, n).amount = Total(us)
  <2>1. n \in 0..Cardinality(us)
    BY <1>3, <1>4
  <2> HIDE DEF n
  <2>2. Taken(stock, n) = [utxos |-> SubSeq(stock, 1, n), amount |-> Total(Top(stock, n))] /\ Top(stock, n) = us
    BY <1>4, <2>1, TakenIs, TakenAll
  <2> DEFINE part == SubSeq(stock, 1, n)
             sum == Total(Top(stock, n))
             all == Taken(stock, n)
  <2>3. all = [utxos |-> part, amount |-> sum]
    BY <2>2
  <2> HIDE DEF part, sum, all
  <2>4. all.amount = sum
    BY <2>3
  <2> QED
    BY <2>2, <2>4 DEF sum, all
<1>6. stops \in SUBSET (1..n) /\ \A i \in stops : Taken(stock, i).amount >= amount
  BY <1>3
<1> HIDE DEF stops, n
<1>7. last \in 1..n /\ (last \in stops \/ last = n)
  BY <1>3, <1>6, FirstStopIs
<1> HIDE DEF last
<1>8. chosen.amount >= amount /\ chosen.amount \in Nat
  <2>1. CASE alone = {}
    <3>1. chosen = Taken(stock, last)
      BY <2>1, Zenon
    <3> HIDE DEF chosen
    <3>2. chosen.amount >= amount
      BY <1>5, <1>6, <1>7, <3>1
    <3>3. last \in 0..Cardinality(us)
      BY <1>3, <1>4, <1>7
    <3>4. Taken(stock, last) = [utxos |-> SubSeq(stock, 1, last), amount |-> Total(Top(stock, last))]
          /\ Top(stock, last) \in SUBSET us
      BY <1>4, <3>3, TakenIs
    <3> DEFINE part == SubSeq(stock, 1, last)
               sum == Total(Top(stock, last))
    <3>5. chosen = [utxos |-> part, amount |-> sum] /\ sum \in Nat
      BY <3>1, <3>4, TotalType
    <3> HIDE DEF part, sum
    <3>6. chosen.amount = sum
      BY <3>5
    <3> QED
      BY <3>2, <3>5, <3>6
  <2>2. CASE alone # {}
    <3>1. alone \in SUBSET (1..last) /\ last \in Nat
      BY <1>3, <1>7
    <3>2. Max(alone) \in alone /\ Max(alone) \in 1..last
      BY <2>2, <3>1, MaxIsGreatest
    <3> DEFINE u == stock[Max(alone)]
    <3>3. u \in us /\ Value(u) >= amount
      <4>1. Max(alone) \in 1..n /\ Alone(Max(alone))
        BY <1>3, <1>7, <3>2
      <4> QED
        BY <1>3, <4>1 DEF Value
    <3>4. chosen = Selection(<<u>>)
      BY <2>2
    <3> HIDE DEF u, chosen
    <3>5. Selection(<<u>>) = [utxos |-> <<u>>, amount |-> Value(u)]
      BY <3>3, SelectedOne
    <3>6. chosen.amount = Value(u)
      BY <3>4, <3>5
    <3> QED
      BY <3>3, <3>6, UtxosHaveValues
  <2> QED
    BY <2>1, <2>2
<1> HIDE DEF chosen
<1> QED
  BY <1>2, <1>8

LEMMA PulledEnough ==
  ASSUME NEW us \in SUBSET KnownUtxos, NEW least \in Int, Total(us) > least
  PROVE  Pulled(us, least).amount > least
<1> DEFINE s == Sorted(us, Ascending)
           n == Cardinality(us)
           stops == {i \in DOMAIN s : Taken(s, i).amount > least}
           k == FirstStop(n, stops)
           p == Pulled(us, least)
<1>1. Enumerates(s, us)
  BY UtxosSorted
<1>2. /\ s = <<>> <=> us = {}
      /\ us # {} => n \in Nat \ {0}
      /\ Len(s) = n /\ DOMAIN s = 1..n
  BY <1>1, NothingToSort
<1>3. p = Taken(s, k)
  BY <1>2, Zenon DEF Pulled, Until, FirstStop
<1>4. n \in Nat
  BY KnownUtxosAreFinite, FS_Subset, FS_CardinalityType
<1>5. stops \in SUBSET (1..n) /\ \A i \in stops : Taken(s, i).amount > least
  BY <1>2
<1> HIDE DEF s, stops
<1>6. Taken(s, n).amount > least
  <2>1. n \in 0..Cardinality(us)
    BY <1>4
  <2> HIDE DEF n
  <2>2. Taken(s, n) = [utxos |-> SubSeq(s, 1, n), amount |-> Total(Top(s, n))]
    BY <1>1, <2>1, TakenIs
  <2>3. Top(s, n) = us
    BY <1>1, TakenAll DEF n
  <2> DEFINE part == SubSeq(s, 1, n)
             sum == Total(Top(s, n))
             all == Taken(s, n)
  <2>4. all = [utxos |-> part, amount |-> sum] /\ sum > least
    BY <2>2, <2>3
  <2> HIDE DEF part, sum, all
  <2>5. all.amount = sum
    BY <2>4
  <2> QED
    BY <2>4, <2>5 DEF all
<1> HIDE DEF n
<1>7. k \in stops \/ k = n
  <2>1. CASE us = {}
    <3>1. n = 0
      BY <2>1, FS_EmptySet DEF n
    <3>2. stops = {}
      BY <1>5, <3>1
    <3> QED
      BY <3>2 DEF FirstStop
  <2>2. CASE us # {}
    <3>1. n \in Nat \ {0}
      BY <1>2, <2>2
    <3> QED
      BY <1>5, <3>1, FirstStopIs
  <2> QED
    BY <2>1, <2>2
<1> HIDE DEF k, p
<1>8. p.amount > least
  BY <1>3, <1>5, <1>6, <1>7
<1> QED
  BY <1>8 DEF p

LEMMA ProposalFields ==
  ASSUME NEW a, NEW b, NEW p, p = [ok |-> TRUE, inputs |-> a, outputs |-> b]
  PROVE  p.inputs = a /\ p.outputs = b
<1> QED
  OBVIOUS

LEMMA ProposalSucceeds ==
  ASSUME NEW a, NEW b, NEW p, p = [ok |-> TRUE, inputs |-> a, outputs |-> b]
  PROVE  p.ok = TRUE /\ p # Failed
<1>1. p.ok = TRUE
  OBVIOUS
<1> QED
  BY <1>1 DEF Failed

\* A token is found when there is enough of it.
LEMMA SendTokensFinds ==
  ASSUME NEW available \in SUBSET KnownUtxos, NEW token, NEW spends, NEW outputs, Listing(outputs), NEW fee \in Nat,
         fee + Funds(outputs, token) # 0,
         Total(Available(available, token)) >= fee + Funds(outputs, token),
         NEW p, p = PrepareSendTokensData(token, TRUE, spends, outputs, fee, available)
  PROVE  p # Failed /\ p.ok = TRUE
<1> DEFINE needed == fee + Funds(outputs, token)
           chosen == BestUtxoSelection(available, token, needed)
<1>1. p = IF needed = 0 \/ chosen.amount < needed THEN Failed
          ELSE [ok |-> TRUE, inputs |-> chosen.utxos, outputs |-> Change(token, chosen.amount - needed)]
  BY Zenon DEF PrepareSendTokensData
<1>2. needed \in Nat \ {0} /\ Total(Available(available, token)) >= needed
  <2>1. Funds(outputs, token) \in Nat
    BY FundsType
  <2> QED
    BY <2>1
<1> HIDE DEF needed
<1>3. chosen.amount < needed <=> Total(Available(available, token)) < needed
  BY <1>2, BestCovers
<1>4. Total(Available(available, token)) \in Nat
  <2>1. Available(available, token) \in SUBSET KnownUtxos
    BY DEF Available
  <2> QED
    BY <2>1, TotalType
<1>5. needed # 0 /\ ~(chosen.amount < needed)
  BY <1>2, <1>3, <1>4
<1> DEFINE a == chosen.utxos
           b == Change(token, chosen.amount - needed)
<1> HIDE DEF chosen
<1>6. p = [ok |-> TRUE, inputs |-> a, outputs |-> b]
  BY <1>1, <1>5, Zenon
<1> HIDE DEF a, b
<1> QED
  BY <1>6, ProposalSucceeds, Zenon

\* A token that is not asked for and not given needs nothing.
LEMMA SendTokensNeedsNothing ==
  ASSUME NEW available, NEW token, NEW spends, OfToken(Range(spends), token) = {},
         NEW outputs, NEW fee, fee + Funds(outputs, token) = 0,
         NEW p, p = PrepareSendTokensData(token, FALSE, spends, outputs, fee, available)
  PROVE  p # Failed /\ p.ok = TRUE /\ p.outputs = <<>>
<1> DEFINE needed == fee + Funds(outputs, token)
           given == {i \in DOMAIN spends : UtxoOf[spends[i]].token = token}
           f == [i \in given |-> UtxoOf[spends[i]].value]
           amount == SumFunction(f)
<1>1. p = IF (\E i \in given : spends[i] \notin Available(available, token)) \/ amount < needed
          THEN Failed
          ELSE [ok |-> TRUE, inputs |-> <<>>, outputs |-> Change(token, amount - needed)]
  BY Zenon DEF PrepareSendTokensData
<1>2. given = {}
  BY DEF OfToken, Range
<1>3. amount = 0
  BY <1>2, SumEmpty DEF SumFunction
<1>4. needed = 0
  OBVIOUS
<1> HIDE DEF needed, amount
<1>5. ~(amount < needed) /\ ~\E i \in given : spends[i] \notin Available(available, token)
  BY <1>2, <1>3, <1>4
<1> HIDE DEF given
<1> DEFINE a == <<>>
           b == Change(token, amount - needed)
<1>6. b = <<>>
  BY <1>3, <1>4 DEF Change, Positive
<1>7. p = [ok |-> TRUE, inputs |-> a, outputs |-> b]
  BY <1>1, <1>5, Zenon
<1> HIDE DEF a, b
<1>8. p.outputs = b
  BY <1>7, ProposalFields, Zenon
<1>9. p.ok = TRUE /\ p # Failed
  BY <1>7, ProposalSucceeds, Zenon
<1> QED
  BY <1>6, <1>8, <1>9

\* What is chosen so far found everything, with one change of a token at most.
FewChanges(m, T) ==
    /\ m # Failed /\ m.ok = TRUE
    /\ Listing(m.outputs) /\ Len(m.outputs) <= Cardinality(T)
    /\ \A k : Cardinality(Carriers(m.outputs, k)) <= IF k \in T THEN 1 ELSE 0

LEMMA JoinedIs ==
  ASSUME NEW m, m.ok = TRUE, NEW p, p.ok = TRUE
  PROVE  Joined(m, p) = [ok |-> TRUE, inputs |-> m.inputs \o p.inputs, outputs |-> m.outputs \o p.outputs]
<1> QED
  BY DEF Joined

LEMMA OneMoreFound ==
  ASSUME NEW available \in SUBSET KnownUtxos, NEW outputs, Listing(outputs),
         NEW T, IsFiniteSet(T), NEW t, t \notin T, NEW m, FewChanges(m, T),
         Funds(outputs, t) > 0, Total(Available(available, t)) >= Funds(outputs, t),
         NEW p, p = PrepareSendTokensData(t, TRUE, <<>>, outputs, 0, available)
  PROVE  FewChanges(Joined(m, p), T \cup {t})
<1>1. Distinct(<<>>, KnownUtxos) /\ OfToken(Range(<<>>), t) = {}
  BY DistinctNone DEF OfToken
<1>2. Funds(outputs, t) \in Nat /\ 0 + Funds(outputs, t) = Funds(outputs, t)
  BY FundsType
<1>3. p # Failed /\ p.ok = TRUE
  <2> DEFINE spends == <<>>
             fee == 0
  <2>1. /\ fee \in Nat /\ fee + Funds(outputs, t) # 0
        /\ Total(Available(available, t)) >= fee + Funds(outputs, t)
        /\ p = PrepareSendTokensData(t, TRUE, spends, outputs, fee, available)
    BY <1>2
  <2> HIDE DEF spends, fee
  <2> QED
    BY <2>1, SendTokensFinds
<1>4. PICK change \in Nat : p = [ok |-> TRUE, inputs |-> p.inputs, outputs |-> Change(t, change)]
  <2> DEFINE spends == <<>>
  <2>1. Distinct(spends, KnownUtxos) /\ p = PrepareSendTokensData(t, TRUE, spends, outputs, 0, available)
    BY <1>1
  <2> HIDE DEF spends
  <2>2. Proposes(p, TRUE, t, spends, 0 + Funds(outputs, t), available)
    BY <2>1, SendTokensProposes
  <2> QED
    BY <1>3, <2>2 DEF Proposes
<1> DEFINE more == Change(t, change)
           s == m.outputs
           x == Joined(m, p)
<1>5. \A k : Listing(more) /\ Cardinality(Carriers(more, k)) = IF t = k /\ change # 0 THEN 1 ELSE 0
  BY FundsOfChange
<1>6. Len(more) \in 0..1
  BY DEF Change, Positive
<1>7. p.outputs = more
  <2> DEFINE given == p.inputs
  <2>1. p = [ok |-> TRUE, inputs |-> given, outputs |-> more]
    BY <1>4
  <2> HIDE DEF given, more
  <2> QED
    BY <2>1, ProposalFields
<1>8. x = [ok |-> TRUE, inputs |-> m.inputs \o p.inputs, outputs |-> s \o more]
  <2>1. m.ok = TRUE
    BY DEF FewChanges
  <2>2. x = [ok |-> TRUE, inputs |-> m.inputs \o p.inputs, outputs |-> m.outputs \o p.outputs]
    BY <1>3, <2>1, JoinedIs
  <2> HIDE DEF x, more
  <2> QED
    BY <1>7, <2>2
<1>9. Listing(s) /\ Len(s) <= Cardinality(T) /\ \A k : Cardinality(Carriers(s, k)) <= IF k \in T THEN 1 ELSE 0
  BY DEF FewChanges
<1> HIDE DEF more, s, x
<1>10. x.ok = TRUE /\ x.outputs = s \o more
  BY <1>8
<1>11. /\ Listing(s \o more)
       /\ \A k : Cardinality(Carriers(s \o more, k)) = Cardinality(Carriers(s, k)) + Cardinality(Carriers(more, k))
  BY <1>5, <1>9, JoinIs, FundsJoin
<1>12. Len(s \o more) = Len(s) + Len(more) /\ Len(s) \in Nat
  BY <1>5, <1>9 DEF Listing
<1>13. Cardinality(T \cup {t}) = Cardinality(T) + 1 /\ Cardinality(T) \in Nat
  BY FS_AddElement, FS_CardinalityType
<1>14. \A k : Cardinality(Carriers(s, k)) \in Nat
  BY <1>9, FundsType
<1>15. \A k : Cardinality(Carriers(x.outputs, k)) <= IF k \in T \cup {t} THEN 1 ELSE 0
  <2> SUFFICES ASSUME NEW k PROVE Cardinality(Carriers(x.outputs, k)) <= IF k \in T \cup {t} THEN 1 ELSE 0
    OBVIOUS
  <2> DEFINE a == Cardinality(Carriers(s, k))
             b == Cardinality(Carriers(more, k))
  <2>1. Cardinality(Carriers(x.outputs, k)) = a + b /\ a \in Nat /\ a <= (IF k \in T THEN 1 ELSE 0)
        /\ b = IF t = k /\ change # 0 THEN 1 ELSE 0
    BY <1>5, <1>9, <1>10, <1>11, <1>14
  <2> HIDE DEF a, b
  <2> QED
    BY <2>1
<1>16. Len(x.outputs) <= Cardinality(T \cup {t}) /\ Listing(x.outputs)
  <2>1. Len(s) <= Cardinality(T)
    BY <1>9
  <2> DEFINE a == Len(s)
             b == Len(more)
             c == Cardinality(T)
             d == Cardinality(T \cup {t})
             e == Len(s \o more)
  <2>2. a \in Nat /\ b \in 0..1 /\ c \in Nat /\ a <= c /\ d = c + 1 /\ e = a + b
    BY <1>6, <1>12, <1>13, <2>1
  <2>3. x.outputs = s \o more /\ Listing(s \o more)
    BY <1>10, <1>11
  <2>4. Len(x.outputs) = e
    BY <2>3
  <2> HIDE DEF a, b, c, d, e
  <2>5. e <= d
    BY <2>2
  <2> QED
    BY <2>3, <2>4, <2>5 DEF d
<1>17. x # Failed
  BY <1>10 DEF Failed
<1>18. FewChanges(x, T \cup {t})
  BY <1>10, <1>15, <1>16, <1>17 DEF FewChanges
<1> QED
  BY <1>18 DEF x

\* Every token of a map that is to be chosen is found.
LEMMA SendManyFinds ==
  ASSUME NEW available \in SUBSET KnownUtxos, NEW outputs, Listing(outputs),
         NEW tokenMap, DOMAIN tokenMap \subseteq Tokens,
         \A t \in DOMAIN tokenMap : /\ tokenMap[t] = TRUE /\ Funds(outputs, t) > 0
                                    /\ Total(Available(available, t)) >= Funds(outputs, t)
  PROVE  FewChanges(PrepareSendManyTokensData(tokenMap, <<>>, outputs, available), DOMAIN tokenMap)
<1> DEFINE n == Len(TokenOrder)
           tokens == DOMAIN tokenMap
           Done(i) == {TokenOrder[j] : j \in 1..i} \cap tokens
           spends == <<>>
<1>1. /\ n \in Nat /\ \A i \in 1..n : TokenOrder[i] \in Tokens
      /\ \A i, j \in 1..n : TokenOrder[i] = TokenOrder[j] => i = j
      /\ Tokens = {TokenOrder[j] : j \in 1..n}
  <2>1. TokenOrder \in Seq(Tokens) /\ IsInjective(TokenOrder)
    BY TxFundsAssumption
  <2>2. n \in Nat /\ DOMAIN TokenOrder = 1..n /\ \A i \in 1..n : TokenOrder[i] \in Tokens
    BY <2>1
  <2>3. \A i, j \in 1..n : TokenOrder[i] = TokenOrder[j] => i = j
    BY <2>1, <2>2 DEF IsInjective
  <2>4. Tokens = {TokenOrder[j] : j \in 1..n}
    BY <2>2 DEF Tokens, Range
  <2> QED
    BY <2>2, <2>3, <2>4
<1>2. PICK upTo : /\ PrepareSendManyTokensData(tokenMap, spends, outputs, available) = upTo[n]
                  /\ upTo[0] = NothingSent
                  /\ \A i \in 1..n :
                       upTo[i] = IF TokenOrder[i] \notin DOMAIN tokenMap THEN upTo[i - 1]
                                 ELSE Joined(upTo[i - 1], PrepareSendTokensData(TokenOrder[i], tokenMap[TokenOrder[i]],
                                                                                spends, outputs, 0, available))
  BY IsSendingManyUnfolds
<1>3. \A i : IsFiniteSet(Done(i))
  <2>1. IsFiniteSet(tokens)
    BY KnownUtxosAreFinite, FS_Subset
  <2>2. \A i : Done(i) \in SUBSET tokens
    OBVIOUS
  <2> HIDE DEF Done, tokens
  <2> QED
    BY <2>1, <2>2, FS_Subset
<1> DEFINE N == {i \in Nat : i <= n => FewChanges(upTo[i], Done(i))}
<1>4. 0 \in N
  <2>1. Done(0) = {}
    OBVIOUS
  <2>2. NothingSent.ok = TRUE /\ NothingSent.outputs = <<>>
    BY DEF NothingSent
  <2>3. Listing(<<>>) /\ \A k : Cardinality(Carriers(<<>>, k)) = 0
    BY FundsOfNone
  <2>4. Len(<<>>) = 0 /\ Cardinality({}) = 0
    BY FS_EmptySet
  <2> HIDE DEF Done
  <2>5. NothingSent # Failed
    BY <2>2 DEF Failed
  <2>6. FewChanges(NothingSent, {})
    BY <2>2, <2>3, <2>4, <2>5 DEF FewChanges
  <2> QED
    BY <1>2, <2>1, <2>6
<1>5. ASSUME NEW i \in Nat, i \in N PROVE i + 1 \in N
  <2> SUFFICES ASSUME i + 1 <= n PROVE FewChanges(upTo[i + 1], Done(i + 1))
    OBVIOUS
  <2> DEFINE t == TokenOrder[i + 1]
  <2>1. i + 1 \in 1..n /\ (i + 1) - 1 = i /\ i <= n
    BY <1>1
  <2>2. FewChanges(upTo[i], Done(i))
    BY <1>5, <2>1
  <2>3. 1..i + 1 = 1..i \cup {i + 1}
    OBVIOUS
  <2>4. CASE t \notin tokens
    <3>1. Done(i + 1) = Done(i)
      BY <2>3, <2>4
    <3>2. upTo[i + 1] = upTo[i]
      BY <1>2, <2>1, <2>4
    <3> HIDE DEF Done
    <3> QED
      BY <2>2, <3>1, <3>2
  <2>5. CASE t \in tokens
    <3>1. Done(i + 1) = Done(i) \cup {t}
      BY <2>3, <2>5
    <3>2. t \notin Done(i)
      <4>1. \A j \in 1..i : j \in 1..n /\ j # i + 1
        BY <1>1, <2>1
      <4> QED
        BY <1>1, <2>1, <4>1
    <3>3. tokenMap[t] = TRUE /\ Funds(outputs, t) > 0 /\ Total(Available(available, t)) >= Funds(outputs, t)
      BY <2>5
    <3> DEFINE p == PrepareSendTokensData(t, TRUE, <<>>, outputs, 0, available)
               prev == upTo[i]
    <3>4. upTo[i + 1] = Joined(prev, p)
      BY <1>2, <2>1, <2>5, <3>3
    <3>5. p = PrepareSendTokensData(t, TRUE, <<>>, outputs, 0, available) /\ FewChanges(prev, Done(i))
          /\ IsFiniteSet(Done(i))
      BY <1>3, <2>2
    <3> HIDE DEF Done, p, prev, t
    <3>6. FewChanges(Joined(prev, p), Done(i) \cup {t})
      BY <3>2, <3>3, <3>5, OneMoreFound
    <3> QED
      BY <3>1, <3>4, <3>6
  <2> QED
    BY <2>4, <2>5
<1>6. Nat \subseteq N
  <2> HIDE DEF N
  <2> QED
    BY <1>4, <1>5, NatSet
<1>7. FewChanges(upTo[n], Done(n))
  <2>1. n \in N /\ n <= n
    <3> HIDE DEF N
    <3> QED
      BY <1>1, <1>6
  <2> HIDE DEF Done, n
  <2> QED
    BY <2>1
<1>8. Done(n) = DOMAIN tokenMap
  BY <1>1
<1> HIDE DEF Done
<1> QED
  BY <1>2, <1>7, <1>8

-----------------------------------------------------------------------------
(* How many outputs there are *)

\* The elements that are kept are as many as the places, and no more of them carry a token.
LEMMA KeptCount ==
  ASSUME NEW s, Listing(s), NEW at \in SUBSET DOMAIN s
  PROVE  /\ Len(Kept(s, at)) = Cardinality(at)
         /\ \A t : Cardinality(Carriers(Kept(s, at), t)) <= Cardinality(Carriers(s, t))
<1> DEFINE order == Sorted(at, Upwards(at))
           n == Cardinality(at)
           r == Kept(s, at)
<1>1. Len(s) \in Nat /\ DOMAIN s = 1..Len(s) /\ at \in SUBSET (1..Len(s))
  BY DEF Listing
<1>2. IsFiniteSet(at) /\ Enumerates(order, at)
  BY <1>1, PlacesInOrder
<1>3. n \in Nat
  BY <1>2, FS_CardinalityType
<1>4. r = [i \in DOMAIN order |-> s[order[i]]]
  BY Zenon DEF Kept, Upwards
<1> HIDE DEF order, n, r
<1>5. /\ order \in [1..n -> at] /\ \A i, j \in 1..n : order[i] = order[j] => i = j
      /\ \A x \in at : \E i \in 1..n : order[i] = x
  BY <1>2 DEF Enumerates, n
<1>6. r = [i \in 1..n |-> s[order[i]]] /\ Len(r) = n /\ DOMAIN r = 1..n
  BY <1>3, <1>4, <1>5
<1>7. ASSUME NEW t PROVE Cardinality(Carriers(r, t)) <= Cardinality(Carriers(s, t))
  <2> DEFINE A == Carriers(r, t)
             B == Carriers(s, t)
             b == [i \in A |-> order[i]]
             C == {order[i] : i \in A}
  <2>1. A = {i \in 1..n : order[i] \in B}
    BY <1>1, <1>5, <1>6 DEF Carriers
  <2>2. C \subseteq B
    BY <2>1
  <2>3. b \in Bijection(A, C)
    <3>1. \A i, j \in A : order[i] = order[j] => i = j
      BY <1>5, <2>1
    <3> HIDE DEF A, B
    <3> QED
      BY <3>1 DEF Bijection, Injection, Surjection, IsInjective
  <2>4. IsFiniteSet(A) /\ IsFiniteSet(B)
    <3>1. IsFiniteSet(1..n)
      BY <1>3, FirstNumbers
    <3>2. IsFiniteSet(A)
      BY <2>1, <3>1, FS_Subset
    <3> QED
      BY <3>2, CarriersAreFinite
  <2>5. ExistsBijection(A, C)
    BY <2>3 DEF ExistsBijection
  <2> HIDE DEF A, B, b, C
  <2>6. IsFiniteSet(C) /\ Cardinality(C) = Cardinality(A)
    BY <2>4, <2>5, FS_Bijection
  <2>7. Cardinality(C) <= Cardinality(B)
    BY <2>2, <2>4, FS_Subset
  <2> QED
    BY <2>6, <2>7 DEF A, B
<1> QED
  BY <1>6, <1>7 DEF r, n

LEMMA SumIsPositive ==
  ASSUME NEW f, NEW S, IsFiniteSet(S), \A x \in S : f[x] \in Nat, NEW a \in S, f[a] > 0
  PROVE  SumFunctionOnSet(f, S) > 0
<1>1. \A x \in S : f[x] \in Int
  OBVIOUS
<1>2. SumFunctionOnSet(f, S) = f[a] + SumFunctionOnSet(f, S \ {a})
  BY <1>1, SumRemove
<1>3. IsFiniteSet(S \ {a}) /\ \A x \in S \ {a} : f[x] \in Nat
  BY FS_Subset
<1>4. SumFunctionOnSet(f, S \ {a}) \in Nat
  BY <1>3, SumNat
<1> QED
  BY <1>2, <1>4

\* An output with value is some of the funds.
LEMMA FundsArePositive ==
  ASSUME NEW s, Listing(s), NEW t, NEW i \in Carriers(s, t), s[i].value > 0
  PROVE  Funds(s, t) > 0
<1> DEFINE f == [j \in Carriers(s, t) |-> s[j].value]
           S == Carriers(s, t)
<1>1. IsFiniteSet(S) /\ S \in SUBSET (1..Len(s))
  BY CarriersAreFinite
<1>2. \A j \in S : f[j] \in Nat
  BY <1>1 DEF Listing
<1>3. Funds(s, t) = SumFunctionOnSet(f, S)
  BY Zenon DEF Funds, SumFunction
<1>4. f[i] > 0
  OBVIOUS
<1>8. i \in S
  OBVIOUS
<1> HIDE DEF f, S
<1>5. SumFunctionOnSet(f, S) > 0
  BY <1>1, <1>2, <1>4, <1>8, SumIsPositive
<1> QED
  BY <1>3, <1>5

\* The outputs that are not shielded, with changes that are added.
LEMMA PublicJoin ==
  ASSUME NEW s, Listing(s), NEW more, Listing(more)
  PROVE  /\ Len(Public(s \o more)) \in Nat /\ Len(Public(s)) \in Nat
         /\ Len(Public(s \o more)) <= Len(Public(s)) + Len(more)
         /\ \A t : Cardinality(Carriers(Public(s \o more), t))
                   <= Cardinality(Carriers(s, t)) + Cardinality(Carriers(more, t))
<1> DEFINE r == s \o more
           m == Len(s)
           n == Len(more)
           at == {i \in DOMAIN s : s[i].kind # "shielded"}
           now == {i \in DOMAIN r : r[i].kind # "shielded"}
<1>1. /\ Listing(r) /\ m \in Nat /\ n \in Nat
      /\ DOMAIN r = 1..m + n /\ DOMAIN s = 1..m
      /\ \A i \in 1..m : r[i] = s[i]
  BY JoinIs
<1>2. Public(s) = Kept(s, at) /\ Public(r) = Kept(r, now) /\ at \in SUBSET DOMAIN s /\ now \in SUBSET DOMAIN r
  BY DEF Public
<1>3. now \in SUBSET (at \cup (m + 1..m + n))
  <2> SUFFICES ASSUME NEW i \in DOMAIN r, r[i].kind # "shielded", i \in 1..m PROVE i \in at
    BY <1>1
  <2> QED
    BY <1>1
<1> HIDE DEF r, m, n, at, now
<1>4. /\ Len(Public(s)) = Cardinality(at) /\ Len(Public(r)) = Cardinality(now)
      /\ \A t : Cardinality(Carriers(Public(r), t)) <= Cardinality(Carriers(r, t))
  BY <1>1, <1>2, KeptCount
<1>5. IsFiniteSet(at) /\ IsFiniteSet(now)
  BY <1>1, <1>2, FirstNumbers, FS_Subset
<1>6. IsFiniteSet(m + 1..m + n) /\ Cardinality(m + 1..m + n) = n
  <2>1. m + 1 \in Int /\ m + n \in Int
    BY <1>1
  <2>2. IsFiniteSet(m + 1..m + n)
        /\ Cardinality(m + 1..m + n) = IF m + 1 > m + n THEN 0 ELSE (m + n) - (m + 1) + 1
    BY <2>1, FS_Interval
  <2> QED
    BY <1>1, <2>2
<1>7. /\ IsFiniteSet(at \cup (m + 1..m + n))
      /\ Cardinality(at \cup (m + 1..m + n)) <= Cardinality(at) + n
  <2>1. /\ IsFiniteSet(at \cup (m + 1..m + n))
        /\ Cardinality(at \cup (m + 1..m + n))
           = Cardinality(at) + Cardinality(m + 1..m + n) - Cardinality(at \cap (m + 1..m + n))
    BY <1>5, <1>6, FS_Union
  <2>2. Cardinality(at \cap (m + 1..m + n)) \in Nat /\ Cardinality(at) \in Nat
    BY <1>5, FS_Subset, FS_CardinalityType
  <2> QED
    BY <1>1, <1>6, <2>1, <2>2
<1>8. Cardinality(now) <= Cardinality(at) + n /\ Cardinality(now) \in Nat /\ Cardinality(at) \in Nat
  <2>1. Cardinality(now) <= Cardinality(at \cup (m + 1..m + n))
    BY <1>3, <1>7, FS_Subset
  <2>2. Cardinality(now) \in Nat /\ Cardinality(at) \in Nat /\ Cardinality(at \cup (m + 1..m + n)) \in Nat
    BY <1>5, <1>7, FS_CardinalityType
  <2> QED
    BY <1>1, <1>7, <2>1, <2>2
<1>9. \A t : Cardinality(Carriers(r, t)) = Cardinality(Carriers(s, t)) + Cardinality(Carriers(more, t))
  BY FundsJoin DEF r
<1> QED
  BY <1>4, <1>8, <1>9 DEF r, n

-----------------------------------------------------------------------------
(* What shielded outputs pay *)

\* The fees of shielded outputs as outputs of a list, whose funds they are.
Charges(defs) == [i \in DOMAIN defs |-> Output(HTR, ShieldedFee(defs[i].mode), {}, "fee")]

LEMMA ChargesAre ==
  ASSUME NEW defs, Listing(defs)
  PROVE  /\ Listing(Charges(defs)) /\ Len(Charges(defs)) = Len(defs)
         /\ Funds(Charges(defs), HTR) = ShieldedFees(defs)
<1> DEFINE n == Len(defs)
           r == Charges(defs)
           f == [i \in DOMAIN defs |-> ShieldedFee(defs[i].mode)]
           g == [i \in Carriers(r, HTR) |-> r[i].value]
<1>1. n \in Nat /\ DOMAIN defs = 1..n /\ IsFiniteSet(1..n)
  BY FirstNumbers DEF Listing
<1>2. r = [i \in 1..n |-> Output(HTR, ShieldedFee(defs[i].mode), {}, "fee")]
  BY <1>1 DEF Charges
<1> HIDE DEF r
<1>3. r \in Seq(Range(r)) /\ Len(r) = n /\ DOMAIN r = 1..n
  BY <1>1, <1>2 DEF Range
<1>4. \A i \in 1..n : r[i].token = HTR /\ r[i].authorities = {} /\ r[i].value = ShieldedFee(defs[i].mode)
  BY <1>2 DEF Output
<1>5. Listing(r)
  BY <1>3, <1>4, ShieldedFeeType DEF Listing
<1>6. Carriers(r, HTR) = 1..n
  BY <1>3, <1>4 DEF Carriers
<1>7. \A i \in 1..n : f[i] \in Int /\ f[i] = g[i]
  BY <1>1, <1>4, <1>6, ShieldedFeeType
<1>8. Funds(r, HTR) = SumFunctionOnSet(g, 1..n)
  BY <1>6, Zenon DEF Funds, SumFunction
<1>9. ShieldedFees(defs) = SumFunctionOnSet(f, 1..n)
  BY <1>1, Zenon DEF ShieldedFees, SumFunction
<1> HIDE DEF f, g, n
<1>10. SumFunctionOnSet(f, 1..n) = SumFunctionOnSet(g, 1..n)
  BY <1>1, <1>7, SumAgree
<1> QED
  BY <1>3, <1>5, <1>8, <1>9, <1>10 DEF r, n

LEMMA ShieldedFeesJoin ==
  ASSUME NEW a, Listing(a), NEW b, Listing(b)
  PROVE  ShieldedFees(a \o b) = ShieldedFees(a) + ShieldedFees(b)
<1> DEFINE m == Len(a)
           n == Len(b)
           r == a \o b
           c == Charges(a)
           d == Charges(b)
<1>1. /\ Listing(r) /\ m \in Nat /\ n \in Nat
      /\ DOMAIN r = 1..m + n /\ DOMAIN a = 1..m /\ DOMAIN b = 1..n
      /\ (\A i \in 1..m : r[i] = a[i]) /\ (\A i \in 1..n : r[i + m] = b[i])
  BY JoinIs
<1>2. /\ Listing(c) /\ Len(c) = m /\ Funds(c, HTR) = ShieldedFees(a)
      /\ Listing(d) /\ Len(d) = n /\ Funds(d, HTR) = ShieldedFees(b)
  BY ChargesAre
<1>3. /\ DOMAIN (c \o d) = 1..m + n /\ DOMAIN c = 1..m /\ DOMAIN d = 1..n
      /\ (\A i \in 1..m : (c \o d)[i] = c[i]) /\ (\A i \in 1..n : (c \o d)[i + m] = d[i])
      /\ c \o d \in Seq(Range(c \o d))
  <2>1. Listing(c) /\ Listing(d) /\ Len(c) = m /\ Len(d) = n
    BY <1>2
  <2> HIDE DEF c, d, m, n
  <2>2. /\ Listing(c \o d)
        /\ DOMAIN (c \o d) = 1..Len(c) + Len(d) /\ DOMAIN c = 1..Len(c) /\ DOMAIN d = 1..Len(d)
        /\ \A i \in 1..Len(c) : (c \o d)[i] = c[i]
        /\ \A i \in 1..Len(d) : (c \o d)[i + Len(c)] = d[i]
    BY <2>1, JoinIs
  <2>3. c \o d \in Seq(Range(c \o d))
    BY <2>2 DEF Listing
  <2> QED
    BY <2>1, <2>2, <2>3
<1>4. /\ c = [i \in 1..m |-> Output(HTR, ShieldedFee(a[i].mode), {}, "fee")]
      /\ d = [i \in 1..n |-> Output(HTR, ShieldedFee(b[i].mode), {}, "fee")]
      /\ Charges(r) = [i \in 1..m + n |-> Output(HTR, ShieldedFee(r[i].mode), {}, "fee")]
  BY <1>1 DEF Charges
<1> HIDE DEF r, c, d, m, n
<1>5. \A i \in 1..m + n : (c \o d)[i] = Charges(r)[i]
  <2> SUFFICES ASSUME NEW i \in 1..m + n PROVE (c \o d)[i] = Charges(r)[i]
    OBVIOUS
  <2>1. CASE i \in 1..m
    BY <1>1, <1>3, <1>4, <2>1
  <2>2. CASE i \notin 1..m
    <3>1. i - m \in 1..n /\ (i - m) + m = i
      BY <1>1, <2>2
    <3>2. (c \o d)[i] = d[i - m] /\ r[i] = b[i - m]
      BY <1>1, <1>3, <3>1
    <3> QED
      BY <1>4, <3>1, <3>2
  <2> QED
    BY <2>1, <2>2
<1>6. c \o d = Charges(r)
  <2>1. DOMAIN Charges(r) = 1..m + n /\ Charges(r) = [i \in 1..m + n |-> Charges(r)[i]]
    BY <1>4
  <2>2. c \o d = [i \in 1..m + n |-> (c \o d)[i]]
    <3> DEFINE e == c \o d
    <3>1. e \in Seq(Range(e)) /\ DOMAIN e = 1..m + n
      BY <1>3
    <3> HIDE DEF e
    <3>2. e = [i \in 1..m + n |-> e[i]]
      BY <3>1
    <3> QED
      BY <3>2 DEF e
  <2> QED
    BY <1>5, <2>1, <2>2
<1>7. Funds(c \o d, HTR) = Funds(c, HTR) + Funds(d, HTR)
  BY <1>2, FundsJoin
<1>8. Funds(Charges(r), HTR) = ShieldedFees(r)
  BY <1>1, ChargesAre
<1> QED
  BY <1>2, <1>6, <1>7, <1>8 DEF r

\* Shielded outputs of one mode pay the same each.
LEMMA ShieldedFeesAlike ==
  ASSUME NEW defs, Listing(defs), NEW mode, \A i \in DOMAIN defs : defs[i].mode = mode
  PROVE  ShieldedFees(defs) = ShieldedFee(mode) * Len(defs)
<1> DEFINE n == Len(defs)
           f == [i \in DOMAIN defs |-> ShieldedFee(defs[i].mode)]
           one == [i \in DOMAIN defs |-> 1]
           fee == ShieldedFee(mode)
<1>1. n \in Nat /\ DOMAIN defs = 1..n /\ IsFiniteSet(1..n) /\ Cardinality(1..n) = n
  BY FirstNumbers DEF Listing
<1>2. fee \in Nat
  BY ShieldedFeeType
<1>3. \A i \in 1..n : one[i] \in Int /\ one[i] = 1 /\ f[i] = fee
  BY <1>1
<1>4. ShieldedFees(defs) = SumFunctionOnSet(f, 1..n)
  BY <1>1, Zenon DEF ShieldedFees, SumFunction
<1> HIDE DEF f, one, n, fee
<1>5. \A i \in 1..n : one[i] \in Int /\ f[i] = fee * one[i]
  BY <1>2, <1>3
<1>6. SumFunctionOnSet(f, 1..n) = fee * SumFunctionOnSet(one, 1..n)
  BY <1>1, <1>2, <1>5, SumScaled
<1>7. SumFunctionOnSet(one, 1..n) = n
  BY <1>1, <1>3, SumOnes
<1> QED
  BY <1>4, <1>6, <1>7 DEF n, fee

-----------------------------------------------------------------------------
(* What a send of what there is comes to before the native token *)

\* The changes are shielded.
Shields(r) == r.mode # "none" /\ Hidden(r.outputs) # <<>>

\* The transaction once the tokens of a set are covered, from what is available: it has
\* one change of each token at most, and pays for no more than those.
FewMore(part, r, T) ==
    /\ part # Failed /\ part.ok = TRUE
    /\ \A k : k \notin T => OfToken(Range(part.inputs), k) = {}
    /\ Listing(part.outputs) /\ Listing(part.defs)
    /\ Funds(part.outputs, HTR) = Funds(r.outputs, HTR)
    /\ \A k : Cardinality(Carriers(Public(part.outputs), k))
              <= Cardinality(Carriers(r.outputs, k)) + IF k \in T THEN 1 ELSE 0
    /\ Len(Public(part.outputs)) <= Len(Public(r.outputs)) + Cardinality(T)
    /\ Len(part.defs) <= Len(Hidden(r.outputs)) + Cardinality(T)
    /\ part.defs = <<>> \/ Len(part.defs) >= 2
    /\ part.defs # <<>> => Hidden(r.outputs) # <<>>
    /\ ShieldedFees(part.defs) <= ShieldedFees(Hidden(r.outputs))
                                  + IF Shields(r) THEN ShieldedFee(r.mode) * Cardinality(T) ELSE 0

\* The shielded outputs that are asked for.
LEMMA ExplicitDefsLike ==
  ASSUME NEW outputs, Listing(outputs)
  PROVE  /\ Len(ExplicitDefs(outputs)) = Len(Hidden(outputs)) /\ Len(Hidden(outputs)) \in Nat
         /\ ShieldedFees(ExplicitDefs(outputs)) = ShieldedFees(Hidden(outputs))
         /\ ExplicitDefs(outputs) = <<>> <=> Hidden(outputs) = <<>>
<1> DEFINE asked == Hidden(outputs)
           defs == ExplicitDefs(outputs)
           n == Len(asked)
           f == [i \in DOMAIN asked |-> ShieldedFee(asked[i].mode)]
           g == [i \in DOMAIN defs |-> ShieldedFee(defs[i].mode)]
<1>1. Listing(asked)
  BY HiddenAndPublic
<1>2. n \in Nat /\ DOMAIN asked = 1..n /\ asked \in Seq(Range(asked))
  BY <1>1 DEF Listing
<1>3. defs = [i \in DOMAIN asked |-> ShieldedDef(asked[i].token, asked[i].value, asked[i].mode)]
  BY Zenon DEF ExplicitDefs
<1> HIDE DEF asked, defs, n
<1>4. defs \in Seq(Range(defs)) /\ Len(defs) = n /\ DOMAIN defs = 1..n
  BY <1>2, <1>3 DEF Range
<1>5. \A i \in 1..n : defs[i].mode = asked[i].mode
  BY <1>2, <1>3 DEF ShieldedDef
<1>6. f = g
  BY <1>2, <1>4, <1>5
<1>7. ShieldedFees(asked) = SumFunction(f) /\ ShieldedFees(defs) = SumFunction(g)
  BY Zenon DEF ShieldedFees
<1>8. ShieldedFees(defs) = ShieldedFees(asked)
  BY <1>6, <1>7
<1>9. defs = <<>> <=> asked = <<>>
  <2>1. defs = <<>> <=> n = 0
    BY <1>2, <1>4
  <2>2. asked = <<>> <=> n = 0
    BY <1>2 DEF n
  <2> QED
    BY <2>1, <2>2
<1> QED
  BY <1>2, <1>4, <1>8, <1>9 DEF asked, defs, n

\* The changes that become shielded pay for one shielded output each.
LEMMA ConvertedChangePays ==
  ASSUME NEW defs, Listing(defs), NEW changes, Valued(changes), NEW mode
  PROVE  LET all == ConvertTokenChange(defs, changes, mode)
         IN  /\ Len(all) = Len(defs) + Len(changes) /\ Len(defs) \in Nat /\ Len(changes) \in Nat
             /\ ShieldedFees(all) = ShieldedFees(defs) + ShieldedFee(mode) * Len(changes)
<1> DEFINE more == [i \in DOMAIN changes |-> ShieldedDef(changes[i].token, changes[i].value, mode)]
           n == Len(changes)
<1>1. n \in Nat /\ DOMAIN changes = 1..n /\ Listing(changes) /\ \A i \in 1..n : changes[i].value \in Nat
  BY DEF Valued, Listing
<1>2. more \in Seq(Range(more)) /\ Len(more) = n /\ DOMAIN more = 1..n
  BY <1>1 DEF Range
<1>3. \A i \in 1..n : more[i].value = changes[i].value /\ more[i].mode = mode
  BY <1>1 DEF ShieldedDef
<1>4. ConvertTokenChange(defs, changes, mode) = defs \o more
  BY Zenon DEF ConvertTokenChange
<1> HIDE DEF more
<1>5. Listing(more)
  BY <1>1, <1>2, <1>3 DEF Listing
<1>6. Len(defs \o more) = Len(defs) + Len(more) /\ Len(defs) \in Nat
  BY <1>5, JoinIs
<1>7. ShieldedFees(defs \o more) = ShieldedFees(defs) + ShieldedFees(more)
  BY <1>5, ShieldedFeesJoin
<1>8. \A i \in DOMAIN more : more[i].mode = mode
  BY <1>2, <1>3
<1> HIDE DEF n
<1>9. ShieldedFees(more) = ShieldedFee(mode) * n
  BY <1>2, <1>5, <1>8, ShieldedFeesAlike
<1> QED
  BY <1>1, <1>2, <1>4, <1>6, <1>7, <1>9 DEF n

LEMMA PartIsFewMore ==
  ASSUME NEW r, Asked(r), r.inputs = <<>>, NEW T, IsFiniteSet(T), HTR \notin T,
         NEW available \in SUBSET KnownUtxos,
         NEW many, FewChanges(many, T), SendsMany(many, T, <<>>, r.outputs, available),
         Len(Hidden(r.outputs)) + Cardinality(T) <= MaxShielded, Len(Hidden(r.outputs)) # 1
  PROVE  FewMore(PartialTx(r, ExplicitDefs(r.outputs), many), r, T)
<1> DEFINE asked == r.outputs
           hidden == Hidden(asked)
           explicit == ExplicitDefs(asked)
           changes == many.outputs
           shields == r.mode # "none" /\ explicit # <<>>
           defs == IF shields THEN ConvertTokenChange(explicit, changes, r.mode) ELSE explicit
           more == IF shields THEN <<>> ELSE changes
           outputs == asked \o more
           spends == r.inputs \o many.inputs
           part == PartialTx(r, explicit, many)
           count == Cardinality(T)
<1>1. Listing(asked) /\ Valued(asked)
  BY DEF Asked, Valued
<1>2. /\ many.ok = TRUE /\ Len(changes) <= count /\ Listing(changes)
      /\ \A k : Cardinality(Carriers(changes, k)) <= IF k \in T THEN 1 ELSE 0
  BY DEF FewChanges
<1>3. /\ Changed(changes) /\ Valued(changes)
      /\ many.inputs \in Seq(available)
      /\ \A k : k \notin T => OfToken(Range(many.inputs), k) = {} /\ Funds(changes, k) = 0
  <2>1. many # Failed
    BY DEF FewChanges
  <2> QED
    BY <2>1 DEF SendsMany, Changed, Distinct
<1>4. /\ Len(explicit) = Len(hidden) /\ Len(hidden) \in Nat /\ Listing(explicit)
      /\ ShieldedFees(explicit) = ShieldedFees(hidden)
      /\ explicit = <<>> <=> hidden = <<>>
  BY <1>1, ExplicitDefsLike, ExplicitDefsAre
<1>5. count \in Nat /\ Len(changes) \in Nat /\ ShieldedFees(hidden) \in Nat
  <2>1. Listing(hidden)
    BY <1>1, HiddenAndPublic
  <2> HIDE DEF hidden
  <2>2. ShieldedFees(hidden) \in Nat
    BY <2>1, ShieldedFeesType
  <2>3. Len(changes) \in Nat
    BY <1>2 DEF Listing
  <2> QED
    BY <2>2, <2>3, FS_CardinalityType
<1>6. shields <=> Shields(r)
  BY <1>4 DEF Shields
<1> DEFINE fee == ShieldedFee(r.mode)
<1>7. fee \in Nat
  BY ShieldedFeeType
<1>8. /\ Listing(defs) /\ Len(defs) = Len(hidden) + IF shields THEN Len(changes) ELSE 0
      /\ ShieldedFees(defs) = ShieldedFees(hidden) + IF shields THEN fee * Len(changes) ELSE 0
  <2>1. CASE shields
    <3> HIDE DEF explicit, changes, fee, shields
    <3>1. defs = ConvertTokenChange(explicit, changes, r.mode)
      BY <2>1
    <3> HIDE DEF defs
    <3>2. /\ Listing(defs) /\ Len(defs) = Len(explicit) + Len(changes)
          /\ ShieldedFees(defs) = ShieldedFees(explicit) + ShieldedFee(r.mode) * Len(changes)
      BY <1>3, <1>4, <3>1, ConvertedChangeIs, ConvertedChangePays
    <3> QED
      BY <1>4, <2>1, <3>2 DEF fee
  <2>2. CASE ~shields
    <3>1. defs = explicit
      BY <2>2
    <3> HIDE DEF explicit, defs, shields
    <3> QED
      BY <1>4, <1>5, <2>2, <3>1
  <2> QED
    BY <2>1, <2>2
<1>9. /\ Changed(more) /\ Listing(more) /\ Len(more) \in Nat /\ Len(more) <= count
      /\ \A k : /\ Cardinality(Carriers(more, k)) \in Nat
                /\ Cardinality(Carriers(more, k)) <= IF k \in T THEN 1 ELSE 0
      /\ Funds(more, HTR) = 0
  <2>1. CASE shields
    <3>1. more = <<>>
      BY <2>1
    <3>2. Listing(<<>>) /\ Funds(<<>>, HTR) = 0 /\ \A k : Cardinality(Carriers(<<>>, k)) = 0
      BY FundsOfNone
    <3> HIDE DEF more
    <3> QED
      BY <1>5, <3>1, <3>2, ChangedNone
  <2>2. CASE ~shields
    <3>1. more = changes
      BY <2>2
    <3>2. \A k : Cardinality(Carriers(changes, k)) \in Nat
      BY <1>2, FundsType
    <3> HIDE DEF more, changes
    <3> QED
      BY <1>2, <1>3, <1>5, <3>1, <3>2
  <2> QED
    BY <2>1, <2>2
<1> HIDE DEF more
<1>10. /\ Listing(outputs) /\ Funds(outputs, HTR) = Funds(asked, HTR)
       /\ Len(Public(outputs)) \in Nat /\ Len(Public(asked)) \in Nat
       /\ Len(Public(outputs)) <= Len(Public(asked)) + Len(more)
       /\ \A k : Cardinality(Carriers(Public(outputs), k))
                 <= Cardinality(Carriers(asked, k)) + Cardinality(Carriers(more, k))
  <2>1. Funds(outputs, HTR) = Funds(asked, HTR) + Funds(more, HTR) /\ Funds(asked, HTR) \in Nat
    BY <1>1, <1>9, FundsJoin, FundsType
  <2>2. Listing(outputs)
    BY <1>1, <1>9, JoinIs
  <2>3. Listing(asked) /\ Listing(more)
    BY <1>1, <1>9
  <2> HIDE DEF asked
  <2>4. /\ Len(Public(asked \o more)) \in Nat /\ Len(Public(asked)) \in Nat
        /\ Len(Public(asked \o more)) <= Len(Public(asked)) + Len(more)
        /\ \A k : Cardinality(Carriers(Public(asked \o more), k))
                  <= Cardinality(Carriers(asked, k)) + Cardinality(Carriers(more, k))
    BY <2>3, PublicJoin
  <2> DEFINE a == Funds(outputs, HTR)
             b == Funds(asked, HTR)
             c == Funds(more, HTR)
  <2>5. a = b + c /\ b \in Nat /\ c = 0
    BY <1>9, <2>1
  <2> HIDE DEF a, b, c
  <2>6. a = b
    BY <2>5
  <2> QED
    BY <2>2, <2>4, <2>6 DEF a, b
<1>11. Len(defs) \in Nat /\ Len(defs) <= Len(hidden) + count /\ Len(defs) <= MaxShielded
  <2>1. Len(defs) <= Len(hidden) + count /\ Len(defs) \in Nat
    <3> HIDE DEF defs, hidden, changes, count, shields
    <3> QED
      BY <1>2, <1>4, <1>5, <1>8
  <2>2. Len(hidden) + count <= MaxShielded /\ MaxShielded \in Nat
    BY TxFundsAssumption
  <2> HIDE DEF defs, hidden, count
  <2> QED
    BY <1>4, <1>5, <2>1, <2>2
<1>12. part = [ok |-> TRUE, inputs |-> spends, defs |-> defs, outputs |-> outputs]
  <2>1. part = IF ~many.ok THEN Failed
               ELSE IF shields /\ changes # <<>> /\ Len(defs) > MaxShielded THEN Failed
               ELSE [ok |-> TRUE, inputs |-> spends, defs |-> defs, outputs |-> outputs]
    BY Zenon DEF PartialTx, more
  <2>2. ~(Len(defs) > MaxShielded)
    BY <1>11, TxFundsAssumption
  <2> HIDE DEF part, defs, spends, outputs, shields, changes
  <2> QED
    BY <1>2, <2>1, <2>2
<1>13. /\ part.ok = TRUE /\ part.inputs = spends /\ part.defs = defs /\ part.outputs = outputs /\ part # Failed
  <2> HIDE DEF part, defs, spends, outputs
  <2>1. part.ok = TRUE /\ part.inputs = spends /\ part.defs = defs /\ part.outputs = outputs
    BY <1>12
  <2>2. DOMAIN part = {"ok", "inputs", "defs", "outputs"} /\ DOMAIN Failed = {"ok"}
    BY <1>12 DEF Failed
  <2> QED
    BY <2>1, <2>2
<1>14. spends = many.inputs
  <2> DEFINE b == many.inputs
  <2>1. b \in Seq(available)
    BY <1>3
  <2> HIDE DEF b
  <2>2. <<>> \o b = b
    BY <2>1
  <2> QED
    BY <2>2 DEF b
<1>15. defs = <<>> \/ Len(defs) >= 2
  <2>1. CASE explicit = <<>>
    BY <2>1
  <2>2. CASE explicit # <<>>
    <3>1. Len(explicit) # 0
      BY <1>4, <2>2 DEF Listing
    <3>2. Len(hidden) >= 2
      <4> DEFINE a == Len(explicit)
                 b == Len(hidden)
      <4>1. a = b /\ b \in Nat /\ a # 0 /\ b # 1
        BY <1>4, <3>1
      <4> HIDE DEF a, b
      <4>2. b >= 2
        BY <4>1
      <4> QED
        BY <4>2 DEF b
    <3> HIDE DEF defs, hidden, changes, shields
    <3>3. Len(defs) >= Len(hidden) /\ Len(defs) \in Nat
      BY <1>4, <1>5, <1>8
    <3> QED
      BY <1>4, <3>2, <3>3
  <2> QED
    BY <2>1, <2>2
<1>16. defs # <<>> => hidden # <<>>
  <2>1. explicit = <<>> => defs = <<>>
    OBVIOUS
  <2> QED
    BY <1>4, <2>1
<1>17. ShieldedFees(defs) <= ShieldedFees(hidden) + IF shields THEN fee * count ELSE 0
  <2> DEFINE a == fee * Len(changes)
             b == fee * count
  <2>1. a <= b /\ a \in Nat /\ b \in Nat
    <3> DEFINE c == Len(changes)
    <3>1. c \in Nat /\ count \in Nat /\ c <= count /\ fee \in Nat
      BY <1>2, <1>5, <1>7
    <3> HIDE DEF c, count, fee
    <3>2. PICK d \in Nat : count = c + d
      <4>1. count - c \in Nat /\ count = c + (count - c)
        BY <3>1
      <4> QED
        BY <4>1
    <3>3. fee * count = fee * c + fee * d /\ fee * c \in Nat /\ fee * d \in Nat
      BY <3>1, <3>2
    <3> QED
      BY <3>3 DEF c
  <2>2. ShieldedFees(defs) = ShieldedFees(hidden) + IF shields THEN a ELSE 0
    BY <1>8
  <2> DEFINE x == ShieldedFees(defs)
             y == ShieldedFees(hidden)
  <2>3. y \in Nat
    BY <1>5
  <2> HIDE DEF a, b, x, y, shields
  <2>4. x <= y + IF shields THEN b ELSE 0
    BY <2>1, <2>2, <2>3 DEF x, y
  <2> QED
    BY <2>4 DEF b, x, y
<1> HIDE DEF part, defs, spends, outputs, shields, count, fee, changes, explicit
<1>18. \A k : Cardinality(Carriers(Public(part.outputs), k)) <= Cardinality(Carriers(r.outputs, k)) + IF k \in T THEN 1 ELSE 0
  <2> SUFFICES ASSUME NEW k
               PROVE  Cardinality(Carriers(Public(outputs), k)) <= Cardinality(Carriers(asked, k)) + IF k \in T THEN 1 ELSE 0
    BY <1>13
  <2> DEFINE a == Cardinality(Carriers(Public(outputs), k))
             b == Cardinality(Carriers(asked, k))
             c == Cardinality(Carriers(more, k))
  <2>1. Listing(Public(outputs))
    BY <1>10, HiddenAndPublic
  <2>2. a \in Nat /\ b \in Nat
    BY <1>1, <2>1, FundsType
  <2>3. a <= b + c /\ c \in Nat /\ c <= IF k \in T THEN 1 ELSE 0
    BY <1>9, <1>10
  <2> HIDE DEF a, b, c
  <2>4. a <= b + IF k \in T THEN 1 ELSE 0
    BY <2>2, <2>3
  <2> QED
    BY <2>4 DEF a, b
<1>19. Len(Public(part.outputs)) <= Len(Public(r.outputs)) + Cardinality(T)
  <2> DEFINE a == Len(Public(outputs))
             b == Len(Public(asked))
             c == Len(more)
  <2>1. a \in Nat /\ b \in Nat /\ c \in Nat /\ a <= b + c /\ c <= count /\ count \in Nat
    BY <1>5, <1>9, <1>10
  <2> HIDE DEF a, b, c
  <2>2. a <= b + count
    BY <2>1
  <2> QED
    BY <1>13, <2>2 DEF a, b, count
<1>20. \A k : k \notin T => OfToken(Range(part.inputs), k) = {}
  BY <1>3, <1>13, <1>14
<1>21. FewMore(part, r, T)
  BY <1>6, <1>8, <1>10, <1>11, <1>13, <1>15, <1>16, <1>17, <1>18, <1>19, <1>20 DEF FewMore, fee, count
<1> QED
  BY <1>21 DEF part, explicit

-----------------------------------------------------------------------------
(* The most that may be charged for the outputs *)

\* Every output of a token that pays fees, and one change of each such token.
ChargedAtMost(asked) ==
    SumFunction([t \in TokensOf(asked) \cap FeeTokens |-> FeePerOutput * (Cardinality(Carriers(asked, t)) + 1)])

LEMMA FeeIsBounded ==
  ASSUME NEW asked, Listing(asked), NEW f,
         \A t \in FeeTokens : /\ f[t] \in Nat /\ f[t] <= Cardinality(Carriers(asked, t)) + 1
                              /\ t \notin TokensOf(asked) => f[t] = 0
  PROVE  /\ FeePerOutput * SumFunctionOnSet(f, FeeTokens) <= ChargedAtMost(asked)
         /\ FeePerOutput * SumFunctionOnSet(f, FeeTokens) \in Nat /\ ChargedAtMost(asked) \in Nat
<1> DEFINE S == TokensOf(asked) \cap FeeTokens
           c == FeePerOutput
           g == [t \in FeeTokens |-> c * f[t]]
           h == [t \in S |-> c * (Cardinality(Carriers(asked, t)) + 1)]
<1>1. IsFiniteSet(FeeTokens) /\ c \in Nat
  BY TokensPayFees
<1>2. S \subseteq FeeTokens /\ IsFiniteSet(S)
  BY <1>1, FS_Subset
<1>3. \A t : Cardinality(Carriers(asked, t)) \in Nat
  BY FundsType
<1>4. \A a, b \in Nat : a <= b => c * a <= c * b /\ c * a \in Nat /\ c * b \in Nat
  <2> SUFFICES ASSUME NEW a \in Nat, NEW b \in Nat, a <= b
               PROVE  c * a <= c * b /\ c * a \in Nat /\ c * b \in Nat
    OBVIOUS
  <2> HIDE DEF c
  <2>1. PICK d \in Nat : b = a + d
    <3>1. b - a \in Nat /\ b = a + (b - a)
      OBVIOUS
    <3> QED
      BY <3>1
  <2>2. c * b = c * a + c * d /\ c * a \in Nat /\ c * d \in Nat
    BY <1>1, <2>1
  <2> QED
    BY <2>2
<1>5. ChargedAtMost(asked) = SumFunctionOnSet(h, S)
  BY Zenon DEF ChargedAtMost, SumFunction
<1>6. \A t \in S : h[t] = c * (Cardinality(Carriers(asked, t)) + 1)
  OBVIOUS
<1>7. \A t \in FeeTokens : g[t] = c * f[t]
  OBVIOUS
<1> HIDE DEF c, g, h
<1>8. \A t \in FeeTokens : f[t] \in Int /\ g[t] = c * f[t] /\ g[t] \in Nat
  <2> SUFFICES ASSUME NEW t \in FeeTokens PROVE f[t] \in Int /\ g[t] = c * f[t] /\ g[t] \in Nat
    OBVIOUS
  <2>1. f[t] \in Nat
    OBVIOUS
  <2>2. c * f[t] \in Nat
    BY <1>4, <2>1
  <2> QED
    BY <1>7, <2>1, <2>2
<1>9. SumFunctionOnSet(g, FeeTokens) = c * SumFunctionOnSet(f, FeeTokens)
  <2>1. c \in Int
    BY <1>1
  <2> QED
    BY <1>1, <1>8, <2>1, SumScaled
<1>10. SumFunctionOnSet(g, FeeTokens) = SumFunctionOnSet(g, S)
  <2>1. \A t \in FeeTokens \ S : f[t] = 0
    OBVIOUS
  <2>2. c * 0 = 0
    BY <1>1
  <2>3. \A t \in FeeTokens \ S : g[t] = 0
    BY <1>8, <2>1, <2>2
  <2>4. \A t \in FeeTokens : g[t] \in Int
    BY <1>8
  <2> HIDE DEF S
  <2> QED
    BY <1>1, <1>2, <2>3, <2>4, SumZeros
<1>11. \A t \in S : g[t] \in Int /\ h[t] \in Int /\ h[t] \in Nat /\ g[t] \in Nat /\ g[t] <= h[t]
  <2> SUFFICES ASSUME NEW t \in S PROVE g[t] \in Int /\ h[t] \in Int /\ h[t] \in Nat /\ g[t] \in Nat /\ g[t] <= h[t]
    OBVIOUS
  <2> DEFINE a == f[t]
             b == Cardinality(Carriers(asked, t)) + 1
  <2>1. a \in Nat /\ b \in Nat /\ a <= b /\ g[t] = c * a /\ h[t] = c * b
    BY <1>2, <1>3, <1>6, <1>8
  <2> HIDE DEF a, b
  <2>2. c * a <= c * b /\ c * a \in Nat /\ c * b \in Nat
    BY <1>4, <2>1
  <2> QED
    BY <2>1, <2>2
<1> HIDE DEF S
<1>12. SumFunctionOnSet(g, S) <= SumFunctionOnSet(h, S)
  BY <1>2, <1>11, SumLess
<1>13. SumFunctionOnSet(g, S) \in Nat /\ SumFunctionOnSet(h, S) \in Nat
  BY <1>2, <1>11, SumNat
<1> QED
  BY <1>5, <1>9, <1>10, <1>12, <1>13 DEF c

\* The fee of a transaction that has one change of each token at most.
LEMMA CalculatedFeeIsBounded ==
  ASSUME NEW r, Listing(r.outputs), NEW part, FewMore(part, r, TokensOf(r.outputs) \ {HTR}),
         Distinct(part.inputs, KnownUtxos)
  PROVE  LET fee == CalculateFee(part.inputs, Public(part.outputs), <<>>)
         IN  fee <= ChargedAtMost(r.outputs) /\ fee \in Nat /\ ChargedAtMost(r.outputs) \in Nat
<1> DEFINE T == TokensOf(r.outputs) \ {HTR}
           public == Public(part.outputs)
           us == Range(part.inputs)
           f == [t \in FeeTokens |-> Owed(us, public, t)]
           asked == r.outputs
<1>1. /\ \A k : k \notin T => OfToken(us, k) = {}
      /\ \A k : Cardinality(Carriers(public, k)) <= Cardinality(Carriers(asked, k)) + IF k \in T THEN 1 ELSE 0
      /\ Listing(public)
  <2>1. Listing(part.outputs)
    BY DEF FewMore
  <2>2. Listing(public)
    BY <2>1, HiddenAndPublic
  <2> QED
    BY <2>2 DEF FewMore
<1>2. CalculateFee(part.inputs, public, <<>>) = FeePerOutput * SumFunctionOnSet(f, FeeTokens)
  BY <1>1, CalculatedFee
<1>3. \A k : Cardinality(Carriers(public, k)) \in Nat /\ Cardinality(Carriers(asked, k)) \in Nat
  BY <1>1, FundsType
<1> HIDE DEF public, us
<1>4. ASSUME NEW t \in FeeTokens
      PROVE  /\ f[t] \in Nat /\ f[t] <= Cardinality(Carriers(asked, t)) + 1
             /\ t \notin TokensOf(asked) => f[t] = 0
  <2> DEFINE a == Cardinality(Carriers(public, t))
             b == Cardinality(Carriers(asked, t))
  <2>1. f[t] = IF a > 0 THEN a ELSE IF Available(us, t) # {} THEN 1 ELSE 0
    BY DEF Owed
  <2>2. a \in Nat /\ b \in Nat /\ a <= b + (IF t \in T THEN 1 ELSE 0)
    BY <1>1, <1>3
  <2>3. t \notin T => Available(us, t) = {}
    BY <1>1 DEF Available, OfToken
  <2>4. t \notin TokensOf(asked) => t \notin T /\ b = 0
    <3> SUFFICES ASSUME t \notin TokensOf(asked) PROVE t \notin T /\ b = 0
      OBVIOUS
    <3>1. Carriers(asked, t) = {}
      BY DEF Carriers, TokensOf
    <3> QED
      BY <3>1, FS_EmptySet
  <2> HIDE DEF a, b, T, f
  <2>5. f[t] \in Nat /\ f[t] <= b + 1
    BY <2>1, <2>2
  <2>6. t \notin TokensOf(asked) => f[t] = 0
    BY <2>1, <2>2, <2>3, <2>4
  <2> QED
    BY <2>5, <2>6 DEF b
<1> HIDE DEF f, asked
<1>5. Listing(asked)
  BY DEF asked
<1>6. /\ FeePerOutput * SumFunctionOnSet(f, FeeTokens) <= ChargedAtMost(asked)
      /\ FeePerOutput * SumFunctionOnSet(f, FeeTokens) \in Nat /\ ChargedAtMost(asked) \in Nat
  BY <1>4, <1>5, FeeIsBounded
<1> QED
  BY <1>2, <1>6 DEF public, asked

-----------------------------------------------------------------------------
(* The native token of a send of what there is *)

\* What is chosen of the native token, and the change.
NativeFor(h, left, available) ==
    /\ h = [ok |-> TRUE, inputs |-> h.inputs, outputs |-> Change(HTR, left)]
    /\ Distinct(h.inputs, Available(available, HTR))

\* There is enough to shield one more change, and what has become of it.
MayConvert(defs, mode, room) ==
    mode # "none" /\ defs # <<>> => Len(defs) < MaxShielded /\ room > ShieldedFee(mode)
ConvertsOne(c, defs) ==
    /\ c.ok = TRUE
    /\ \/ c.defs = defs
       \/ defs # <<>> /\ Len(c.defs) = Len(defs) + 1 /\ Len(defs) < MaxShielded
    /\ Len(c.htr.outputs) \in 0..1

\* The native change is converted when more than its fee is left to pull.
LEMMA HtrChangeConverts ==
  ASSUME NEW available \in SUBSET KnownUtxos, NEW used, OfToken(used, HTR) = {},
         NEW left \in Nat, NEW h, NativeFor(h, left, available),
         NEW chooses \in BOOLEAN, ~chooses => h.outputs = <<>>,
         NEW defs, Listing(defs), NEW mode,
         MayConvert(defs, mode, Total(Available(available, HTR)) + left - Total(Range(h.inputs))),
         NEW c, c = ConvertHtrChange(h, defs, mode, chooses, used, available)
  PROVE  ConvertsOne(c, defs)
<1> DEFINE added == ShieldedFee(mode)
           change == h.outputs[1].value
           us == Spare(available, used \cup Range(h.inputs))
           pulled == Pulled(us, added - change)
           more == IF change > added THEN Selection(<<>>) ELSE pulled
           kept == [ok |-> TRUE, htr |-> h, defs |-> defs, addedFee |-> 0]
           replaced == [h EXCEPT !.inputs = @ \o more.utxos, !.outputs = <<>>]
           shown == Append(defs, ShieldedDef(HTR, change + more.amount - added, mode))
           stays == mode = "none" \/ defs = <<>> \/ h.outputs = <<>>
           fails == \/ Len(defs) >= MaxShielded
                    \/ change <= added /\ ~chooses
                    \/ change + more.amount <= added
<1>0. /\ h = [ok |-> TRUE, inputs |-> h.inputs, outputs |-> Change(HTR, left)]
      /\ Distinct(h.inputs, Available(available, HTR))
  BY DEF NativeFor
<1>1. c = IF stays THEN kept
          ELSE IF fails THEN Failed
          ELSE [ok |-> TRUE, htr |-> replaced, defs |-> shown, addedFee |-> added]
  BY Zenon DEF ConvertHtrChange, Pulled
<1>2. Len(h.outputs) \in 0..1
  <2> DEFINE given == h.inputs
             changes == Change(HTR, left)
  <2>1. h = [ok |-> TRUE, inputs |-> given, outputs |-> changes]
    BY <1>0
  <2>2. Len(changes) \in 0..1
    BY DEF Change, Positive
  <2> HIDE DEF given, changes
  <2>3. h.outputs = changes
    BY <2>1, ProposalFields
  <2> QED
    BY <2>2, <2>3
<1>3. CASE stays
  <2>1. c = kept
    BY <1>1, <1>3
  <2>2. c.ok = TRUE /\ c.htr = h /\ c.defs = defs
    <3> QED
      BY <2>1
  <2> QED
    BY <1>2, <2>2 DEF ConvertsOne
<1>4. CASE ~stays
  <2>1. mode # "none" /\ defs # <<>> /\ h.outputs # <<>>
    BY <1>4
  <2>2. Len(defs) < MaxShielded /\ Total(Available(available, HTR)) + left - Total(Range(h.inputs)) > added
    BY <2>1 DEF MayConvert
  <2>3. chooses
    BY <2>1
  <2>4. change = left
    <3>1. h.outputs = Change(HTR, left) /\ h.outputs # <<>>
      <4> DEFINE given == h.inputs
                 changes == Change(HTR, left)
      <4>1. h = [ok |-> TRUE, inputs |-> given, outputs |-> changes]
        BY <1>0
      <4> HIDE DEF given, changes
      <4>2. h.outputs = changes
        BY <4>1, ProposalFields
      <4> QED
        BY <2>1, <4>2 DEF changes
    <3>2. h.outputs = <<Output(HTR, left, {}, "change")>>
      BY <3>1, Zenon DEF Change, Positive
    <3> QED
      BY <3>2 DEF Output
  <2> DEFINE all == Available(available, HTR)
             taken == Range(h.inputs)
  <2>5. us \in SUBSET KnownUtxos /\ taken \in SUBSET KnownUtxos /\ us \cap taken = {} /\ us \cup taken = all
    <3>1. taken \in SUBSET all
      BY <1>0 DEF Distinct, Range
    <3>2. \A u \in all : u \notin used
      BY DEF OfToken, Available
    <3>3. all \in SUBSET KnownUtxos
      BY DEF Available
    <3>4. us = all \ (used \cup taken)
      BY DEF Spare
    <3> HIDE DEF us, all, taken
    <3> QED
      BY <3>1, <3>2, <3>3, <3>4
  <2> HIDE DEF us, all, taken
  <2>6. Total(all) = Total(us) + Total(taken) /\ Total(us) \in Nat /\ Total(taken) \in Nat
    BY <2>5, TotalJoin, TotalType
  <2>7. added \in Nat
    BY ShieldedFeeType
  <2>8. Total(us) > added - left
    <3>1. Total(all) + left - Total(taken) > added
      BY <2>2 DEF all, taken
    <3> HIDE DEF added
    <3> QED
      BY <2>6, <2>7, <3>1
  <2>9. change + more.amount > added
    <3>1. CASE change > added
      <4>1. more = Selection(<<>>)
        BY <3>1
      <4>2. Selection(<<>>) = [utxos |-> <<>>, amount |-> 0]
        BY SelectedNothing
      <4> HIDE DEF more, added, change
      <4>3. more.amount = 0
        BY <4>1, <4>2
      <4> QED
        BY <2>4, <2>7, <3>1, <4>3
    <3>2. CASE ~(change > added)
      <4>1. more = pulled
        BY <3>2
      <4> DEFINE least == added - left
      <4>2. least \in Int /\ Total(us) > least /\ added = least + left
        <5> HIDE DEF added
        <5> QED
          BY <2>7, <2>8
      <4>3. pulled = Pulled(us, least)
        BY <2>4
      <4> HIDE DEF least, pulled, more, added, change
      <4>4. pulled.amount > least
        BY <2>5, <4>2, <4>3, PulledEnough
      <4>5. pulled.amount \in Nat
        <5>1. Selected(pulled, us)
          BY <2>5, <4>3, PulledIs
        <5> DEFINE chosen == pulled.utxos
        <5>2. pulled.amount = Total(Range(chosen)) /\ Distinct(chosen, us)
          BY <5>1 DEF Selected
        <5> HIDE DEF chosen
        <5>3. Range(chosen) \in SUBSET us
          BY <5>2 DEF Distinct, Range
        <5> QED
          BY <2>5, <5>2, <5>3, TotalType
      <4> QED
        BY <2>4, <4>1, <4>2, <4>4, <4>5
    <3> QED
      BY <3>1, <3>2
  <2>10. ~fails
    <3>1. ~(Len(defs) >= MaxShielded)
      <4>1. Len(defs) \in Nat /\ MaxShielded \in Nat
        BY TxFundsAssumption DEF Listing
      <4> QED
        BY <2>2, <4>1
    <3>2. ~(change + more.amount <= added)
      <4> DEFINE a == change + more.amount
      <4>1. a > added /\ added \in Nat
        BY <2>7, <2>9
      <4>2. a \in Int
        <5>1. left \in Nat /\ change = left
          BY <2>4
        <5>2. more.amount \in Nat
          <6>1. CASE change > added
            <7>1. more = Selection(<<>>)
              BY <6>1
            <7>2. Selection(<<>>) = [utxos |-> <<>>, amount |-> 0]
              BY SelectedNothing
            <7> HIDE DEF more, added, change
            <7> QED
              BY <7>1, <7>2
          <6>2. CASE ~(change > added)
            <7>1. more = pulled
              BY <6>2
            <7>2. Selected(pulled, us)
              BY <2>5, PulledIs
            <7> HIDE DEF more, pulled
            <7> DEFINE chosen == pulled.utxos
            <7>3. pulled.amount = Total(Range(chosen)) /\ Distinct(chosen, us)
              BY <7>2 DEF Selected
            <7> HIDE DEF chosen
            <7>4. Range(chosen) \in SUBSET us
              BY <7>3 DEF Distinct, Range
            <7>5. pulled.amount \in Nat
              BY <2>5, <7>3, <7>4, TotalType
            <7> QED
              BY <7>1, <7>5
          <6> QED
            BY <6>1, <6>2
        <5> HIDE DEF more, change
        <5> QED
          BY <5>1, <5>2
      <4> HIDE DEF a, added
      <4>3. ~(a <= added)
        BY <4>1, <4>2
      <4> QED
        BY <4>3 DEF a
    <3> HIDE DEF change, more, added
    <3> QED
      BY <2>3, <3>1, <3>2
  <2>11. c = [ok |-> TRUE, htr |-> replaced, defs |-> shown, addedFee |-> added]
    BY <1>1, <1>4, <2>10
  <2>12. c.ok = TRUE /\ c.htr = replaced /\ c.defs = shown
    <3> HIDE DEF replaced, shown, added
    <3> QED
      BY <2>11
  <2>13. replaced.outputs = <<>>
    <3> DEFINE a == h.inputs
               b == Change(HTR, left)
               extra == more.utxos
    <3>1. h = [ok |-> TRUE, inputs |-> a, outputs |-> b]
      BY <1>0
    <3>2. replaced = [h EXCEPT !.inputs = @ \o extra, !.outputs = <<>>]
      OBVIOUS
    <3> HIDE DEF a, b, replaced, extra
    <3> QED
      BY <3>1, <3>2, FieldsOfHtr
  <2>14. Len(shown) = Len(defs) + 1
    <3> DEFINE d == ShieldedDef(HTR, change + more.amount - added, mode)
    <3>1. defs \in Seq(Range(defs) \cup {d}) /\ shown = Append(defs, d)
      BY DEF Listing
    <3> HIDE DEF d, shown
    <3> QED
      BY <3>1
  <2>15. Len(c.htr.outputs) = 0
    <3> HIDE DEF replaced
    <3> QED
      BY <2>12, <2>13
  <2> HIDE DEF shown, replaced
  <2>16. Len(c.defs) = Len(defs) + 1
    BY <2>12, <2>14
  <2> QED
    BY <2>1, <2>2, <2>12, <2>15, <2>16 DEF ConvertsOne
<1> QED
  BY <1>3, <1>4

\* The native token is found when there is enough of it, and what is left of it is what
\* was there less what is needed.
LEMMA HtrIsFound ==
  ASSUME NEW available \in SUBSET KnownUtxos,
         NEW used, Distinct(used, KnownUtxos), OfToken(Range(used), HTR) = {},
         NEW chooses \in BOOLEAN, NEW outputs, Listing(outputs), NEW fee \in Nat,
         chooses => fee + Funds(outputs, HTR) # 0, ~chooses => fee + Funds(outputs, HTR) = 0,
         Total(Available(available, HTR)) >= fee + Funds(outputs, HTR),
         NEW h, h = PrepareSendTokensData(HTR, chooses, used, outputs, fee, available)
  PROVE  /\ h.ok = TRUE /\ h # Failed /\ (~chooses => h.outputs = <<>>)
         /\ \E left \in Nat :
              /\ NativeFor(h, left, available)
              /\ Total(Range(h.inputs)) <= fee + Funds(outputs, HTR) + left
<1> DEFINE needed == fee + Funds(outputs, HTR)
           all == Total(Available(available, HTR))
<1>1. needed \in Nat /\ all \in Nat
  <2>1. Available(available, HTR) \in SUBSET KnownUtxos
    BY DEF Available
  <2>2. all \in Nat
    BY <2>1, TotalType
  <2>3. Funds(outputs, HTR) \in Nat
    BY FundsType
  <2> QED
    BY <2>2, <2>3
<1>2. (chooses => needed # 0 /\ all >= needed) /\ (~chooses => needed = 0)
  BY <1>1
<1>3. h # Failed /\ h.ok = TRUE /\ (~chooses => h.outputs = <<>>)
  <2>1. CASE chooses
    <3>1. chooses = TRUE
      BY <2>1
    <3>2. h = PrepareSendTokensData(HTR, TRUE, used, outputs, fee, available)
      BY <3>1
    <3>3. h # Failed /\ h.ok = TRUE
      BY <1>2, <2>1, <3>2, SendTokensFinds
    <3> QED
      BY <2>1, <3>3, Zenon
  <2>2. CASE ~chooses
    <3>1. chooses = FALSE
      BY <2>2
    <3>2. h = PrepareSendTokensData(HTR, FALSE, used, outputs, fee, available)
      BY <3>1
    <3>3. h # Failed /\ h.ok = TRUE /\ h.outputs = <<>>
      BY <1>2, <2>2, <3>2, SendTokensNeedsNothing
    <3> QED
      BY <3>3, Zenon
  <2> QED
    BY <2>1, <2>2, Zenon
<1>4. Proposes(h, chooses, HTR, used, needed, available)
  BY SendTokensProposes
<1> HIDE DEF needed, all
<1>5. PICK left \in Nat :
        /\ h = [ok |-> TRUE, inputs |-> h.inputs, outputs |-> Change(HTR, left)]
        /\ Distinct(h.inputs, Available(available, HTR))
        /\ IF chooses THEN Total(Range(h.inputs)) = needed + left ELSE h.inputs = <<>>
  BY <1>3, <1>4 DEF Proposes
<1>6. Total(Range(h.inputs)) <= needed + left
  <2>1. CASE chooses
    <3>1. Total(Range(h.inputs)) = needed + left
      BY <1>5, <2>1
    <3> QED
      BY <1>1, <3>1
  <2>2. CASE ~chooses
    <3>1. Range(h.inputs) = {}
      BY <1>5, <2>2, DistinctNone
    <3>2. Total(Range(h.inputs)) = 0
      BY <3>1, SumEmpty DEF Total
    <3> QED
      BY <1>1, <3>2
  <2> QED
    BY <2>1, <2>2
<1> QED
  BY <1>3, <1>5, <1>6 DEF needed, NativeFor

\* The last step of a send fails for the shielded outputs alone.
LEMMA FinishFinds ==
  ASSUME NEW r, NEW part, NEW fee, NEW c, c.ok = TRUE,
         Len(c.defs) # 1, ~(Len(c.defs) > MaxShielded)
  PROVE  LET x == FinishTx(r, part, fee, c)
         IN  /\ x.ok = TRUE /\ x # Failed
             /\ x.outputs = Public(part.outputs) \o c.htr.outputs /\ x.shielded = c.defs
<1> DEFINE outputs == Public(part.outputs) \o c.htr.outputs
           spends == part.inputs \o c.htr.inputs
           defs == c.defs
           listed == ((InputTokensOf(r) \cup OutputTokensOf(r)) \ {HTR}) \cap VisibleTokens(outputs, defs)
           total == fee + c.addedFee
           x == [Tx(spends, outputs, total) EXCEPT !.shielded = defs, !.tokens = listed]
           y == FinishTx(r, part, fee, c)
<1>1. y = x
  BY Zenon DEF FinishTx
<1> HIDE DEF spends, outputs, defs, listed, total, y
<1>2. x.ok = TRUE /\ x.outputs = outputs /\ x.shielded = defs
  BY DEF Tx
<1> HIDE DEF x
<1>3. x # Failed
  BY <1>2 DEF Failed
<1> QED
  BY <1>1, <1>2, <1>3 DEF y, outputs, defs

\* What the native token has to be chosen for is neither too much nor nothing.
Affords(chooses, needed, all) ==
    (chooses => needed # 0) /\ (~chooses => needed = 0) /\ all >= needed

\* The native inputs are found, with a change that is converted or kept.
LEMMA NativeIsFound ==
  ASSUME NEW available \in SUBSET KnownUtxos,
         NEW used, Distinct(used, KnownUtxos), OfToken(Range(used), HTR) = {},
         NEW chooses \in BOOLEAN, NEW outputs, Listing(outputs), NEW fee \in Nat,
         Affords(chooses, fee + Funds(outputs, HTR), Total(Available(available, HTR))),
         NEW defs, Listing(defs), NEW mode,
         MayConvert(defs, mode, Total(Available(available, HTR)) - (fee + Funds(outputs, HTR))),
         NEW h, h = PrepareSendTokensData(HTR, chooses, used, outputs, fee, available),
         NEW c, c = ConvertHtrChange(h, defs, mode, chooses, Range(used), available)
  PROVE  h.ok = TRUE /\ ConvertsOne(c, defs) /\ Listing(c.htr.outputs)
<1>1. /\ h.ok = TRUE /\ h # Failed /\ (~chooses => h.outputs = <<>>)
      /\ \E left \in Nat :
            /\ NativeFor(h, left, available)
            /\ Total(Range(h.inputs)) <= fee + Funds(outputs, HTR) + left
  BY HtrIsFound DEF Affords
<1>2. Proposes(h, chooses, HTR, used, fee + Funds(outputs, HTR), available)
  BY SendTokensProposes
<1>3. PICK left \in Nat :
         /\ NativeFor(h, left, available)
         /\ Total(Range(h.inputs)) <= fee + Funds(outputs, HTR) + left
  BY <1>1
<1>4. MayConvert(defs, mode, Total(Available(available, HTR)) + left - Total(Range(h.inputs)))
  <2> DEFINE a == Total(Available(available, HTR))
             b == Total(Range(h.inputs))
             s == ShieldedFee(mode)
             f == Funds(outputs, HTR)
  <2>1. a \in Nat /\ s \in Nat /\ f \in Nat
    <3>1. Available(available, HTR) \in SUBSET KnownUtxos
      BY DEF Available
    <3> QED
      BY <3>1, TotalType, FundsType, ShieldedFeeType
  <2>2. b \in Nat
    <3>1. Range(h.inputs) \in SUBSET KnownUtxos
      BY <1>3 DEF NativeFor, Distinct, Range, Available
    <3> QED
      BY <3>1, TotalType
  <2>3. b <= fee + f + left /\ MayConvert(defs, mode, a - (fee + f))
    BY <1>3
  <2>4. s = ShieldedFee(mode)
    OBVIOUS
  <2> HIDE DEF a, b, s, f
  <2>5. a - (fee + f) > s => a + left - b > s
    BY <2>1, <2>2, <2>3
  <2>6. MayConvert(defs, mode, a + left - b)
    BY <2>3, <2>4, <2>5 DEF MayConvert
  <2> QED
    BY <2>6 DEF a, b
<1>5. ConvertsOne(c, defs)
  <2>1. PICK taken : taken = Range(used)
    OBVIOUS
  <2>2. OfToken(taken, HTR) = {} /\ c = ConvertHtrChange(h, defs, mode, chooses, taken, available)
    BY <2>1
  <2> QED
    BY <1>1, <1>3, <1>4, <2>2, HtrChangeConverts
<1>6. Listing(c.htr.outputs)
  <2>1. PICK total \in Nat : total = fee + Funds(outputs, HTR)
    BY FundsType
  <2>2. Proposes(h, chooses, HTR, used, total, available)
    BY <1>2, <2>1
  <2>3. HtrCovers(h, used, total, available)
    BY <2>2, HtrIsCovered
  <2>4. Converted(c, defs, used, total, available)
    BY <1>1, <2>3, HtrIsConverted
  <2>5. c # Failed
    BY <1>5 DEF Failed, ConvertsOne
  <2>6. PICK v \in Nat : c.htr.outputs = Change(HTR, v)
    BY <2>4, <2>5 DEF Converted
  <2> QED
    BY <2>6, FundsOfChange
<1> QED
  BY <1>1, <1>5, <1>6

LEMMA CoverHtrFinds ==
  ASSUME NEW available \in SUBSET KnownUtxos, NEW r, Asked(r), r.inputs = <<>>,
         \A i \in DOMAIN r.outputs : r.outputs[i].value > 0,
         NEW T, IsFiniteSet(T), HTR \notin T, NEW part, FewMore(part, r, T), Distinct(part.inputs, KnownUtxos),
         NEW fee \in Nat, Len(Hidden(r.outputs)) + Cardinality(T) + 1 <= MaxShielded,
         Total(Available(available, HTR))
         >= Funds(r.outputs, HTR) + fee + IF Shields(r) THEN ShieldedFee(r.mode) + 1 ELSE 0
  PROVE  LET x == CoverHtr(r, part, fee, available)
         IN  /\ x # Failed /\ x.ok = TRUE
             /\ Len(x.outputs) <= Len(Public(part.outputs)) + 1
             /\ Len(x.shielded) <= MaxShielded /\ Len(x.shielded) \in Nat
<1> DEFINE chooses == /\ HTR \notin InputTokensOf(r)
                      /\ HTR \in OutputTokensOf(r) \/ fee > 0
           used == part.inputs
           outputs == part.outputs
           defs == part.defs
           h == PrepareSendTokensData(HTR, chooses, used, outputs, fee, available)
           c == ConvertHtrChange(h, defs, r.mode, chooses, Range(used), available)
           x == CoverHtr(r, part, fee, available)
           extra == IF Shields(r) THEN ShieldedFee(r.mode) + 1 ELSE 0
           mode == r.mode
           hidden == Len(Hidden(r.outputs))
           count == Cardinality(T)
<1>1. x = IF HTR \in InputTokensOf(r) \ OutputTokensOf(r) /\ fee = 0 THEN Failed
          ELSE IF ~h.ok THEN Failed ELSE FinishTx(r, part, fee, c)
  BY Zenon DEF CoverHtr
<1>2. InputTokensOf(r) = {}
  BY DEF InputTokensOf
<1>3. /\ Distinct(used, KnownUtxos) /\ Listing(outputs) /\ Listing(defs) /\ OfToken(Range(used), HTR) = {}
      /\ Funds(outputs, HTR) = Funds(r.outputs, HTR)
      /\ Len(defs) <= hidden + count /\ (defs = <<>> \/ Len(defs) >= 2)
      /\ defs # <<>> => Hidden(r.outputs) # <<>>
  BY DEF FewMore
<1>4. chooses \in BOOLEAN /\ (chooses <=> HTR \in OutputTokensOf(r) \/ fee > 0)
  BY <1>2
<1>5. Listing(r.outputs) /\ \A i \in DOMAIN r.outputs : r.outputs[i].authorities = {}
  BY DEF Asked, Valued
<1>6. (chooses => fee + Funds(outputs, HTR) # 0) /\ (~chooses => fee + Funds(outputs, HTR) = 0)
  <2> DEFINE asked == r.outputs
  <2>1. Funds(asked, HTR) \in Nat
    BY <1>5, FundsType
  <2>2. ASSUME HTR \in OutputTokensOf(r) PROVE Funds(asked, HTR) > 0
    <3>1. PICK i \in DOMAIN asked : asked[i].token = HTR
      BY <2>2 DEF OutputTokensOf
    <3>2. i \in Carriers(asked, HTR) /\ asked[i].value > 0 /\ Listing(asked)
      BY <1>5, <3>1 DEF Carriers
    <3> HIDE DEF asked
    <3> QED
      BY <3>2, FundsArePositive
  <2>3. ASSUME HTR \notin OutputTokensOf(r) PROVE Funds(asked, HTR) = 0
    <3>1. Carriers(asked, HTR) = {}
      BY <2>3 DEF Carriers, OutputTokensOf
    <3> QED
      BY <3>1, SumEmpty DEF Funds, SumFunction
  <2> DEFINE f == Funds(asked, HTR)
  <2>4. f \in Nat /\ f = Funds(outputs, HTR)
    BY <1>3, <2>1
  <2>5. chooses <=> f > 0 \/ fee > 0
    BY <1>4, <2>1, <2>2, <2>3
  <2> HIDE DEF f, chooses
  <2> QED
    BY <2>4, <2>5
<1>7. extra \in Nat
  BY ShieldedFeeType
<1>8. /\ Total(Available(available, HTR)) >= fee + Funds(outputs, HTR) + extra
      /\ Total(Available(available, HTR)) >= fee + Funds(outputs, HTR)
      /\ Total(Available(available, HTR)) \in Nat /\ Funds(outputs, HTR) \in Nat
  <2> DEFINE all == Total(Available(available, HTR))
             f == Funds(r.outputs, HTR)
  <2>1. all >= f + fee + extra
    OBVIOUS
  <2>2. f \in Nat /\ f = Funds(outputs, HTR)
    BY <1>3, <1>5, FundsType
  <2>3. all \in Nat
    <3>1. Available(available, HTR) \in SUBSET KnownUtxos
      BY DEF Available
    <3> QED
      BY <3>1, TotalType
  <2> HIDE DEF all, f, extra
  <2>4. all >= fee + f + extra /\ all >= fee + f
    BY <1>7, <2>1, <2>2, <2>3
  <2> QED
    BY <2>2, <2>3, <2>4 DEF all
<1>9. Len(defs) \in Nat /\ hidden \in Nat /\ count \in Nat /\ MaxShielded \in Nat /\ hidden + count + 1 <= MaxShielded
  BY <1>3, <1>5, HiddenAndPublic, FS_CardinalityType, TxFundsAssumption DEF Listing
<1>10. Len(defs) < MaxShielded
  <2> DEFINE d == Len(defs)
  <2>1. d \in Nat /\ d <= hidden + count
    BY <1>3, <1>9
  <2> HIDE DEF d, hidden, count
  <2>2. d < MaxShielded
    BY <1>9, <2>1
  <2> QED
    BY <2>2 DEF d
<1>11. mode # "none" /\ defs # <<>> => extra = ShieldedFee(mode) + 1
  BY <1>3 DEF Shields
<1> HIDE DEF extra, chooses, hidden, count
<1>12. MayConvert(defs, mode, Total(Available(available, HTR)) - (fee + Funds(outputs, HTR)))
  <2> DEFINE a == Total(Available(available, HTR))
             s == ShieldedFee(mode)
             f == Funds(outputs, HTR)
  <2>1. a \in Nat /\ s \in Nat /\ f \in Nat /\ a >= fee + f + extra
    BY <1>8, ShieldedFeeType
  <2>2. mode # "none" /\ defs # <<>> => extra = s + 1
    BY <1>11
  <2> HIDE DEF extra, f, a
  <2>3. mode # "none" /\ defs # <<>> => a - (fee + f) > s
    <3> HIDE DEF s
    <3> QED
      BY <2>1, <2>2
  <2>4. MayConvert(defs, mode, a - (fee + f))
    BY <1>10, <2>3 DEF MayConvert
  <2> QED
    BY <2>4 DEF a, f
<1>17. h.ok = TRUE /\ ConvertsOne(c, defs) /\ Listing(c.htr.outputs)
  <2>1. PICK selects \in BOOLEAN : selects = chooses
    BY <1>4
  <2>2. PICK ins, outs, list, way, found, final :
          /\ ins = used /\ outs = outputs /\ list = defs /\ way = mode
          /\ found = h /\ final = c
    OBVIOUS
  <2>3. found = PrepareSendTokensData(HTR, selects, ins, outs, fee, available)
        /\ final = ConvertHtrChange(found, list, way, selects, Range(ins), available)
    BY <2>1, <2>2
  <2> HIDE DEF used, outputs, defs, mode, c, h
  <2>4. /\ Distinct(ins, KnownUtxos) /\ OfToken(Range(ins), HTR) = {}
        /\ Listing(outs) /\ Listing(list)
    BY <1>3, <2>2
  <2>5. Affords(selects, fee + Funds(outs, HTR), Total(Available(available, HTR)))
    BY <1>6, <1>8, <2>1, <2>2 DEF Affords
  <2>6. MayConvert(list, way, Total(Available(available, HTR)) - (fee + Funds(outs, HTR)))
    BY <1>12, <2>2
  <2>7. found.ok = TRUE /\ ConvertsOne(final, list) /\ Listing(final.htr.outputs)
    BY <2>3, <2>4, <2>5, <2>6, NativeIsFound
  <2> QED
    BY <2>2, <2>7
<1> HIDE DEF used, outputs, defs, mode, c, h
<1>18. Listing(Public(outputs)) /\ Listing(c.htr.outputs)
  BY <1>3, <1>17, HiddenAndPublic
<1>19. Len(c.defs) \in Nat /\ Len(c.defs) # 1 /\ Len(c.defs) <= MaxShielded
  <2> DEFINE d == Len(defs)
             e == Len(c.defs)
  <2>1. d \in Nat /\ d < MaxShielded /\ MaxShielded \in Nat
    BY <1>9, <1>10 DEF defs
  <2>2. d = 0 \/ d >= 2
    BY <1>3
  <2>3. defs # <<>> => d >= 2
    BY <1>3
  <2>4. e = d \/ (e = d + 1 /\ d >= 2)
    BY <1>17, <2>3 DEF ConvertsOne
  <2> HIDE DEF d, e
  <2>5. e \in Nat /\ e # 1 /\ e <= MaxShielded
    BY <2>1, <2>2, <2>4
  <2> QED
    BY <2>5 DEF e
<1>20. x = FinishTx(r, part, fee, c)
  BY <1>1, <1>2, <1>17
<1> HIDE DEF x
<1>21. /\ x.ok = TRUE /\ x # Failed
       /\ x.outputs = Public(outputs) \o c.htr.outputs /\ x.shielded = c.defs
  <2>1. ~(Len(c.defs) > MaxShielded)
    BY <1>9, <1>19
  <2>2. LET y == FinishTx(r, part, fee, c)
        IN  /\ y.ok = TRUE /\ y # Failed
            /\ y.outputs = Public(part.outputs) \o c.htr.outputs /\ y.shielded = c.defs
    BY <1>17, <1>19, <2>1, FinishFinds DEF ConvertsOne
  <2> QED
    BY <1>20, <2>2 DEF outputs
<1>22. Len(x.outputs) <= Len(Public(outputs)) + 1
  <2> DEFINE a == Public(outputs)
             b == c.htr.outputs
  <2>1. Listing(a) /\ Listing(b) /\ Len(b) \in 0..1 /\ x.outputs = a \o b
    BY <1>17, <1>18, <1>21 DEF ConvertsOne
  <2> HIDE DEF a, b
  <2>2. Len(a \o b) = Len(a) + Len(b) /\ Len(a) \in Nat
    BY <2>1, JoinIs
  <2> DEFINE m == Len(a)
             n == Len(b)
             l == Len(x.outputs)
  <2>3. l = m + n /\ m \in Nat /\ n \in 0..1
    BY <2>1, <2>2
  <2> HIDE DEF l, m, n
  <2>4. l <= m + 1
    BY <2>3
  <2> QED
    BY <2>4 DEF l, m, a
<1> QED
  BY <1>19, <1>21, <1>22 DEF x, outputs

\* The most that the fees of a send come to, with one unit more when a change has to be
\* shielded.
ChargedFor(r, count) ==
    ChargedAtMost(r.outputs) + ShieldedFees(Hidden(r.outputs))
    + IF Shields(r) THEN ShieldedFee(r.mode) * (count + 1) + 1 ELSE 0

\* A send of what there is, within the limits of a transaction.
Possible(r, available) ==
    LET T == TokensOf(r.outputs) \ {HTR}
    IN  /\ r.inputs = <<>> /\ \A i \in DOMAIN r.outputs : r.outputs[i].value > 0
        /\ \A t \in T : Total(Available(available, t)) >= Funds(r.outputs, t)
        /\ Total(Available(available, HTR)) >= Funds(r.outputs, HTR) + ChargedFor(r, Cardinality(T))
        /\ Cardinality(available) <= MaxInputs
        /\ Len(Public(r.outputs)) + Cardinality(T) + 1 <= MaxOutputs
        /\ Len(Hidden(r.outputs)) + Cardinality(T) + 1 <= MaxShielded /\ Len(Hidden(r.outputs)) # 1

\* The tokens of a send, which are all to be chosen.
LEMMA TokensToChoose ==
  ASSUME NEW r, Asked(r), r.inputs = <<>>, \A i \in DOMAIN r.outputs : r.outputs[i].value > 0
  PROVE  LET T == TokensOf(r.outputs) \ {HTR}
             m == TokenMap(InputTokensOf(r), OutputTokensOf(r))
         IN  /\ T \subseteq Tokens /\ IsFiniteSet(T) /\ HTR \notin T
             /\ DOMAIN m = T /\ (\A t \in T : m[t] = TRUE /\ Funds(r.outputs, t) > 0)
             /\ InputTokensOf(r) = {}
             /\ \A t \in Tokens \ T : OfToken(Range(r.inputs), t) = {} /\ Funds(r.outputs, t) = 0
<1> DEFINE T == TokensOf(r.outputs) \ {HTR}
           m == TokenMap(InputTokensOf(r), OutputTokensOf(r))
           asked == r.outputs
<1>1. InputTokensOf(r) = {}
  BY DEF InputTokensOf
<1>2. OutputTokensOf(r) = TokensOf(asked)
  BY DEF OutputTokensOf, TokensOf
<1>3. m = [t \in T |-> TRUE]
  <2>1. m = [t \in (TokensOf(asked) \cup {}) \ {HTR} |-> t \notin {}]
    BY <1>1, <1>2 DEF TokenMap
  <2> QED
    BY <2>1
<1>4. T \subseteq Tokens
  BY DEF Asked, TokensOf
<1>5. IsFiniteSet(T)
  BY <1>4, KnownUtxosAreFinite, FS_Subset
<1>6. Listing(asked) /\ \A i \in DOMAIN asked : asked[i].authorities = {} /\ asked[i].value > 0
  BY DEF Asked, Valued
<1>7. ASSUME NEW t \in T PROVE Funds(asked, t) > 0
  <2>1. PICK i \in DOMAIN asked : asked[i].token = t
    BY DEF TokensOf
  <2>2. i \in Carriers(asked, t) /\ asked[i].value > 0
    BY <1>6, <2>1 DEF Carriers
  <2> HIDE DEF asked
  <2> QED
    BY <1>6, <2>2, FundsArePositive
<1>8. ASSUME NEW t \in Tokens \ T PROVE OfToken(Range(r.inputs), t) = {} /\ Funds(asked, t) = 0
  <2>1. t \notin TokensOf(asked)
    BY HtrIsApart
  <2>2. Carriers(asked, t) = {}
    BY <2>1 DEF Carriers, TokensOf
  <2>3. Funds(asked, t) = 0
    BY <2>2, SumEmpty DEF Funds, SumFunction
  <2>4. Range(r.inputs) = {}
    BY DistinctNone
  <2> QED
    BY <2>3, <2>4 DEF OfToken
<1>9. DOMAIN m = T /\ \A t \in T : m[t] = TRUE
  <2> HIDE DEF T, m
  <2> QED
    BY <1>3
<1> QED
  BY <1>1, <1>4, <1>5, <1>7, <1>8, <1>9

\* The custom tokens of a send are found.
LEMMA ManyIsFound ==
  ASSUME NEW available \in SUBSET KnownUtxos, NEW r, Asked(r), Possible(r, available),
         NEW T, T = TokensOf(r.outputs) \ {HTR},
         NEW many, many = PrepareSendManyTokensData(TokenMap(InputTokensOf(r), OutputTokensOf(r)),
                                                    r.inputs, r.outputs, available)
  PROVE  FewChanges(many, T) /\ SendsMany(many, T, r.inputs, r.outputs, available)
<1>1. /\ r.inputs = <<>> /\ \A i \in DOMAIN r.outputs : r.outputs[i].value > 0
      /\ \A t \in T : Total(Available(available, t)) >= Funds(r.outputs, t)
  BY DEF Possible
<1>2. PICK m : m = TokenMap(InputTokensOf(r), OutputTokensOf(r))
  OBVIOUS
<1>3. /\ T \subseteq Tokens /\ DOMAIN m = T
      /\ \A t \in T : m[t] = TRUE /\ Funds(r.outputs, t) > 0
  BY <1>1, <1>2, TokensToChoose
<1>4. PICK outputs, spends : outputs = r.outputs /\ spends = r.inputs
  OBVIOUS
<1>5. Listing(outputs) /\ Distinct(spends, KnownUtxos) /\ OfToken(Range(spends), HTR) = {}
      /\ \A t : OfToken(Range(spends), t) = {}
  <2>1. Distinct(spends, KnownUtxos) /\ Range(spends) = {}
    BY <1>1, <1>4, DistinctNone
  <2> QED
    BY <1>4, <2>1 DEF Asked, Valued, OfToken
<1>6. many = PrepareSendManyTokensData(m, spends, outputs, available)
      /\ many = PrepareSendManyTokensData(m, <<>>, outputs, available)
  BY <1>1, <1>2, <1>4
<1>7. FewChanges(many, T)
  <2>1. /\ DOMAIN m \subseteq Tokens
        /\ \A t \in DOMAIN m : /\ m[t] = TRUE /\ Funds(outputs, t) > 0
                               /\ Total(Available(available, t)) >= Funds(outputs, t)
    BY <1>1, <1>3, <1>4
  <2>2. FewChanges(PrepareSendManyTokensData(m, <<>>, outputs, available), DOMAIN m)
    BY <1>5, <2>1, SendManyFinds
  <2> QED
    BY <1>3, <1>6, <2>2
<1>8. SendsMany(many, T, spends, outputs, available)
  <2>1. \A t \in DOMAIN m : m[t] \in BOOLEAN /\ (m[t] => OfToken(Range(spends), t) = {})
    BY <1>3, <1>5
  <2>2. SendsMany(PrepareSendManyTokensData(m, spends, outputs, available), DOMAIN m \cap Tokens,
                  spends, outputs, available)
    BY <1>5, <2>1, SendManyCovers
  <2>3. DOMAIN m \cap Tokens = T
    BY <1>3
  <2> QED
    BY <1>6, <2>2, <2>3
<1> QED
  BY <1>4, <1>7, <1>8

\* The fee leaves what the native change needs to be shielded.
LEMMA FeeLeavesEnough ==
  ASSUME NEW available \in SUBSET KnownUtxos, NEW r, Asked(r), Possible(r, available),
         NEW T, T = TokensOf(r.outputs) \ {HTR}, IsFiniteSet(T),
         NEW part, FewMore(part, r, T), Distinct(part.inputs, KnownUtxos),
         NEW fee, fee = CalculateFee(part.inputs, Public(part.outputs), <<>>) + ShieldedFees(part.defs)
  PROVE  /\ fee \in Nat
         /\ Total(Available(available, HTR))
            >= Funds(r.outputs, HTR) + fee + IF Shields(r) THEN ShieldedFee(r.mode) + 1 ELSE 0
<1> DEFINE a == CalculateFee(part.inputs, Public(part.outputs), <<>>)
           b == ShieldedFees(part.defs)
           most == ChargedAtMost(r.outputs)
           hidden == ShieldedFees(Hidden(r.outputs))
           s == ShieldedFee(r.mode)
           n == Cardinality(T)
           all == Total(Available(available, HTR))
           f == Funds(r.outputs, HTR)
           shields == Shields(r)
<1>1. Listing(r.outputs)
  BY DEF Asked, Valued
<1>2. a <= most /\ a \in Nat /\ most \in Nat
  BY <1>1, CalculatedFeeIsBounded
<1>3. b \in Nat /\ hidden \in Nat /\ s \in Nat /\ n \in Nat /\ s * n \in Nat
  <2>1. Listing(part.defs) /\ Listing(Hidden(r.outputs))
    BY <1>1, HiddenAndPublic DEF FewMore
  <2>2. s \in Nat /\ n \in Nat
    BY ShieldedFeeType, FS_CardinalityType
  <2>3. s * n \in Nat
    <3> HIDE DEF s, n
    <3> QED
      BY <2>2
  <2> QED
    BY <2>1, <2>2, <2>3, ShieldedFeesType
<1>4. b <= hidden + IF shields THEN s * n ELSE 0
  BY DEF FewMore
<1>5. all >= f + (most + hidden + IF shields THEN s * (n + 1) + 1 ELSE 0)
  BY DEF Possible, ChargedFor
<1>6. f \in Nat
  BY <1>1, FundsType
<1>7. all \in Nat
  <2>1. Available(available, HTR) \in SUBSET KnownUtxos
    BY DEF Available
  <2> QED
    BY <2>1, TotalType
<1>8. fee = a + b
  OBVIOUS
<1>9. s * (n + 1) = s * n + s
  <2> HIDE DEF s, n
  <2> QED
    BY <1>3
<1> DEFINE p == s * n
           q == s * (n + 1)
<1>10. p \in Nat /\ q = p + s /\ (shields => b <= hidden + p) /\ (~shields => b <= hidden)
       /\ (shields => all >= f + (most + hidden + (q + 1))) /\ (~shields => all >= f + (most + hidden + 0))
  BY <1>3, <1>4, <1>5, <1>9
<1> HIDE DEF a, b, most, hidden, n, all, f, p, q, shields
<1>11. fee \in Nat
  BY <1>2, <1>3, <1>8
<1>12. all >= f + fee + IF shields THEN s + 1 ELSE 0
  <2> HIDE DEF s
  <2>1. CASE shields
    BY <1>2, <1>3, <1>6, <1>7, <1>8, <1>10, <2>1
  <2>2. CASE ~shields
    BY <1>2, <1>3, <1>6, <1>7, <1>8, <1>10, <2>2
  <2> QED
    BY <2>1, <2>2
<1> QED
  BY <1>11, <1>12 DEF all, f, shields

\* A send of what there is succeeds.
LEMMA SendFinds ==
  ASSUME NEW available \in SUBSET KnownUtxos, NEW r, Asked(r), Possible(r, available)
  PROVE  PreparedTx(r, available).ok = TRUE
<1>1. PICK T : T = TokensOf(r.outputs) \ {HTR}
  OBVIOUS
<1>2. PICK many : many = PrepareSendManyTokensData(TokenMap(InputTokensOf(r), OutputTokensOf(r)),
                                                   r.inputs, r.outputs, available)
  OBVIOUS
<1>3. PICK part : part = PartialTx(r, ExplicitDefs(r.outputs), many)
  OBVIOUS
<1>4. PICK fee : fee = CalculateFee(part.inputs, Public(part.outputs), <<>>) + ShieldedFees(part.defs)
  OBVIOUS
<1>5. PICK x : x = CoverHtr(r, part, fee, available)
  OBVIOUS
<1>6. /\ r.inputs = <<>> /\ \A i \in DOMAIN r.outputs : r.outputs[i].value > 0
      /\ Cardinality(available) <= MaxInputs
      /\ Len(Public(r.outputs)) + Cardinality(T) + 1 <= MaxOutputs
      /\ Len(Hidden(r.outputs)) + Cardinality(T) + 1 <= MaxShielded /\ Len(Hidden(r.outputs)) # 1
  BY <1>1 DEF Possible
<1>7. /\ T \subseteq Tokens /\ IsFiniteSet(T) /\ HTR \notin T /\ InputTokensOf(r) = {}
      /\ \A t \in Tokens \ T : OfToken(Range(r.inputs), t) = {} /\ Funds(r.outputs, t) = 0
  BY <1>1, <1>6, TokensToChoose
<1>8. FewChanges(many, T) /\ SendsMany(many, T, r.inputs, r.outputs, available)
  BY <1>1, <1>2, ManyIsFound
<1>9. Cardinality(T) \in Nat /\ Len(Hidden(r.outputs)) \in Nat /\ Len(Public(r.outputs)) \in Nat
      /\ MaxShielded \in Nat /\ MaxOutputs \in Nat /\ MaxInputs \in Nat
  <2>1. Listing(r.outputs)
    BY DEF Asked, Valued
  <2>2. Listing(Hidden(r.outputs)) /\ Listing(Public(r.outputs))
    BY <2>1, HiddenAndPublic
  <2>3. Len(Hidden(r.outputs)) \in Nat /\ Len(Public(r.outputs)) \in Nat
    BY <2>2 DEF Listing
  <2> QED
    BY <1>7, <2>3, FS_CardinalityType, TxFundsAssumption
<1>10. FewMore(part, r, T)
  <2>1. Len(Hidden(r.outputs)) + Cardinality(T) <= MaxShielded
    <3> DEFINE h == Len(Hidden(r.outputs))
               n == Cardinality(T)
    <3>1. h \in Nat /\ n \in Nat /\ h + n + 1 <= MaxShielded /\ MaxShielded \in Nat
      BY <1>6, <1>9
    <3> HIDE DEF h, n
    <3>2. h + n <= MaxShielded
      BY <3>1
    <3> QED
      BY <3>2 DEF h, n
  <2>2. SendsMany(many, T, <<>>, r.outputs, available)
    BY <1>6, <1>8
  <2> QED
    BY <1>3, <1>6, <1>7, <1>8, <2>1, <2>2, PartIsFewMore
<1>11. Partly(part, r.inputs, available) /\ part # Failed /\ part.ok = TRUE
  BY <1>3, <1>7, <1>8, <1>10, PartialIs DEF FewMore
<1>12. Distinct(part.inputs, KnownUtxos)
  BY <1>11 DEF Partly
<1>13. /\ fee \in Nat
       /\ Total(Available(available, HTR))
          >= Funds(r.outputs, HTR) + fee + IF Shields(r) THEN ShieldedFee(r.mode) + 1 ELSE 0
  BY <1>1, <1>4, <1>7, <1>10, <1>12, FeeLeavesEnough
<1>14. /\ x # Failed /\ x.ok = TRUE
       /\ Len(x.outputs) <= Len(Public(part.outputs)) + 1
       /\ Len(x.shielded) <= MaxShielded /\ Len(x.shielded) \in Nat
  BY <1>5, <1>6, <1>7, <1>10, <1>12, <1>13, CoverHtrFinds
<1>15. Correct(x, available)
  BY <1>4, <1>5, <1>11, <1>14, CoverIsCorrect
<1>16. Len(x.inputs) <= MaxInputs /\ Len(x.inputs) \in Nat
  <2>1. PICK s : s = x.inputs
    OBVIOUS
  <2>2. Distinct(s, available)
    BY <1>15, <2>1 DEF Correct
  <2>3. Cardinality(Range(s)) = Len(s) /\ Range(s) \subseteq available
    BY <2>2, DistinctIsBijection, DistinctPart DEF Range, Distinct
  <2>4. IsFiniteSet(available)
    BY KnownUtxosAreFinite, FS_Subset
  <2>5. Cardinality(Range(s)) <= Cardinality(available) /\ Cardinality(available) \in Nat
        /\ Cardinality(Range(s)) \in Nat
    BY <2>3, <2>4, FS_Subset, FS_CardinalityType
  <2> QED
    BY <1>6, <1>9, <2>1, <2>3, <2>5
<1>17. Len(x.outputs) <= MaxOutputs /\ Len(x.outputs) \in Nat
  <2> DEFINE p == Len(Public(part.outputs))
             q == Len(Public(r.outputs))
             n == Cardinality(T)
             l == Len(x.outputs)
  <2>1. p <= q + n /\ Listing(part.outputs)
    BY <1>10 DEF FewMore
  <2>2. p \in Nat
    BY <2>1, HiddenAndPublic DEF Listing
  <2>3. l \in Nat
    BY <1>15 DEF Correct, Simple, Listing
  <2>4. l <= p + 1 /\ q + n + 1 <= MaxOutputs /\ q \in Nat /\ n \in Nat /\ MaxOutputs \in Nat
    BY <1>6, <1>9, <1>14
  <2> HIDE DEF p, q, n, l
  <2>5. l <= MaxOutputs
    BY <2>1, <2>2, <2>3, <2>4
  <2> QED
    BY <2>3, <2>5 DEF l
<1>18. PrepareTxData(r, available) = x
  <2>1. PrepareTxData(r, available)
        = IF (InputTokensOf(r) \ {HTR}) \ OutputTokensOf(r) # {} THEN Failed
          ELSE IF ~part.ok THEN Failed ELSE CoverHtr(r, part, fee, available)
    BY <1>2, <1>3, <1>4, Zenon DEF PrepareTxData
  <2>2. (InputTokensOf(r) \ {HTR}) \ OutputTokensOf(r) = {}
    BY <1>7
  <2> QED
    BY <1>5, <1>11, <2>1, <2>2
<1>19. PreparedTx(r, available)
       = IF ~x.ok THEN Failed
         ELSE IF Len(x.inputs) > MaxInputs \/ Len(x.outputs) > MaxOutputs \/ Len(x.shielded) > MaxShielded
         THEN Failed ELSE x
  BY <1>18, Zenon DEF PreparedTx
<1>20. ~(Len(x.inputs) > MaxInputs) /\ ~(Len(x.outputs) > MaxOutputs) /\ ~(Len(x.shielded) > MaxShielded)
  BY <1>9, <1>14, <1>16, <1>17
<1>21. PreparedTx(r, available) = x
  BY <1>14, <1>19, <1>20
<1> QED
  BY <1>14, <1>21

\* One token of a send of the wallet service facade is found, with one change at most.
LEMMA SelectStepFinds ==
  ASSUME NEW available \in SUBSET KnownUtxos, \A u \in available : ~UtxoOf[u].shielded,
         NEW s, NEW t \in Tokens \cup {HTR}, NEW amount \in Nat \ {0},
         Sending(s, available), Available(Range(s.inputs), t) = {},
         Total(Available(available, t)) >= amount,
         NEW next, next = SelectUtxosToUse(s, t, amount, available)
  PROVE  /\ CoversOne(s, next, t, amount, available) /\ next.ok = TRUE
         /\ Cardinality(Carriers(next.outputs, t)) <= Cardinality(Carriers(s.outputs, t)) + 1
<1> DEFINE picked == SelectUtxos(ServiceUtxos(t, available), amount)
           us == Available(available, t)
<1>1. us \in SUBSET KnownUtxos /\ {u \in us : ~UtxoOf[u].shielded} = us
  BY DEF Available
<1>2. Distinct(ServiceUtxos(t, available), us) /\ Range(ServiceUtxos(t, available)) = us
  <2>1. ServiceUtxos(t, available) = Sorted(us, Stored)
    BY <1>1 DEF ServiceUtxos
  <2> HIDE DEF us
  <2> QED
    BY <1>1, <2>1, SortedIsDistinct
<1>3. picked.ok = TRUE
  <2>1. Total(us) >= amount
    OBVIOUS
  <2> HIDE DEF us
  <2> QED
    BY <1>1, <1>2, <2>1, SelectUtxosFinds
<1>4. picked # Failed
  BY <1>3 DEF Failed
<1>5. picked.change \in Nat
  BY <1>4, PickedFields
<1>6. next = IF ~s.ok THEN s
             ELSE IF ~picked.ok THEN Thrown(s)
             ELSE WithChange([s EXCEPT !.inputs = @ \o picked.utxos], t, picked.change)
  BY Zenon DEF SelectUtxosToUse
<1>7. CoversOne(s, next, t, amount, available)
  BY SelectStep
<1> HIDE DEF picked, us
<1>8. /\ s = [ok |-> TRUE, inputs |-> s.inputs, outputs |-> s.outputs, fee |-> s.fee]
      /\ Listing(s.outputs) /\ s.fee \in Nat
  BY DEF Sending
<1>9. s.ok = TRUE
  BY SendingGoesOn
<1>10. next = WithChange([s EXCEPT !.inputs = @ \o picked.utxos], t, picked.change)
  BY <1>3, <1>6, <1>9
<1> DEFINE chosen == picked.utxos
           change == picked.change
<1>11. chosen = picked.utxos /\ change = picked.change
  OBVIOUS
<1> HIDE DEF chosen, change
<1>12. change \in Nat
  BY <1>5, <1>11
<1>13. next = [ok |-> TRUE, inputs |-> s.inputs \o chosen, outputs |-> s.outputs \o Change(t, change),
               fee |-> s.fee + IF change = 0 THEN 0 ELSE FeeOf(t)]
  <2>1. WithChange([s EXCEPT !.inputs = @ \o chosen], t, change)
        = [ok |-> TRUE, inputs |-> s.inputs \o chosen, outputs |-> s.outputs \o Change(t, change),
           fee |-> s.fee + IF change = 0 THEN 0 ELSE FeeOf(t)]
    BY ONLY <1>8, <1>12, WithChangeIs, ZenonT(60)
  <2>2. next = WithChange([s EXCEPT !.inputs = @ \o chosen], t, change)
    BY <1>10, <1>11
  <2> QED
    BY <2>1, <2>2
<1>14. next.ok = TRUE /\ next.outputs = s.outputs \o Change(t, change)
  BY <1>13
<1>15. Cardinality(Carriers(next.outputs, t)) <= Cardinality(Carriers(s.outputs, t)) + 1
  <2>1. PICK more : more = Change(t, change)
    OBVIOUS
  <2>2. Listing(more) /\ Cardinality(Carriers(more, t)) = IF t = t /\ change # 0 THEN 1 ELSE 0
    BY <1>12, <2>1, FundsOfChange
  <2>3. /\ Cardinality(Carriers(s.outputs \o more, t)) = Cardinality(Carriers(s.outputs, t)) + Cardinality(Carriers(more, t))
        /\ Cardinality(Carriers(s.outputs, t)) \in Nat
    BY <1>8, <2>2, FundsJoin, FundsType
  <2> QED
    BY <1>14, <2>1, <2>2, <2>3
<1> QED
  BY <1>7, <1>14, <1>15

\* A send that goes on, with one change at most of each token of a set.
GoesOn(s, next, T, available) ==
    /\ Sending(next, available)
    /\ \A k : k \notin T => /\ Cardinality(Carriers(next.outputs, k)) = Cardinality(Carriers(s.outputs, k))
                            /\ Available(Range(next.inputs), k) = Available(Range(s.inputs), k)
    /\ \A k \in T : Cardinality(Carriers(next.outputs, k)) <= Cardinality(Carriers(s.outputs, k)) + 1

LEMMA OneMoreGoesOn ==
  ASSUME NEW available \in SUBSET KnownUtxos, \A u \in available : ~UtxoOf[u].shielded,
         NEW s, NEW prev, NEW next, NEW T, NEW t \in Tokens \cup {HTR}, t \notin T, NEW amount \in Nat \ {0},
         GoesOn(s, prev, T, available), Available(Range(s.inputs), t) = {},
         Total(Available(available, t)) >= amount,
         next = SelectUtxosToUse(prev, t, amount, available)
  PROVE  GoesOn(s, next, T \cup {t}, available)
<1>1. /\ Sending(prev, available) /\ Available(Range(prev.inputs), t) = {}
      /\ Cardinality(Carriers(prev.outputs, t)) = Cardinality(Carriers(s.outputs, t))
  BY DEF GoesOn
<1>2. /\ CoversOne(prev, next, t, amount, available) /\ next.ok = TRUE
      /\ Cardinality(Carriers(next.outputs, t)) <= Cardinality(Carriers(prev.outputs, t)) + 1
  BY <1>1, SelectStepFinds
<1>3. /\ Sending(next, available)
      /\ \A k : k # t => /\ Cardinality(Carriers(next.outputs, k)) = Cardinality(Carriers(prev.outputs, k))
                         /\ Available(Range(next.inputs), k) = Available(Range(prev.inputs), k)
  BY <1>2 DEF CoversOne, Threw
<1> QED
  BY <1>1, <1>2, <1>3 DEF GoesOn

\* The tokens of a set are found, one after the other.
LEMMA SelectForTokensFinds ==
  ASSUME NEW available \in SUBSET KnownUtxos, \A u \in available : ~UtxoOf[u].shielded,
         NEW s, Sending(s, available), NEW asked, Listing(asked), NEW T \in SUBSET Tokens,
         NEW tokens, tokens \cap Tokens = T,
         \A t \in T : /\ Available(Range(s.inputs), t) = {} /\ Funds(asked, t) > 0
                      /\ Total(Available(available, t)) >= Funds(asked, t),
         NEW next, next = SelectForTokens(s, asked, tokens, available)
  PROVE  GoesOn(s, next, T, available)
<1>1. PICK upTo : /\ next = upTo[Len(TokenOrder)]
                  /\ upTo[0] = s
                  /\ \A i \in 1..Len(TokenOrder) :
                        upTo[i] = IF TokenOrder[i] \notin tokens THEN upTo[i - 1]
                                  ELSE SelectUtxosToUse(upTo[i - 1], TokenOrder[i], Funds(asked, TokenOrder[i]), available)
  BY SelectsUnfolds
<1> DEFINE n == Len(TokenOrder)
           Done(i) == {TokenOrder[j] : j \in 1..i} \cap T
           N == {i \in Nat : i <= n => GoesOn(s, upTo[i], Done(i), available)}
<1>2. /\ n \in Nat /\ \A i \in 1..n : TokenOrder[i] \in Tokens
      /\ \A i, j \in 1..n : TokenOrder[i] = TokenOrder[j] => i = j
      /\ Tokens = {TokenOrder[j] : j \in 1..n}
  <2>1. TokenOrder \in Seq(Tokens) /\ IsInjective(TokenOrder)
    BY TxFundsAssumption
  <2>2. n \in Nat /\ DOMAIN TokenOrder = 1..n /\ \A i \in 1..n : TokenOrder[i] \in Tokens
    BY <2>1
  <2>3. \A i, j \in 1..n : TokenOrder[i] = TokenOrder[j] => i = j
    BY <2>1, <2>2 DEF IsInjective
  <2>4. Tokens = {TokenOrder[j] : j \in 1..n}
    BY <2>2 DEF Tokens, Range
  <2> QED
    BY <2>2, <2>3, <2>4
<1>3. 0 \in N
  <2>1. Done(0) = {}
    OBVIOUS
  <2>2. GoesOn(s, s, {}, available)
    BY DEF GoesOn
  <2> HIDE DEF Done
  <2>3. GoesOn(s, upTo[0], Done(0), available)
    BY <1>1, <2>1, <2>2
  <2> QED
    BY <2>3
<1>4. ASSUME NEW i \in Nat, i \in N PROVE i + 1 \in N
  <2> SUFFICES ASSUME i + 1 <= n PROVE GoesOn(s, upTo[i + 1], Done(i + 1), available)
    OBVIOUS
  <2>1. i + 1 \in 1..n /\ (i + 1) - 1 = i /\ i <= n
    BY <1>2
  <2>2. GoesOn(s, upTo[i], Done(i), available)
    BY <1>4, <2>1
  <2>3. PICK t : t = TokenOrder[i + 1]
    OBVIOUS
  <2>4. t \in Tokens
    BY <1>2, <2>1, <2>3
  <2>5. 1..i + 1 = 1..i \cup {i + 1}
    BY <1>4
  <2>6. upTo[i + 1] = IF t \notin tokens THEN upTo[i]
                      ELSE SelectUtxosToUse(upTo[i], t, Funds(asked, t), available)
    BY <1>1, <2>1, <2>3
  <2>7. CASE t \notin tokens
    <3>1. Done(i + 1) = Done(i)
      BY <2>3, <2>5, <2>7
    <3>2. upTo[i + 1] = upTo[i]
      BY <2>6, <2>7
    <3> HIDE DEF Done
    <3> QED
      BY <2>2, <3>1, <3>2
  <2>8. CASE t \in tokens
    <3>1. t \in T
      BY <2>4, <2>8
    <3>2. Done(i + 1) = Done(i) \cup {t}
      BY <2>3, <2>5, <3>1
    <3>3. t \notin Done(i)
      <4>1. \A j \in 1..i : j \in 1..n /\ j # i + 1
        BY <1>2, <2>1
      <4> QED
        BY <1>2, <2>1, <2>3, <4>1
    <3>4. PICK amount : amount = Funds(asked, t)
      OBVIOUS
    <3>5. amount \in Nat \ {0} /\ Total(Available(available, t)) >= amount /\ Available(Range(s.inputs), t) = {}
      <4>1. amount \in Nat /\ amount > 0
        BY <3>1, <3>4, FundsType
      <4> QED
        BY <3>1, <3>4, <4>1
    <3>6. PICK prev, after, D : prev = upTo[i] /\ after = upTo[i + 1] /\ D = Done(i)
      OBVIOUS
    <3>7. after = SelectUtxosToUse(prev, t, amount, available) /\ GoesOn(s, prev, D, available) /\ t \notin D
      BY <2>2, <2>6, <2>8, <3>3, <3>4, <3>6
    <3>8. GoesOn(s, after, D \cup {t}, available)
      BY <2>4, <3>5, <3>7, OneMoreGoesOn
    <3> HIDE DEF Done
    <3> QED
      BY <3>2, <3>6, <3>8
  <2> QED
    BY <2>7, <2>8
<1>5. Nat \subseteq N
  <2> HIDE DEF N
  <2> QED
    BY <1>3, <1>4, NatSet
<1>6. GoesOn(s, upTo[n], Done(n), available)
  <2>1. n \in N /\ n <= n
    <3> HIDE DEF N
    <3> QED
      BY <1>2, <1>5
  <2> HIDE DEF Done, n
  <2> QED
    BY <2>1
<1>7. Done(n) = T
  BY <1>2
<1> HIDE DEF Done
<1> QED
  BY <1>1, <1>6, <1>7

-----------------------------------------------------------------------------
(* The sends of the wallet service facade *)

\* What there is covers a send of the wallet service facade and its fees.
Payable(outputs, available) ==
    /\ \A u \in available : ~UtxoOf[u].shielded
    /\ \A i \in DOMAIN outputs : outputs[i].value > 0
    /\ \A t \in TokensOf(outputs) \ {HTR} : Total(Available(available, t)) >= Funds(outputs, t)
    /\ Total(Available(available, HTR)) >= Funds(outputs, HTR) + ChargedAtMost(outputs)

\* An output that is asked for is funded, and a token that is not has none.
LEMMA FundsAsked ==
  ASSUME NEW outputs, Valued(outputs), \A i \in DOMAIN outputs : outputs[i].value > 0, NEW t
  PROVE  IF t \in TokensOf(outputs) THEN Funds(outputs, t) > 0
         ELSE Funds(outputs, t) = 0 /\ Cardinality(Carriers(outputs, t)) = 0
<1>1. Listing(outputs) /\ \A i \in DOMAIN outputs : outputs[i].authorities = {}
  BY DEF Valued
<1>2. CASE t \in TokensOf(outputs)
  <2>1. PICK i \in DOMAIN outputs : outputs[i].token = t
    BY <1>2 DEF TokensOf
  <2>2. i \in Carriers(outputs, t) /\ outputs[i].value > 0
    BY <1>1, <2>1 DEF Carriers
  <2>3. Funds(outputs, t) > 0
    BY <1>1, <2>2, FundsArePositive
  <2> QED
    BY <1>2, <2>3
<1>3. CASE t \notin TokensOf(outputs)
  <2>1. Carriers(outputs, t) = {}
    BY <1>3 DEF Carriers, TokensOf
  <2>2. Funds(outputs, t) = 0
    BY <2>1, SumEmpty DEF Funds, SumFunction
  <2>3. Cardinality(Carriers(outputs, t)) = 0
    BY <2>1, FS_EmptySet
  <2> QED
    BY <1>3, <2>2, <2>3
<1> QED
  BY <1>2, <1>3

\* The custom tokens are found, and the fee of what they become is bounded.
LEMMA ServiceTokensFound ==
  ASSUME NEW available \in SUBSET KnownUtxos, NEW outputs, Valued(outputs),
         \A i \in DOMAIN outputs : outputs[i].token \in Tokens \cup {HTR}, Payable(outputs, available),
         NEW s, Sending(s, available), s.inputs = <<>>, s.outputs = outputs,
         NEW tokens, tokens \cap Tokens = TokensOf(outputs) \ {HTR},
         NEW next, next = SelectForTokens(s, outputs, tokens, available)
  PROVE  /\ Sending(next, available) /\ next.ok = TRUE /\ next.fee \in Nat
         /\ Available(Range(next.inputs), HTR) = {}
         /\ Total(Available(available, HTR)) >= Funds(outputs, HTR) + next.fee
<1>1. PICK T : T = TokensOf(outputs) \ {HTR}
  OBVIOUS
<1>2. T \in SUBSET Tokens /\ HTR \notin T
  BY <1>1 DEF TokensOf
<1>3. Listing(outputs)
  BY DEF Valued
<1>4. \A k : Available(Range(s.inputs), k) = {}
  <2>1. Range(s.inputs) = {}
    BY DistinctNone
  <2> QED
    BY <2>1 DEF Available
<1>5. \A u \in available : ~UtxoOf[u].shielded
  BY DEF Payable
<1>6. \A t \in T : /\ Available(Range(s.inputs), t) = {} /\ Funds(outputs, t) > 0
                   /\ Total(Available(available, t)) >= Funds(outputs, t)
  BY <1>1, <1>4, FundsAsked DEF Payable
<1>7. tokens \cap Tokens = T
  BY <1>1
<1>8. GoesOn(s, next, T, available)
  BY <1>2, <1>3, <1>5, <1>6, <1>7, SelectForTokensFinds
<1>9. Sending(next, available) /\ next.ok = TRUE /\ next.fee \in Nat
      /\ next.fee = FeePerOutput * FeeCarriers(next.outputs) /\ Listing(next.outputs)
  BY <1>8, SendingGoesOn DEF GoesOn, Sending
<1>10. Available(Range(next.inputs), HTR) = {}
  BY <1>2, <1>4, <1>8 DEF GoesOn
<1>11. PICK f : f = [t \in FeeTokens |-> Cardinality(Carriers(next.outputs, t))]
  OBVIOUS
<1>12. ASSUME NEW t \in FeeTokens
       PROVE  /\ f[t] \in Nat /\ f[t] <= Cardinality(Carriers(outputs, t)) + 1
              /\ t \notin TokensOf(outputs) => f[t] = 0
  <2>1. PICK a, b : a = Cardinality(Carriers(next.outputs, t)) /\ b = Cardinality(Carriers(outputs, t))
    OBVIOUS
  <2>2. a \in Nat /\ b \in Nat
    BY <1>3, <1>9, <2>1, FundsType
  <2>3. IF t \in T THEN a <= b + 1 ELSE a = b
    BY <1>8, <2>1 DEF GoesOn
  <2>4. t \notin TokensOf(outputs) => t \notin T /\ b = 0
    <3>1. \A i \in DOMAIN outputs : outputs[i].value > 0
      BY DEF Payable
    <3> QED
      BY <1>1, <2>1, <3>1, FundsAsked
  <2>5. f[t] = a
    BY <1>11, <2>1
  <2>6. a <= b + 1
    BY <2>2, <2>3
  <2> QED
    BY <2>1, <2>2, <2>3, <2>4, <2>5, <2>6
<1>13. FeeCarriers(next.outputs) = SumFunctionOnSet(f, FeeTokens)
  BY <1>11 DEF FeeCarriers
<1>14. next.fee <= ChargedAtMost(outputs) /\ ChargedAtMost(outputs) \in Nat
  BY <1>3, <1>9, <1>12, <1>13, FeeIsBounded
<1>15. Total(Available(available, HTR)) >= Funds(outputs, HTR) + next.fee
  <2>1. PICK all, funds, fee, most : /\ all = Total(Available(available, HTR)) /\ funds = Funds(outputs, HTR)
                                     /\ fee = next.fee /\ most = ChargedAtMost(outputs)
    OBVIOUS
  <2>2. all >= funds + most
    BY <2>1 DEF Payable
  <2>3. all \in Nat
    <3>1. Available(available, HTR) \in SUBSET KnownUtxos
      BY DEF Available
    <3> QED
      BY <2>1, <3>1, TotalType
  <2>4. funds \in Nat /\ fee \in Nat /\ most \in Nat /\ fee <= most
    BY <1>3, <1>9, <1>14, <2>1, FundsType
  <2>5. all >= funds + fee
    BY <2>2, <2>3, <2>4
  <2> QED
    BY <2>1, <2>5
<1> QED
  BY <1>9, <1>10, <1>15

\* The native token is found too.
LEMMA ServiceNativeFound ==
  ASSUME NEW available \in SUBSET KnownUtxos, \A u \in available : ~UtxoOf[u].shielded,
         NEW s, Sending(s, available), Available(Range(s.inputs), HTR) = {},
         NEW needed, needed \in Nat \ {0}, Total(Available(available, HTR)) >= needed
  PROVE  SelectUtxosToUse(s, HTR, needed, available).ok = TRUE
<1>1. HTR \in Tokens \cup {HTR}
  OBVIOUS
<1>2. PICK t, next : t = HTR /\ next = SelectUtxosToUse(s, t, needed, available)
  OBVIOUS
<1>3. next.ok = TRUE
  BY <1>1, <1>2, SelectStepFinds
<1> QED
  BY <1>2, <1>3

\* A send that is prepared is a transaction.
LEMMA ServiceTxOf ==
  ASSUME NEW s, s.ok = TRUE, NEW asked
  PROVE  ServiceTx(s, asked).ok = TRUE
<1>1. ServiceTx(s, asked) = [Tx(s.inputs, s.outputs, s.fee) EXCEPT !.tokens = TokensOf(asked) \ {HTR}]
  BY DEF ServiceTx
<1> QED
  BY <1>1 DEF Tx

\* prepareTx() succeeds with what there is.
LEMMA ServiceSendFinds ==
  ASSUME NEW available \in SUBSET KnownUtxos, NEW outputs, Valued(outputs),
         \A i \in DOMAIN outputs : outputs[i].token \in Tokens \cup {HTR}, Payable(outputs, available),
         NEW given, given = <<>>
  PROVE  ServiceTx(PrepareServiceTx(Send(given, outputs, 0), available), outputs).ok = TRUE
<1> DEFINE send == Send(given, outputs, 0)
           charged == Charge([send EXCEPT !.ok = TRUE])
           chosen == SelectForTokens(charged, outputs, TokensOf(outputs) \ {HTR}, available)
           next == PrepareServiceTx(send, available)
           needed == Funds(outputs, HTR) + chosen.fee
<1>1. send.inputs = given /\ send.outputs = outputs
  BY DEF Send
<1>2. charged = [ok |-> TRUE, inputs |-> given, outputs |-> outputs, fee |-> FeePerOutput * FeeCarriers(outputs)]
  BY ChargedSend
<1> HIDE DEF send
<1>3. next = IF needed = 0 THEN chosen ELSE SelectUtxosToUse(chosen, HTR, needed, available)
  BY <1>1 DEF PrepareServiceTx
<1> HIDE DEF next, charged
<1>4. Distinct(given, available)
  BY DistinctNone
<1>5. Sending(charged, available) /\ charged.inputs = <<>> /\ charged.outputs = outputs
  BY <1>2, <1>4, ChargedIsSending
<1>6. PICK tokens : tokens = TokensOf(outputs) \ {HTR}
  OBVIOUS
<1>7. tokens \cap Tokens = TokensOf(outputs) \ {HTR}
  BY <1>6 DEF TokensOf
<1>8. chosen = SelectForTokens(charged, outputs, tokens, available)
  BY <1>6
<1> HIDE DEF chosen
<1>9. /\ Sending(chosen, available) /\ chosen.ok = TRUE /\ chosen.fee \in Nat
      /\ Available(Range(chosen.inputs), HTR) = {}
      /\ Total(Available(available, HTR)) >= Funds(outputs, HTR) + chosen.fee
  BY <1>5, <1>7, <1>8, ServiceTokensFound
<1>10. needed \in Nat /\ Total(Available(available, HTR)) >= needed
  BY <1>9, FundsType DEF Valued
<1>11. \A u \in available : ~UtxoOf[u].shielded
  BY DEF Payable
<1> HIDE DEF needed
<1>12. next.ok = TRUE
  <2>1. CASE needed = 0
    BY <1>3, <1>9, <2>1
  <2>2. CASE needed # 0
    <3>1. SelectUtxosToUse(chosen, HTR, needed, available).ok = TRUE
      BY <1>9, <1>10, <1>11, <2>2, ServiceNativeFound
    <3> QED
      BY <1>3, <2>2, <3>1
  <2> QED
    BY <2>1, <2>2
<1> QED
  BY <1>12, ServiceTxOf DEF next, send

\* Nothing is validated without inputs.
LEMMA NothingToValidate ==
  ASSUME NEW s, NEW asked, NEW given
  PROVE  ValidateForTokens(s, asked, {}, given) = s
<1>1. PICK upTo : /\ ValidateForTokens(s, asked, {}, given) = upTo[Len(TokenOrder)]
                  /\ upTo[0] = s
                  /\ \A i \in 1..Len(TokenOrder) :
                        upTo[i] = IF TokenOrder[i] \notin {} THEN upTo[i - 1]
                                  ELSE ValidateUtxos(upTo[i - 1], TokenOrder[i], Funds(asked, TokenOrder[i]), given)
  BY ValidatesUnfolds
<1> DEFINE n == Len(TokenOrder)
           N == {i \in Nat : i <= n => upTo[i] = s}
<1>2. n \in Nat /\ \A i \in 1..n : upTo[i] = upTo[i - 1]
  BY <1>1, TxFundsAssumption
<1>3. 0 \in N
  BY <1>1
<1>4. ASSUME NEW i \in Nat, i \in N PROVE i + 1 \in N
  <2>1. i + 1 <= n => i + 1 \in 1..n /\ (i + 1) - 1 = i /\ i <= n
    BY <1>2
  <2> QED
    BY <1>2, <1>4, <2>1
<1>5. Nat \subseteq N
  <2> HIDE DEF N
  <2> QED
    BY <1>3, <1>4, NatSet
<1>6. upTo[n] = s
  BY <1>2, <1>5
<1> QED
  BY <1>1, <1>6

\* prepareTxData() succeeds with what there is.
LEMMA ServiceDataFinds ==
  ASSUME NEW available \in SUBSET KnownUtxos, NEW outputs, Valued(outputs),
         \A i \in DOMAIN outputs : outputs[i].token \in Tokens \cup {HTR}, Payable(outputs, available),
         NEW given, given = <<>>
  PROVE  ServiceTx(PrepareServiceTxData(Send(given, outputs, 0), available), outputs).ok = TRUE
<1> DEFINE send == Send(given, outputs, 0)
           tokens == TokensOf(outputs)
           named == InputTokens(given)
           charged == Charge([send EXCEPT !.ok = TRUE])
           checked == ValidateForTokens(charged, outputs, named, given)
           chosen == SelectForTokens(checked, outputs, tokens \ named, available)
           needed == Funds(outputs, HTR) + chosen.fee
           covered == IF HTR \in named THEN ValidateUtxos(chosen, HTR, needed, given)
                      ELSE IF HTR \in tokens \/ chosen.fee > 0 THEN SelectUtxosToUse(chosen, HTR, needed, available)
                      ELSE chosen
           next == PrepareServiceTxData(send, available)
<1>1. send.inputs = given /\ send.outputs = outputs
  BY DEF Send
<1>2. charged = [ok |-> TRUE, inputs |-> given, outputs |-> outputs, fee |-> FeePerOutput * FeeCarriers(outputs)]
  BY ChargedSend
<1> HIDE DEF send
<1>3. next = IF Unknown(given, available) \/ named \ tokens # {} THEN Thrown(charged)
             ELSE IF covered.ok THEN covered ELSE [Thrown(send) EXCEPT !.fee = covered.fee]
  BY <1>1 DEF PrepareServiceTxData
<1>4. named = {} /\ ~Unknown(given, available)
  BY DEF InputTokens, Unknown
<1> HIDE DEF next, charged, named
<1>5. checked = charged
  BY <1>4, NothingToValidate
<1>6. covered = IF HTR \in tokens \/ chosen.fee > 0 THEN SelectUtxosToUse(chosen, HTR, needed, available)
                ELSE chosen
  BY <1>4
<1>7. next = IF covered.ok THEN covered ELSE [Thrown(send) EXCEPT !.fee = covered.fee]
  BY <1>3, <1>4
<1> HIDE DEF covered, checked
<1>8. Distinct(given, available)
  BY DistinctNone
<1>9. Sending(charged, available) /\ charged.inputs = <<>> /\ charged.outputs = outputs
  BY <1>2, <1>8, ChargedIsSending
<1>10. tokens \cap Tokens = tokens \ {HTR}
  <2>1. HTR \notin Tokens
    BY HtrIsApart
  <2> QED
    BY <2>1 DEF TokensOf
<1>11. chosen = SelectForTokens(charged, outputs, tokens, available)
  BY <1>4, <1>5
<1> HIDE DEF chosen
<1>12. /\ Sending(chosen, available) /\ chosen.ok = TRUE /\ chosen.fee \in Nat
       /\ Available(Range(chosen.inputs), HTR) = {}
       /\ Total(Available(available, HTR)) >= Funds(outputs, HTR) + chosen.fee
  BY <1>9, <1>10, <1>11, ServiceTokensFound
<1>13. Funds(outputs, HTR) \in Nat /\ (HTR \in tokens => Funds(outputs, HTR) > 0)
  <2>1. \A i \in DOMAIN outputs : outputs[i].value > 0
    BY DEF Payable
  <2> QED
    BY <2>1, FundsAsked, FundsType DEF Valued
<1>14. /\ needed \in Nat /\ Total(Available(available, HTR)) >= needed
       /\ HTR \in tokens \/ chosen.fee > 0 => needed # 0
  BY <1>12, <1>13
<1>15. \A u \in available : ~UtxoOf[u].shielded
  BY DEF Payable
<1> HIDE DEF needed, tokens
<1>16. covered.ok = TRUE
  <2>1. CASE HTR \in tokens \/ chosen.fee > 0
    <3>1. SelectUtxosToUse(chosen, HTR, needed, available).ok = TRUE
      BY <1>12, <1>14, <1>15, <2>1, ServiceNativeFound
    <3> QED
      BY <1>6, <2>1, <3>1
  <2>2. CASE ~(HTR \in tokens \/ chosen.fee > 0)
    BY <1>6, <1>12, <2>2
  <2> QED
    BY <2>1, <2>2
<1>17. next.ok = TRUE
  BY <1>7, <1>16
<1> QED
  BY <1>17, ServiceTxOf DEF next, send

\* The most that the fees come to, as the property counts it.
LEMMA MostFeeIs ==
  ASSUME request.builder \in {"send", "service_send", "service_data"}
  PROVE  MostFee = IF request.builder = "send" THEN ChargedFor(request, Changes)
                   ELSE ChargedAtMost(request.outputs) + ShieldedFees(Hidden(request.outputs)) + 0
<1> DEFINE charged == ChargedAtMost(request.outputs)
           shielded == ShieldedFees(Hidden(request.outputs))
           more == ShieldedFee(request.mode) * (Changes + 1) + 1
           hides == request.mode # "none" /\ Hidden(request.outputs) # <<>>
<1>1. MostFee = charged + shielded + IF request.builder = "send" /\ hides THEN more ELSE 0
  BY Zenon DEF MostFee, ChargedAtMost
<1>2. ChargedFor(request, Changes) = charged + shielded + IF hides THEN more ELSE 0
  BY Zenon DEF ChargedFor, Shields
<1> HIDE DEF charged, shielded, more, hides
<1>3. CASE request.builder = "send"
  BY <1>1, <1>2, <1>3
<1>4. CASE request.builder # "send"
  BY <1>1, <1>4 DEF charged, shielded
<1> QED
  BY <1>3, <1>4

\* A send for which there is enough, in the terms of what is possible.
LEMMA EnoughIsPossible ==
  ASSUME request.builder = "send", WithinTheLimits, EnoughToSend, free \in SUBSET KnownUtxos
  PROVE  Possible(request, free)
<1>1. \A t : Worth(t, free) = Total(Available(free, t))
  BY WorthIsTotal
<1>2. MostFee = ChargedFor(request, Changes)
  BY MostFeeIs
<1>3. PICK T : T = TokensOf(request.outputs) \ {HTR}
  OBVIOUS
<1>4. Changes = Cardinality(T)
  BY <1>3 DEF Changes
<1>5. /\ request.inputs = <<>> /\ \A i \in DOMAIN request.outputs : request.outputs[i].value > 0
      /\ \A t \in T : Total(Available(free, t)) >= Funds(request.outputs, t)
      /\ Total(Available(free, HTR)) >= Funds(request.outputs, HTR) + ChargedFor(request, Cardinality(T))
  BY <1>1, <1>2, <1>3, <1>4 DEF EnoughToSend
<1>6. /\ Cardinality(free) <= MaxInputs
      /\ Len(Public(request.outputs)) + Cardinality(T) + 1 <= MaxOutputs
      /\ Len(Hidden(request.outputs)) + Cardinality(T) + 1 <= MaxShielded /\ Len(Hidden(request.outputs)) # 1
  BY <1>4 DEF WithinTheLimits
<1> QED
  BY <1>3, <1>5, <1>6 DEF Possible

\* The same of the wallet service facade, which has no shielded utxos.
LEMMA EnoughIsPayable ==
  ASSUME request.builder \in {"service_send", "service_data"}, \A u \in free : ~UtxoOf[u].shielded,
         EnoughToSend, free \in SUBSET KnownUtxos, Asked(request)
  PROVE  Payable(request.outputs, free)
<1>1. \A t : Worth(t, free) = Total(Available(free, t))
  BY WorthIsTotal
<1>2. PICK funds, charged, hidden, all : /\ funds = Funds(request.outputs, HTR)
                                         /\ charged = ChargedAtMost(request.outputs)
                                         /\ hidden = ShieldedFees(Hidden(request.outputs))
                                         /\ all = Total(Available(free, HTR))
  OBVIOUS
<1>3. MostFee = charged + hidden + 0
  BY <1>2, MostFeeIs
<1>4. /\ \A i \in DOMAIN request.outputs : request.outputs[i].value > 0
      /\ \A t \in TokensOf(request.outputs) \ {HTR} : Total(Available(free, t)) >= Funds(request.outputs, t)
      /\ all >= funds + (charged + hidden + 0)
  BY <1>1, <1>2, <1>3 DEF EnoughToSend
<1>5. Listing(request.outputs)
  BY DEF Asked, Valued
<1>6. hidden \in Nat /\ funds \in Nat
  <2>1. Listing(Hidden(request.outputs))
    BY <1>5, HiddenAndPublic
  <2> QED
    BY <1>2, <1>5, <2>1, ShieldedFeesType, FundsType
<1>7. charged \in Nat
  <2>1. PICK f : f = [t \in FeeTokens |-> 0]
    OBVIOUS
  <2>2. \A t \in FeeTokens : /\ f[t] \in Nat /\ f[t] <= Cardinality(Carriers(request.outputs, t)) + 1
                             /\ t \notin TokensOf(request.outputs) => f[t] = 0
    BY <1>5, <2>1, FundsType
  <2> QED
    BY <1>2, <1>5, <2>2, FeeIsBounded
<1>8. all \in Nat
  <2>1. Available(free, HTR) \in SUBSET KnownUtxos
    BY DEF Available
  <2> QED
    BY <1>2, <2>1, TotalType
<1>9. all >= funds + charged
  BY <1>4, <1>6, <1>7, <1>8
<1> QED
  BY <1>2, <1>4, <1>9 DEF Payable

\* A send of what the wallet has does not fail, for every wallet, tokens, outputs and
\* fees: the funds cover the amounts, every change and fee there may be and what a
\* shielded change costs, and the rounds that choose the inputs end with a transaction.
THEOREM EnoughIsAlwaysEnough == TxSpec => []EnoughIsEnough
<1>1. TxInv => EnoughIsEnough
  <2> SUFFICES ASSUME TxInv, tx # None, EnoughToSend,
                      \/ request.builder = "send" /\ WithinTheLimits
                      \/ /\ request.builder \in {"service_send", "service_data"}
                         /\ \A u \in free : ~UtxoOf[u].shielded
               PROVE  tx.ok
    BY DEF EnoughIsEnough
  <2>1. request \in Requests /\ free \in SUBSET request.wallet /\ tx = Prepared(request, free)
    BY DEF TxInv
  <2>2. Asked(request) /\ free \in SUBSET KnownUtxos
    BY <2>1, RequestIs
  <2>3. CASE request.builder = "send"
    <3>1. Possible(request, free)
      BY <2>2, <2>3, EnoughIsPossible
    <3>2. PreparedTx(request, free).ok = TRUE
      BY <2>2, <3>1, SendFinds
    <3>3. Prepared(request, free) = PreparedTx(request, free)
      BY <2>3 DEF Prepared
    <3> QED
      BY <2>1, <3>2, <3>3
  <2>4. CASE request.builder \in {"service_send", "service_data"}
    <3>1. PICK outputs, given : outputs = request.outputs /\ given = request.inputs
      OBVIOUS
    <3>2. given = <<>> /\ Payable(outputs, free)
      BY <2>2, <2>4, <3>1, EnoughIsPayable DEF EnoughToSend
    <3>3. Valued(outputs) /\ \A i \in DOMAIN outputs : outputs[i].token \in Tokens \cup {HTR}
      BY <2>2, <3>1 DEF Asked
    <3>4. CASE request.builder = "service_send"
      <4>1. Prepared(request, free) = ServiceTx(PrepareServiceTx(Send(given, outputs, 0), free), outputs)
        BY <3>1, <3>4 DEF Prepared
      <4>2. ServiceTx(PrepareServiceTx(Send(given, outputs, 0), free), outputs).ok = TRUE
        BY <2>2, <3>2, <3>3, ServiceSendFinds
      <4> QED
        BY <2>1, <4>1, <4>2
    <3>5. CASE request.builder = "service_data"
      <4>1. Prepared(request, free) = ServiceTx(PrepareServiceTxData(Send(given, outputs, 0), free), outputs)
        BY <3>1, <3>5 DEF Prepared
      <4>2. ServiceTx(PrepareServiceTxData(Send(given, outputs, 0), free), outputs).ok = TRUE
        BY <2>2, <3>2, <3>3, ServiceDataFinds
      <4> QED
        BY <2>1, <4>1, <4>2
    <3> QED
      BY <2>4, <3>4, <3>5
  <2> QED
    BY <2>3, <2>4
<1> QED
  BY <1>1, CallsReturnWhatTheyPrepare, PTL

=============================================================================
