---------------------- MODULE WalletServiceWalletProofs ----------------------
(***************************************************************************)
(* Proofs about the facade of the wallet service, for any number of        *)
(* transactions, polls, renewals, starts and stops, and any gap: a wallet  *)
(* that is ready is complete, its application knows every transaction, and *)
(* the address it offers was not used.                                     *)
(***************************************************************************)
EXTENDS WalletServiceWallet, WellFoundedInduction, TLAPS

-----------------------------------------------------------------------------
(* The invariant *)

Tasks == 0..MaxTx
AnyStart == StartCalls \cup ReadOnlyCalls
Asking == {"full", "readonly", "sent"}
Steps == {"create", "version", "token", "status", "outside", "first", "fresh"}

TaskOK(task) ==
    /\ task = [step |-> task.step, phase |-> task.phase, tries |-> task.tries, polls |-> task.polls,
               call |-> task.call, status |-> task.status, answer |-> task.answer]
    /\ task.step \in Steps /\ task.phase \in Asking \cup {"answered"}
    /\ task.phase = "answered" => task.step = "fresh" /\ task.answer \in Nat

\* The steps of a call of the application.
CallOK(task) ==
    /\ task.call \in AnyStart \cup {"single", "multi"}
    /\ task.call = "single" => task.step \in {"outside", "first"}
    /\ task.call = "multi" => task.step = "fresh"

\* onNewTx() has one request, which it makes when the transaction pays an address.
TasksOK ==
    /\ DOMAIN tasks = Tasks /\ tasks = [t \in Tasks |-> tasks[t]]
    /\ \A t \in Tasks : Busy(t) => TaskOK(tasks[t])
    /\ Busy(0) => CallOK(tasks[0])
    /\ tasks[0].step = "first" => singleAddress
    /\ \A t \in Tasks \ {0} : Busy(t) =>
            tasks[t].step = "fresh" /\ tasks[t].call = "new-tx" /\ newAddresses # {}

IsWindow == \E a \in Nat : newAddresses = Window(a)

AddressesOK ==
    /\ newAddresses \in {{}, {0}} \/ IsWindow
    /\ indexToUse \in Int /\ (newAddresses # {} => indexToUse >= 0)

\* Every transaction pays one of the first addresses after those that were used.
PaysWithinTheGap ==
    \A k \in DOMAIN to : to[k] < GapLimit \/ \E j \in DOMAIN to : j < k /\ to[j] + GapLimit >= to[k]

TypeOK ==
    /\ walletId \in BOOLEAN /\ singleAddress \in BOOLEAN /\ stopping \in BOOLEAN
    /\ firstConnection \in BOOLEAN /\ listeners \in Nat
    /\ connState \in {"CLOSED", "CONNECTING", "CONNECTED"}
    /\ state \in {"NOT_STARTED", "LOADING", "READY"}
    /\ to \in Seq(Nat) /\ Len(to) <= MaxTx /\ inbox \subseteq DOMAIN to /\ missed \subseteq DOMAIN to
    /\ Unused \in {to[k] + 1 : k \in DOMAIN to} \cup {0} /\ \A k \in DOMAIN to : to[k] < Unused
    /\ TasksOK /\ AddressesOK /\ PaysWithinTheGap

Interrupted == "interrupted" \in hitches
Fails(h) == "failed" \in h \/ "interrupted" \in h
Strays(h) == Fails(h) \/ "overtaken" \in h \/ "skipped" \in h

\* The connection and the state, whatever failed, and how a start gets them.
Life ==
    /\ Busy(0) /\ ~Interrupted =>
         /\ ~stopping
         /\ tasks[0].call \in AnyStart => state = "LOADING"
         /\ tasks[0].call \notin AnyStart => state = "READY"
    /\ state # "READY" /\ ~stopping => listeners = 0 /\ connState = "CLOSED" /\ inbox = {}
    /\ state = "READY" => walletId
    /\ state = "READY" /\ ~Interrupted =>
         /\ ~stopping /\ connState # "CLOSED" /\ listeners = 1
         /\ newAddresses # {} \/ "skipped" \in hitches
         /\ connState = "CONNECTED" => ~firstConnection
    /\ Busy(0) /\ tasks[0].call \in AnyStart /\ newAddresses = {} => "failed" \notin hitches \/ Interrupted

\* What the application has not heard of is on its way, or it will load again.
Hearing ==
    state = "READY" /\ ~Fails(hitches) /\ "window" \notin hitches =>
        \A k \in missed : k \in inbox \/ Busy(k) \/ (connState # "CONNECTED" /\ ~firstConnection)

Fetching(t) == tasks[t].step = "fresh" /\ tasks[t].phase \in Asking
Answered(t) == tasks[t].phase = "answered"

\* The transaction pays an address before those that are offered, now or by an answer
\* that was given after it.
Passed(k) == newAddresses # {} /\ \A n \in newAddresses : to[k] < n
Answering(k) == \E t \in Tasks : Answered(t) /\ to[k] < tasks[t].answer
Caught == \A k \in DOMAIN to : k \in inbox \/ Passed(k) \/ Answering(k)

Offering ==
    /\ singleAddress /\ state = "READY" /\ ~Strays(hitches) => newAddresses = {0} \/ tasks[0].step = "first"
    /\ ~singleAddress /\ state = "READY" /\ ~Strays(hitches) =>
            IsWindow \/ \E t \in Tasks : Fetching(t) \/ Answered(t)
    /\ ~singleAddress /\ ~Strays(hitches) /\ "unheard" \notin hitches /\ (state = "READY" \/ Answered(0)) =>
            Caught \/ \E t \in Tasks : Fetching(t)

Inv == TypeOK /\ Life /\ Hearing /\ Offering

-----------------------------------------------------------------------------
(* What has come in between *)

\* What is noted stays, unless something worse takes its place.
LEMMA NotedStays ==
  ASSUME NEW h, "interrupted" \notin h
  PROVE  LET g == Noted(h)
         IN  /\ "interrupted" \in g <=> "interrupted" \in hitches
             /\ Fails(hitches) => Fails(g)
             /\ Strays(hitches) => Strays(g)
             /\ "skipped" \in hitches => "skipped" \in g
             /\ "failed" \in g => "failed" \in hitches \/ "failed" \in h
             /\ \A x \in hitches \cup h : x \in g \/ Fails(g)
  BY DEF Noted, Fails, Strays

LEMMA FailedIsNoted == Fails(Noted({"failed"}))
  BY DEF Noted, Fails

-----------------------------------------------------------------------------
(* Requests *)

used == <<state, singleAddress, newAddresses, indexToUse, connState, listeners, firstConnection,
          stopping, to, inbox, missed>>

Puts(t, task) == tasks' = [tasks EXCEPT ![t] = task]

LEMMA PutTask ==
  ASSUME TasksOK, NEW t \in Tasks, NEW task, Puts(t, task)
  PROVE  /\ DOMAIN tasks' = Tasks /\ tasks' = [u \in Tasks |-> tasks'[u]]
         /\ tasks'[t] = task
         /\ \A u \in Tasks \ {t} : tasks'[u] = tasks[u]
  BY DEF TasksOK, Puts

LEMMA ZeroIsATask == 0 \in Tasks
  BY ServiceAssumption DEF Tasks

LEMMA PutKeepsTasks ==
  ASSUME TasksOK, NEW t \in Tasks, NEW task, Puts(t, task),
         newAddresses # {} => newAddresses' # {},
         \/ task = Idle
         \/ t = 0 /\ TaskOK(task) /\ CallOK(task)
         \/ t # 0 /\ TaskOK(task) /\ task.step = "fresh" /\ task.call = "new-tx" /\ newAddresses' # {},
         tasks'[0].step = "first" => singleAddress'
  PROVE  TasksOK'
<1>1. /\ DOMAIN tasks' = Tasks /\ tasks' = [u \in Tasks |-> tasks'[u]]
      /\ tasks'[t] = task
      /\ \A u \in Tasks \ {t} : tasks'[u] = tasks[u]
  BY PutTask
<1>2. \A u \in Tasks : Busy(u)' => TaskOK(tasks'[u])
  BY <1>1 DEF TasksOK, Busy
<1>3. Busy(0)' => CallOK(tasks'[0])
  BY <1>1, ZeroIsATask DEF TasksOK, Busy
<1>4. \A u \in Tasks \ {0} : Busy(u)' =>
            tasks'[u].step = "fresh" /\ tasks'[u].call = "new-tx" /\ newAddresses' # {}
  BY <1>1 DEF TasksOK, Busy
<1> QED
  BY <1>1, <1>2, <1>3, <1>4 DEF TasksOK

\* The task asks again at its step.
Retries(t) ==
    /\ Busy(t) /\ tasks[t].phase \in Asking
    /\ \E task : /\ Puts(t, task) /\ TaskOK(task) /\ task.phase \in Asking
                 /\ task.step = tasks[t].step /\ task.call = tasks[t].call
    /\ walletId' \in BOOLEAN /\ (walletId => walletId')
    /\ UNCHANGED <<used, hitches>>

\* The task throws.
GivesUp(t) ==
    /\ Busy(t) \/ newAddresses # {}
    /\ Puts(t, Idle) /\ hitches' = Noted({"failed"})
    /\ inbox' \subseteq inbox
    /\ UNCHANGED <<walletId, state, connState, listeners, firstConnection, stopping, to, missed>>

\* Each transaction has its task.
LEMMA PublishedAreTasks ==
  ASSUME to \in Seq(Nat), Len(to) <= MaxTx
  PROVE  DOMAIN to \subseteq Tasks \ {0}
<1>1. DOMAIN to = 1..Len(to) /\ Len(to) \in Nat
  OBVIOUS
<1> QED
  BY <1>1, ServiceAssumption DEF Tasks

LEMMA IdleIsNoTask == ~TaskOK(Idle) /\ Idle.step = "none" /\ Idle.phase = "none"
  BY DEF Idle, At, TaskOK, Steps

\* A request is sent, or waits for a token; without walletId nothing is asked.
LEMMA AskSteps ==
  ASSUME NEW t, NEW task, NEW step \in Steps, Ask(t, task, step)
  PROVE  \E new : /\ Puts(t, new)
                  /\ \/ new = Idle /\ ~walletId /\ step \notin Open
                     \/ TaskOK(new) /\ new.phase \in Asking /\ new.step = step /\ new.call = task.call
<1> DEFINE Asked(phase) == [step |-> step, tries |-> 1, polls |-> task.polls, call |-> task.call,
                            status |-> task.status, answer |-> task.answer, phase |-> phase]
<1>1. \E phase \in Asking : \/ Puts(t, Asked(phase))
                            \/ Puts(t, Idle) /\ ~walletId /\ step \notin Open
  BY Zenon DEF Ask, Puts, Asking
<1>2. PICK phase \in Asking : \/ Puts(t, Asked(phase))
                              \/ Puts(t, Idle) /\ ~walletId /\ step \notin Open
  BY <1>1
<1>3. /\ TaskOK(Asked(phase)) /\ Asked(phase).phase \in Asking
      /\ Asked(phase).step = step /\ Asked(phase).call = task.call
  BY DEF TaskOK, Asking
<1> HIDE DEF Asked
<1> QED
  BY <1>2, <1>3

LEMMA RetryKeeps ==
  ASSUME Inv, NEW t \in Tasks, Retries(t)
  PROVE  Inv'
<1>1. PICK task : /\ Puts(t, task) /\ TaskOK(task) /\ task.phase \in Asking
                  /\ task.step = tasks[t].step /\ task.call = tasks[t].call
  BY DEF Retries
<1>2. TasksOK /\ UNCHANGED <<used, hitches>> /\ Busy(t) /\ tasks[t].phase \in Asking
      /\ walletId' \in BOOLEAN /\ (walletId => walletId')
  BY DEF Retries, Inv, TypeOK
<1>3. /\ DOMAIN tasks' = Tasks /\ tasks' = [u \in Tasks |-> tasks'[u]]
      /\ tasks'[t] = task /\ Busy(t)'
      /\ \A u \in Tasks \ {t} : tasks'[u] = tasks[u]
  BY <1>1, <1>2, PutTask, IdleIsNoTask DEF Busy
<1>4. \A u \in Tasks : /\ tasks'[u].step = tasks[u].step /\ tasks'[u].call = tasks[u].call
                       /\ Busy(u)' <=> Busy(u)
                       /\ Fetching(u)' <=> Fetching(u)
                       /\ Answered(u)' <=> Answered(u)
                       /\ Answered(u) => tasks'[u] = tasks[u]
  <2>1. "answered" \notin Asking
    BY DEF Asking
  <2> QED
    BY <1>1, <1>2, <1>3, <2>1 DEF Busy, Fetching, Answered
<1>5. TypeOK'
  <2>1. TasksOK'
    <3>1. TaskOK(tasks[t]) /\ newAddresses' = newAddresses /\ singleAddress' = singleAddress
      BY <1>2 DEF TasksOK, used
    <3>2. tasks'[0].step = "first" => singleAddress'
      BY <1>2, <1>4, <3>1, ZeroIsATask DEF TasksOK
    <3>3. t = 0 => CallOK(task)
      BY <1>1, <1>2 DEF TasksOK, CallOK
    <3>4. t # 0 => task.step = "fresh" /\ task.call = "new-tx" /\ newAddresses # {}
      BY <1>1, <1>2 DEF TasksOK
    <3> QED
      BY <1>1, <1>2, <3>1, <3>2, <3>3, <3>4, PutKeepsTasks
  <2> QED
    BY <1>2, <2>1 DEF Inv, TypeOK, AddressesOK, PaysWithinTheGap, IsWindow, Unused, used
<1>6. 0 \in Tasks
  BY ZeroIsATask
<1>7. Life'
  BY <1>2, <1>4, <1>6 DEF Inv, Life, used, Interrupted
<1>8. Hearing'
  BY <1>2, <1>4, PublishedAreTasks DEF Inv, Hearing, TypeOK, used
<1>9. Offering'
  BY <1>2, <1>4, <1>6 DEF Inv, Offering, used, IsWindow, Caught, Passed, Answering
<1> QED
  BY <1>5, <1>7, <1>8, <1>9 DEF Inv

\* The parts of the type that do not change when nothing is published.
LEMMA TypeKeeps ==
  ASSUME TypeOK, UNCHANGED to, inbox' \subseteq inbox, missed' \subseteq missed,
         TasksOK', AddressesOK', walletId' \in BOOLEAN, singleAddress' \in BOOLEAN,
         stopping' \in BOOLEAN, firstConnection' \in BOOLEAN, listeners' \in Nat,
         connState' \in {"CLOSED", "CONNECTING", "CONNECTED"},
         state' \in {"NOT_STARTED", "LOADING", "READY"}
  PROVE  TypeOK'
  BY DEF TypeOK, PaysWithinTheGap, Unused

LEMMA AddressesKeep ==
  ASSUME AddressesOK, UNCHANGED <<newAddresses, indexToUse>>
  PROVE  AddressesOK'
  BY DEF AddressesOK, IsWindow

LEMMA GiveUpKeeps ==
  ASSUME Inv, NEW t \in Tasks, GivesUp(t), AddressesOK', singleAddress' \in BOOLEAN,
         newAddresses # {} => newAddresses' # {},
         t # 0 => UNCHANGED <<singleAddress, newAddresses>>
  PROVE  Inv'
<1>1. /\ DOMAIN tasks' = Tasks /\ tasks'[t] = Idle
      /\ \A u \in Tasks \ {t} : tasks'[u] = tasks[u]
  BY PutTask DEF Inv, TypeOK, GivesUp
<1>2. TypeOK'
  <2>1. tasks'[0].step = "first" => singleAddress'
    BY <1>1, IdleIsNoTask, ZeroIsATask DEF Inv, TypeOK, TasksOK, GivesUp
  <2>2. TasksOK'
    BY <2>1, PutKeepsTasks DEF Inv, TypeOK, GivesUp
  <2> QED
    BY <2>2, TypeKeeps DEF Inv, TypeOK, GivesUp
<1>3. /\ Fails(hitches')
      /\ "interrupted" \in hitches' <=> "interrupted" \in hitches
      /\ "skipped" \in hitches => "skipped" \in hitches'
  BY NotedStays, FailedIsNoted DEF GivesUp
<1>4. Busy(0)' => Busy(0) /\ tasks'[0] = tasks[0] /\ t # 0
  BY <1>1, ZeroIsATask DEF Busy
<1>5. Busy(0)' => newAddresses' # {}
  BY <1>4 DEF Inv, TypeOK, TasksOK, GivesUp
<1>6. newAddresses' = {} => newAddresses = {}
  OBVIOUS
<1>7. Life'
  BY <1>3, <1>4, <1>5, <1>6 DEF Inv, Life, GivesUp, Interrupted
<1>8. Hearing' /\ Offering'
  BY <1>3 DEF Hearing, Offering, Strays
<1> QED
  BY <1>2, <1>7, <1>8 DEF Inv

\* The call of the application goes on to a step, or ends when the walletId is gone.
GoesOn(step) ==
    /\ Busy(0) /\ tasks[0].phase \in Asking
    /\ \E task : /\ Puts(0, task)
                 /\ \/ task = Idle /\ ~walletId
                    \/ /\ TaskOK(task) /\ task.phase \in Asking
                       /\ task.step = step /\ task.call = tasks[0].call
    /\ walletId' \in BOOLEAN /\ (walletId => walletId')
    /\ UNCHANGED <<state, newAddresses, indexToUse, connState, listeners, firstConnection,
                   stopping, to, inbox, missed, hitches>>

LEMMA GoingOnKeeps ==
  ASSUME Inv, NEW step \in Steps, GoesOn(step), singleAddress' \in BOOLEAN,
         \/ tasks[0].call \in AnyStart /\ (step = "first" => singleAddress')
         \/ tasks[0].call = "single" /\ step = "first" /\ singleAddress'
  PROVE  Inv'
<1>1. PICK task : /\ Puts(0, task)
                  /\ \/ task = Idle /\ ~walletId
                     \/ /\ TaskOK(task) /\ task.phase \in Asking
                        /\ task.step = step /\ task.call = tasks[0].call
  BY DEF GoesOn
<1>2. /\ DOMAIN tasks' = Tasks /\ tasks'[0] = task
      /\ \A u \in Tasks \ {0} : tasks'[u] = tasks[u]
  BY <1>1, PutTask, ZeroIsATask DEF Inv, TypeOK
<1>3. TypeOK'
  <2>1. tasks'[0].step = "first" => singleAddress'
    BY <1>1, <1>2, IdleIsNoTask
  <2>2. task # Idle => TaskOK(task) /\ CallOK(task)
    BY <1>1 DEF CallOK, AnyStart, StartCalls, ReadOnlyCalls
  <2>3. TasksOK'
    BY <1>1, <2>1, <2>2, PutKeepsTasks, ZeroIsATask DEF Inv, TypeOK, GoesOn
  <2> QED
    BY <2>3, TypeKeeps, AddressesKeep DEF Inv, TypeOK, GoesOn
<1>4. /\ Busy(0)' => tasks'[0].call = tasks[0].call /\ tasks'[0].step = step
      /\ ~Answered(0)'
      /\ Busy(0)' \/ ~walletId
  BY <1>1, <1>2, IdleIsNoTask DEF Answered, Busy, Asking
<1>5. Life'
  BY <1>4 DEF Inv, Life, GoesOn, Interrupted
<1>6. Hearing'
  <2>1. \A k \in DOMAIN to : k \in Tasks \ {0}
    BY PublishedAreTasks DEF Inv, TypeOK
  <2> QED
    BY <1>2, <2>1 DEF Inv, Hearing, TypeOK, GoesOn, Busy
<1>7. Offering'
  <2>1. state = "READY" /\ ~Strays(hitches) => singleAddress' /\ tasks'[0].step = "first"
    BY <1>4 DEF Inv, Life, GoesOn, Strays, Fails, Interrupted, AnyStart, StartCalls, ReadOnlyCalls
  <2> QED
    BY <1>4, <2>1 DEF Offering, GoesOn
<1> QED
  BY <1>3, <1>5, <1>6, <1>7 DEF Inv

\* What the requests of a task do, whatever they are for.
LEMMA RequestSteps ==
  ASSUME Inv, NEW t \in Tasks, Renewed(t) \/ RenewRefused(t) \/ RequestRefused(t) \/ RequestBreaks(t)
  PROVE  \/ Retries(t)
         \/ GivesUp(t) /\ UNCHANGED <<singleAddress, newAddresses, indexToUse>>
         \/ /\ t = 0 /\ tasks[0].call \in AnyStart /\ UNCHANGED singleAddress
            /\ GoesOn("status") \/ GoesOn("token")
<1> DEFINE AsksAgain == /\ t = 0 /\ tasks[0].call \in AnyStart /\ UNCHANGED singleAddress
                        /\ GoesOn("status") \/ GoesOn("token")
<1>1. tasks[t].phase \in Asking /\ Busy(t) /\ TaskOK(tasks[t]) /\ walletId \in BOOLEAN
  <2>1. tasks[t].phase \in Asking
    BY DEF Renewed, RenewRefused, RequestRefused, RequestBreaks, Asking
  <2>2. Busy(t)
    BY <2>1, IdleIsNoTask DEF Busy, Asking
  <2> QED
    BY <2>1, <2>2 DEF Inv, TypeOK, TasksOK
<1>2. tasks[t] = [step |-> tasks[t].step, phase |-> tasks[t].phase, tries |-> tasks[t].tries,
                  polls |-> tasks[t].polls, call |-> tasks[t].call, status |-> tasks[t].status,
                  answer |-> tasks[t].answer]
  BY <1>1 DEF TaskOK
<1>3. ASSUME Throw(t), UNCHANGED walletId, UNCHANGED MostRest
      PROVE  GivesUp(t) /\ UNCHANGED <<singleAddress, newAddresses, indexToUse>>
  BY <1>1, <1>3 DEF Throw, GivesUp, Puts, MostRest, keyVars, addressVars, connVars, worldVars
<1>4. ASSUME Refused(t), UNCHANGED MostRest
      PROVE  AsksAgain \/ (GivesUp(t) /\ UNCHANGED <<singleAddress, newAddresses, indexToUse>>)
  <2>1. CASE tasks[t].step \in {"status", "token"} /\ tasks[t].polls < MaxPolls
    <3> DEFINE task == [tasks[t] EXCEPT !.polls = @ + 1]
    <3>1. /\ Ask(t, task, tasks[t].step) /\ walletId' = (walletId \/ tasks[t].step = "token")
          /\ UNCHANGED hitches
      BY <1>4, <2>1 DEF Refused
    <3>2. task.call = tasks[t].call
      BY <1>2
    <3> HIDE DEF task
    <3>3. t = 0 /\ tasks[0].call \in AnyStart
      BY <1>1, <2>1 DEF Inv, TypeOK, TasksOK, CallOK
    <3>4. \E new : /\ Puts(0, new)
                   /\ \/ new = Idle /\ ~walletId
                      \/ /\ TaskOK(new) /\ new.phase \in Asking
                         /\ new.step = tasks[0].step /\ new.call = tasks[0].call
      BY <2>1, <3>1, <3>2, <3>3, AskSteps DEF Steps
    <3>5. GoesOn(tasks[0].step)
      BY <1>1, <1>4, <3>1, <3>3, <3>4 DEF GoesOn, MostRest, keyVars, addressVars, connVars, worldVars
    <3> QED
      BY <1>4, <2>1, <3>3, <3>5 DEF MostRest
  <2>2. CASE ~(tasks[t].step \in {"status", "token"} /\ tasks[t].polls < MaxPolls)
    BY <1>3, <1>4, <2>2 DEF Refused
  <2> QED
    BY <2>1, <2>2
<1>5. CASE Renewed(t)
  <2>1. tasks' = [tasks EXCEPT ![t].phase = "sent"]
    BY <1>5 DEF Renewed
  <2> DEFINE task == [step |-> tasks[t].step, phase |-> "sent", tries |-> tasks[t].tries,
                      polls |-> tasks[t].polls, call |-> tasks[t].call, status |-> tasks[t].status,
                      answer |-> tasks[t].answer]
  <2>2. tasks' = [tasks EXCEPT ![t] = task]
    <3>1. [tasks[t] EXCEPT !.phase = "sent"] = task
      BY <1>2
    <3> QED
      BY <2>1, <3>1
  <2>3. TaskOK(task) /\ task.phase \in Asking /\ task.step = tasks[t].step /\ task.call = tasks[t].call
    BY <1>1 DEF TaskOK, Asking
  <2> HIDE DEF task
  <2> QED
    BY <1>1, <1>5, <2>2, <2>3 DEF Renewed, Retries, Puts, keyVars, addressVars, connVars, worldVars, used
<1>6. CASE RenewRefused(t)
  <2>1. CASE /\ tasks' = [tasks EXCEPT ![t].tries = @ + 1]
             /\ UNCHANGED <<walletId, hitches, MostRest>>
    <3> DEFINE task == [step |-> tasks[t].step, phase |-> tasks[t].phase, tries |-> tasks[t].tries + 1,
                        polls |-> tasks[t].polls, call |-> tasks[t].call, status |-> tasks[t].status,
                        answer |-> tasks[t].answer]
    <3>1. tasks' = [tasks EXCEPT ![t] = task]
      <4>1. [tasks[t] EXCEPT !.tries = tasks[t].tries + 1] = task
        BY <1>2
      <4> QED
        BY <2>1, <4>1
    <3>2. TaskOK(task) /\ task.phase \in Asking /\ task.step = tasks[t].step /\ task.call = tasks[t].call
      BY <1>1 DEF TaskOK, Asking
    <3> HIDE DEF task
    <3> QED
      BY <1>1, <2>1, <3>1, <3>2 DEF Retries, Puts, MostRest, keyVars, addressVars, connVars, worldVars, used
  <2>2. \/ /\ tasks' = [tasks EXCEPT ![t].tries = @ + 1]
           /\ UNCHANGED <<walletId, hitches, MostRest>>
        \/ Throw(t) /\ UNCHANGED walletId /\ UNCHANGED MostRest
        \/ Refused(t) /\ UNCHANGED MostRest
    BY <1>6 DEF RenewRefused
  <2> QED
    BY <1>3, <1>4, <2>1, <2>2
<1>7. CASE RequestRefused(t)
  BY <1>4, <1>7 DEF RequestRefused
<1>8. CASE RequestBreaks(t)
  BY <1>3, <1>8 DEF RequestBreaks, Rest
<1> QED
  BY <1>5, <1>6, <1>7, <1>8

LEMMA RequestKeeps ==
  ASSUME Inv, NEW t \in Tasks, Renewed(t) \/ RenewRefused(t) \/ RequestRefused(t) \/ RequestBreaks(t)
  PROVE  Inv'
<1>1. CASE Retries(t)
  BY <1>1, RetryKeeps
<1>2. CASE GivesUp(t) /\ UNCHANGED <<singleAddress, newAddresses, indexToUse>>
  BY <1>2, GiveUpKeeps, AddressesKeep DEF Inv, TypeOK
<1>3. CASE /\ tasks[0].call \in AnyStart /\ UNCHANGED singleAddress
           /\ GoesOn("status") \/ GoesOn("token")
  BY <1>3, GoingOnKeeps DEF Inv, TypeOK, Steps
<1> QED
  BY <1>1, <1>2, <1>3, RequestSteps

-----------------------------------------------------------------------------
(* start() *)

\* The call of the application ends with a connection, READY.
Finishes(h) ==
    /\ Puts(0, Idle) /\ walletId /\ state' = "READY"
    /\ connState' = "CONNECTING" /\ listeners' = listeners + 1
    /\ missed' = {} /\ hitches' = Noted(h)
    /\ UNCHANGED <<walletId, firstConnection, stopping, to, inbox>>

LEMMA FinishKeeps ==
  ASSUME Inv, Busy(0), tasks[0].call \in AnyStart,
         NEW h \in SUBSET {"skipped", "overtaken"}, Finishes(h),
         AddressesOK', singleAddress' \in BOOLEAN, newAddresses' = {} => newAddresses = {} /\ "skipped" \in h
  PROVE  TypeOK' /\ Life' /\ Hearing'
<1>1. /\ DOMAIN tasks' = Tasks /\ tasks'[0] = Idle
      /\ \A u \in Tasks \ {0} : tasks'[u] = tasks[u]
  BY PutTask, ZeroIsATask DEF Inv, TypeOK, Finishes
<1>2. TypeOK'
  <2>1. tasks'[0].step # "first"
    BY <1>1, IdleIsNoTask
  <2>2. TasksOK'
    BY <2>1, PutKeepsTasks, ZeroIsATask DEF Inv, TypeOK, Finishes
  <2>3. listeners' \in Nat
    BY DEF Inv, TypeOK, Finishes
  <2> QED
    BY <2>2, <2>3, TypeKeeps DEF Inv, TypeOK, Finishes
<1>3. /\ Interrupted' <=> Interrupted
      /\ "skipped" \in h => "skipped" \in hitches' \/ Fails(hitches')
      /\ "failed" \in hitches' => "failed" \in hitches
  BY NotedStays DEF Finishes, Interrupted
<1>4. ~Interrupted => ~stopping /\ listeners = 0
  BY DEF Inv, Life, AnyStart, StartCalls, ReadOnlyCalls
<1>5. ~Busy(0)'
  BY <1>1 DEF Busy
<1>6. newAddresses' = {} /\ ~Interrupted => "skipped" \in hitches'
  BY <1>3 DEF Inv, Life, Fails, Interrupted
<1>7. Life'
  BY <1>3, <1>4, <1>5, <1>6 DEF Life, Finishes
<1>8. Hearing'
  BY DEF Hearing, Finishes
<1> QED
  BY <1>2, <1>7, <1>8

\* It ends where it is.
Ends ==
    /\ Busy(0) /\ tasks[0].phase \in Asking /\ Puts(0, Idle)
    /\ UNCHANGED <<walletId, state, connState, listeners, firstConnection, stopping, to, inbox,
                   missed, hitches>>

LEMMA EndKeeps ==
  ASSUME Inv, Ends, AddressesOK', singleAddress' \in BOOLEAN, newAddresses # {} => newAddresses' # {}
  PROVE  TypeOK' /\ Life' /\ Hearing'
<1>1. /\ DOMAIN tasks' = Tasks /\ tasks'[0] = Idle
      /\ \A u \in Tasks \ {0} : tasks'[u] = tasks[u]
  BY PutTask, ZeroIsATask DEF Inv, TypeOK, Ends
<1>2. TypeOK'
  <2>1. tasks'[0].step # "first"
    BY <1>1, IdleIsNoTask
  <2>2. TasksOK'
    BY <2>1, PutKeepsTasks, ZeroIsATask DEF Inv, TypeOK, Ends
  <2> QED
    BY <2>2, TypeKeeps DEF Inv, TypeOK, Ends
<1>3. ~Busy(0)'
  BY <1>1 DEF Busy
<1>4. Life'
  BY <1>3 DEF Inv, Life, Ends, Interrupted
<1>5. Hearing'
  <2>1. \A k \in DOMAIN to : k \in Tasks \ {0}
    BY PublishedAreTasks DEF Inv, TypeOK
  <2> QED
    BY <1>1, <2>1 DEF Inv, Hearing, TypeOK, Ends, Busy
<1> QED
  BY <1>2, <1>4, <1>5

\* The first address is offered alone, in the mode that never leaves it.
LEMMA OfferFirst ==
  ASSUME FirstAddressOnly, singleAddress'
  PROVE  Offering' /\ AddressesOK' /\ newAddresses' # {}
  BY DEF FirstAddressOnly, Offering, AddressesOK

LEMMA OfferSame ==
  ASSUME Inv, Ends, tasks[0].step \notin {"first", "fresh"},
         UNCHANGED <<singleAddress, newAddresses, indexToUse>>
  PROVE  Offering'
<1>1. /\ DOMAIN tasks' = Tasks /\ tasks'[0] = Idle
      /\ \A u \in Tasks \ {0} : tasks'[u] = tasks[u]
  BY PutTask, ZeroIsATask DEF Inv, TypeOK, Ends
<1>2. ~Fetching(0) /\ ~Answered(0) /\ ~Answered(0)'
  BY <1>1, IdleIsNoTask DEF Ends, Fetching, Answered, Asking
<1>3. \A u \in Tasks : (Fetching(u) => Fetching(u)') /\ (Answered(u) => Answered(u)' /\ tasks'[u] = tasks[u])
  BY <1>1, <1>2 DEF Fetching, Answered
<1> QED
  BY <1>2, <1>3 DEF Inv, Offering, IsWindow, Caught, Passed, Answering, Ends

\* What a call that starts the wallet does once the wallet is ready.
LEMMA ReadySteps ==
  ASSUME NEW task, NEW h, Ready(task, h), UNCHANGED <<walletId, firstConnection, stopping, to, inbox>>,
         Busy(0)
  PROVE  Finishes(h) \/ GivesUp(0)
<1>1. CASE walletId
  BY <1>1 DEF Ready, Finishes, Puts
<1>2. CASE ~walletId
  BY <1>2 DEF Ready, Throw, GivesUp, Puts
<1> QED
  BY <1>1, <1>2

LEMMA SentIsATask ==
  ASSUME Inv, tasks[0].phase = "sent"
  PROVE  /\ Busy(0) /\ tasks[0].phase \in Asking /\ TaskOK(tasks[0]) /\ CallOK(tasks[0])
         /\ AddressesOK /\ walletId \in BOOLEAN /\ singleAddress \in BOOLEAN
<1>1. Busy(0)
  BY IdleIsNoTask DEF Busy
<1> QED
  BY <1>1, ZeroIsATask DEF Inv, TypeOK, TasksOK, Asking

LEMMA FetchKeeps ==
  ASSUME Inv, tasks[0].phase = "sent", tasks[0].call \in AnyStart,
         FetchAddresses(tasks[0]), singleAddress' \in BOOLEAN,
         UNCHANGED <<walletId, firstConnection, stopping, to, inbox>>
  PROVE  Inv'
<1>1. /\ Busy(0) /\ tasks[0].phase \in Asking /\ AddressesOK /\ walletId \in BOOLEAN
  BY SentIsATask
<1>2. CASE tasks[0].call = "readonly-skip"
  <2>1. UNCHANGED <<newAddresses, indexToUse>> /\ Ready(tasks[0], {"skipped"})
    BY <1>2 DEF FetchAddresses, EndCall
  <2>2. Finishes({"skipped"}) \/ GivesUp(0)
    BY <1>1, <2>1, ReadySteps
  <2>3. AddressesOK'
    BY <1>1, <2>1, AddressesKeep
  <2>4. CASE Finishes({"skipped"})
    <3>1. TypeOK' /\ Life' /\ Hearing'
      BY <1>1, <2>1, <2>3, <2>4, FinishKeeps
    <3>2. Strays(hitches')
      BY <2>4, NotedStays DEF Finishes, Strays
    <3> QED
      BY <3>1, <3>2 DEF Inv, Offering
  <2> QED
    BY <2>1, <2>2, <2>3, <2>4, GiveUpKeeps, ZeroIsATask
<1>3. CASE tasks[0].call # "readonly-skip"
  <2>1. Ask(0, tasks[0], "fresh")
    BY <1>3 DEF FetchAddresses
  <2>2. \E new : /\ Puts(0, new)
                 /\ \/ new = Idle /\ ~walletId
                    \/ /\ TaskOK(new) /\ new.phase \in Asking
                       /\ new.step = "fresh" /\ new.call = tasks[0].call
    BY <2>1, AskSteps DEF Steps
  <2>3. GoesOn("fresh")
    BY <1>1, <1>3, <2>2 DEF GoesOn, FetchAddresses
  <2> QED
    BY <2>3, GoingOnKeeps DEF Steps
<1> QED
  BY <1>2, <1>3

LEMMA AskKeeps ==
  ASSUME Inv, tasks[0].phase = "sent", NEW step \in Steps, NEW task, Ask(0, task, step),
         task.call = tasks[0].call, singleAddress' \in BOOLEAN,
         \/ tasks[0].call \in AnyStart /\ (step = "first" => singleAddress')
         \/ tasks[0].call = "single" /\ step = "first" /\ singleAddress',
         walletId' = walletId \/ walletId' = TRUE,
         UNCHANGED <<state, newAddresses, indexToUse, connState, listeners, firstConnection,
                     stopping, to, inbox, missed, hitches>>
  PROVE  Inv'
<1>1. \E new : /\ Puts(0, new)
               /\ \/ new = Idle /\ ~walletId
                  \/ /\ TaskOK(new) /\ new.phase \in Asking
                     /\ new.step = step /\ new.call = tasks[0].call
  BY AskSteps
<1>2. Busy(0) /\ tasks[0].phase \in Asking /\ walletId \in BOOLEAN
  BY SentIsATask
<1>3. walletId' \in BOOLEAN /\ (walletId => walletId')
  BY <1>2
<1>4. GoesOn(step)
  BY <1>1, <1>2, <1>3 DEF GoesOn
<1> QED
  BY <1>4, GoingOnKeeps

LEMMA OnReadyKeeps ==
  ASSUME Inv, tasks[0].phase = "sent", tasks[0].call \in AnyStart, OnWalletReady(tasks[0]),
         UNCHANGED <<walletId, singleAddress, firstConnection, stopping, to, inbox>>
  PROVE  Inv'
<1>1. CASE singleAddress
  BY <1>1, SentIsATask, AskKeeps DEF OnWalletReady, Steps
<1>2. CASE ~singleAddress
  BY <1>2, SentIsATask, FetchKeeps DEF OnWalletReady
<1> QED
  BY <1>1, <1>2

LEMMA CreatedKeeps ==
  ASSUME Inv, Created
  PROVE  Inv'
<1>1. PICK status : Ask(0, [tasks[0] EXCEPT !.status = status], "version")
  BY DEF Created
<1> DEFINE task == [tasks[0] EXCEPT !.status = status]
<1>2. tasks[0].phase = "sent" /\ tasks[0].step = "create"
  BY DEF Created
<1>3. task.call = tasks[0].call
  BY <1>2, SentIsATask DEF TaskOK
<1>4. tasks[0].call \in AnyStart
  BY <1>2, SentIsATask DEF CallOK
<1>5. Ask(0, task, "version")
  BY <1>1
<1> HIDE DEF task
<1> QED
  BY <1>2, <1>3, <1>4, <1>5, SentIsATask, AskKeeps
     DEF Created, Steps, keyVars, addressVars, connVars, worldVars

LEMMA VersionKeeps ==
  ASSUME Inv, VersionKnown
  PROVE  Inv'
<1> DEFINE task == tasks[0]
<1>1. /\ task.phase = "sent" /\ task.step = "version"
      /\ UNCHANGED <<walletId, singleAddress, firstConnection, stopping, to, inbox>>
  BY DEF VersionKnown, worldVars
<1>2. task.call \in AnyStart /\ Busy(0) /\ task.phase \in Asking /\ AddressesOK /\ singleAddress \in BOOLEAN
  BY <1>1, SentIsATask DEF CallOK
<1>3. CASE task.call = "start-now"
  <2>1. Ends /\ UNCHANGED <<newAddresses, indexToUse>>
    BY <1>1, <1>2, <1>3 DEF VersionKnown, Ends, Puts
  <2>2. AddressesOK'
    BY <1>2, <2>1, AddressesKeep
  <2>3. Offering'
    BY <1>1, <2>1, OfferSame
  <2> QED
    BY <1>1, <1>2, <2>1, <2>2, <2>3, EndKeeps DEF Inv
<1>4. CASE task.call # "start-now" /\ task.status = "ready"
  BY <1>1, <1>2, <1>4, OnReadyKeeps DEF VersionKnown
<1>5. CASE task.call # "start-now" /\ task.status # "ready"
  <2>1. UNCHANGED <<state, connState, listeners, missed, newAddresses, indexToUse>>
    BY <1>5 DEF VersionKnown
  <2>2. CASE task.status = "creating"
    BY <1>1, <1>2, <1>5, <2>1, <2>2, AskKeeps DEF VersionKnown, Steps
  <2>3. CASE task.status # "creating"
    <3>1. GivesUp(0)
      BY <1>1, <1>2, <1>5, <2>1, <2>3 DEF VersionKnown, Throw, GivesUp, Puts
    <3> QED
      BY <1>1, <1>2, <2>1, <3>1, GiveUpKeeps, AddressesKeep, ZeroIsATask
  <2> QED
    BY <2>2, <2>3
<1> QED
  BY <1>3, <1>4, <1>5

LEMMA StatusKeeps ==
  ASSUME Inv, StatusKnown
  PROVE  Inv'
<1>1. /\ tasks[0].phase = "sent" /\ tasks[0].step = "status"
      /\ UNCHANGED <<singleAddress, firstConnection, stopping, to, inbox>>
  BY DEF StatusKnown, worldVars
<1>2. tasks[0].call \in AnyStart
  BY <1>1, SentIsATask DEF CallOK
<1>3. CASE OnWalletReady(tasks[0]) /\ UNCHANGED walletId
  BY <1>1, <1>2, <1>3, OnReadyKeeps
<1>4. CASE /\ Refused(0)
           /\ UNCHANGED <<state, connState, listeners, seed, authPrivKey, missed, newAddresses,
                          indexToUse>>
  <2>1. UNCHANGED MostRest
    BY <1>1, <1>4 DEF StatusKnown, MostRest, keyVars, addressVars, connVars, worldVars
  <2>2. RequestRefused(0)
    BY <1>1, <1>4, <2>1 DEF RequestRefused
  <2> QED
    BY <2>2, RequestKeeps, ZeroIsATask
<1> QED
  BY <1>3, <1>4 DEF StatusKnown

LEMMA TokenKeeps ==
  ASSUME Inv, ReadOnlyToken
  PROVE  Inv'
<1>1. tasks[0].call \in AnyStart
  BY SentIsATask DEF CallOK, ReadOnlyToken
<1> QED
  BY <1>1, OnReadyKeeps DEF ReadOnlyToken, worldVars

\* The first address is offered and the call ends.
LEMMA FirstKeeps ==
  ASSUME Inv, tasks[0].phase = "sent", tasks[0].step \in {"outside", "first"},
         FirstAddressOnly, singleAddress' = TRUE, EndCall(tasks[0]),
         UNCHANGED <<walletId, firstConnection, stopping, to, inbox>>
  PROVE  Inv'
<1>1. /\ Busy(0) /\ tasks[0].phase \in Asking /\ CallOK(tasks[0])
  BY SentIsATask
<1>2. Offering' /\ AddressesOK' /\ newAddresses' # {}
  BY OfferFirst
<1>3. CASE tasks[0].call = "single"
  <2>1. Ends
    BY <1>1, <1>3 DEF EndCall, Ends, Puts
  <2> QED
    BY <1>2, <2>1, EndKeeps DEF Inv
<1>4. CASE tasks[0].call # "single"
  <2>1. tasks[0].call \in AnyStart
    BY <1>1, <1>4 DEF CallOK
  <2> DEFINE h == IF tasks[0].call = "readonly-skip" THEN {"skipped"} ELSE {}
  <2>2. Ready(tasks[0], h)
    BY <1>4, <2>1 DEF EndCall, AnyStart, StartCalls, ReadOnlyCalls
  <2>3. h \in SUBSET {"skipped", "overtaken"}
    OBVIOUS
  <2> HIDE DEF h
  <2>4. Finishes(h) \/ GivesUp(0)
    BY <1>1, <2>2, ReadySteps
  <2>5. CASE Finishes(h)
    BY <1>1, <1>2, <2>1, <2>3, <2>5, FinishKeeps DEF Inv
  <2> QED
    BY <1>2, <2>4, <2>5, GiveUpKeeps, ZeroIsATask
<1> QED
  BY <1>3, <1>4

LEMMA FirstKnownKeeps ==
  ASSUME Inv, FirstAddressKnown
  PROVE  Inv'
<1>1. /\ tasks[0].phase = "sent" /\ tasks[0].step = "first"
      /\ FirstAddressOnly /\ EndCall(tasks[0])
      /\ UNCHANGED <<walletId, singleAddress, firstConnection, stopping, to, inbox>>
  BY DEF FirstAddressKnown, worldVars
<1>2. singleAddress = TRUE
  BY <1>1 DEF Inv, TypeOK, TasksOK
<1> QED
  BY <1>1, <1>2, FirstKeeps

LEMMA OutsideKeeps ==
  ASSUME Inv, OutsideKnown
  PROVE  Inv'
<1> DEFINE task == tasks[0]
           outside == Unused > 1
<1>1. /\ task.phase = "sent" /\ task.step = "outside"
      /\ UNCHANGED <<walletId, firstConnection, stopping, to, inbox>>
      /\ singleAddress' = (IF task.call = "single" THEN singleAddress \/ ~outside ELSE ~outside)
  BY DEF OutsideKnown, worldVars
<1>2. /\ Busy(0) /\ task.phase \in Asking /\ CallOK(task) /\ singleAddress \in BOOLEAN /\ AddressesOK
  BY <1>1, SentIsATask
<1>3. task.call \in AnyStart \/ task.call = "single"
  BY <1>1, <1>2 DEF CallOK
<1>4. outside \in BOOLEAN /\ singleAddress' \in BOOLEAN /\ (~outside => singleAddress' = TRUE)
  <2>1. outside \in BOOLEAN
    OBVIOUS
  <2> HIDE DEF outside
  <2>2. CASE task.call = "single"
    <3>1. singleAddress' = (singleAddress \/ ~outside)
      BY <1>1, <2>2
    <3> QED
      BY <1>2, <2>1, <3>1
  <2>3. CASE task.call # "single"
    <3>1. singleAddress' = ~outside
      BY <1>1, <2>3
    <3> QED
      BY <2>1, <3>1
  <2> QED
    BY <2>1, <2>2, <2>3
<1>5. CASE outside /\ task.call = "single"
  <2>1. Ends /\ UNCHANGED <<singleAddress, newAddresses, indexToUse>>
    BY <1>1, <1>2, <1>5 DEF OutsideKnown, Ends, Puts
  <2>2. AddressesOK'
    BY <1>2, <2>1, AddressesKeep
  <2>3. Offering'
    BY <1>1, <2>1, OfferSame
  <2> QED
    BY <1>4, <2>1, <2>2, <2>3, EndKeeps DEF Inv
<1>6. CASE outside /\ task.call # "single"
  <2>1. FetchAddresses(task)
    BY <1>6 DEF OutsideKnown
  <2> QED
    BY <1>1, <1>3, <1>4, <1>6, <2>1, FetchKeeps
<1>7. CASE ~outside /\ firstAddress
  <2>1. FirstAddressOnly /\ EndCall(task)
    BY <1>7 DEF OutsideKnown
  <2> QED
    BY <1>1, <1>4, <1>7, <2>1, FirstKeeps
<1>8. CASE ~outside /\ ~firstAddress
  <2>1. /\ Ask(0, task, "first")
        /\ UNCHANGED <<state, connState, listeners, missed, hitches, newAddresses, indexToUse>>
    BY <1>8 DEF OutsideKnown
  <2> HIDE DEF outside
  <2> QED
    BY <1>1, <1>3, <1>4, <1>8, <2>1, AskKeeps DEF Steps
<1> QED
  BY <1>4, <1>5, <1>6, <1>7, <1>8

-----------------------------------------------------------------------------
(* The addresses *)

LEMMA WindowFacts ==
  ASSUME NEW a \in Nat
  PROVE  /\ a \in Window(a) /\ a + GapLimit - 1 \in Window(a) /\ Window(a) # {}
         /\ \A n \in Window(a) : n \in Nat /\ a <= n /\ n < a + GapLimit
<1>1. GapLimit \in Nat /\ GapLimit >= 1
  BY ServiceAssumption
<1>2. Window(a) = a..(a + GapLimit - 1)
  BY DEF Window
<1>3. \A n \in Window(a) : n \in Nat /\ a <= n /\ n < a + GapLimit
  BY <1>1, <1>2
<1>4. a \in Window(a) /\ a + GapLimit - 1 \in Window(a)
  BY <1>1, <1>2
<1> QED
  BY <1>3, <1>4

\* The answer is given for all that was published.
LEMMA AnsweredKeeps ==
  ASSUME Inv, NEW t \in Tasks, AddressesAnswered(t)
  PROVE  Inv'
<1> DEFINE new == [step |-> "fresh", phase |-> "answered", tries |-> tasks[t].tries,
                   polls |-> tasks[t].polls, call |-> tasks[t].call, status |-> tasks[t].status,
                   answer |-> Unused]
<1>1. /\ tasks[t].step = "fresh" /\ tasks[t].phase = "sent" /\ Puts(t, new)
      /\ hitches' = hitches \ {"unheard"} /\ UNCHANGED <<used, walletId>>
  BY DEF AddressesAnswered, Puts, Rest, MostRest, keyVars, addressVars, connVars, worldVars, used
<1>2. Busy(t) /\ TasksOK /\ Unused \in Nat
  BY <1>1, IdleIsNoTask DEF Busy, Inv, TypeOK
<1>3. TaskOK(new) /\ new.step = "fresh" /\ new.call = tasks[t].call /\ new.answer = Unused
      /\ new.phase = "answered"
  BY <1>2 DEF TaskOK, Steps
<1> HIDE DEF new
<1>4. /\ DOMAIN tasks' = Tasks /\ tasks'[t] = new
      /\ \A u \in Tasks \ {t} : tasks'[u] = tasks[u]
  BY <1>1, <1>2, PutTask
<1>5. \A u \in Tasks : /\ tasks'[u].step = tasks[u].step /\ tasks'[u].call = tasks[u].call
                       /\ Busy(u)' <=> Busy(u)
  BY <1>1, <1>2, <1>3, <1>4, IdleIsNoTask DEF Busy
<1>6. TypeOK'
  <2>1. tasks'[0].step = "first" => singleAddress'
    BY <1>1, <1>2, <1>5, ZeroIsATask DEF TasksOK, used
  <2>2. /\ t = 0 => CallOK(new)
        /\ t # 0 => new.call = "new-tx" /\ newAddresses # {}
    BY <1>1, <1>2, <1>3 DEF TasksOK, CallOK
  <2>3. TasksOK'
    BY <1>1, <1>2, <1>3, <2>1, <2>2, PutKeepsTasks DEF used
  <2> QED
    BY <1>1, <2>3, TypeKeeps, AddressesKeep DEF Inv, TypeOK, used
<1>7. Fails(hitches') <=> Fails(hitches)
  BY <1>1 DEF Fails
<1>8. Strays(hitches') <=> Strays(hitches)
  BY <1>1, <1>7 DEF Strays
<1>9. Life'
  BY <1>1, <1>5, ZeroIsATask DEF Inv, Life, Interrupted, used
<1>10. Hearing'
  BY <1>1, <1>5, <1>7, PublishedAreTasks DEF Inv, Hearing, TypeOK, used
<1>11. Offering'
  <2>1. Answered(t)' /\ tasks'[t].answer = Unused
    BY <1>3, <1>4 DEF Answered
  <2>2. Caught'
    BY <1>1, <2>1 DEF Caught, Answering, Inv, TypeOK, used
  <2> QED
    BY <1>1, <1>5, <1>8, <2>1, <2>2, ZeroIsATask DEF Inv, Offering, used
<1> QED
  BY <1>6, <1>9, <1>10, <1>11 DEF Inv

\* An answer that is used puts every transaction behind what is offered, as the ones
\* before it did, unless it was overtaken.
LEMMA KnownOffers ==
  ASSUME Inv, NEW t \in Tasks, Answered(t), Busy(t), Puts(t, Idle),
         NEW h, newAddresses' = Window(tasks[t].answer), hitches' = Noted(h), "interrupted" \notin h,
         singleAddress \/ (\E n \in newAddresses : n >= tasks[t].answer + GapLimit) => "overtaken" \in h,
         UNCHANGED <<singleAddress, to, inbox>>,
         state' = "READY" => state = "READY" \/ Answered(0)
  PROVE  Offering'
<1> DEFINE answer == tasks[t].answer
<1>1. /\ DOMAIN tasks' = Tasks /\ tasks'[t] = Idle
      /\ \A u \in Tasks \ {t} : tasks'[u] = tasks[u]
  BY PutTask DEF Inv, TypeOK
<1>2. answer \in Nat /\ ~Fetching(t)
  BY DEF Inv, TypeOK, TasksOK, TaskOK, Answered, Fetching, Asking
<1>3. ~Answered(t)' /\ \A u \in Tasks \ {t} : (Fetching(u) => Fetching(u)') /\ (Answered(u) <=> Answered(u)')
  BY <1>1, IdleIsNoTask DEF Answered, Fetching
<1>4. IsWindow'
  BY <1>2 DEF IsWindow
<1>5. ASSUME ~Strays(hitches')
      PROVE  /\ ~Strays(hitches) /\ ~singleAddress
             /\ \A n \in newAddresses : ~(n >= answer + GapLimit)
             /\ "unheard" \in hitches => "unheard" \in hitches'
  BY <1>5, NotedStays DEF Strays
<1>6. ASSUME ~Strays(hitches'), NEW k \in DOMAIN to, Passed(k) PROVE to[k] < answer
  <2>1. newAddresses # {} /\ (\A n \in newAddresses : to[k] < n /\ ~(n >= answer + GapLimit))
    BY <1>5, <1>6 DEF Passed
  <2>2. to[k] \in Nat
    BY DEF Inv, TypeOK
  <2>3. newAddresses # {0}
    BY <2>1, <2>2
  <2>4. PICK a \in Nat : newAddresses = Window(a)
    BY <2>1, <2>3 DEF Inv, TypeOK, AddressesOK, IsWindow
  <2>5. GapLimit \in Nat
    BY ServiceAssumption
  <2>6. a \in newAddresses /\ a + GapLimit - 1 \in newAddresses
    BY <2>4, WindowFacts
  <2>7. to[k] < a /\ ~(a + GapLimit - 1 >= answer + GapLimit)
    BY <2>1, <2>6
  <2> QED
    BY <1>2, <2>2, <2>5, <2>7
<1>7. \A k \in DOMAIN to : to[k] \in Nat /\ (to[k] < answer => Passed(k)')
  <2>1. /\ newAddresses' # {}
        /\ \A n \in newAddresses' : n \in Nat /\ answer <= n
    BY <1>2, WindowFacts
  <2>2. to \in Seq(Nat) /\ to' = to
    BY DEF Inv, TypeOK
  <2> HIDE DEF answer
  <2> QED
    BY <1>2, <2>1, <2>2 DEF Passed
<1>8. ASSUME ~Strays(hitches'), Caught PROVE Caught'
  <2> SUFFICES ASSUME NEW k \in DOMAIN to PROVE k \in inbox \/ Passed(k)' \/ Answering(k)'
    BY DEF Caught
  <2>1. k \in inbox \/ Passed(k) \/ Answering(k)
    BY <1>8 DEF Caught
  <2>2. CASE Answering(k)
    <3>1. PICK u \in Tasks : Answered(u) /\ to[k] < tasks[u].answer
      BY <2>2 DEF Answering
    <3>2. CASE u = t
      BY <1>7, <3>1, <3>2
    <3>3. CASE u # t
      BY <1>1, <1>3, <3>1, <3>3 DEF Answering
    <3> QED
      BY <3>2, <3>3
  <2> QED
    BY <1>6, <1>7, <1>8, <2>1, <2>2
<1>9. ASSUME NEW u \in Tasks, Fetching(u) PROVE Fetching(u)'
  BY <1>2, <1>3, <1>9
<1>10. Answered(0)' => Answered(0)
  BY <1>3, ZeroIsATask
<1>11. ASSUME ~singleAddress', ~Strays(hitches'), "unheard" \notin hitches', state' = "READY" \/ Answered(0)'
       PROVE  Caught' \/ \E u \in Tasks : Fetching(u)'
  <2>1. Caught \/ \E u \in Tasks : Fetching(u)
    BY <1>5, <1>10, <1>11 DEF Inv, Offering
  <2> QED
    BY <1>8, <1>9, <1>11, <2>1
<1> QED
  BY <1>4, <1>5, <1>11 DEF Offering

LEMMA KnownKeeps ==
  ASSUME Inv, NEW t \in Tasks, AddressesKnown(t)
  PROVE  Inv'
<1> DEFINE late == singleAddress \/ \E n \in newAddresses : n >= tasks[t].answer + GapLimit
           h == IF late THEN {"overtaken"} ELSE {}
<1>1. /\ tasks[t].phase = "answered"
      /\ newAddresses' = Window(tasks[t].answer) /\ indexToUse' = 0
      /\ UNCHANGED <<walletId, singleAddress, firstConnection, stopping, to, inbox>>
  BY DEF AddressesKnown, worldVars
<1>2. Busy(t) /\ TaskOK(tasks[t]) /\ tasks[t].answer \in Nat /\ tasks[t].step = "fresh" /\ Answered(t)
  <2>1. Busy(t)
    BY <1>1, IdleIsNoTask DEF Busy
  <2> QED
    BY <1>1, <2>1 DEF Answered, Inv, TypeOK, TasksOK, TaskOK
<1>3. AddressesOK' /\ newAddresses' # {}
  <2>1. IsWindow' /\ newAddresses' # {}
    BY <1>1, <1>2, WindowFacts DEF IsWindow
  <2> QED
    BY <1>1, <2>1 DEF AddressesOK
<1>4. h \in SUBSET {"skipped", "overtaken"} /\ "interrupted" \notin h /\ (late => "overtaken" \in h)
  OBVIOUS
<1>5. CASE tasks[t].call \in {"new-tx", "multi"}
  <2>1. /\ tasks' = [tasks EXCEPT ![t] = Idle] /\ missed' = missed \ {t}
        /\ hitches' = Noted(h) /\ UNCHANGED <<state, connState, listeners>>
    BY <1>5 DEF AddressesKnown
  <2>2. /\ Puts(t, Idle) /\ DOMAIN tasks' = Tasks /\ tasks'[t] = Idle
        /\ \A u \in Tasks \ {t} : tasks'[u] = tasks[u]
    BY <2>1, PutTask DEF Inv, TypeOK, Puts
  <2> HIDE DEF h
  <2>3. Offering'
    BY <1>1, <1>2, <1>4, <2>1, <2>2, KnownOffers
  <2>4. TypeOK'
    <3>1. tasks'[0].step = "first" => singleAddress'
      BY <1>1, <2>2, IdleIsNoTask, ZeroIsATask DEF Inv, TypeOK, TasksOK
    <3>2. TasksOK'
      BY <1>3, <2>2, <3>1, PutKeepsTasks DEF Inv, TypeOK
    <3> QED
      BY <1>1, <1>3, <2>1, <3>2, TypeKeeps DEF Inv, TypeOK
  <2>5. /\ Interrupted' <=> Interrupted
        /\ Fails(hitches) => Fails(hitches')
        /\ "window" \in hitches => "window" \in hitches' \/ Fails(hitches')
        /\ "skipped" \in hitches => "skipped" \in hitches'
    BY <1>4, <2>1, NotedStays DEF Interrupted
  <2>6. \A u \in Tasks : (Busy(u)' <=> Busy(u) /\ u # t) /\ (u # t => tasks'[u] = tasks[u])
    BY <2>2 DEF Busy
  <2>7. Life'
    BY <1>1, <1>3, <2>1, <2>5, <2>6, ZeroIsATask DEF Inv, Life
  <2>8. Hearing'
    BY <1>1, <2>1, <2>5, <2>6, PublishedAreTasks DEF Inv, Hearing, TypeOK
  <2> QED
    BY <2>3, <2>4, <2>7, <2>8 DEF Inv
<1>6. CASE tasks[t].call \notin {"new-tx", "multi"}
  <2>1. t = 0 /\ tasks[0].call \in AnyStart
    BY <1>2, <1>6 DEF Inv, TypeOK, TasksOK, CallOK
  <2>2. Ready(tasks[0], h)
    BY <1>6, <2>1 DEF AddressesKnown
  <2> HIDE DEF h
  <2>3. Finishes(h) \/ GivesUp(0)
    BY <1>1, <1>2, <2>1, <2>2, ReadySteps
  <2>4. CASE Finishes(h)
    <3>1. TypeOK' /\ Life' /\ Hearing'
      BY <1>1, <1>2, <1>3, <1>4, <2>1, <2>4, FinishKeeps DEF Inv, TypeOK
    <3>2. Offering'
      BY <1>1, <1>2, <1>4, <2>1, <2>4, KnownOffers, ZeroIsATask DEF Finishes
    <3> QED
      BY <3>1, <3>2 DEF Inv
  <2> QED
    BY <1>1, <1>3, <2>1, <2>3, <2>4, GiveUpKeeps, ZeroIsATask DEF Inv, TypeOK
<1> QED
  BY <1>5, <1>6

LEMMA UnusedIsANat == TypeOK => Unused \in Nat
  BY DEF TypeOK

\* The first unused address is after every used one.
LEMMA TopIs ==
  ASSUME NEW paid \in Seq(Nat), NEW u \in {paid[k] + 1 : k \in DOMAIN paid} \cup {0},
         \A k \in DOMAIN paid : paid[k] < u
  PROVE  Max({paid[k] + 1 : k \in DOMAIN paid} \cup {0}) = u
<1> DEFINE afterUsed == {paid[k] + 1 : k \in DOMAIN paid} \cup {0}
<1>1. u \in afterUsed /\ \A x \in afterUsed : x \in Nat /\ u >= x
  BY DEF afterUsed
<1> HIDE DEF afterUsed
<1>2. \A x \in afterUsed : (\A y \in afterUsed : x >= y) => x = u
  BY <1>1
<1>3. Max(afterUsed) = u
  BY <1>1, <1>2 DEF Max
<1> QED
  BY <1>3 DEF afterUsed

LEMMA InitKeeps == Init => Inv
<1> SUFFICES ASSUME Init PROVE Inv
  OBVIOUS
<1>1. to = <<>> /\ tasks = [t \in Tasks |-> Idle]
  BY DEF Init, Tasks
<1>2. \A t \in Tasks : tasks[t] = Idle /\ ~Busy(t)
  BY <1>1 DEF Busy
<1>3. TasksOK
  BY <1>1, <1>2, ZeroIsATask, IdleIsNoTask DEF TasksOK
<1>4. Unused = 0
  <2>1. to \in Seq(Nat) /\ DOMAIN to = {}
    BY <1>1
  <2>2. Max({to[k] + 1 : k \in DOMAIN to} \cup {0}) = 0
    BY <2>1, TopIs
  <2> QED
    BY <2>2 DEF Unused
<1>5. AddressesOK
  BY DEF Init, AddressesOK
<1>6. TypeOK
  <2>1. to \in Seq(Nat) /\ Len(to) = 0 /\ DOMAIN to = {}
    BY <1>1
  <2> QED
    BY <1>3, <1>4, <1>5, <2>1, ServiceAssumption DEF Init, TypeOK, PaysWithinTheGap
<1>7. Life /\ Hearing
  BY <1>2, ZeroIsATask DEF Init, Life, Hearing
<1>8. Offering
  BY <1>2, ZeroIsATask, IdleIsNoTask DEF Init, Offering, Answered
<1> QED
  BY <1>6, <1>7, <1>8 DEF Inv

-----------------------------------------------------------------------------
(* The calls of the application *)

LEMMA StartKeeps ==
  ASSUME Inv, NEW call \in AnyStart, Start(call) \/ StartReadOnly(call)
  PROVE  Inv'
<1>1. /\ state # "READY" /\ ~Busy(0) /\ ~stopping /\ state' = "LOADING" /\ hitches' = {}
      /\ UNCHANGED <<singleAddress, newAddresses, indexToUse, connState, listeners, firstConnection,
                     stopping, to, inbox, missed>>
      /\ walletId' = walletId \/ walletId' = TRUE
  BY DEF Start, StartReadOnly, MayStart, addressVars, connVars, worldVars
<1>2. tasks' = tasks \/ \E step \in {"create", "token"} : Ask(0, Calls(call), step)
  BY DEF Start, StartReadOnly
<1>3. PICK new : /\ Puts(0, new)
                 /\ \/ new = Idle
                    \/ /\ TaskOK(new) /\ CallOK(new) /\ new.phase \in Asking
                       /\ new.step # "first" /\ new.call \in AnyStart
  <2>1. CASE tasks' = tasks
    <3>1. Puts(0, Idle)
      BY <1>1, <2>1 DEF Puts, Busy, Inv, TypeOK, TasksOK
    <3> QED
      BY <3>1
  <2>2. ASSUME NEW step \in {"create", "token"}, Ask(0, Calls(call), step)
        PROVE  \E new : /\ Puts(0, new)
                        /\ \/ new = Idle
                           \/ /\ TaskOK(new) /\ CallOK(new) /\ new.phase \in Asking
                              /\ new.step # "first" /\ new.call \in AnyStart
    <3>1. Calls(call).call = call /\ step \in Steps
      BY DEF Calls, Steps
    <3>2. PICK new : /\ Puts(0, new)
                     /\ \/ new = Idle /\ ~walletId /\ step \notin Open
                        \/ TaskOK(new) /\ new.phase \in Asking /\ new.step = step /\ new.call = call
      BY <2>2, <3>1, AskSteps
    <3>3. new = Idle \/ (/\ TaskOK(new) /\ CallOK(new) /\ new.phase \in Asking
                         /\ new.step # "first" /\ new.call \in AnyStart)
      BY <3>2 DEF CallOK, AnyStart, StartCalls, ReadOnlyCalls
    <3> QED
      BY <3>2, <3>3
  <2> QED
    BY <1>2, <2>1, <2>2
<1>4. /\ DOMAIN tasks' = Tasks /\ tasks'[0] = new
      /\ \A u \in Tasks \ {0} : tasks'[u] = tasks[u]
  BY <1>3, PutTask, ZeroIsATask DEF Inv, TypeOK
<1>5. TypeOK'
  <2>1. tasks'[0].step # "first"
    BY <1>3, <1>4, IdleIsNoTask
  <2>2. TasksOK'
    BY <1>1, <1>3, <2>1, PutKeepsTasks, ZeroIsATask DEF Inv, TypeOK
  <2> QED
    BY <1>1, <2>2, TypeKeeps, AddressesKeep DEF Inv, TypeOK
<1>6. ~Answered(0)' /\ (Busy(0)' => tasks'[0].call \in AnyStart)
  BY <1>3, <1>4, IdleIsNoTask DEF Answered, Busy, Asking
<1>7. Life'
  BY <1>1, <1>6 DEF Inv, Life
<1>8. Hearing' /\ Offering'
  BY <1>1, <1>6 DEF Hearing, Offering
<1> QED
  BY <1>5, <1>7, <1>8 DEF Inv

\* A call that changes the mode of the addresses.
LEMMA EnableKeeps ==
  ASSUME Inv, EnableSingle \/ EnableMulti
  PROVE  Inv'
<1> DEFINE call == IF EnableSingle THEN "single" ELSE "multi"
           step == IF EnableSingle THEN "outside" ELSE "fresh"
<1>1. /\ state = "READY" /\ ~Busy(0) /\ ~stopping
      /\ UNCHANGED <<state, walletId, newAddresses, indexToUse, connState, listeners, firstConnection,
                     stopping, to, inbox, missed, hitches>>
      /\ call = "single" => UNCHANGED singleAddress
      /\ call = "multi" => singleAddress' = FALSE
  BY DEF EnableSingle, EnableMulti, MayCall, Rest, MostRest, addressVars, connVars, worldVars
<1>2. Ask(0, Calls(call), step) /\ step \in Steps /\ Calls(call).call = call
  BY DEF EnableSingle, EnableMulti, Steps, Calls
<1>3. call \in {"single", "multi"} /\ step = (IF call = "single" THEN "outside" ELSE "fresh")
  OBVIOUS
<1> HIDE DEF call, step
<1>4. walletId
  BY <1>1 DEF Inv, Life
<1>5. PICK new : /\ Puts(0, new) /\ TaskOK(new) /\ new.phase \in Asking
                 /\ new.step = step /\ new.call = call
  BY <1>2, <1>4, AskSteps
<1>6. /\ DOMAIN tasks' = Tasks /\ tasks'[0] = new
      /\ \A u \in Tasks \ {0} : tasks'[u] = tasks[u]
  BY <1>5, PutTask, ZeroIsATask DEF Inv, TypeOK
<1>7. TypeOK'
  <2>1. tasks'[0].step # "first" /\ CallOK(new)
    BY <1>3, <1>5, <1>6 DEF CallOK
  <2>2. TasksOK'
    BY <1>1, <1>5, <2>1, PutKeepsTasks, ZeroIsATask DEF Inv, TypeOK
  <2>3. singleAddress' \in BOOLEAN
    BY <1>1, <1>3 DEF Inv, TypeOK
  <2> QED
    BY <1>1, <2>2, <2>3, TypeKeeps, AddressesKeep DEF Inv, TypeOK
<1>8. Life'
  <2>1. tasks'[0].call \notin AnyStart
    BY <1>3, <1>5, <1>6 DEF AnyStart, StartCalls, ReadOnlyCalls
  <2> QED
    BY <1>1, <2>1 DEF Inv, Life, Interrupted
<1>9. \A u \in Tasks \ {0} : Busy(u)' <=> Busy(u)
  BY <1>6 DEF Busy
<1>10. Hearing'
  BY <1>1, <1>9, PublishedAreTasks DEF Inv, Hearing, TypeOK
<1>11. Offering'
  <2>1. ~Answered(0) /\ ~Answered(0)' /\ ~Fetching(0) /\ tasks[0].step # "first"
    BY <1>1, <1>5, <1>6, IdleIsNoTask DEF Answered, Fetching, Busy, Asking
  <2>2. \A u \in Tasks : (Fetching(u) => Fetching(u)') /\ (Answered(u) => Answered(u)' /\ tasks'[u] = tasks[u])
    BY <1>6, <2>1 DEF Fetching, Answered
  <2>3. CASE call = "single"
    BY <1>1, <2>1, <2>2, <2>3 DEF Inv, Offering, IsWindow, Caught, Passed, Answering
  <2>4. CASE call = "multi"
    <3>1. Fetching(0)'
      BY <1>3, <1>5, <1>6, <2>4 DEF Fetching
    <3> QED
      BY <1>1, <2>4, <3>1, ZeroIsATask DEF Offering
  <2> QED
    BY <1>3, <2>3, <2>4
<1> QED
  BY <1>7, <1>8, <1>10, <1>11 DEF Inv

LEMMA NextAddressKeeps ==
  ASSUME Inv, GetNextAddress
  PROVE  Inv'
<1>1. /\ UNCHANGED <<state, walletId, newAddresses, singleAddress, connState, listeners, firstConnection,
                     stopping, tasks, to, inbox, missed, hitches>>
      /\ indexToUse' = indexToUse + 1
  BY DEF GetNextAddress, connVars, worldVars
<1>2. AddressesOK'
  BY <1>1 DEF Inv, TypeOK, AddressesOK, IsWindow
<1>3. TasksOK'
  BY <1>1 DEF Inv, TypeOK, TasksOK, CallOK, Busy
<1>4. TypeOK'
  BY <1>1, <1>2, <1>3, TypeKeeps DEF Inv, TypeOK
<1>5. Life' /\ Hearing'
  BY <1>1 DEF Inv, Life, Hearing, Busy, Interrupted
<1>6. Offering'
  BY <1>1 DEF Inv, Offering, IsWindow, Caught, Passed, Answering, Fetching, Answered
<1> QED
  BY <1>4, <1>5, <1>6 DEF Inv

-----------------------------------------------------------------------------
(* The transactions and the connection *)

LEMMA PublishKeeps ==
  ASSUME Inv, Publish
  PROVE  Inv'
<1> DEFINE n == Len(to) + 1
<1>1. PICK a \in 0..Max(Window(Unused)) : to' = Append(to, a)
  BY DEF Publish
<1>2. /\ Len(to) < MaxTx
      /\ missed' = IF state = "READY" THEN missed \cup {n} ELSE missed
      /\ inbox' = IF connState = "CONNECTED" THEN inbox \cup {n} ELSE inbox
      /\ UNCHANGED <<state, walletId, newAddresses, indexToUse, singleAddress, connState, listeners,
                     firstConnection, stopping, tasks>>
  BY DEF Publish, addressVars, connVars
<1>3. /\ connState = "CONNECTED" => hitches' = hitches
      /\ connState # "CONNECTED" =>
            \E h \in SUBSET {"unheard", "window"} :
                /\ hitches' = Noted(h) /\ "unheard" \in h
                /\ state = "READY" /\ firstConnection => "window" \in h
  BY DEF Publish
<1>4. /\ Interrupted' <=> Interrupted
      /\ Fails(hitches) => Fails(hitches')
      /\ Strays(hitches) => Strays(hitches')
      /\ "skipped" \in hitches => "skipped" \in hitches'
      /\ "failed" \in hitches' => "failed" \in hitches
      /\ "window" \in hitches => "window" \in hitches' \/ Fails(hitches')
      /\ "unheard" \in hitches => "unheard" \in hitches' \/ Fails(hitches')
      /\ connState # "CONNECTED" => "unheard" \in hitches' \/ Fails(hitches')
      /\ connState # "CONNECTED" /\ state = "READY" /\ firstConnection =>
            "window" \in hitches' \/ Fails(hitches')
  <2>1. CASE connState = "CONNECTED"
    BY <1>3, <2>1 DEF Interrupted
  <2>2. CASE connState # "CONNECTED"
    <3>1. PICK h \in SUBSET {"unheard", "window"} :
                /\ hitches' = Noted(h) /\ "unheard" \in h
                /\ state = "READY" /\ firstConnection => "window" \in h
      BY <1>3, <2>2
    <3>2. "interrupted" \notin h /\ "failed" \notin h
      OBVIOUS
    <3> QED
      BY <2>2, <3>1, <3>2, NotedStays DEF Interrupted
  <2> QED
    BY <2>1, <2>2
<1>5. to \in Seq(Nat) /\ Unused \in Nat /\ Len(to) \in Nat /\ DOMAIN to = 1..Len(to)
  BY UnusedIsANat DEF Inv, TypeOK
<1>6. a \in Nat /\ a <= Unused + GapLimit - 1 /\ GapLimit \in Nat
  <2>1. Max(Window(Unused)) = Unused + GapLimit - 1
    <3> DEFINE top == Unused + GapLimit - 1
    <3>1. top \in Window(Unused) /\ \A x \in Window(Unused) : x \in Nat /\ x <= top
      <4>1. top \in Window(Unused)
        BY <1>5, WindowFacts
      <4>2. \A x \in Window(Unused) : x \in Nat /\ x < Unused + GapLimit
        BY <1>5, WindowFacts
      <4>3. GapLimit \in Nat
        BY ServiceAssumption
      <4> QED
        BY <1>5, <4>1, <4>2, <4>3
    <3>2. \A x \in Window(Unused) : (\A y \in Window(Unused) : x >= y) => x = top
      BY <3>1
    <3> HIDE DEF top
    <3>3. Max(Window(Unused)) = top
      BY <3>1, <3>2 DEF Max
    <3> QED
      BY <3>3 DEF top
  <2> QED
    BY <1>1, <1>5, <2>1, ServiceAssumption
<1>7. /\ to' \in Seq(Nat) /\ Len(to') = n /\ DOMAIN to' = 1..n /\ n \in Nat
      /\ to'[n] = a /\ \A k \in DOMAIN to : to'[k] = to[k]
  BY <1>1, <1>5, <1>6
<1>8. TypeOK'
  <2> DEFINE u == IF a < Unused THEN Unused ELSE a + 1
  <2>1. u \in {to'[k] + 1 : k \in DOMAIN to'} \cup {0} /\ \A k \in DOMAIN to' : to'[k] < u
    <3>1. /\ Unused = 0 \/ \E k \in DOMAIN to : Unused = to[k] + 1
          /\ \A k \in DOMAIN to : to[k] < Unused /\ to[k] \in Nat
      BY DEF Inv, TypeOK
    <3>2. /\ n \in DOMAIN to' /\ DOMAIN to \subseteq DOMAIN to'
          /\ \A k \in DOMAIN to' : k \in DOMAIN to \/ k = n
      BY <1>5, <1>7
    <3>3. u = 0 \/ \E k \in DOMAIN to' : u = to'[k] + 1
      BY <1>7, <3>1, <3>2
    <3>4. \A k \in DOMAIN to' : to'[k] < u
      BY <1>5, <1>6, <1>7, <3>1, <3>2
    <3> QED
      BY <3>3, <3>4
  <2>2. Unused' = u
    BY <1>7, <2>1, TopIs DEF Unused
  <2>3. PaysWithinTheGap'
    <3> SUFFICES ASSUME NEW k \in DOMAIN to'
                 PROVE  to'[k] < GapLimit \/ \E j \in DOMAIN to' : j < k /\ to'[j] + GapLimit >= to'[k]
      BY DEF PaysWithinTheGap
    <3>1. CASE k \in DOMAIN to
      BY <1>5, <1>7, <3>1 DEF Inv, TypeOK, PaysWithinTheGap
    <3>2. CASE k = n
      <4>1. Unused = 0 \/ \E j \in DOMAIN to : Unused = to[j] + 1
        BY DEF Inv, TypeOK
      <4>2. CASE Unused = 0
        BY <1>6, <1>7, <3>2, <4>2
      <4>3. ASSUME NEW j \in DOMAIN to, Unused = to[j] + 1 PROVE to'[j] + GapLimit >= to'[k] /\ j < k
        BY <1>5, <1>6, <1>7, <3>2, <4>3
      <4> QED
        BY <1>5, <1>7, <4>1, <4>2, <4>3
    <3> QED
      BY <1>5, <1>7, <3>1, <3>2
  <2>4. TasksOK' /\ AddressesOK'
    BY <1>2 DEF Inv, TypeOK, TasksOK, CallOK, Busy, AddressesOK, IsWindow
  <2>5. inbox' \subseteq DOMAIN to' /\ missed' \subseteq DOMAIN to' /\ Len(to') <= MaxTx
    <3>1. DOMAIN to \subseteq DOMAIN to' /\ n \in DOMAIN to' /\ n <= MaxTx
      BY <1>2, <1>5, <1>7, ServiceAssumption
    <3>2. inbox \subseteq DOMAIN to /\ missed \subseteq DOMAIN to
      BY DEF Inv, TypeOK
    <3> QED
      BY <1>2, <1>7, <3>1, <3>2
  <2> QED
    BY <1>2, <1>7, <2>1, <2>2, <2>3, <2>4, <2>5 DEF Inv, TypeOK
<1>9. Life'
  <2>1. state # "READY" /\ ~stopping => inbox' = {}
    BY <1>2 DEF Inv, Life
  <2> QED
    BY <1>2, <1>4, <2>1 DEF Inv, Life, Busy
<1>10. Hearing'
  BY <1>2, <1>4 DEF Inv, Hearing, Busy
<1>11. Offering'
  <2>1. Caught /\ connState = "CONNECTED" => Caught'
    <3> SUFFICES ASSUME Caught, connState = "CONNECTED", NEW k \in DOMAIN to'
                 PROVE  k \in inbox' \/ Passed(k)' \/ Answering(k)'
      BY DEF Caught
    <3>1. CASE k = n
      BY <1>2, <3>1
    <3>2. CASE k # n
      <4>1. k \in DOMAIN to /\ to'[k] = to[k]
        BY <1>5, <1>7, <3>2
      <4>2. k \in inbox \/ Passed(k) \/ Answering(k)
        BY <4>1 DEF Caught
      <4> QED
        BY <1>2, <4>1, <4>2 DEF Passed, Answering, Answered
    <3> QED
      BY <3>1, <3>2
  <2>2. \A u \in Tasks : (Fetching(u)' <=> Fetching(u)) /\ (Answered(u)' <=> Answered(u))
    BY <1>2 DEF Fetching, Answered
  <2>3. IsWindow' <=> IsWindow
    BY <1>2 DEF IsWindow
  <2> QED
    BY <1>2, <1>4, <2>1, <2>2, <2>3, ZeroIsATask DEF Inv, Offering, Strays
<1> QED
  BY <1>8, <1>9, <1>10, <1>11 DEF Inv

LEMMA MinIsLeast ==
  ASSUME NEW S, S \subseteq Nat, S # {}
  PROVE  Min(S) \in S /\ \A y \in S : Min(S) <= y
<1>1. PICK x \in S : \A y \in S : ~(<<y, x>> \in OpToRel(<, Nat))
  BY NatLessThanWellFounded, WFMin
<1>2. \A y \in S : x <= y
  <2> TAKE y \in S
  <2>1. y \in Nat /\ x \in Nat
    OBVIOUS
  <2>2. <<y, x>> \in Nat \X Nat
    BY <2>1
  <2>3. <<y, x>>[1] = y /\ <<y, x>>[2] = x
    OBVIOUS
  <2>4. y < x => <<y, x>> \in OpToRel(<, Nat)
    BY <2>2, <2>3 DEF OpToRel
  <2>5. ~(y < x)
    BY <1>1, <2>4
  <2> QED
    BY <2>1, <2>5
<1> QED
  BY <1>2 DEF Min

\* A transaction that pays none of the addresses is not one that pays after them.
LEMMA PaysBefore ==
  ASSUME Inv, Caught, IsWindow, \A t \in Tasks : ~Answered(t),
         NEW k \in inbox, \A j \in inbox : k <= j, ~Matching(k)
  PROVE  Passed(k)
<1>1. PICK a \in Nat : newAddresses = Window(a)
  BY DEF IsWindow
<1>2. k \in DOMAIN to /\ to \in Seq(Nat) /\ to[k] \in Nat /\ k \in Nat /\ GapLimit \in Nat
  BY ServiceAssumption DEF Inv, TypeOK
<1>3. newAddresses # {} /\ a \in newAddresses /\ \A n \in newAddresses : n \in Nat /\ a <= n
  BY <1>1, WindowFacts
<1>4. \A j \in DOMAIN to : j < k => to[j] \in Nat /\ to[j] < a
  <2> SUFFICES ASSUME NEW j \in DOMAIN to, j < k PROVE to[j] \in Nat /\ to[j] < a
    OBVIOUS
  <2>1. j \in Nat /\ j \notin inbox
    BY <1>2
  <2>2. Passed(j)
    BY <2>1 DEF Caught, Answering
  <2> QED
    BY <1>2, <1>3, <2>2 DEF Passed
<1>5. to[k] < a + GapLimit
  <2>1. CASE to[k] < GapLimit
    BY <1>2, <2>1
  <2>2. ASSUME NEW j \in DOMAIN to, j < k, to[j] + GapLimit >= to[k] PROVE to[k] < a + GapLimit
    BY <1>2, <1>4, <2>2
  <2> QED
    BY <1>2, <2>1, <2>2 DEF Inv, TypeOK, PaysWithinTheGap
<1>6. to[k] \notin a..(a + GapLimit - 1)
  BY <1>1 DEF Matching, Window
<1>7. to[k] < a
  BY <1>2, <1>5, <1>6
<1> QED
  BY <1>2, <1>3, <1>7 DEF Passed

LEMMA OnNewTxKeeps ==
  ASSUME Inv, OnNewTx
  PROVE  Inv'
<1>0. PICK k : k = Min(inbox)
  OBVIOUS
<1>1. inbox # {} /\ inbox \subseteq DOMAIN to /\ DOMAIN to \subseteq Tasks \ {0} /\ DOMAIN to \subseteq Nat
  BY PublishedAreTasks DEF OnNewTx, Inv, TypeOK
<1>2. k \in inbox /\ \A j \in inbox : k <= j
  BY <1>0, <1>1, MinIsLeast
<1>3. /\ inbox' = inbox \ {k}
      /\ UNCHANGED <<state, walletId, singleAddress, connState, listeners, firstConnection, stopping, to>>
  BY <1>0 DEF OnNewTx, connVars
<1>4. k \in Tasks \ {0} /\ k \in DOMAIN to
  BY <1>1, <1>2
<1>5. CASE ~Matching(k)
  <2> DEFINE h == IF \E t \in DOMAIN tasks : tasks[t].phase = "answered" THEN {"overtaken"} ELSE {}
  <2>1. missed' = missed \ {k} /\ UNCHANGED <<tasks, newAddresses, indexToUse>>
    BY <1>0, <1>5 DEF OnNewTx
  <2>2. hitches' = IF \E t \in DOMAIN tasks : tasks[t].phase = "answered" THEN Noted({"overtaken"}) ELSE hitches
    BY <1>0, <1>5 DEF OnNewTx
  <2>3. DOMAIN tasks = Tasks
    BY DEF Inv, TypeOK, TasksOK
  <2>4. /\ Interrupted' <=> Interrupted
        /\ Fails(hitches) => Fails(hitches')
        /\ Strays(hitches) => Strays(hitches')
        /\ "skipped" \in hitches => "skipped" \in hitches'
        /\ "failed" \in hitches' => "failed" \in hitches
        /\ "window" \in hitches => "window" \in hitches' \/ Fails(hitches')
        /\ "unheard" \in hitches => "unheard" \in hitches' \/ Fails(hitches')
        /\ (\E t \in Tasks : Answered(t)) => Strays(hitches')
    <3>1. CASE \E t \in Tasks : Answered(t)
      BY <2>2, <2>3, <3>1, NotedStays DEF Interrupted, Answered, Strays
    <3>2. CASE ~\E t \in Tasks : Answered(t)
      BY <2>2, <2>3, <3>2 DEF Interrupted, Answered
    <3> QED
      BY <3>1, <3>2
  <2>5. TypeOK'
    <3>1. TasksOK' /\ AddressesOK'
      BY <1>3, <2>1 DEF Inv, TypeOK, TasksOK, CallOK, Busy, AddressesOK, IsWindow
    <3> QED
      BY <1>3, <2>1, <3>1, TypeKeeps DEF Inv, TypeOK
  <2>6. Life'
    BY <1>3, <2>1, <2>4 DEF Inv, Life, Busy
  <2>7. Hearing'
    BY <1>3, <2>1, <2>4 DEF Inv, Hearing, Busy
  <2>8. ASSUME Caught, IsWindow, ~Strays(hitches') PROVE Caught'
    <3>1. Passed(k)
      BY <1>2, <1>5, <2>4, <2>8, PaysBefore
    <3> QED
      BY <1>3, <2>1, <2>8, <3>1 DEF Caught, Passed, Answering, Answered
  <2>9. \A u \in Tasks : (Fetching(u)' <=> Fetching(u)) /\ (Answered(u)' <=> Answered(u))
    BY <2>1 DEF Fetching, Answered
  <2>10. ASSUME ~singleAddress', ~Strays(hitches'), "unheard" \notin hitches', state' = "READY" \/ Answered(0)'
         PROVE  Caught' \/ \E u \in Tasks : Fetching(u)'
    <3>1. \A u \in Tasks : ~Answered(u)
      BY <2>4, <2>10
    <3>2. state = "READY" /\ ~singleAddress /\ ~Strays(hitches)
      BY <1>3, <2>4, <2>9, <2>10, <3>1, ZeroIsATask
    <3>3. (IsWindow \/ \E t \in Tasks : Fetching(t)) /\ (Caught \/ \E t \in Tasks : Fetching(t))
      BY <2>4, <2>10, <3>1, <3>2 DEF Inv, Offering, Strays
    <3> QED
      BY <2>8, <2>9, <2>10, <3>3
  <2>11. Offering'
    <3>1. IsWindow' <=> IsWindow
      BY <2>1 DEF IsWindow
    <3> QED
      BY <1>3, <2>1, <2>4, <2>9, <2>10, <3>1 DEF Inv, Offering
  <2> QED
    BY <2>5, <2>6, <2>7, <2>11 DEF Inv
<1>6. CASE Matching(k) /\ state # "READY"
  <2>1. Throw(k) /\ UNCHANGED <<missed, newAddresses, indexToUse>>
    BY <1>0, <1>6 DEF OnNewTx
  <2>2. newAddresses # {}
    BY <1>6 DEF Matching
  <2>3. GivesUp(k)
    BY <1>3, <2>1, <2>2 DEF Throw, GivesUp, Puts
  <2> QED
    BY <1>3, <1>4, <2>1, <2>3, GiveUpKeeps, AddressesKeep DEF Inv, TypeOK
<1>7. CASE Matching(k) /\ state = "READY" /\ singleAddress
  <2>1. FirstAddressOnly /\ missed' = missed \ {k} /\ UNCHANGED <<tasks, hitches>>
    BY <1>0, <1>7 DEF OnNewTx
  <2>2. Offering' /\ AddressesOK' /\ newAddresses' # {}
    BY <1>3, <1>7, <2>1, OfferFirst
  <2>3. TasksOK'
    BY <1>3, <2>1, <2>2 DEF Inv, TypeOK, TasksOK, CallOK, Busy
  <2>4. TypeOK'
    BY <1>3, <2>1, <2>2, <2>3, TypeKeeps DEF Inv, TypeOK
  <2>5. Life'
    BY <1>3, <2>1, <2>2 DEF Inv, Life, Busy, Interrupted
  <2>6. Hearing'
    BY <1>3, <2>1 DEF Inv, Hearing, Busy
  <2> QED
    BY <2>2, <2>4, <2>5, <2>6 DEF Inv
<1>8. CASE Matching(k) /\ state = "READY" /\ ~singleAddress
  <2>1. Ask(k, Calls("new-tx"), "fresh") /\ UNCHANGED <<missed, hitches, newAddresses, indexToUse>>
    BY <1>0, <1>8 DEF OnNewTx
  <2>2. walletId /\ newAddresses # {}
    BY <1>8 DEF Inv, Life, Matching
  <2>3. PICK new : /\ Puts(k, new) /\ TaskOK(new) /\ new.phase \in Asking
                   /\ new.step = "fresh" /\ new.call = "new-tx"
    BY <2>1, <2>2, AskSteps DEF Steps, Calls
  <2>4. /\ DOMAIN tasks' = Tasks /\ tasks'[k] = new
        /\ \A u \in Tasks \ {k} : tasks'[u] = tasks[u]
    BY <1>4, <2>3, PutTask DEF Inv, TypeOK
  <2>5. TypeOK'
    <3>1. tasks'[0].step = "first" => singleAddress'
      BY <1>3, <1>4, <2>4, ZeroIsATask DEF Inv, TypeOK, TasksOK
    <3>2. TasksOK' /\ AddressesOK'
      BY <1>4, <2>1, <2>2, <2>3, <3>1, PutKeepsTasks, AddressesKeep DEF Inv, TypeOK
    <3> QED
      BY <1>3, <2>1, <3>2, TypeKeeps DEF Inv, TypeOK
  <2>6. tasks'[0] = tasks[0] /\ Busy(k)' /\ (\A u \in Tasks \ {k} : Busy(u)' <=> Busy(u))
    BY <1>4, <2>3, <2>4, IdleIsNoTask, ZeroIsATask DEF Busy
  <2>7. Life'
    BY <1>3, <1>4, <2>1, <2>6, ZeroIsATask DEF Inv, Life, Interrupted
  <2>8. Hearing'
    <3>1. missed \subseteq Tasks
      BY <1>1 DEF Inv, TypeOK
    <3> QED
      BY <1>3, <2>1, <2>6, <3>1 DEF Inv, Hearing
  <2>9. Offering'
    <3>1. Fetching(k)'
      BY <2>3, <2>4 DEF Fetching
    <3> QED
      BY <1>3, <1>4, <1>8, <3>1 DEF Offering
  <2> QED
    BY <2>5, <2>7, <2>8, <2>9 DEF Inv
<1> QED
  BY <1>5, <1>6, <1>7, <1>8 DEF Inv, TypeOK

LEMMA ConnectionKeeps ==
  ASSUME Inv, Connect \/ Lose
  PROVE  Inv'
<1>1. /\ UNCHANGED <<state, walletId, newAddresses, indexToUse, singleAddress, listeners, stopping,
                     tasks, to>>
      /\ connState # "CLOSED" /\ connState' \in {"CONNECTING", "CONNECTED"}
      /\ inbox' \subseteq inbox /\ missed' \subseteq missed
      /\ firstConnection' = firstConnection \/ firstConnection' = FALSE
      /\ connState' = "CONNECTED" => ~firstConnection'
  <2>1. CASE Connect
    BY <2>1 DEF Inv, TypeOK, Connect, addressVars, worldVars
  <2>2. CASE Lose
    BY <2>2 DEF Inv, TypeOK, Lose, addressVars
  <2> QED
    BY <2>1, <2>2
<1>2. \/ inbox' = inbox /\ hitches' = hitches
      \/ inbox # {} /\ hitches' = Noted({"unheard"})
  BY DEF Connect, Lose, worldVars
<1>3. /\ Interrupted' <=> Interrupted
      /\ Fails(hitches) => Fails(hitches')
      /\ Strays(hitches) => Strays(hitches')
      /\ "skipped" \in hitches => "skipped" \in hitches'
      /\ "failed" \in hitches' => "failed" \in hitches
      /\ "window" \in hitches => "window" \in hitches' \/ Fails(hitches')
      /\ "unheard" \in hitches => "unheard" \in hitches' \/ Fails(hitches')
      /\ inbox' # inbox => "unheard" \in hitches' \/ Fails(hitches')
  BY <1>2, NotedStays DEF Interrupted
<1>4. TypeOK'
  <2>1. TasksOK' /\ AddressesOK'
    BY <1>1 DEF Inv, TypeOK, TasksOK, CallOK, Busy, AddressesOK, IsWindow
  <2> QED
    BY <1>1, <2>1, TypeKeeps DEF Inv, TypeOK
<1>5. Life'
  BY <1>1, <1>3 DEF Inv, Life, Busy
<1>6. Hearing'
  <2>1. CASE Connect
    BY <1>1, <1>3, <2>1 DEF Inv, Hearing, Busy, Connect, worldVars
  <2>2. CASE Lose
    <3>1. state = "READY" /\ ~Fails(hitches') => ~firstConnection'
      BY <1>1, <1>3, <2>2 DEF Inv, Life, Lose, Fails, Interrupted
    <3> QED
      BY <1>1, <3>1, <2>2 DEF Hearing, Lose
  <2> QED
    BY <2>1, <2>2
<1>7. Offering'
  <2>1. \A u \in Tasks : (Fetching(u)' <=> Fetching(u)) /\ (Answered(u)' <=> Answered(u))
    BY <1>1 DEF Fetching, Answered
  <2>2. inbox' = inbox /\ Caught => Caught'
    BY <1>1 DEF Caught, Passed, Answering, Answered
  <2>3. IsWindow' <=> IsWindow
    BY <1>1 DEF IsWindow
  <2> QED
    BY <1>1, <1>3, <2>1, <2>2, <2>3, ZeroIsATask DEF Inv, Offering, Strays
<1> QED
  BY <1>4, <1>5, <1>6, <1>7 DEF Inv

LEMMA StopKeeps ==
  ASSUME Inv, Stop \/ StopConnection
  PROVE  Inv'
<1>1. /\ UNCHANGED <<newAddresses, indexToUse, singleAddress, tasks, to>>
      /\ inbox' \subseteq inbox /\ missed' \subseteq missed
  BY DEF Stop, StopConnection, addressVars, worldVars
<1>2. TypeOK'
  <2>1. TasksOK' /\ AddressesOK'
    BY <1>1 DEF Inv, TypeOK, TasksOK, CallOK, Busy, AddressesOK, IsWindow
  <2>2. CASE Stop
    BY <1>1, <2>1, <2>2, TypeKeeps DEF Inv, TypeOK, Stop
  <2>3. CASE StopConnection
    BY <1>1, <2>1, <2>3, TypeKeeps DEF Inv, TypeOK, StopConnection
  <2> QED
    BY <2>2, <2>3
<1>3. Busy(0)' <=> Busy(0)
  BY <1>1 DEF Busy
<1>4. Answered(0) => Busy(0)
  BY IdleIsNoTask DEF Answered, Busy
<1>5. CASE Stop
  <2>1. /\ ~walletId' /\ state' = "NOT_STARTED" /\ stopping' = TRUE
        /\ hitches' = IF Busy(0) THEN {"interrupted"} ELSE hitches
    BY <1>5 DEF Stop
  <2>2. Life'
    BY <1>1, <1>3, <2>1 DEF Inv, Life, Interrupted
  <2>3. Answered(0)' => Strays(hitches')
    BY <1>1, <1>4, <2>1 DEF Answered, Strays, Fails
  <2> QED
    BY <1>2, <2>1, <2>2, <2>3 DEF Inv, Hearing, Offering
<1>6. CASE StopConnection
  <2>1. /\ stopping /\ stopping' = FALSE /\ connState' = "CLOSED" /\ listeners' = 0 /\ inbox' = {}
        /\ UNCHANGED <<state, walletId, hitches>>
    BY <1>6 DEF StopConnection
  <2>2. Busy(0) \/ state = "READY" => Interrupted
    BY <2>1 DEF Inv, Life
  <2>3. Life'
    BY <1>1, <1>3, <2>1, <2>2 DEF Inv, Life, Interrupted
  <2>4. state' = "READY" \/ Answered(0)' => Fails(hitches')
    BY <1>1, <1>4, <2>1, <2>2 DEF Answered, Fails, Interrupted
  <2> QED
    BY <1>2, <2>3, <2>4 DEF Inv, Hearing, Offering, Strays
<1> QED
  BY <1>5, <1>6

-----------------------------------------------------------------------------
(* Theorems *)

LEMMA NextKeeps == Inv /\ [Next]_vars => Inv'
<1> SUFFICES ASSUME Inv, [Next]_vars PROVE Inv'
  OBVIOUS
<1>1. ASSUME NEW t \in DOMAIN tasks, Step(t) PROVE Inv'
  <2>1. t \in Tasks
    BY DEF Inv, TypeOK, TasksOK
  <2> QED
    BY <1>1, <2>1, RequestKeeps, AnsweredKeeps, KnownKeeps, CreatedKeeps, VersionKeeps, StatusKeeps,
       TokenKeeps, OutsideKeeps, FirstKnownKeeps DEF Step
<1>2. ASSUME NEW call \in StartCalls, Start(call) PROVE Inv'
  BY <1>2, StartKeeps DEF AnyStart
<1>3. ASSUME NEW call \in ReadOnlyCalls, StartReadOnly(call) PROVE Inv'
  BY <1>3, StartKeeps DEF AnyStart
<1>4. CASE UNCHANGED vars
  <2>1. UNCHANGED <<used, walletId, tasks, hitches>>
    BY <1>4 DEF vars, used, addressVars, connVars, worldVars
  <2>2. TypeOK'
    <3>1. TasksOK' /\ AddressesOK'
      BY <2>1 DEF Inv, TypeOK, TasksOK, CallOK, Busy, AddressesOK, IsWindow, used
    <3> QED
      BY <2>1, <3>1, TypeKeeps DEF Inv, TypeOK, used
  <2>3. Life' /\ Hearing'
    BY <2>1 DEF Inv, Life, Hearing, Busy, Interrupted, used
  <2>4. Offering'
    BY <2>1 DEF Inv, Offering, IsWindow, Caught, Passed, Answering, Fetching, Answered, used
  <2> QED
    BY <2>2, <2>3, <2>4 DEF Inv
<1> QED
  BY <1>1, <1>2, <1>3, <1>4, EnableKeeps, NextAddressKeeps, PublishKeeps, OnNewTxKeeps, ConnectionKeeps,
     StopKeeps DEF Next

LEMMA SpecKeeps == Spec => []Inv
  BY InitKeeps, NextKeeps, PTL DEF Spec

\* Every variable of the facade keeps its type.
THEOREM TypeCorrect == Spec => []TypeOK
<1>1. Inv => TypeOK
  BY DEF Inv
<1> QED
  BY <1>1, SpecKeeps, PTL

\* A wallet that is READY has its walletId, addresses to offer and one connection with
\* one set of listeners: start(), setupConnection() and stop() of src/wallet/wallet.ts,
\* whatever their requests go through, unless the wallet was stopped while it started.
THEOREM ReadyWalletsAreComplete == Spec => []ReadyIsComplete
<1>1. Inv => ReadyIsComplete
  BY DEF Inv, Life, Interrupted, ReadyIsComplete
<1> QED
  BY <1>1, SpecKeeps, PTL

\* When everything has arrived the application, which loads at READY and 'reload-data'
\* and follows 'new-tx', knows every transaction: onNewTx() and
\* onConnectionChangedState() of src/wallet/wallet.ts.
THEOREM ApplicationsAreCurrent == Spec => []AppIsCurrent
<1>1. Inv => AppIsCurrent
  <2> SUFFICES ASSUME Inv, Quiet, hitches \cap {"window", "failed", "interrupted"} = {}, missed # {}
               PROVE  FALSE
    BY DEF AppIsCurrent
  <2>1. PICK k \in missed : TRUE
    OBVIOUS
  <2>2. k \in Tasks /\ DOMAIN tasks = Tasks
    BY PublishedAreTasks DEF Inv, TypeOK, TasksOK
  <2>3. k \in inbox \/ Busy(k) \/ (connState # "CONNECTED" /\ ~firstConnection)
    BY DEF Inv, Hearing, Quiet, Fails
  <2> QED
    BY <2>2, <2>3 DEF Quiet
<1> QED
  BY <1>1, SpecKeeps, PTL

\* When everything has arrived, no transaction has paid the address that
\* getCurrentAddress() of src/wallet/wallet.ts offers, and the single-address mode
\* offers the first one, whatever the order of transactions and answers.
THEOREM OfferedAddressesAreRight == Spec => []AddressIsRight
<1>1. Inv => AddressIsRight
  <2> SUFFICES ASSUME Inv, Quiet, newAddresses # {},
                      hitches \cap {"unheard", "failed", "overtaken", "interrupted", "skipped"} = {}
               PROVE  IF singleAddress THEN CurrentAddress = 0
                      ELSE \A k \in DOMAIN to : to[k] # CurrentAddress
    BY DEF AddressIsRight
  <2>1. ~Strays(hitches) /\ "unheard" \notin hitches /\ state = "READY" /\ inbox = {}
    BY DEF Strays, Fails, Quiet
  <2>2. \A t \in Tasks : tasks[t] = Idle
    BY DEF Quiet, Busy, Inv, TypeOK, TasksOK
  <2>3. \A t \in Tasks : ~Fetching(t) /\ ~Answered(t) /\ tasks[t].step # "first"
    BY <2>2, IdleIsNoTask DEF Fetching, Answered
  <2>4. CASE singleAddress
    <3>1. newAddresses = {0}
      BY <2>1, <2>3, <2>4, ZeroIsATask DEF Inv, Offering
    <3>2. Min({0}) = 0
      BY MinIsLeast
    <3> QED
      BY <2>4, <3>1, <3>2 DEF CurrentAddress
  <2>5. CASE ~singleAddress
    <3>1. IsWindow /\ \A k \in DOMAIN to : Passed(k)
      BY <2>1, <2>3, <2>5 DEF Inv, Offering, Caught, Answering
    <3>2. PICK a \in Nat : newAddresses = Window(a)
      BY <3>1 DEF IsWindow
    <3> DEFINE top == a + GapLimit - 1
    <3>3. /\ a \in newAddresses /\ top \in newAddresses /\ top \in Nat
          /\ \A n \in newAddresses : n \in Nat /\ a <= n /\ n <= top
      <4>1. /\ a \in newAddresses /\ top \in newAddresses
            /\ \A n \in newAddresses : n \in Nat /\ a <= n /\ n < a + GapLimit
        BY <3>2, WindowFacts
      <4> QED
        BY <4>1, ServiceAssumption
    <3> HIDE DEF top
    <3>4. Min(newAddresses) = a
      <4>1. newAddresses \subseteq Nat /\ newAddresses # {}
        BY <3>3
      <4>2. Min(newAddresses) \in newAddresses /\ \A n \in newAddresses : Min(newAddresses) <= n
        BY <4>1, MinIsLeast
      <4> DEFINE m == Min(newAddresses)
      <4> HIDE DEF m
      <4>3. m \in newAddresses /\ m <= a
        BY <3>3, <4>2 DEF m
      <4>4. m \in Nat /\ a <= m
        BY <3>3, <4>3
      <4>5. m = a
        BY <4>3, <4>4
      <4> QED
        BY <4>5 DEF m
    <3>5. Max(newAddresses) = top
      <4>1. \A x \in newAddresses : (\A y \in newAddresses : x >= y) <=> x = top
        BY <3>3
      <4> QED
        BY <3>3, <4>1 DEF Max
    <3>6. indexToUse \in Int /\ indexToUse >= 0
      BY DEF Inv, TypeOK, AddressesOK
    <3>7. CurrentAddress \in {a + indexToUse, top}
      <4>1. {a + indexToUse, top} \subseteq Nat
        BY <3>3, <3>6
      <4> QED
        BY <2>5, <3>4, <3>5, <4>1, MinIsLeast DEF CurrentAddress
    <3>8. CurrentAddress \in Nat /\ a <= CurrentAddress
      BY <3>3, <3>6, <3>7
    <3>9. \A k \in DOMAIN to : to[k] \in Nat /\ to[k] < a
      BY <3>1, <3>3 DEF Passed, Inv, TypeOK
    <3> QED
      BY <2>5, <3>8, <3>9
  <2> QED
    BY <2>4, <2>5
<1> QED
  BY <1>1, SpecKeeps, PTL

=============================================================================
