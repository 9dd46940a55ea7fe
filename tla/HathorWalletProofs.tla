------------------------- MODULE HathorWalletProofs -------------------------
(***************************************************************************)
(* Proofs about the wallet facade, for any transactions, gap, plans and    *)
(* bounds.  The lemmas on the shape of a step come first; the invariants   *)
(* cite only those.  Serial: the tasks of the wallet run one at a time     *)
(* when connections come between them.  GapInv: a load goes on from the    *)
(* last address that is loaded, and what is loaded is watched.  CountInv:  *)
(* what each walk has counted and has left.  CurrInv: the last version of  *)
(* a transaction is on the wire, else in the queue, else known.            *)
(***************************************************************************)
EXTENDS HathorWallet, FiniteSetTheorems, WellFoundedInduction, TLAPS

-----------------------------------------------------------------------------
(* Types *)

LoadPcs == {"idle", "reload", "subscribe", "fetch", "save", "done"}
Load == [pc : LoadPcs, from : Nat, to : Nat, page : Page]
NewTxPcs == {"idle", "add", "scan", "credit", "clean", "walk", "finish", "resave"}
NewTx == [pc : NewTxPcs, tx : Txs \cup {0}, version : Version, stored : Version,
          prev : WalletStates, load : Load, todo : SUBSET Txs]
Proc == [pc : {"idle", "drain", "newTx", "walk"}, todo : SUBSET Txs]
Told == {m \in Message : m.version.ver > 0}

QueuesOK == wire \in Seq(Told) /\ wsTxQueue \in Seq(Told) /\ newTxPromise \in Seq(Told)
StorageOK ==
    /\ history \in Page /\ counted \in [Txs -> 0..MaxCount]
    /\ loaded \in Nat /\ used \in Nat
TasksOK ==
    /\ sync \in [Conns -> Load] /\ proc \in [Conns -> Proc] /\ newTx \in [Runners -> NewTx]
    /\ \A r \in Runners : newTx[r].pc # "idle" => newTx[r].tx \in Txs /\ newTx[r].version.ver > 0
FieldsOK ==
    /\ plan \in Plans
    /\ server \in Page /\ conn \in {"CLOSED", "CONNECTING", "CONNECTED"}
    /\ subscribed \subseteq Nat
    /\ state \in WalletStates
    /\ walletStopped \in BOOLEAN /\ firstConnection \in BOOLEAN /\ stopping \in BOOLEAN
    /\ conns \in Nat /\ stops \in Nat /\ fails \in Nat
TypeOK == FieldsOK /\ QueuesOK /\ StorageOK /\ TasksOK

-----------------------------------------------------------------------------
(* Data *)

LEMMA MinExists ==
  ASSUME NEW S, S \subseteq Nat, S # {}
  PROVE  \E x \in S : \A y \in S : x <= y
<1>1. PICK x \in S : \A y \in S : ~(<<y, x>> \in OpToRel(<, Nat))
  BY NatLessThanWellFounded, WFMin
<1>2. \A y \in S : x <= y
  <2> TAKE y \in S
  <2>1. y \in Nat /\ x \in Nat
    OBVIOUS
  <2>2. <<y, x>> \in Nat \X Nat
    BY <2>1
  <2>3. <<y, x>>[1] = y /\ <<y, x>>[2] = x
    OBVIOUS
  <2>4. y < x => <<y, x>> \in OpToRel(<, Nat)
    BY <2>2, <2>3 DEF OpToRel
  <2>5. ~(y < x)
    BY <1>1, <2>4
  <2> QED
    BY <2>1, <2>5
<1> QED
  BY <1>2

\* The transaction a walk takes next.
LEMMA NextIsOne ==
  ASSUME NEW S, S \subseteq Txs, S # {}
  PROVE  Smallest(S) \in S
  BY MinExists, WalletAssumption DEF Smallest

\* A function on the first naturals is bounded.
LEMMA Bounded ==
  ASSUME NEW n \in Nat, NEW f, \A i \in 1..n : f[i] \in Nat
  PROVE  \E b \in Nat : \A i \in 1..n : f[i] <= b
<1> DEFINE B(k) == \E b \in Nat : \A i \in 1..k : f[i] <= b
           S == {k \in 0..n : ~B(k)}
<1>1. ASSUME S # {} PROVE FALSE
  <2>0. S \subseteq Nat
    OBVIOUS
  <2>1. PICK k \in S : \A j \in S : k <= j
    <3> HIDE DEF S
    <3> QED
      BY <1>1, <2>0, MinExists
  <2>2. k \in 0..n /\ ~B(k)
    BY <2>1
  <2>3. B(0)
    OBVIOUS
  <2>4. k # 0
    BY <2>2, <2>3
  <2>5. k - 1 \in 0..n /\ k - 1 < k
    BY <2>2, <2>4
  <2>6. B(k - 1)
    <3>1. k - 1 \notin S
      <4> HIDE DEF S
      <4> QED
        BY <2>1, <2>2, <2>5
    <3> HIDE DEF B
    <3> QED
      BY <2>5, <3>1
  <2>7. PICK b \in Nat : \A i \in 1..(k - 1) : f[i] <= b
    BY <2>6
  <2>8. f[k] \in Nat
    BY <2>2, <2>4
  <2>9. \A i \in 1..k : f[i] <= b + f[k]
    <3> TAKE i \in 1..k
    <3>1. f[i] \in Nat
      BY <2>2
    <3>2. CASE i = k
      BY <2>8, <3>2
    <3>3. CASE i # k
      <4>1. i \in 1..(k - 1)
        BY <2>2, <3>3
      <4>2. f[i] <= b
        BY <2>7, <4>1
      <4> HIDE DEF B, S
      <4> QED
        BY <2>8, <3>1, <4>2
    <3> QED
      BY <3>2, <3>3
  <2>10. b + f[k] \in Nat
    BY <2>8
  <2> QED
    BY <2>2, <2>9, <2>10
<1>2. n \notin S
  BY <1>1
<1> QED
  BY <1>2

\* lastUsedAddressIndex is a number: the largest of finitely many.
LEMMA UsedIsANumber ==
  ASSUME used \in Nat, NEW p
  PROVE  UsedAfter(p) \in Nat /\ UsedAfter(p) >= used
<1> DEFINE S == Saved(p)
           touched == {AddrOf[t] + 1 : t \in S}
           g == [t \in S |-> AddrOf[t] + 1]
           all == touched \cup {used}
<1>1. S \subseteq Txs /\ IsFiniteSet(S)
  BY WalletAssumption, FS_Subset DEF Saved
<1>2. \A t \in S : AddrOf[t] + 1 \in Nat
  <2> TAKE t \in S
  <2>1. AddrOf[t] \in Nat
    BY <1>1, WalletAssumption
  <2> QED
    BY <2>1
<1>3. all \subseteq Nat
  BY <1>2
<1>4. IsFiniteSet(touched)
  <2>1. g \in Surjection(S, touched)
    <3> HIDE DEF S
    <3> QED
      BY DEF Surjection
  <2> HIDE DEF S, touched, g
  <2> QED
    BY <1>1, <2>1, FS_Surjection
<1>5. IsFiniteSet(all)
  <2> HIDE DEF touched
  <2> QED
    BY <1>4, FS_AddElement
<1>6. PICK n \in Nat : ExistsBijection(1..n, all)
  BY <1>5, FS_NatBijection
<1>7. PICK f \in Bijection(1..n, all) : TRUE
  BY <1>6 DEF ExistsBijection
<1>8. \A i \in 1..n : f[i] \in all
  BY <1>7 DEF Bijection, Injection, Surjection
<1>9. PICK b \in Nat : \A i \in 1..n : f[i] <= b
  BY <1>3, <1>8, Bounded
<1>10. \A m \in all : m <= b
  <2> HIDE DEF all
  <2> QED
    BY <1>7, <1>9 DEF Bijection, Surjection
<1> DEFINE over == {u \in Nat : \A m \in all : m <= u}
<1>11. PICK u \in over : \A v \in over : u <= v
  BY <1>10, MinExists
<1>12. u \in all
  <2> SUFFICES ASSUME u \notin all PROVE FALSE
    OBVIOUS
  <2>1. u \in Nat /\ \A m \in all : m <= u /\ m # u
    BY <1>11
  <2> HIDE DEF all
  <2>2. \A m \in all : m \in Nat /\ m < u
    BY <1>3, <2>1
  <2>3. used \in all
    BY DEF all
  <2>4. u - 1 \in Nat
    BY <2>1, <2>2, <2>3
  <2>5. \A m \in all : m <= u - 1
    BY <2>1, <2>2
  <2>6. u - 1 \in over
    BY <2>4, <2>5
  <2>7. u <= u - 1
    BY <1>11, <2>6
  <2> QED
    BY <2>1, <2>7
<1>13. \A m \in all : m <= u
  BY <1>11
<1>14. UsedAfter(p) = CHOOSE k \in all : \A m \in all : m <= k
  BY DEF UsedAfter
<1>15. UsedAfter(p) \in all /\ \A m \in all : m <= UsedAfter(p)
  <2> HIDE DEF all
  <2> QED
    BY <1>12, <1>13, <1>14
<1> QED
  BY <1>3, <1>15

-----------------------------------------------------------------------------
(* Types *)

LEMMA NothingIsTyped ==
  NoVersion \in Version /\ NoPage \in Page /\ IdleLoad \in Load /\ IdleNewTx \in NewTx /\ IdleProc \in Proc
<1>1. NoVersion \in Version
  BY WalletAssumption DEF NoVersion, Version
<1>2. NoPage \in Page
  BY <1>1 DEF NoPage, Page
<1>3. IdleLoad \in Load
  BY <1>2 DEF IdleLoad, Load, LoadPcs
<1> QED
  BY <1>1, <1>2, <1>3 DEF IdleNewTx, NewTx, NewTxPcs, WalletStates, IdleProc, Proc

LEMMA NoQueueIsTyped == <<>> \in Seq(Told)
  OBVIOUS

LEMMA InitIsTyped == Init => TypeOK
<1> SUFFICES ASSUME Init PROVE TypeOK
  OBVIOUS
<1>1. TasksOK
  BY NothingIsTyped DEF Init, IdleNewTx, TasksOK
<1>2. StorageOK
  BY NothingIsTyped, WalletAssumption DEF Init, StorageOK
<1>3. QueuesOK
  BY NoQueueIsTyped DEF Init, QueuesOK
<1>4. FieldsOK
  BY NothingIsTyped DEF Init, FieldsOK, WalletStates
<1> QED
  BY <1>1, <1>2, <1>3, <1>4 DEF TypeOK

\* The parts a step leaves alone.
LEMMA SameIsTyped ==
  ASSUME TypeOK
  PROVE  /\ UNCHANGED <<wire, wsTxQueue, newTxPromise>> => QueuesOK'
         /\ UNCHANGED storage => StorageOK'
         /\ UNCHANGED <<sync, proc, newTx>> => TasksOK'
  BY DEF TypeOK, QueuesOK, StorageOK, TasksOK, storage

\* The last message is taken out of a queue, or one is put in.
LEMMA QueuesAreTyped ==
  ASSUME NEW q \in Seq(Told)
  PROVE  /\ q # <<>> => Head(q) \in Told /\ Tail(q) \in Seq(Told)
         /\ \A m \in Told : Append(q, m) \in Seq(Told)
  OBVIOUS

LEMMA PublishIsTyped ==
  ASSUME TypeOK, NEW t \in Txs, NEW voided \in BOOLEAN, Publish(t, voided)
  PROVE  TypeOK'
<1> DEFINE v == [ver |-> server[t].ver + 1, voided |-> voided]
           m == [tx |-> t, version |-> v]
<1>1. server[t] \in Version /\ plan.vers[t] \in 0..MaxVer /\ MaxVer \in Nat
  BY WalletAssumption DEF TypeOK, FieldsOK, Page
<1>2. v \in Version /\ v.ver > 0
  BY <1>1 DEF Publish, Version
<1>3. m \in Told
  BY <1>2 DEF Told, Message
<1>4. server' = [server EXCEPT ![t] = v]
      /\ (wire' = Append(wire, m) \/ wire' = wire)
  BY DEF Publish
<1>5. server' \in Page
  BY <1>2, <1>4 DEF TypeOK, FieldsOK, Page
<1>6. wire' \in Seq(Told)
  BY <1>3, <1>4, QueuesAreTyped DEF TypeOK, QueuesOK
<1>7. QueuesOK'
  BY <1>6 DEF Publish, TypeOK, QueuesOK, fields
<1>8. FieldsOK'
  BY <1>5 DEF Publish, TypeOK, FieldsOK, fields, tasks, bounds
<1> QED
  BY <1>7, <1>8, SameIsTyped DEF Publish, TypeOK, tasks

LEMMA MessageIsTyped == ASSUME TypeOK, HandleWebsocketMsg PROVE TypeOK'
<1>1. QueuesOK'
  BY QueuesAreTyped DEF HandleWebsocketMsg, TypeOK, QueuesOK
<1>2. FieldsOK'
  BY DEF HandleWebsocketMsg, TypeOK, FieldsOK, tasks, bounds
<1> QED
  BY <1>1, <1>2, SameIsTyped DEF HandleWebsocketMsg, TypeOK, tasks

LEMMA ConnectionIsTyped ==
  ASSUME TypeOK, Start \/ ConnectionUp \/ ConnectionDown \/ Stop \/ StopEnd
  PROVE  TypeOK'
<1>1. CASE Start
  <2>1. FieldsOK'
    BY <1>1 DEF Start, TypeOK, FieldsOK, tasks, bounds, WalletStates
  <2> QED
    BY <1>1, <2>1, SameIsTyped DEF Start, TypeOK, tasks
<1>2. CASE ConnectionUp
  <2> DEFINE l == [IdleLoad EXCEPT !.pc = IF firstConnection THEN "subscribe" ELSE "reload",
                                   !.to = GapLimit]
  <2>1. l \in Load
    BY NothingIsTyped, WalletAssumption DEF Load, LoadPcs
  <2>2. sync' = [sync EXCEPT ![conns + 1] = l]
    BY <1>2 DEF ConnectionUp
  <2>3. sync' \in [Conns -> Load]
    BY <2>1, <2>2 DEF TypeOK, TasksOK
  <2>4. TasksOK'
    BY <1>2, <2>3 DEF ConnectionUp, TypeOK, TasksOK
  <2>5. /\ conn' = "CONNECTED" /\ state' = "SYNCING" /\ firstConnection' = FALSE /\ conns' = conns + 1
        /\ UNCHANGED <<plan, server, subscribed, walletStopped, stopping, stops, fails>>
    BY <1>2 DEF ConnectionUp
  <2>6. FieldsOK'
    <3> HIDE DEF l
    <3>1. conns' \in Nat
      BY <2>5 DEF TypeOK, FieldsOK
    <3>2. firstConnection' \in BOOLEAN /\ conn' \in {"CLOSED", "CONNECTING", "CONNECTED"}
      BY <2>5, Zenon
    <3>3. state' \in WalletStates
      BY <2>5 DEF WalletStates
    <3> QED
      BY <2>5, <3>1, <3>2, <3>3, Zenon DEF TypeOK, FieldsOK
  <2> QED
    BY <1>2, <2>4, <2>6, SameIsTyped DEF ConnectionUp, TypeOK
<1>3. CASE ConnectionDown
  <2>1. FieldsOK'
    BY <1>3 DEF ConnectionDown, TypeOK, FieldsOK, tasks, bounds, WalletStates
  <2>2. QueuesOK'
    BY <1>3, NoQueueIsTyped DEF ConnectionDown, TypeOK, QueuesOK
  <2> QED
    BY <1>3, <2>1, <2>2, SameIsTyped DEF ConnectionDown, TypeOK, tasks
<1>4. CASE Stop
  <2>1. FieldsOK'
    BY <1>4 DEF Stop, TypeOK, FieldsOK, fullnode, WalletStates
  <2> QED
    BY <1>4, <2>1, SameIsTyped DEF Stop, TypeOK, fullnode
<1>5. CASE StopEnd
  <2>1. StorageOK'
    BY <1>5, NothingIsTyped, WalletAssumption DEF StopEnd, TypeOK, StorageOK
  <2>2. QueuesOK'
    BY <1>5, NoQueueIsTyped DEF StopEnd, TypeOK, QueuesOK
  <2>3. FieldsOK'
    BY <1>5 DEF StopEnd, TypeOK, FieldsOK, bounds
  <2> QED
    BY <1>5, <2>1, <2>2, <2>3, SameIsTyped DEF StopEnd, TypeOK
<1> QED
  BY <1>1, <1>2, <1>3, <1>4, <1>5

\* What a load becomes.
LEMMA LoadBecomes ==
  ASSUME NEW l \in Load
  PROVE  /\ l.pc = "subscribe" => /\ Loads(l).pc = "fetch"
                                  /\ Loads(l).from = l.from /\ Loads(l).to = l.to
         /\ l.pc = "fetch" =>
              /\ Loads(l).pc = "save" /\ Loads(l).from = l.from /\ Loads(l).to = l.to
              /\ Loads(l).page = [t \in Txs |-> IF AddrOf[t] \in l.from .. l.to - 1
                                                THEN server[t] ELSE NoVersion]
         /\ l.pc = "save" => Loads(l) = MoreToLoad(l, UsedAfter(l.page))
         /\ \A u : u + GapLimit > loaded =>
              /\ MoreToLoad(l, u).pc = "subscribe" /\ MoreToLoad(l, u).from = loaded
              /\ MoreToLoad(l, u).to = u + GapLimit
         /\ \A u : ~(u + GapLimit > loaded) =>
              /\ MoreToLoad(l, u).pc = "done" /\ MoreToLoad(l, u).from = 0
  BY DEF Loads, Fetched, MoreToLoad, Load, IdleLoad

LEMMA ChangedLoad ==
  ASSUME NEW l \in Load, NEW p \in LoadPcs, NEW f \in Nat, NEW t \in Nat, NEW g \in Page
  PROVE  /\ [l EXCEPT !.pc = p, !.from = f, !.to = t, !.page = g] \in Load
         /\ [l EXCEPT !.pc = p, !.page = g] \in Load
         /\ [l EXCEPT !.pc = p] \in Load
  BY DEF Load

LEMMA LoadIsTyped ==
  ASSUME TypeOK, NEW l \in Load
  PROVE  /\ \A u \in Nat : MoreToLoad(l, u) \in Load
         /\ Loads(l) \in Load
<1>1. ASSUME NEW u \in Nat PROVE MoreToLoad(l, u) \in Load
  <2>1. u + GapLimit \in Nat /\ loaded \in Nat
    BY WalletAssumption DEF TypeOK, StorageOK
  <2>2. CASE u + GapLimit > loaded
    <3>1. PICK v \in Nat : v = u + GapLimit
      BY <2>1
    <3>2. PICK none \in Page : none = NoPage
      BY NothingIsTyped
    <3>3. MoreToLoad(l, u) = [l EXCEPT !.pc = "subscribe", !.from = loaded, !.to = v, !.page = none]
      BY <2>2, <3>1, <3>2 DEF MoreToLoad
    <3>4. [l EXCEPT !.pc = "subscribe", !.from = loaded, !.to = v, !.page = none] \in Load
      BY <2>1 DEF Load, LoadPcs
    <3> QED
      BY <3>3, <3>4
  <2>3. CASE ~(u + GapLimit > loaded)
    <3>1. MoreToLoad(l, u) = [IdleLoad EXCEPT !.pc = "done"]
      BY <2>3 DEF MoreToLoad
    <3> QED
      BY <3>1, NothingIsTyped, ChangedLoad DEF LoadPcs
  <2> QED
    BY <2>2, <2>3
<1>2. CASE l.pc = "subscribe"
  <2>1. Loads(l) = [l EXCEPT !.pc = "fetch"]
    BY <1>2 DEF Loads
  <2>2. Loads(l) \in Load
    BY <2>1 DEF Load, LoadPcs
  <2> QED
    BY <1>1, <2>2
<1>3. CASE l.pc = "fetch"
  <2> DEFINE page == [t \in Txs |-> IF AddrOf[t] \in l.from .. l.to - 1 THEN server[t] ELSE NoVersion]
  <2>1. page \in Page
    BY NothingIsTyped DEF TypeOK, FieldsOK, Page
  <2>2. Loads(l) = [l EXCEPT !.pc = "save", !.page = page]
    BY <1>3 DEF Loads, Fetched
  <2> HIDE DEF page
  <2>3. Loads(l) \in Load
    BY <2>1, <2>2 DEF Load, LoadPcs
  <2> QED
    BY <1>1, <2>3
<1>4. CASE l.pc = "save"
  <2>1. Loads(l) = MoreToLoad(l, UsedAfter(l.page))
    BY <1>4 DEF Loads
  <2>2. UsedAfter(l.page) \in Nat
    BY UsedIsANumber DEF TypeOK, StorageOK
  <2> QED
    BY <1>1, <2>1, <2>2
<1>5. CASE l.pc \notin {"subscribe", "fetch", "save"}
  <2>1. Loads(l) = l
    BY <1>5 DEF Loads
  <2> QED
    BY <1>1, <2>1
<1> QED
  BY <1>2, <1>3, <1>4, <1>5

LEMMA LoadStepIsTyped ==
  ASSUME TypeOK, NEW l \in Load, LoadStep(l), UNCHANGED counted
  PROVE  StorageOK' /\ subscribed' \subseteq Nat
<1>0. /\ l.from \in Nat /\ l.to \in Nat /\ l.page \in Page
      /\ subscribed \subseteq Nat /\ loaded \in Nat /\ used \in Nat /\ history \in Page
      /\ counted \in [Txs -> 0..MaxCount]
  BY DEF Load, TypeOK, FieldsOK, StorageOK
<1>1. CASE LoadSubscribe(l)
  <2>1. loaded' \in Nat /\ UNCHANGED <<history, used>>
    BY <1>0, <1>1 DEF LoadSubscribe, Larger
  <2>2. \A a \in l.from .. l.to - 1 : a \in Nat
    BY <1>0
  <2>3. subscribed' \subseteq Nat
    BY <1>0, <1>1, <2>2 DEF LoadSubscribe
  <2> QED
    BY <1>0, <2>1, <2>3 DEF StorageOK
<1>2. CASE LoadFetch(l)
  BY <1>0, <1>2 DEF LoadFetch, StorageOK
<1>3. CASE LoadSave(l)
  <2>1. used' \in Nat
    BY <1>0, <1>3, UsedIsANumber DEF LoadSave
  <2>2. history' \in Page
    BY <1>0, <1>3 DEF LoadSave, Page
  <2> QED
    BY <1>0, <1>3, <2>1, <2>2 DEF LoadSave, StorageOK
<1> QED
  BY <1>1, <1>2, <1>3 DEF LoadStep

-----------------------------------------------------------------------------
(* What the steps of onNewTx() and of onEnterStateProcessing() change *)

Only(r) == /\ newTx' \in [Runners -> NewTx]
           /\ \A q \in Runners \ {r} : newTx'[q] = newTx[q]
OnlyProc(e) == \A f \in Conns \ {e} : proc'[f] = proc[f]
\* The message of runner r, and what was saved before it.
SameMessage(r) ==
    newTx'[r].tx = newTx[r].tx /\ newTx'[r].version = newTx[r].version /\ newTx'[r].stored = newTx[r].stored
Connection == <<server, conn, subscribed, wire, plan, conns, stops, sync, stopping>>
Queues == <<walletStopped, firstConnection, wsTxQueue, newTxPromise>>
NewTxOK(n) == n \in NewTx /\ (n.pc # "idle" => n.tx \in Txs /\ n.version.ver > 0)

LEMMA ConnsAreRunners == Conns \subseteq Runners /\ 0 \in Runners /\ 0 \notin Conns /\ Runners = Conns \cup {0}
<1>1. MaxConns \in Nat
  BY WalletAssumption
<1> QED
  BY <1>1 DEF Conns, Runners

LEMMA AddTxIs ==
  ASSUME TypeOK, NEW r \in Runners, AddTx(r)
  PROVE  /\ newTx[r].pc = "add" /\ newTx'[r].pc = "scan" /\ SameMessage(r)
         /\ newTx'[r].prev = newTx[r].prev /\ newTx'[r].todo = newTx[r].todo
         /\ newTx'[r].load = MoreToLoad(IdleLoad, used') /\ NewTxOK(newTx'[r]) /\ Only(r)
         /\ history' = [history EXCEPT ![newTx[r].tx] = newTx[r].version] /\ used' \in Nat
         /\ UNCHANGED <<Connection, Queues, fails, state, counted, loaded, proc>>
<1> DEFINE u == UsedAfter([NoPage EXCEPT ![newTx[r].tx] = newTx[r].version])
           l == MoreToLoad(IdleLoad, u)
<1>1. u \in Nat
  BY UsedIsANumber DEF TypeOK, StorageOK
<1>2. l \in Load
  <2> HIDE DEF u
  <2> QED
    BY <1>1, LoadIsTyped, NothingIsTyped
<1>3. /\ newTx[r].pc = "add" /\ used' = u
      /\ history' = [history EXCEPT ![newTx[r].tx] = newTx[r].version]
      /\ newTx' = [newTx EXCEPT ![r].pc = "scan", ![r].load = l]
      /\ UNCHANGED <<Connection, Queues, fails, state, counted, loaded, proc>>
  BY DEF AddTx, fullnode, fields, bounds, Connection, Queues
<1> HIDE DEF u, l
<1>4. newTx \in [Runners -> NewTx] /\ newTx[r].tx \in Txs /\ newTx[r].version.ver > 0
  BY <1>3 DEF TypeOK, TasksOK
<1>5. newTx'[r] \in NewTx /\ newTx'[r].pc = "scan" /\ SameMessage(r) /\ newTx'[r].load = l
      /\ newTx'[r].prev = newTx[r].prev /\ newTx'[r].todo = newTx[r].todo /\ Only(r)
  BY <1>2, <1>3, <1>4 DEF NewTx, NewTxPcs, SameMessage, Only
<1>6. l = MoreToLoad(IdleLoad, used')
  BY <1>3 DEF l
<1> QED
  BY <1>1, <1>3, <1>4, <1>5, <1>6 DEF NewTxOK, SameMessage

LEMMA ScanIs ==
  ASSUME TypeOK, NEW r \in Runners, Scan(r)
  PROVE  /\ newTx[r].pc = "scan" /\ newTx'[r].pc = "scan" /\ SameMessage(r)
         /\ newTx'[r].prev = newTx[r].prev /\ newTx'[r].todo = newTx[r].todo
         /\ newTx'[r].load = Loads(newTx[r].load) /\ NewTxOK(newTx'[r]) /\ Only(r)
         /\ newTx[r].load \in Load /\ LoadStep(newTx[r].load)
         /\ UNCHANGED <<server, conn, wire, plan, conns, stops, sync, stopping, Queues, fails, state, counted, proc>>
<1> DEFINE l == Loads(newTx[r].load)
<1>1. newTx \in [Runners -> NewTx] /\ newTx[r].load \in Load
  BY DEF TypeOK, TasksOK, NewTx
<1>2. l \in Load
  BY <1>1, LoadIsTyped
<1>3. /\ newTx[r].pc = "scan" /\ LoadStep(newTx[r].load)
      /\ newTx' = [newTx EXCEPT ![r].load = l]
      /\ UNCHANGED <<server, conn, wire, plan, conns, stops, sync, stopping, Queues, fails, state, counted, proc>>
  BY DEF Scan, fields, bounds, Queues
<1> HIDE DEF l
<1>4. newTx[r].tx \in Txs /\ newTx[r].version.ver > 0
  BY <1>3 DEF TypeOK, TasksOK
<1>5. newTx'[r] \in NewTx /\ newTx'[r].pc = "scan" /\ SameMessage(r) /\ newTx'[r].load = l
      /\ newTx'[r].prev = newTx[r].prev /\ newTx'[r].todo = newTx[r].todo /\ Only(r)
  BY <1>1, <1>2, <1>3 DEF NewTx, SameMessage, Only
<1> QED
  BY <1>1, <1>3, <1>4, <1>5 DEF NewTxOK, SameMessage, l

LEMMA MarkIs ==
  ASSUME TypeOK, NEW r \in Runners, Mark(r)
  PROVE  /\ newTx[r].pc = "scan" /\ newTx[r].load.pc = "done" /\ SameMessage(r)
         /\ newTx'[r].pc \in {"credit", "clean", "finish"}
         /\ newTx'[r].pc = "credit" <=> newTx[r].stored.ver = 0
         /\ newTx'[r].pc = "finish" => newTx[r].stored.voided = newTx[r].version.voided
         /\ newTx'[r].prev = state /\ newTx'[r].todo = newTx[r].todo
         /\ newTx'[r].load = IdleLoad /\ NewTxOK(newTx'[r]) /\ Only(r) /\ state' = "PROCESSING"
         /\ UNCHANGED <<Connection, Queues, fails, history, counted, loaded, used, proc>>
<1> DEFINE n == newTx[r]
           pc == IF n.stored.ver = 0 THEN "credit"
                 ELSE IF n.stored.voided # n.version.voided THEN "clean" ELSE "finish"
           n2 == [n EXCEPT !.prev = state, !.load = IdleLoad, !.pc = pc]
<1>1. newTx \in [Runners -> NewTx] /\ n \in NewTx /\ state \in WalletStates /\ IdleLoad \in Load
  BY NothingIsTyped DEF TypeOK, TasksOK, FieldsOK
<1>2. /\ newTx[r].pc = "scan" /\ newTx[r].load.pc = "done" /\ state' = "PROCESSING"
      /\ newTx' = [newTx EXCEPT ![r] = n2]
      /\ UNCHANGED <<Connection, Queues, fails, history, counted, loaded, used, proc>>
  BY DEF Mark, fullnode, storage, bounds, Connection, Queues
<1>3. /\ pc \in {"credit", "clean", "finish"} /\ (pc = "credit" <=> n.stored.ver = 0)
      /\ pc = "finish" => n.stored.voided = n.version.voided
  OBVIOUS
<1> HIDE DEF pc
<1>4. /\ n2 \in NewTx /\ n2.pc = pc /\ n2.prev = state /\ n2.load = IdleLoad
      /\ n2.tx = n.tx /\ n2.version = n.version /\ n2.stored = n.stored /\ n2.todo = n.todo
  BY <1>1, <1>3 DEF NewTx, NewTxPcs
<1> HIDE DEF n2
<1>5. newTx'[r] = n2 /\ Only(r)
  BY <1>1, <1>2, <1>4 DEF Only
<1>6. n.tx \in Txs /\ n.version.ver > 0
  BY <1>2 DEF TypeOK, TasksOK
<1> QED
  BY <1>2, <1>3, <1>4, <1>5, <1>6 DEF NewTxOK, SameMessage

\* The other steps of a runner that goes on.
GoesOn(r, pcs) ==
    /\ newTx'[r].pc \in pcs /\ newTx'[r].tx = newTx[r].tx /\ newTx'[r].stored = newTx[r].stored
    /\ newTx'[r].prev = newTx[r].prev /\ newTx'[r].load = newTx[r].load
    /\ NewTxOK(newTx'[r]) /\ Only(r)
    /\ UNCHANGED <<Connection, Queues, fails, history, loaded, used>>

LEMMA CreditIs ==
  ASSUME TypeOK, NEW r \in Runners, Credit(r)
  PROVE  /\ newTx[r].pc = "credit" /\ GoesOn(r, {"finish"}) /\ SameMessage(r) /\ newTx'[r].todo = newTx[r].todo
         /\ counted' = Credited(counted, newTx[r].tx, newTx[r].version)
         /\ UNCHANGED <<state, proc>>
<1>1. newTx \in [Runners -> NewTx]
  BY DEF TypeOK, TasksOK
<1>2. /\ newTx[r].pc = "credit" /\ newTx' = [newTx EXCEPT ![r].pc = "finish"]
      /\ counted' = Credited(counted, newTx[r].tx, newTx[r].version)
      /\ UNCHANGED <<Connection, Queues, fails, history, loaded, used, state, proc>>
  BY DEF Credit, fullnode, fields, bounds, Connection, Queues
<1>3. newTx[r].tx \in Txs /\ newTx[r].version.ver > 0
  BY <1>2 DEF TypeOK, TasksOK
<1>4. newTx'[r] \in NewTx /\ newTx'[r].pc = "finish" /\ SameMessage(r) /\ newTx'[r].load = newTx[r].load
      /\ newTx'[r].prev = newTx[r].prev /\ newTx'[r].todo = newTx[r].todo /\ Only(r)
  BY <1>1, <1>2 DEF NewTx, NewTxPcs, SameMessage, Only
<1> QED
  BY <1>2, <1>3, <1>4 DEF NewTxOK, SameMessage, GoesOn

LEMMA CleanMetadataIs ==
  ASSUME TypeOK, NEW r \in Runners, CleanMetadata(r)
  PROVE  /\ newTx[r].pc = "clean" /\ GoesOn(r, {"walk", "finish"}) /\ SameMessage(r)
         /\ newTx'[r].todo = Saved(history) /\ (newTx'[r].pc = "finish" <=> Saved(history) = {})
         /\ counted' = [t \in Txs |-> 0]
         /\ UNCHANGED <<state, proc>>
<1> DEFINE S == Saved(history)
<1>1. newTx \in [Runners -> NewTx] /\ S \in SUBSET Txs
  BY DEF TypeOK, TasksOK, Saved
<1>2. /\ newTx[r].pc = "clean"
      /\ newTx' = [newTx EXCEPT ![r].todo = S, ![r].pc = IF S = {} THEN "finish" ELSE "walk"]
      /\ counted' = [t \in Txs |-> 0]
      /\ UNCHANGED <<Connection, Queues, fails, history, loaded, used, state, proc>>
  BY DEF CleanMetadata, fullnode, fields, bounds, Connection, Queues
<1> HIDE DEF S
<1>3. newTx[r].tx \in Txs /\ newTx[r].version.ver > 0
  BY <1>2 DEF TypeOK, TasksOK
<1>4. newTx'[r] \in NewTx /\ SameMessage(r) /\ newTx'[r].load = newTx[r].load
      /\ newTx'[r].pc \in {"walk", "finish"} /\ (newTx'[r].pc = "finish" <=> S = {})
      /\ newTx'[r].prev = newTx[r].prev /\ newTx'[r].todo = S /\ Only(r)
  BY <1>1, <1>2 DEF NewTx, NewTxPcs, SameMessage, Only
<1> QED
  BY <1>2, <1>3, <1>4 DEF NewTxOK, SameMessage, GoesOn, S

LEMMA WalkIs ==
  ASSUME TypeOK, NEW r \in Runners, Walk(r)
  PROVE  /\ newTx[r].pc = "walk" /\ GoesOn(r, {"walk", "finish"}) /\ SameMessage(r)
         /\ \E t \in newTx[r].todo :
              /\ t \in Txs /\ history[t].ver > 0
              /\ newTx'[r].todo = newTx[r].todo \ {t}
              /\ newTx'[r].pc = "finish" => newTx'[r].todo = {}
              /\ counted' = Credited(counted, t, history[t])
         /\ UNCHANGED <<state, proc>>
<1> DEFINE t == Smallest(newTx[r].todo)
<1>1. newTx \in [Runners -> NewTx] /\ newTx[r].todo \in SUBSET Txs
  BY DEF TypeOK, TasksOK, NewTx
<1>2. /\ newTx[r].pc = "walk" /\ newTx[r].todo # {} /\ history[t].ver > 0
      /\ newTx' = [newTx EXCEPT ![r].todo = @ \ {t},
                                ![r].pc = IF newTx[r].todo = {t} THEN "finish" ELSE @]
      /\ counted' = Credited(counted, t, history[t])
      /\ UNCHANGED <<Connection, Queues, fails, history, loaded, used, state, proc>>
  BY DEF Walk, fullnode, fields, bounds, Connection, Queues
<1>3. newTx[r].tx \in Txs /\ newTx[r].version.ver > 0
  BY <1>2 DEF TypeOK, TasksOK
<1>4. t \in newTx[r].todo /\ t \in Txs
  BY <1>1, <1>2, NextIsOne
<1> HIDE DEF t
<1>5. newTx'[r] \in NewTx /\ SameMessage(r) /\ newTx'[r].load = newTx[r].load
      /\ newTx'[r].pc \in {"walk", "finish"} /\ (newTx'[r].pc = "finish" => newTx'[r].todo = {})
      /\ newTx'[r].prev = newTx[r].prev /\ newTx'[r].todo = newTx[r].todo \ {t} /\ Only(r)
  BY <1>1, <1>2 DEF NewTx, NewTxPcs, SameMessage, Only
<1> QED
  BY <1>2, <1>3, <1>4, <1>5 DEF NewTxOK, SameMessage, GoesOn

\* The steps that end onNewTx(): processTxQueue() goes on, unless there is an error.
Ends(r, pc) ==
    /\ newTx'[r] = IdleNewTx /\ Only(r)
    /\ r = 0 => UNCHANGED proc
    /\ r \in Conns => proc' \in [Conns -> Proc] /\ proc'[r].pc = pc /\ OnlyProc(r)
    /\ UNCHANGED <<Connection, Queues, counted, loaded, used>>

LEMMA LeaveIs ==
  ASSUME TypeOK, NEW r \in Runners, Leave(r)
  PROVE  /\ newTx'[r] = IdleNewTx /\ Only(r)
         /\ r = 0 => UNCHANGED proc
         /\ r \in Conns => proc' \in [Conns -> Proc] /\ proc'[r].pc = "drain" /\ OnlyProc(r)
<1>1. newTx \in [Runners -> NewTx] /\ proc \in [Conns -> Proc]
  BY DEF TypeOK, TasksOK
<1>2. newTx' = [newTx EXCEPT ![r] = IdleNewTx]
  BY DEF Leave
<1>3. newTx'[r] = IdleNewTx /\ Only(r)
  BY <1>1, <1>2, NothingIsTyped DEF Only
<1>4. ASSUME r \in Conns PROVE proc' \in [Conns -> Proc] /\ proc'[r].pc = "drain" /\ OnlyProc(r)
  <2>1. proc' = [proc EXCEPT ![r].pc = "drain"]
    BY <1>4 DEF Leave
  <2> QED
    BY <1>1, <1>4, <2>1 DEF Proc, OnlyProc
<1>5. r = 0 => proc' = proc
  BY ConnsAreRunners DEF Leave
<1> QED
  BY <1>3, <1>4, <1>5

\* The proceeding of a runner to its error.
LEMMA GivesUpIs ==
  ASSUME TypeOK, NEW r \in Runners, newTx' = [newTx EXCEPT ![r] = IdleNewTx],
         proc' = IF r \in Conns THEN [proc EXCEPT ![r] = IdleProc] ELSE proc
  PROVE  /\ newTx'[r] = IdleNewTx /\ Only(r)
         /\ r = 0 => UNCHANGED proc
         /\ r \in Conns => proc' \in [Conns -> Proc] /\ proc'[r] = IdleProc /\ OnlyProc(r)
<1>1. newTx \in [Runners -> NewTx] /\ proc \in [Conns -> Proc]
  BY DEF TypeOK, TasksOK
<1>2. newTx'[r] = IdleNewTx /\ Only(r)
  BY <1>1, NothingIsTyped DEF Only
<1>3. ASSUME r \in Conns PROVE proc' \in [Conns -> Proc] /\ proc'[r] = IdleProc /\ OnlyProc(r)
  <2>1. proc' = [proc EXCEPT ![r] = IdleProc]
    BY <1>3
  <2> QED
    BY <1>1, <1>3, <2>1, NothingIsTyped DEF OnlyProc
<1>4. r = 0 => proc' = proc
  BY ConnsAreRunners
<1> QED
  BY <1>2, <1>3, <1>4

LEMMA ScanFailsIs ==
  ASSUME TypeOK, NEW r \in Runners, ScanFails(r)
  PROVE  /\ newTx[r].pc = "scan" /\ Ends(r, "idle") /\ fails' = fails + 1
         /\ state' \in {state, "ERROR"} /\ UNCHANGED history
<1>1. /\ newTx[r].pc = "scan" /\ newTx' = [newTx EXCEPT ![r] = IdleNewTx]
      /\ proc' = IF r \in Conns THEN [proc EXCEPT ![r] = IdleProc] ELSE proc
      /\ state' \in {state, "ERROR"} /\ fails' = fails + 1
      /\ UNCHANGED <<Connection, Queues, history, counted, loaded, used>>
  BY DEF ScanFails, LoadFails, fullnode, storage, Connection, Queues
<1> QED
  BY <1>1, GivesUpIs DEF Ends, IdleProc

LEMMA WalkThrowsIs ==
  ASSUME TypeOK, NEW r \in Runners, WalkThrows(r)
  PROVE  /\ newTx[r].pc = "walk" /\ Ends(r, "idle") /\ UNCHANGED <<history, fails>>
         /\ \E t \in newTx[r].todo : history[t].ver = 0
         /\ state' = IF r \in Conns THEN "ERROR" ELSE Restored(newTx[r])
<1>1. /\ newTx[r].pc = "walk" /\ newTx' = [newTx EXCEPT ![r] = IdleNewTx]
      /\ proc' = IF r \in Conns THEN [proc EXCEPT ![r] = IdleProc] ELSE proc
      /\ state' = IF r \in Conns THEN "ERROR" ELSE Restored(newTx[r])
      /\ UNCHANGED <<Connection, Queues, fails, history, counted, loaded, used>>
  BY DEF WalkThrows, fullnode, storage, bounds, Connection, Queues
<1>2. newTx[r].todo \in SUBSET Txs /\ NextIsGone(newTx[r].todo)
  BY DEF TypeOK, TasksOK, NewTx, WalkThrows
<1>3. \E t \in newTx[r].todo : history[t].ver = 0
  BY <1>2, NextIsOne DEF NextIsGone
<1> QED
  BY <1>1, <1>3, GivesUpIs DEF Ends, IdleProc

LEMMA FinishIs ==
  ASSUME TypeOK, NEW r \in Runners, Finish(r)
  PROVE  /\ newTx[r].pc = "finish"
         /\ state' = IF walletStopped THEN state ELSE newTx[r].prev
         /\ \/ /\ walletStopped \/ history[newTx[r].tx].ver = 0
               /\ Ends(r, "drain") /\ UNCHANGED <<fails, history>>
            \/ /\ ~walletStopped
               /\ GoesOn(r, {"resave"}) /\ newTx'[r].version = history[newTx[r].tx]
               /\ newTx'[r].todo = newTx[r].todo
               /\ UNCHANGED <<counted, proc>>
<1>1. /\ newTx[r].pc = "finish"
      /\ state' = IF walletStopped THEN state ELSE newTx[r].prev
      /\ UNCHANGED <<Connection, Queues, fails, history, counted, loaded, used>>
  BY DEF Finish, fullnode, storage, bounds, Connection, Queues
<1>2. newTx[r].tx \in Txs
  BY <1>1 DEF TypeOK, TasksOK
<1>3. CASE walletStopped \/ history[newTx[r].tx].ver = 0
  <2>1. Leave(r)
    BY <1>3 DEF Finish
  <2> QED
    BY <1>1, <1>3, <2>1, LeaveIs DEF Ends
<1>4. CASE ~(walletStopped \/ history[newTx[r].tx].ver = 0)
  <2> DEFINE v == history[newTx[r].tx]
  <2>1. v \in Version /\ v.ver > 0
    BY <1>2, <1>4 DEF TypeOK, StorageOK, Page, Version
  <2>2. newTx' = [newTx EXCEPT ![r].pc = "resave", ![r].version = v] /\ UNCHANGED proc
    BY <1>4 DEF Finish
  <2>3. newTx \in [Runners -> NewTx]
    BY DEF TypeOK, TasksOK
  <2> HIDE DEF v
  <2>4. /\ newTx'[r] \in NewTx /\ newTx'[r].pc = "resave" /\ newTx'[r].version = v
        /\ newTx'[r].tx = newTx[r].tx /\ newTx'[r].stored = newTx[r].stored /\ newTx'[r].load = newTx[r].load
        /\ newTx'[r].prev = newTx[r].prev /\ newTx'[r].todo = newTx[r].todo /\ Only(r)
    BY <2>1, <2>2, <2>3 DEF NewTx, NewTxPcs, Only
  <2>5. GoesOn(r, {"resave"})
    BY <1>1, <1>2, <2>1, <2>4 DEF GoesOn, NewTxOK
  <2> QED
    BY <1>1, <1>4, <2>2, <2>4, <2>5 DEF v
<1> QED
  BY <1>3, <1>4

LEMMA ResaveIs ==
  ASSUME TypeOK, NEW r \in Runners, Resave(r)
  PROVE  /\ newTx[r].pc = "resave" /\ Ends(r, "drain") /\ UNCHANGED fails
         /\ history' = [history EXCEPT ![newTx[r].tx] = newTx[r].version]
         /\ state' = Restored(newTx[r])
<1>1. /\ newTx[r].pc = "resave" /\ Leave(r)
      /\ history' = [history EXCEPT ![newTx[r].tx] = newTx[r].version]
      /\ state' = Restored(newTx[r])
      /\ UNCHANGED <<Connection, Queues, fails, counted, loaded, used>>
  BY DEF Resave, fullnode, bounds, Connection, Queues
<1> QED
  BY <1>1, LeaveIs DEF Ends

\* The entry of onNewTx().
Enters(r, m) ==
    /\ Only(r)
    /\ walletStopped => newTx'[r] = IdleNewTx
    /\ ~walletStopped =>
         /\ newTx'[r].pc = "add" /\ newTx'[r].tx = m.tx /\ newTx'[r].version = m.version
         /\ newTx'[r].stored = history[m.tx] /\ newTx'[r].prev = "CLOSED" /\ newTx'[r].load = IdleLoad
    /\ UNCHANGED <<Connection, walletStopped, firstConnection, fails, state, history, counted, loaded, used>>

LEMMA EntersIs ==
  ASSUME TypeOK, NEW r \in Runners, NEW m \in Told, newTx' = [newTx EXCEPT ![r] = Entered(m)]
  PROVE  /\ Only(r)
         /\ walletStopped => newTx'[r] = IdleNewTx
         /\ ~walletStopped =>
              /\ newTx'[r].pc = "add" /\ newTx'[r].tx = m.tx /\ newTx'[r].version = m.version
              /\ newTx'[r].stored = history[m.tx] /\ newTx'[r].prev = "CLOSED"
              /\ newTx'[r].load = IdleLoad
<1> DEFINE n == [IdleNewTx EXCEPT !.pc = "add", !.tx = m.tx, !.version = m.version, !.stored = history[m.tx]]
<1>1. m.tx \in Txs /\ m.version \in Version /\ history[m.tx] \in Version
  BY DEF Told, Message, TypeOK, StorageOK, Page
<1>2. n.pc = "add" /\ n.tx = m.tx /\ n.version = m.version /\ n.stored = history[m.tx]
      /\ n.prev = "CLOSED" /\ n.load = IdleLoad
  BY DEF IdleNewTx
<1>3. n \in NewTx
  BY <1>1, NothingIsTyped DEF NewTx, NewTxPcs
<1>4. Entered(m) = IF walletStopped THEN IdleNewTx ELSE n
  BY DEF Entered
<1> HIDE DEF n
<1>5. newTx \in [Runners -> NewTx]
  BY DEF TypeOK, TasksOK
<1>6. newTx'[r] = Entered(m) /\ Only(r)
  BY <1>3, <1>4, <1>5, NothingIsTyped DEF Only
<1> QED
  BY <1>2, <1>4, <1>6

LEMMA ChainNextIs ==
  ASSUME TypeOK, ChainNext
  PROVE  /\ newTx[0].pc = "idle" /\ newTxPromise # <<>> /\ newTxPromise' = Tail(newTxPromise)
         /\ Head(newTxPromise) \in Told /\ Enters(0, Head(newTxPromise))
         /\ UNCHANGED <<wsTxQueue, proc>>
<1>1. /\ newTx[0].pc = "idle" /\ newTxPromise # <<>> /\ newTxPromise' = Tail(newTxPromise)
      /\ newTx' = [newTx EXCEPT ![0] = Entered(Head(newTxPromise))]
      /\ UNCHANGED <<Connection, walletStopped, firstConnection, fails, state, history, counted, loaded, used,
                     wsTxQueue, proc>>
  BY DEF ChainNext, fullnode, storage, bounds, Connection
<1>2. Head(newTxPromise) \in Told
  BY <1>1, QueuesAreTyped DEF TypeOK, QueuesOK
<1> QED
  BY <1>1, <1>2, EntersIs, ConnsAreRunners DEF Enters

LEMMA DequeueIs ==
  ASSUME TypeOK, NEW e \in Conns, ProcDequeue(e)
  PROVE  /\ proc[e].pc = "drain" /\ wsTxQueue # <<>> /\ wsTxQueue' = Tail(wsTxQueue)
         /\ Head(wsTxQueue) \in Told /\ Enters(e, Head(wsTxQueue))
         /\ proc' \in [Conns -> Proc] /\ OnlyProc(e)
         /\ proc'[e].pc = IF walletStopped THEN "drain" ELSE "newTx"
         /\ UNCHANGED newTxPromise
<1>1. /\ proc[e].pc = "drain" /\ wsTxQueue # <<>> /\ wsTxQueue' = Tail(wsTxQueue)
      /\ newTx' = [newTx EXCEPT ![e] = Entered(Head(wsTxQueue))]
      /\ proc' = IF walletStopped THEN proc ELSE [proc EXCEPT ![e].pc = "newTx"]
      /\ UNCHANGED <<Connection, walletStopped, firstConnection, fails, state, history, counted, loaded, used,
                     newTxPromise>>
  BY DEF ProcDequeue, fullnode, storage, bounds, Connection
<1>2. Head(wsTxQueue) \in Told
  BY <1>1, QueuesAreTyped DEF TypeOK, QueuesOK
<1>3. proc \in [Conns -> Proc]
  BY DEF TypeOK, TasksOK
<1>4. proc' \in [Conns -> Proc] /\ OnlyProc(e) /\ proc'[e].pc = IF walletStopped THEN "drain" ELSE "newTx"
  BY <1>1, <1>3 DEF Proc, OnlyProc
<1> QED
  BY <1>1, <1>2, <1>4, EntersIs, ConnsAreRunners DEF Enters

\* The steps of onEnterStateProcessing() that process the history.
Processes(e) ==
    /\ proc' \in [Conns -> Proc] /\ OnlyProc(e)
    /\ UNCHANGED <<Connection, Queues, fails, history, loaded, used, newTx>>

LEMMA ProcCleanIs ==
  ASSUME TypeOK, NEW e \in Conns, ProcClean(e)
  PROVE  /\ proc[e].pc = "drain" /\ wsTxQueue = <<>> /\ Processes(e)
         /\ proc'[e].pc = "walk" /\ proc'[e].todo = Saved(history)
         /\ counted' = [t \in Txs |-> 0] /\ UNCHANGED state
<1>1. /\ proc[e].pc = "drain" /\ wsTxQueue = <<>>
      /\ proc' = [proc EXCEPT ![e] = [pc |-> "walk", todo |-> Saved(history)]]
      /\ counted' = [t \in Txs |-> 0]
      /\ UNCHANGED <<Connection, Queues, fails, history, loaded, used, newTx, state>>
  BY DEF ProcClean, fullnode, fields, bounds, Connection, Queues
<1>2. proc \in [Conns -> Proc] /\ Saved(history) \in SUBSET Txs
  BY DEF TypeOK, TasksOK, Saved
<1>3. proc' \in [Conns -> Proc] /\ OnlyProc(e) /\ proc'[e].pc = "walk" /\ proc'[e].todo = Saved(history)
  BY <1>1, <1>2 DEF Proc, OnlyProc
<1> QED
  BY <1>1, <1>3 DEF Processes

LEMMA ProcWalkIs ==
  ASSUME TypeOK, NEW e \in Conns, ProcWalk(e)
  PROVE  /\ proc[e].pc = "walk" /\ Processes(e) /\ proc'[e].pc = "walk" /\ UNCHANGED state
         /\ \E t \in proc[e].todo :
              /\ t \in Txs /\ history[t].ver > 0 /\ proc'[e].todo = proc[e].todo \ {t}
              /\ counted' = Credited(counted, t, history[t])
<1> DEFINE t == Smallest(proc[e].todo)
<1>1. proc \in [Conns -> Proc] /\ proc[e].todo \in SUBSET Txs
  BY DEF TypeOK, TasksOK, Proc
<1>2. /\ proc[e].pc = "walk" /\ proc[e].todo # {} /\ history[t].ver > 0
      /\ proc' = [proc EXCEPT ![e].todo = @ \ {t}]
      /\ counted' = Credited(counted, t, history[t])
      /\ UNCHANGED <<Connection, Queues, fails, history, loaded, used, newTx, state>>
  BY DEF ProcWalk, fullnode, fields, bounds, Connection, Queues
<1>3. t \in proc[e].todo /\ t \in Txs
  BY <1>1, <1>2, NextIsOne
<1> HIDE DEF t
<1>4. proc' \in [Conns -> Proc] /\ OnlyProc(e) /\ proc'[e].pc = "walk" /\ proc'[e].todo = proc[e].todo \ {t}
  BY <1>1, <1>2 DEF Proc, OnlyProc
<1> QED
  BY <1>2, <1>3, <1>4 DEF Processes

LEMMA ProcEndIs ==
  ASSUME TypeOK, NEW e \in Conns, ProcEnd(e)
  PROVE  /\ proc[e].pc = "walk" /\ Processes(e) /\ proc'[e].pc = "idle" /\ UNCHANGED counted
         /\ state' = IF proc[e].todo = {} THEN "READY" ELSE "ERROR"
         /\ proc[e].todo = {} \/ \E t \in proc[e].todo : history[t].ver = 0
<1>1. /\ proc[e].pc = "walk" /\ proc' = [proc EXCEPT ![e] = IdleProc]
      /\ state' = IF proc[e].todo = {} THEN "READY" ELSE "ERROR"
      /\ proc[e].todo = {} \/ NextIsGone(proc[e].todo)
      /\ UNCHANGED <<Connection, Queues, fails, history, loaded, used, newTx, counted>>
  BY DEF ProcEnd, fullnode, storage, bounds, Connection, Queues
<1>2. proc \in [Conns -> Proc] /\ proc[e].todo \in SUBSET Txs
  BY DEF TypeOK, TasksOK, Proc
<1>3. NextIsGone(proc[e].todo) => \E t \in proc[e].todo : history[t].ver = 0
  BY <1>2, NextIsOne DEF NextIsGone
<1>4. proc' \in [Conns -> Proc] /\ OnlyProc(e) /\ proc'[e].pc = "idle"
  BY <1>1, <1>2, NothingIsTyped DEF OnlyProc, IdleProc
<1> QED
  BY <1>1, <1>3, <1>4 DEF Processes

\* The steps of the synchronisation.
OnlySync(e) == \A f \in Conns \ {e} : sync'[f] = sync[f]
Syncs(e) ==
    /\ sync[e] \in Load /\ sync' \in [Conns -> Load] /\ OnlySync(e)
    /\ UNCHANGED <<server, conn, wire, plan, conns, stops, stopping, Queues, newTx>>

LEMMA SyncReloadIs ==
  ASSUME TypeOK, NEW e \in Conns, SyncReload(e)
  PROVE  /\ sync[e].pc = "reload" /\ Syncs(e) /\ sync'[e].pc = "subscribe"
         /\ sync'[e].from = sync[e].from /\ sync'[e].to = sync[e].to
         /\ subscribed' \subseteq subscribed
         /\ history' = NoPage /\ counted' = [t \in Txs |-> 0] /\ loaded' = 0 /\ used' = 0
         /\ UNCHANGED <<state, fails, proc>>
<1>1. /\ sync[e].pc = "reload" /\ sync' = [sync EXCEPT ![e].pc = "subscribe"]
      /\ subscribed' \subseteq subscribed
      /\ history' = NoPage /\ counted' = [t \in Txs |-> 0] /\ loaded' = 0 /\ used' = 0
      /\ UNCHANGED <<server, conn, wire, plan, conns, stops, stopping, Queues, newTx, state, fails, proc>>
  BY DEF SyncReload, fields, bounds, Queues
<1>2. sync \in [Conns -> Load]
  BY DEF TypeOK, TasksOK
<1>3. sync[e] \in Load /\ sync' \in [Conns -> Load] /\ OnlySync(e) /\ sync'[e].pc = "subscribe"
      /\ sync'[e].from = sync[e].from /\ sync'[e].to = sync[e].to
  BY <1>1, <1>2 DEF Load, LoadPcs, OnlySync
<1> QED
  BY <1>1, <1>3 DEF Syncs

LEMMA SyncLoadIs ==
  ASSUME TypeOK, NEW e \in Conns, SyncLoad(e)
  PROVE  /\ LoadStep(sync[e]) /\ Syncs(e) /\ sync'[e] = Loads(sync[e])
         /\ UNCHANGED <<counted, state, fails, proc>>
<1>1. /\ LoadStep(sync[e]) /\ sync' = [sync EXCEPT ![e] = Loads(sync[e])]
      /\ UNCHANGED <<server, conn, wire, plan, conns, stops, stopping, Queues, newTx, counted, state, fails, proc>>
  BY DEF SyncLoad, fields, bounds, Queues
<1>2. sync \in [Conns -> Load]
  BY DEF TypeOK, TasksOK
<1>3. sync[e] \in Load /\ Loads(sync[e]) \in Load
  BY <1>2, LoadIsTyped
<1>4. sync' \in [Conns -> Load] /\ OnlySync(e) /\ sync'[e] = Loads(sync[e])
  BY <1>1, <1>2, <1>3 DEF OnlySync
<1> QED
  BY <1>1, <1>3, <1>4 DEF Syncs

LEMMA SyncOverIs ==
  ASSUME TypeOK, NEW e \in Conns, SyncFails(e) \/ SyncEnd(e)
  PROVE  /\ sync[e].pc \in {"fetch", "done"} /\ Syncs(e) /\ sync'[e] = IdleLoad
         /\ \/ /\ sync[e].pc = "fetch" /\ fails' = fails + 1 /\ state' = "ERROR" /\ UNCHANGED proc
            \/ /\ sync[e].pc = "done" /\ state' = "PROCESSING" /\ UNCHANGED fails
               /\ \/ state = "PROCESSING" /\ UNCHANGED proc
                  \/ state # "PROCESSING" /\ proc' \in [Conns -> Proc] /\ proc'[e].pc = "drain" /\ OnlyProc(e)
         /\ UNCHANGED <<subscribed, history, counted, loaded, used>>
<1>1. /\ sync[e].pc \in {"fetch", "done"} /\ sync' = [sync EXCEPT ![e] = IdleLoad]
      /\ UNCHANGED <<server, conn, wire, plan, conns, stops, stopping, Queues, newTx,
                     subscribed, history, counted, loaded, used>>
  BY DEF SyncFails, LoadFails, SyncEnd, fullnode, storage, bounds, Queues
<1>2. sync \in [Conns -> Load] /\ proc \in [Conns -> Proc]
  BY DEF TypeOK, TasksOK
<1>3. Syncs(e) /\ sync'[e] = IdleLoad
  BY <1>1, <1>2, NothingIsTyped DEF Syncs, OnlySync
<1>4. CASE SyncFails(e)
  BY <1>1, <1>3, <1>4 DEF SyncFails, LoadFails
<1>5. CASE SyncEnd(e)
  <2>1. /\ sync[e].pc = "done" /\ state' = "PROCESSING" /\ UNCHANGED fails
        /\ proc' = IF state # "PROCESSING" THEN [proc EXCEPT ![e].pc = "drain"] ELSE proc
    BY <1>5 DEF SyncEnd, bounds
  <2>2. \/ state = "PROCESSING" /\ UNCHANGED proc
        \/ state # "PROCESSING" /\ proc' \in [Conns -> Proc] /\ proc'[e].pc = "drain" /\ OnlyProc(e)
    BY <1>2, <2>1 DEF Proc, OnlyProc
  <2> QED
    BY <1>1, <1>3, <2>1, <2>2
<1> QED
  BY <1>4, <1>5

\* The opening of a connection.
LEMMA ConnectionUpIs ==
  ASSUME TypeOK, ConnectionUp
  PROVE  LET e == conns + 1
         IN  /\ conn = "CONNECTING" /\ conn' = "CONNECTED" /\ EnvironmentActs /\ conns < plan.conns
             /\ conns' = e /\ e \in Conns /\ state' = "SYNCING" /\ firstConnection' = FALSE
             /\ sync' \in [Conns -> Load] /\ OnlySync(e)
             /\ sync'[e].pc = IF firstConnection THEN "subscribe" ELSE "reload"
             /\ sync'[e].from = 0 /\ sync'[e].to = GapLimit
             /\ UNCHANGED <<server, subscribed, wire, walletStopped, wsTxQueue, newTxPromise, history, counted,
                            loaded, used, proc, newTx, stopping, plan, stops, fails>>
<1> DEFINE e == conns + 1
           l == [IdleLoad EXCEPT !.pc = IF firstConnection THEN "subscribe" ELSE "reload", !.to = GapLimit]
<1>1. conns \in Nat /\ plan.conns \in 1..MaxConns /\ MaxConns \in Nat
  BY WalletAssumption DEF TypeOK, FieldsOK
<1>2. conns < plan.conns
  BY DEF ConnectionUp
<1>3. e \in Conns
  BY <1>1, <1>2 DEF Conns
<1>4. /\ l.pc = IF firstConnection THEN "subscribe" ELSE "reload"
      /\ l.from = 0 /\ l.to = GapLimit
  BY DEF IdleLoad
<1>5. l \in Load
  BY NothingIsTyped, WalletAssumption DEF Load, LoadPcs
<1>6. sync' = [sync EXCEPT ![e] = l]
  BY DEF ConnectionUp
<1> HIDE DEF l
<1>7. sync \in [Conns -> Load]
  BY DEF TypeOK, TasksOK
<1>8. sync' \in [Conns -> Load] /\ OnlySync(e) /\ sync'[e] = l
  BY <1>3, <1>5, <1>6, <1>7 DEF OnlySync
<1>9. /\ conn = "CONNECTING" /\ conn' = "CONNECTED" /\ EnvironmentActs
      /\ conns' = e /\ state' = "SYNCING" /\ firstConnection' = FALSE
      /\ UNCHANGED <<server, subscribed, wire, walletStopped, wsTxQueue, newTxPromise, history, counted,
                     loaded, used, proc, newTx, stopping, plan, stops, fails>>
  BY DEF ConnectionUp, storage
<1> QED
  BY <1>2, <1>3, <1>4, <1>8, <1>9

-----------------------------------------------------------------------------
(* Types *)

\* A runner that a step changes, and the others.
LEMMA RunnersAreTyped ==
  ASSUME TypeOK, NEW r \in Runners, Only(r), NewTxOK(newTx'[r])
  PROVE  \A q \in Runners : newTx'[q].pc # "idle" => newTx'[q].tx \in Txs /\ newTx'[q].version.ver > 0
  BY DEF TypeOK, TasksOK, Only, NewTxOK

LEMMA IdleIsTyped == NewTxOK(IdleNewTx) /\ IdleNewTx.pc = "idle" /\ IdleNewTx.load = IdleLoad /\ IdleLoad.pc = "idle"
                     /\ IdleNewTx.prev = "CLOSED" /\ IdleProc.pc = "idle" /\ IdleLoad.from = 0
  BY NothingIsTyped DEF NewTxOK, IdleNewTx, IdleLoad, IdleProc

LEMMA CreditedIsTyped ==
  ASSUME TypeOK, NEW t, NEW version
  PROVE  Credited(counted, t, version) \in [Txs -> 0..MaxCount]
<1>1. MaxCount \in Nat /\ counted \in [Txs -> 0..MaxCount]
  BY WalletAssumption DEF TypeOK, StorageOK
<1>2. CASE t \in Txs
  BY <1>1, <1>2 DEF Credited
<1>3. CASE t \notin Txs
  BY <1>1, <1>3 DEF Credited
<1> QED
  BY <1>2, <1>3

LEMMA ZeroIsTyped == [t \in Txs |-> 0] \in [Txs -> 0..MaxCount]
  BY WalletAssumption

LEMMA SyncIsTyped ==
  ASSUME TypeOK, NEW e \in Conns, SyncReload(e) \/ SyncLoad(e) \/ SyncFails(e) \/ SyncEnd(e)
  PROVE  TypeOK'
<1>1. ASSUME Syncs(e), proc' \in [Conns -> Proc], StorageOK', subscribed' \subseteq Nat, fails' \in Nat,
             state' \in WalletStates
      PROVE  TypeOK'
  <2>1. UNCHANGED <<server, conn, wire, plan, conns, stops, stopping, walletStopped, firstConnection,
                    wsTxQueue, newTxPromise, newTx>> /\ sync' \in [Conns -> Load]
    BY <1>1 DEF Syncs, Queues
  <2>2. TasksOK'
    BY <1>1, <2>1 DEF TypeOK, TasksOK
  <2>3. FieldsOK'
    BY <1>1, <2>1 DEF TypeOK, FieldsOK
  <2> QED
    BY <1>1, <2>1, <2>2, <2>3, SameIsTyped DEF TypeOK
<1>2. subscribed \subseteq Nat /\ fails \in Nat /\ state \in WalletStates /\ proc \in [Conns -> Proc]
      /\ StorageOK
  BY DEF TypeOK, FieldsOK, TasksOK
<1>3. CASE SyncReload(e)
  <2>1. StorageOK'
    BY <1>3, SyncReloadIs, NothingIsTyped, ZeroIsTyped DEF StorageOK
  <2> QED
    BY <1>1, <1>2, <1>3, <2>1, SyncReloadIs
<1>4. CASE SyncLoad(e)
  <2>1. sync[e] \in Load /\ LoadStep(sync[e]) /\ UNCHANGED counted
    BY <1>4, SyncLoadIs DEF Syncs
  <2>2. StorageOK' /\ subscribed' \subseteq Nat
    BY <2>1, LoadStepIsTyped
  <2> QED
    BY <1>1, <1>2, <1>4, <2>2, SyncLoadIs
<1>5. CASE SyncFails(e) \/ SyncEnd(e)
  <2>1. StorageOK'
    BY <1>2, <1>5, SyncOverIs DEF StorageOK
  <2>2. fails' \in Nat
    BY <1>2, <1>5, SyncOverIs
  <2>3. state' \in WalletStates /\ subscribed' \subseteq Nat /\ proc' \in [Conns -> Proc] /\ Syncs(e)
    BY <1>2, <1>5, SyncOverIs DEF WalletStates
  <2> QED
    BY <1>1, <2>1, <2>2, <2>3
<1> QED
  BY <1>3, <1>4, <1>5

\* What is left to show of a step that changes the runners and the processing.
LEMMA RunnerStepIsTyped ==
  ASSUME TypeOK, NEW r \in Runners, Only(r), NewTxOK(newTx'[r]), proc' \in [Conns -> Proc],
         QueuesOK', StorageOK', state' \in WalletStates,
         subscribed' \subseteq Nat, fails' \in Nat,
         UNCHANGED <<server, conn, plan, conns, stops, stopping, sync, walletStopped, firstConnection>>
  PROVE  TypeOK'
<1>1. TasksOK'
  BY RunnersAreTyped DEF TypeOK, TasksOK, Only
<1>2. FieldsOK'
  BY DEF TypeOK, FieldsOK
<1> QED
  BY <1>1, <1>2 DEF TypeOK

LEMMA NewTxIsTyped == ASSUME TypeOK, NEW r \in Runners, NewTxStep(r) \/ ScanFails(r) PROVE TypeOK'
<1>0. /\ subscribed \subseteq Nat /\ state \in WalletStates /\ fails \in Nat /\ StorageOK /\ proc \in [Conns -> Proc]
      /\ history \in Page /\ "READY" \in WalletStates /\ "ERROR" \in WalletStates /\ "PROCESSING" \in WalletStates
      /\ newTx[r].prev \in WalletStates /\ newTx[r].tx \in Txs \cup {0} /\ newTx[r].version \in Version
  BY DEF TypeOK, FieldsOK, StorageOK, TasksOK, WalletStates, NewTx
<1>1. ASSUME NEW n \in Version PROVE [history EXCEPT ![newTx[r].tx] = n] \in Page
  BY <1>0 DEF Page
<1>2. Restored(newTx[r]) \in WalletStates
  BY <1>0 DEF Restored
<1>3. r \notin Conns => r = 0
  BY ConnsAreRunners
<1>4. ASSUME Connection' = Connection, Queues' = Queues
      PROVE  /\ QueuesOK' /\ subscribed' \subseteq Nat
             /\ UNCHANGED <<server, conn, plan, conns, stops, stopping, sync, walletStopped, firstConnection>>
  BY <1>0, <1>4, SameIsTyped DEF Connection, Queues
<1>5. CASE AddTx(r)
  <2>1. StorageOK'
    BY <1>0, <1>1, <1>5, AddTxIs DEF StorageOK
  <2> QED
    BY <1>0, <1>4, <1>5, <2>1, AddTxIs, RunnerStepIsTyped
<1>6. CASE Scan(r)
  <2>1. newTx[r].load \in Load /\ LoadStep(newTx[r].load) /\ UNCHANGED counted
    BY <1>6, ScanIs
  <2>2. StorageOK' /\ subscribed' \subseteq Nat
    BY <2>1, LoadStepIsTyped
  <2>3. QueuesOK' /\ UNCHANGED <<walletStopped, firstConnection>>
    BY <1>6, ScanIs, SameIsTyped DEF Queues
  <2> QED
    BY <1>0, <1>6, <2>2, <2>3, ScanIs, RunnerStepIsTyped
<1>7. CASE Mark(r)
  <2>1. StorageOK'
    BY <1>0, <1>7, MarkIs DEF StorageOK
  <2> QED
    BY <1>0, <1>4, <1>7, <2>1, MarkIs, RunnerStepIsTyped
<1>8. ASSUME NEW pcs, GoesOn(r, pcs), counted' \in [Txs -> 0..MaxCount], state' \in WalletStates, UNCHANGED proc
      PROVE  TypeOK'
  <2>1. StorageOK'
    BY <1>0, <1>8 DEF StorageOK, GoesOn
  <2> QED
    BY <1>0, <1>4, <1>8, <2>1, RunnerStepIsTyped DEF GoesOn
<1>9. CASE Credit(r)
  BY <1>0, <1>8, <1>9, CreditIs, CreditedIsTyped
<1>10. CASE CleanMetadata(r)
  BY <1>0, <1>8, <1>10, CleanMetadataIs, ZeroIsTyped
<1>11. CASE Walk(r)
  BY <1>0, <1>8, <1>11, WalkIs, CreditedIsTyped
<1>12. ASSUME NEW pc, Ends(r, pc), history' \in Page, state' \in WalletStates, fails' \in Nat
       PROVE  TypeOK'
  <2>1. StorageOK'
    BY <1>0, <1>12 DEF StorageOK, Ends
  <2>2. proc' \in [Conns -> Proc] /\ NewTxOK(newTx'[r]) /\ Only(r)
    BY <1>0, <1>3, <1>12, IdleIsTyped DEF Ends
  <2> QED
    BY <1>4, <1>12, <2>1, <2>2, RunnerStepIsTyped DEF Ends
<1>13. CASE WalkThrows(r)
  BY <1>0, <1>2, <1>12, <1>13, WalkThrowsIs
<1>14. CASE Finish(r)
  <2>1. state' \in WalletStates
    BY <1>0, <1>14, FinishIs
  <2>2. CASE Ends(r, "drain") /\ UNCHANGED <<fails, history>>
    BY <1>0, <1>12, <2>1, <2>2
  <2>3. CASE GoesOn(r, {"resave"}) /\ UNCHANGED <<counted, proc>>
    <3>1. counted' \in [Txs -> 0..MaxCount]
      BY <1>0, <2>3 DEF StorageOK
    <3> QED
      BY <1>8, <2>1, <2>3, <3>1
  <2> QED
    BY <1>14, <2>2, <2>3, FinishIs
<1>15. CASE Resave(r)
  BY <1>0, <1>1, <1>2, <1>12, <1>15, ResaveIs
<1>16. CASE ScanFails(r)
  <2>1. fails' \in Nat
    BY <1>0, <1>16, ScanFailsIs
  <2> QED
    BY <1>0, <1>12, <1>16, <2>1, ScanFailsIs
<1> QED
  BY <1>5, <1>6, <1>7, <1>9, <1>10, <1>11, <1>13, <1>14, <1>15, <1>16 DEF NewTxStep

LEMMA ProcIsTyped ==
  ASSUME TypeOK, ChainNext \/ \E e \in Conns : ProcStep(e)
  PROVE  TypeOK'
<1>0. /\ subscribed \subseteq Nat /\ state \in WalletStates /\ fails \in Nat /\ StorageOK /\ proc \in [Conns -> Proc]
      /\ "READY" \in WalletStates /\ "ERROR" \in WalletStates /\ QueuesOK
  BY DEF TypeOK, FieldsOK, StorageOK, TasksOK, WalletStates
<1>1. ASSUME NEW r \in Runners, NEW m \in Told, Enters(r, m), QueuesOK', proc' \in [Conns -> Proc]
      PROVE  TypeOK'
  <2>1. m.tx \in Txs /\ m.version \in Version /\ m.version.ver > 0
    BY DEF Told, Message
  <2>2. newTx'[r].pc # "idle" => newTx'[r].tx \in Txs /\ newTx'[r].version.ver > 0
    BY <1>1, <2>1, IdleIsTyped DEF Enters
  <2>3. NewTxOK(newTx'[r]) /\ Only(r)
    BY <1>1, <2>2 DEF Enters, NewTxOK, Only
  <2>4. StorageOK'
    BY <1>0, <1>1 DEF StorageOK, Enters
  <2>5. UNCHANGED <<server, conn, subscribed, plan, conns, stops, stopping, sync, walletStopped, firstConnection,
                    fails, state>>
    BY <1>1 DEF Enters, Connection
  <2> QED
    BY <1>0, <1>1, <2>3, <2>4, <2>5, RunnerStepIsTyped
<1>2. CASE ChainNext
  <2>1. Enters(0, Head(newTxPromise)) /\ Head(newTxPromise) \in Told /\ newTxPromise' = Tail(newTxPromise)
        /\ newTxPromise # <<>> /\ UNCHANGED <<wsTxQueue, proc>>
    BY <1>2, ChainNextIs
  <2>2. UNCHANGED wire
    BY <2>1 DEF Enters, Connection
  <2>3. QueuesOK'
    BY <1>0, <2>1, <2>2, QueuesAreTyped DEF QueuesOK
  <2> QED
    BY <1>0, <1>1, <2>1, <2>3, ConnsAreRunners
<1>3. ASSUME NEW e \in Conns, ProcDequeue(e) PROVE TypeOK'
  <2>1. Enters(e, Head(wsTxQueue)) /\ Head(wsTxQueue) \in Told /\ wsTxQueue' = Tail(wsTxQueue)
        /\ wsTxQueue # <<>> /\ proc' \in [Conns -> Proc] /\ UNCHANGED newTxPromise
    BY <1>3, DequeueIs
  <2>2. UNCHANGED wire
    BY <2>1 DEF Enters, Connection
  <2>3. QueuesOK'
    BY <1>0, <2>1, <2>2, QueuesAreTyped DEF QueuesOK
  <2> QED
    BY <1>1, <2>1, <2>3, ConnsAreRunners
<1>4. ASSUME NEW e \in Conns, Processes(e), counted' \in [Txs -> 0..MaxCount], state' \in WalletStates PROVE TypeOK'
  <2>1. /\ proc' \in [Conns -> Proc]
        /\ UNCHANGED <<server, conn, subscribed, wire, plan, conns, stops, sync, stopping, walletStopped,
                       firstConnection, wsTxQueue, newTxPromise, fails, history, loaded, used, newTx>>
    BY <1>4 DEF Processes, Connection, Queues
  <2>2. TasksOK'
    BY <2>1 DEF TypeOK, TasksOK
  <2>3. FieldsOK'
    BY <1>4, <2>1 DEF TypeOK, FieldsOK
  <2>4. StorageOK'
    BY <1>0, <1>4, <2>1 DEF StorageOK
  <2> QED
    BY <2>1, <2>2, <2>3, <2>4, SameIsTyped DEF TypeOK
<1>5. ASSUME NEW e \in Conns, ProcClean(e) PROVE TypeOK'
  BY <1>0, <1>4, <1>5, ProcCleanIs, ZeroIsTyped
<1>6. ASSUME NEW e \in Conns, ProcWalk(e) PROVE TypeOK'
  BY <1>0, <1>4, <1>6, ProcWalkIs, CreditedIsTyped
<1>7. ASSUME NEW e \in Conns, ProcEnd(e) PROVE TypeOK'
  <2>1. counted' \in [Txs -> 0..MaxCount]
    BY <1>0, <1>7, ProcEndIs DEF StorageOK
  <2> QED
    BY <1>0, <1>4, <1>7, <2>1, ProcEndIs
<1> QED
  BY <1>2, <1>3, <1>5, <1>6, <1>7 DEF ProcStep

LEMMA NextIsTyped == TypeOK /\ [Next]_vars => TypeOK'
<1> SUFFICES ASSUME TypeOK, [Next]_vars PROVE TypeOK'
  OBVIOUS
<1>1. CASE UNCHANGED vars
  BY <1>1 DEF vars, fullnode, fields, storage, tasks, bounds, TypeOK, FieldsOK, QueuesOK, StorageOK, TasksOK
<1>2. CASE WalletStep
  BY <1>2, MessageIsTyped, ConnectionIsTyped, ProcIsTyped, SyncIsTyped, NewTxIsTyped DEF WalletStep, SyncStep
<1>3. CASE Environment
  BY <1>3, PublishIsTyped, ConnectionIsTyped, SyncIsTyped, NewTxIsTyped DEF Environment
<1> QED
  BY <1>1, <1>2, <1>3 DEF Next

\* Every variable of the wallet keeps its type, for any plans and any set of transactions.
THEOREM TypeCorrect == Spec => []TypeOK
  BY InitIsTyped, NextIsTyped, PTL DEF Spec

-----------------------------------------------------------------------------
(* One task at a time *)

\* The connection and the user move between the tasks, or one connection opened.
Orderly == plan.calm \/ conns <= 1

NoTasks ==
    /\ \A e \in Conns : sync[e].pc = "idle" /\ proc[e].pc = "idle"
    /\ \A r \in Runners : newTx[r].pc = "idle"
    /\ newTxPromise = <<>>

\* Before the first connection.
Fresh ==
    conns = 0 =>
        /\ NoTasks /\ firstConnection /\ state # "READY"
        /\ wire = <<>> /\ wsTxQueue = <<>> /\ subscribed = {}
        /\ loaded = 0 /\ used = 0 /\ history = NoPage

\* The flag of stop(), and what it does to the connection.
Stopped ==
    /\ stopping => walletStopped
    /\ conn # "CLOSED" /\ ~stopping => ~walletStopped
    /\ stops = 0 => ~walletStopped /\ (firstConnection => conns = 0)

\* Only scanAddressesToLoad() has a load.
LoadsRest == \A r \in Runners : newTx[r].pc # "scan" => newTx[r].load = IdleLoad

\* A message waits in the queue while the wallet synchronises or processes, and is chained
\* after that.
Nobody == newTx[0].pc = "idle" /\ newTxPromise = <<>> /\ state # "READY"
Alone ==
    /\ \A e \in Conns : sync[e].pc # "idle" =>
          /\ \A f \in Conns : (f # e => sync[f].pc = "idle") /\ proc[f].pc = "idle"
          /\ Nobody
    /\ \A e \in Conns : proc[e].pc # "idle" =>
          /\ \A f \in Conns : f # e => proc[f].pc = "idle"
          /\ Nobody
    /\ \A e \in Conns : newTx[e].pc # "idle" <=> proc[e].pc = "newTx"
    /\ \A e \in Conns : newTx[e].prev # "READY"

Serial == Fresh /\ Stopped /\ LoadsRest /\ (Orderly => Alone)

LEMMA InitIsSerial == Init => Serial
<1> SUFFICES ASSUME Init PROVE Serial
  OBVIOUS
<1>1. /\ \A e \in Conns : sync[e] = IdleLoad /\ proc[e] = IdleProc
      /\ \A r \in Runners : newTx[r] = IdleNewTx
  BY DEF Init
<1>2. NoTasks /\ LoadsRest
  BY <1>1, IdleIsTyped DEF Init, NoTasks, LoadsRest
<1>3. Fresh
  BY <1>2 DEF Init, Fresh
<1>4. Stopped
  BY DEF Init, Stopped
<1>5. Alone
  BY <1>1, IdleIsTyped, ConnsAreRunners DEF Alone
<1> QED
  BY <1>2, <1>3, <1>4, <1>5 DEF Serial

\* Who runs, and who does not.
LEMMA RunsAlone ==
  ASSUME Alone
  PROVE  /\ newTx[0].pc # "idle" \/ newTxPromise # <<>> \/ state = "READY" =>
              \A e \in Conns : sync[e].pc = "idle" /\ proc[e].pc = "idle" /\ newTx[e].pc = "idle"
         /\ \A e \in Conns : newTx[e].pc # "idle" => proc[e].pc = "newTx"
         /\ \A e \in Conns : proc[e].pc # "idle" =>
              /\ Nobody /\ \A f \in Conns : sync[f].pc = "idle"
              /\ \A f \in Conns : f # e => proc[f].pc = "idle" /\ newTx[f].pc = "idle"
         /\ \A e \in Conns : sync[e].pc # "idle" =>
              /\ Nobody /\ \A f \in Conns : (f # e => sync[f].pc = "idle") /\ proc[f].pc = "idle" /\ newTx[f].pc = "idle"
<1>1. \A e \in Conns : newTx[e].pc # "idle" <=> proc[e].pc = "newTx"
  BY DEF Alone
<1>2. \A e \in Conns : proc[e].pc = "idle" => newTx[e].pc = "idle"
  BY <1>1
<1> QED
  BY <1>1, <1>2 DEF Alone, Nobody

\* A task that runs is one of a connection that opened.
LEMMA RunsLater ==
  ASSUME Fresh, conns' = conns,
         \/ \E e \in Conns : sync[e].pc # "idle" \/ proc[e].pc # "idle"
         \/ \E r \in Runners : newTx[r].pc # "idle"
         \/ newTxPromise # <<>> \/ wire # <<>>
  PROVE  Fresh'
  BY DEF Fresh, NoTasks

LEMMA StoppedStays ==
  ASSUME Stopped, UNCHANGED <<stopping, walletStopped, conn, stops, conns, firstConnection>>
  PROVE  Stopped'
  BY DEF Stopped

LEMMA LoadsRestStays ==
  ASSUME LoadsRest, NEW r \in Runners, Only(r), newTx'[r].pc = "scan" \/ newTx'[r].load = IdleLoad
  PROVE  LoadsRest'
  BY DEF LoadsRest, Only

LEMMA SyncIsSerial ==
  ASSUME TypeOK, Serial, NEW e \in Conns, SyncReload(e) \/ SyncLoad(e) \/ SyncFails(e) \/ SyncEnd(e)
  PROVE  Serial'
<1>1. /\ Syncs(e) /\ sync[e].pc # "idle"
      /\ state' \in {state, "ERROR", "PROCESSING"}
      /\ \/ proc' = proc
         \/ sync'[e] = IdleLoad /\ proc' \in [Conns -> Proc] /\ proc'[e].pc = "drain" /\ OnlyProc(e)
  <2>1. CASE SyncReload(e)
    BY <2>1, SyncReloadIs
  <2>2. CASE SyncLoad(e)
    BY <2>2, SyncLoadIs DEF LoadStep, LoadSubscribe, LoadFetch, LoadSave
  <2>3. CASE SyncFails(e) \/ SyncEnd(e)
    BY <2>3, SyncOverIs
  <2> QED
    BY <2>1, <2>2, <2>3
<1>2. UNCHANGED <<conn, plan, conns, stops, stopping, walletStopped, firstConnection, newTxPromise, newTx>>
  BY <1>1 DEF Syncs, Queues
<1>3. Fresh' /\ Stopped' /\ LoadsRest'
  BY <1>1, <1>2, RunsLater, StoppedStays DEF Serial, LoadsRest
<1>4. ASSUME Orderly' PROVE Alone'
  <2>1. Orderly /\ Alone
    BY <1>2, <1>4 DEF Orderly, Serial
  <2>2. /\ Nobody' /\ \A f \in Conns : f # e => sync[f].pc = "idle" /\ sync'[f].pc = "idle"
        /\ \A f \in Conns : proc[f].pc = "idle" /\ newTx[f].pc = "idle"
    BY <1>1, <1>2, <2>1, RunsAlone DEF Nobody, Syncs, OnlySync
  <2>3. \/ \A f \in Conns : proc'[f].pc = "idle"
        \/ /\ sync'[e].pc = "idle" /\ proc'[e].pc = "drain"
           /\ \A f \in Conns : f # e => proc'[f].pc = "idle"
    BY <1>1, <2>2, IdleIsTyped DEF OnlyProc
  <2>4. \A f \in Conns : newTx'[f].pc = "idle" /\ newTx'[f].prev # "READY"
    BY <1>2, <2>1, <2>2 DEF Alone
  <2>5. \A f \in Conns : proc'[f].pc # "newTx"
    BY <2>3
  <2> QED
    BY <2>2, <2>3, <2>4, <2>5 DEF Alone
<1> QED
  BY <1>3, <1>4 DEF Serial

LEMMA ProcIsSerial ==
  ASSUME TypeOK, Serial, NEW e \in Conns, ProcClean(e) \/ ProcWalk(e) \/ ProcEnd(e)
  PROVE  Serial'
<1>1. /\ Processes(e) /\ proc[e].pc \in {"drain", "walk"}
      /\ \/ proc'[e].pc = "walk" /\ UNCHANGED state
         \/ proc'[e].pc = "idle"
  BY ProcCleanIs, ProcWalkIs, ProcEndIs
<1>2. /\ UNCHANGED <<conn, plan, conns, stops, stopping, sync, walletStopped, firstConnection, newTxPromise, newTx>>
      /\ proc[e].pc # "idle"
  BY <1>1 DEF Processes, Connection, Queues
<1>3. Fresh' /\ Stopped' /\ LoadsRest'
  BY <1>1, <1>2, RunsLater, StoppedStays DEF Serial, LoadsRest
<1>4. ASSUME Orderly' PROVE Alone'
  <2>1. Orderly /\ Alone
    BY <1>2, <1>4 DEF Orderly, Serial
  <2>2. /\ Nobody /\ \A f \in Conns : sync'[f].pc = "idle"
        /\ \A f \in Conns : f # e => proc[f].pc = "idle" /\ newTx[f].pc = "idle"
    BY <1>2, <2>1, RunsAlone
  <2>3. newTx[e].pc = "idle"
    BY <1>1, <2>1 DEF Alone
  <2>4. \A f \in Conns : f # e => proc'[f].pc = "idle"
    BY <1>1, <2>2 DEF Processes, OnlyProc
  <2>5. \A f \in Conns : newTx'[f].pc = "idle" /\ newTx'[f].prev # "READY"
    BY <1>2, <2>1, <2>2, <2>3 DEF Alone
  <2>6. proc'[e].pc # "idle" => Nobody'
    BY <1>1, <1>2, <2>2 DEF Nobody
  <2>7. \A f \in Conns : proc'[f].pc # "newTx"
    BY <1>1, <2>4
  <2> QED
    BY <2>2, <2>4, <2>5, <2>6, <2>7 DEF Alone
<1> QED
  BY <1>3, <1>4 DEF Serial

LEMMA EnterIsSerial ==
  ASSUME TypeOK, Serial, ChainNext \/ \E e \in Conns : ProcDequeue(e)
  PROVE  Serial'
<1>1. CASE ChainNext
  <2>1. /\ newTx[0].pc = "idle" /\ newTxPromise # <<>> /\ Enters(0, Head(newTxPromise))
        /\ newTxPromise' = Tail(newTxPromise) /\ UNCHANGED <<wsTxQueue, proc>>
    BY <1>1, ChainNextIs
  <2>2. /\ UNCHANGED <<conn, plan, conns, stops, stopping, sync, walletStopped, firstConnection>>
        /\ Only(0) /\ newTx'[0].load = IdleLoad
    BY <2>1, IdleIsTyped DEF Enters, Connection
  <2>3. Fresh' /\ Stopped' /\ LoadsRest'
    BY <2>1, <2>2, RunsLater, StoppedStays, LoadsRestStays, ConnsAreRunners DEF Serial
  <2>4. ASSUME Orderly' PROVE Alone'
    <3>1. Orderly /\ Alone
      BY <2>2, <2>4 DEF Orderly, Serial
    <3>2. \A f \in Conns : sync'[f].pc = "idle" /\ proc'[f].pc = "idle" /\ newTx[f].pc = "idle"
      BY <2>1, <2>2, <3>1, RunsAlone
    <3>3. \A f \in Conns : newTx'[f] = newTx[f]
      BY <2>2, ConnsAreRunners DEF Only
    <3> QED
      BY <3>1, <3>2, <3>3 DEF Alone
  <2> QED
    BY <2>3, <2>4 DEF Serial
<1>2. ASSUME NEW e \in Conns, ProcDequeue(e) PROVE Serial'
  <2>1. /\ proc[e].pc = "drain" /\ Enters(e, Head(wsTxQueue)) /\ OnlyProc(e)
        /\ proc'[e].pc = IF walletStopped THEN "drain" ELSE "newTx"
        /\ UNCHANGED newTxPromise
    BY <1>2, DequeueIs
  <2>2. /\ UNCHANGED <<conn, plan, conns, stops, stopping, sync, walletStopped, firstConnection, state>>
        /\ Only(e) /\ newTx'[e].load = IdleLoad /\ newTx'[e].prev = "CLOSED"
        /\ newTx'[e].pc = IF walletStopped THEN "idle" ELSE "add"
    BY <2>1, IdleIsTyped DEF Enters, Connection
  <2>3. e \in Runners /\ e # 0
    BY ConnsAreRunners
  <2>4. Fresh' /\ Stopped' /\ LoadsRest'
    BY <2>1, <2>2, <2>3, RunsLater, StoppedStays, LoadsRestStays DEF Serial
  <2>5. ASSUME Orderly' PROVE Alone'
    <3>1. Orderly /\ Alone
      BY <2>2, <2>5 DEF Orderly, Serial
    <3>2. /\ Nobody /\ \A f \in Conns : sync'[f].pc = "idle"
          /\ \A f \in Conns : f # e => proc[f].pc = "idle" /\ newTx[f].pc = "idle"
      BY <2>1, <2>2, <3>1, RunsAlone
    <3>3. newTx'[0] = newTx[0] /\ \A f \in Conns : f # e => newTx'[f] = newTx[f] /\ proc'[f] = proc[f]
      BY <2>1, <2>2, <2>3, ConnsAreRunners DEF Only, OnlyProc
    <3>4. Nobody'
      BY <2>1, <2>2, <3>2, <3>3 DEF Nobody
    <3>5. \A f \in Conns : newTx'[f].prev # "READY"
      BY <2>2, <3>1, <3>3 DEF Alone
    <3> QED
      BY <2>1, <2>2, <3>2, <3>3, <3>4, <3>5 DEF Alone
  <2> QED
    BY <2>4, <2>5 DEF Serial
<1> QED
  BY <1>1, <1>2

\* A step of a runner says READY only if it was READY, now or when the runner marked the
\* wallet as PROCESSING.
SaysReady(r) == newTx[r].prev = "READY" \/ state = "READY"
RunnerGoes(r) ==
    /\ newTx[r].pc # "idle" /\ Only(r) /\ (newTx'[r].pc = "scan" \/ newTx'[r].load = IdleLoad)
    /\ ~SaysReady(r) => state' # "READY" /\ newTx'[r].prev # "READY"
    /\ \/ newTx'[r].pc # "idle" /\ UNCHANGED proc
       \/ /\ newTx'[r] = IdleNewTx /\ (r = 0 => UNCHANGED proc)
          /\ r \in Conns => proc' \in [Conns -> Proc] /\ proc'[r].pc \in {"idle", "drain"} /\ OnlyProc(r)
    /\ UNCHANGED <<server, conn, wire, plan, conns, stops, sync, stopping, walletStopped, firstConnection,
                   wsTxQueue, newTxPromise>>

LEMMA RunnerGoesOn ==
  ASSUME TypeOK, LoadsRest, NEW r \in Runners, NewTxStep(r) \/ ScanFails(r)
  PROVE  RunnerGoes(r)
<1>1. ASSUME Connection' = Connection, Queues' = Queues
      PROVE  UNCHANGED <<server, conn, wire, plan, conns, stops, sync, stopping, walletStopped, firstConnection,
                         wsTxQueue, newTxPromise>>
  BY <1>1 DEF Connection, Queues
<1>2. \A n : Restored(n) \in {n.prev, state}
  BY DEF Restored
<1>3. newTx[r].pc # "scan" => newTx[r].load = IdleLoad
  BY DEF LoadsRest
<1>4. CASE AddTx(r)
  BY <1>1, <1>4, AddTxIs DEF RunnerGoes, SaysReady
<1>5. CASE Scan(r)
  <2>1. UNCHANGED <<walletStopped, firstConnection, wsTxQueue, newTxPromise>>
    BY <1>5, ScanIs DEF Queues
  <2> QED
    BY <1>5, <2>1, ScanIs DEF RunnerGoes, SaysReady
<1>6. CASE Mark(r)
  BY <1>1, <1>6, MarkIs DEF RunnerGoes, SaysReady
<1>7. ASSUME NEW pcs, GoesOn(r, pcs), pcs \subseteq {"finish", "walk", "resave"}, newTx[r].pc \notin {"idle", "scan"},
             UNCHANGED proc, state' \in {state, newTx[r].prev}
      PROVE  RunnerGoes(r)
  BY <1>1, <1>3, <1>7 DEF GoesOn, RunnerGoes, SaysReady
<1>8. CASE Credit(r)
  BY <1>7, <1>8, CreditIs
<1>9. CASE CleanMetadata(r)
  BY <1>7, <1>9, CleanMetadataIs
<1>10. CASE Walk(r)
  BY <1>7, <1>10, WalkIs
<1>11. ASSUME NEW pc \in {"idle", "drain"}, Ends(r, pc), newTx[r].pc # "idle",
              state' \in {state, newTx[r].prev, "ERROR"}
       PROVE  RunnerGoes(r)
  BY <1>1, <1>11, IdleIsTyped DEF Ends, RunnerGoes, SaysReady
<1>12. CASE WalkThrows(r)
  BY <1>2, <1>11, <1>12, WalkThrowsIs
<1>13. CASE Finish(r)
  <2>1. newTx[r].pc = "finish" /\ state' \in {state, newTx[r].prev}
    BY <1>13, FinishIs
  <2>2. CASE Ends(r, "drain")
    BY <1>11, <2>1, <2>2
  <2>3. CASE GoesOn(r, {"resave"}) /\ UNCHANGED proc
    BY <1>7, <2>1, <2>3
  <2> QED
    BY <1>13, <2>2, <2>3, FinishIs
<1>14. CASE Resave(r)
  BY <1>2, <1>11, <1>14, ResaveIs
<1>15. CASE ScanFails(r)
  BY <1>11, <1>15, ScanFailsIs
<1> QED
  BY <1>4, <1>5, <1>6, <1>8, <1>9, <1>10, <1>12, <1>13, <1>14, <1>15 DEF NewTxStep

LEMMA RunnerFails ==
  ASSUME TypeOK, NEW r \in Runners, NewTxStep(r) \/ ScanFails(r)
  PROVE  fails' \in {fails, fails + 1} /\ (NewTxStep(r) => fails' = fails)
<1>1. CASE Finish(r)
  BY <1>1, FinishIs DEF GoesOn, Ends
<1>2. CASE AddTx(r) \/ Scan(r) \/ Mark(r) \/ WalkThrows(r) \/ Resave(r)
  BY <1>2, AddTxIs, ScanIs, MarkIs, WalkThrowsIs, ResaveIs
<1>3. CASE Credit(r) \/ CleanMetadata(r) \/ Walk(r)
  BY <1>3, CreditIs, CleanMetadataIs, WalkIs DEF GoesOn
<1>4. NewTxStep(r) => fails' = fails
  BY <1>1, <1>2, <1>3 DEF NewTxStep
<1> QED
  BY <1>4, ScanFailsIs

LEMMA NewTxIsSerial ==
  ASSUME TypeOK, Serial, NEW r \in Runners, NewTxStep(r) \/ ScanFails(r)
  PROVE  Serial'
<1>1. RunnerGoes(r)
  BY RunnerGoesOn DEF Serial
<1>2. Fresh' /\ Stopped' /\ LoadsRest'
  BY <1>1, RunsLater, StoppedStays, LoadsRestStays DEF Serial, RunnerGoes
<1>3. ASSUME Orderly' PROVE Alone'
  <2>1. Orderly /\ Alone
    BY <1>1, <1>3 DEF Orderly, Serial, RunnerGoes
  <2>2. CASE r = 0
    <3>1. \A f \in Conns : sync'[f].pc = "idle" /\ proc'[f].pc = "idle" /\ newTx[f].pc = "idle"
      BY <1>1, <2>1, <2>2, RunsAlone, ConnsAreRunners DEF RunnerGoes
    <3>2. \A f \in Conns : newTx'[f] = newTx[f]
      BY <1>1, <2>2, ConnsAreRunners DEF RunnerGoes, Only
    <3> QED
      BY <2>1, <3>1, <3>2 DEF Alone
  <2>3. CASE r # 0
    <3>0. r \in Conns /\ newTx[r].pc # "idle"
      BY <1>1, <2>3, ConnsAreRunners DEF RunnerGoes
    <3>1. /\ Nobody /\ proc[r].pc = "newTx" /\ \A f \in Conns : sync'[f].pc = "idle"
          /\ \A f \in Conns : f # r => proc[f].pc = "idle" /\ newTx[f].pc = "idle"
      BY <1>1, <2>1, <3>0, RunsAlone DEF RunnerGoes
    <3>2. newTx'[0] = newTx[0] /\ \A f \in Conns : f # r => newTx'[f] = newTx[f]
      BY <1>1, <2>3, ConnsAreRunners DEF RunnerGoes, Only
    <3>3. ~SaysReady(r)
      BY <2>1, <3>0, <3>1 DEF Nobody, Alone, SaysReady
    <3>4. Nobody'
      BY <1>1, <3>1, <3>2, <3>3 DEF Nobody, RunnerGoes
    <3>5. /\ \A f \in Conns : f # r => proc'[f].pc = "idle"
          /\ newTx'[r].pc # "idle" <=> proc'[r].pc = "newTx"
      BY <1>1, <3>0, <3>1, <2>3, IdleIsTyped DEF RunnerGoes, OnlyProc
    <3>6. \A f \in Conns : newTx'[f].prev # "READY"
      BY <1>1, <2>1, <3>2, <3>3, IdleIsTyped DEF RunnerGoes, Alone
    <3> QED
      BY <3>1, <3>2, <3>4, <3>5, <3>6 DEF Alone
  <2> QED
    BY <2>2, <2>3
<1> QED
  BY <1>2, <1>3 DEF Serial

\* The steps of the environment move no task; a connection opens between the tasks.
Moves == UNCHANGED <<sync, proc, newTx, newTxPromise, plan>>

LEMMA MovesAreSerial ==
  ASSUME Serial, Moves, conns' = conns, state' # "READY" \/ state' = state
  PROVE  LoadsRest' /\ (Orderly' => Alone')
<1>1. LoadsRest'
  BY DEF Moves, Serial, LoadsRest
<1>2. ASSUME Orderly' PROVE Alone'
  <2>1. Alone
    BY <1>2 DEF Serial, Orderly, Moves
  <2> QED
    BY <2>1 DEF Alone, Moves, Nobody
<1> QED
  BY <1>1, <1>2

LEMMA ConnectionIsSerial ==
  ASSUME TypeOK, Serial, Start \/ ConnectionDown \/ Stop \/ StopEnd
  PROVE  Serial'
<1>1. CASE Start
  <2>1. Moves /\ Fresh' /\ Stopped' /\ conns' = conns /\ state' # "READY"
    BY <1>1 DEF Start, Moves, Serial, Fresh, Stopped, NoTasks, storage, tasks, bounds
  <2> QED
    BY <2>1, MovesAreSerial DEF Serial
<1>2. CASE ConnectionDown
  <2>1. Moves /\ conns' = conns /\ state' # "READY"
        /\ UNCHANGED <<stopping, walletStopped, firstConnection, stops, wsTxQueue, loaded, used, history>>
        /\ conn = "CONNECTED" /\ conn' = "CONNECTING" /\ subscribed' = {} /\ wire' = <<>>
    BY <1>2 DEF ConnectionDown, Moves, storage, tasks, bounds
  <2>2. Fresh' /\ Stopped'
    BY <2>1 DEF Moves, Serial, Fresh, Stopped, NoTasks
  <2> QED
    BY <2>1, <2>2, MovesAreSerial DEF Serial
<1>3. CASE Stop
  <2>1. Moves /\ conns' = conns /\ state' # "READY" /\ walletStopped' /\ stopping' /\ stops' = stops + 1
        /\ UNCHANGED <<conn, firstConnection, wsTxQueue, loaded, used, history, subscribed, wire>>
    BY <1>3 DEF Stop, Moves, storage, fullnode
  <2>2. stops \in Nat
    BY DEF TypeOK, FieldsOK
  <2>3. Fresh' /\ Stopped'
    BY <2>1, <2>2 DEF Moves, Serial, Fresh, Stopped, NoTasks
  <2> QED
    BY <2>1, <2>3, MovesAreSerial DEF Serial
<1>4. CASE StopEnd
  <2>1. Moves /\ conns' = conns /\ state' = state /\ ~stopping' /\ stopping
        /\ firstConnection' /\ conn' = "CLOSED" /\ subscribed' = {} /\ wire' = <<>> /\ history' = NoPage
        /\ UNCHANGED <<walletStopped, stops, wsTxQueue, loaded, used>>
    BY <1>4 DEF StopEnd, Moves, bounds
  <2>2. Fresh' /\ Stopped'
    BY <2>1 DEF Moves, Serial, Fresh, Stopped, NoTasks
  <2> QED
    BY <2>1, <2>2, MovesAreSerial DEF Serial
<1> QED
  BY <1>1, <1>2, <1>3, <1>4

\* A connection opens between the tasks, or before there is any.
LEMMA OpensBetween ==
  ASSUME TypeOK, Serial, ConnectionUp, Orderly'
  PROVE  NoTasks /\ Orderly /\ Alone
<1>1. EnvironmentActs /\ conns' = conns + 1 /\ plan' = plan
  BY ConnectionUpIs
<1>2. conns \in Nat
  BY DEF TypeOK, FieldsOK
<1>3. Orderly
  BY <1>1, <1>2 DEF Orderly
<1>4. CASE plan.calm
  BY <1>1, <1>3, <1>4 DEF EnvironmentActs, TasksIdle, NoTasks, Serial
<1>5. CASE ~plan.calm
  <2>1. conns = 0
    BY <1>1, <1>2, <1>5 DEF Orderly
  <2> QED
    BY <1>3, <2>1 DEF Serial, Fresh
<1> QED
  BY <1>4, <1>5

LEMMA ConnectionUpIsSerial == ASSUME TypeOK, Serial, ConnectionUp PROVE Serial'
<1> DEFINE e == conns + 1
<1>1. /\ conn = "CONNECTING" /\ conn' = "CONNECTED"
      /\ conns' = e /\ e \in Conns /\ state' = "SYNCING" /\ firstConnection' = FALSE /\ OnlySync(e)
      /\ UNCHANGED <<proc, newTx, newTxPromise, stopping, walletStopped, plan, stops>>
  BY ConnectionUpIs
<1>2. conns \in Nat /\ e # 0
  BY DEF TypeOK, FieldsOK
<1> HIDE DEF e
<1>3. Fresh' /\ Stopped' /\ LoadsRest'
  BY <1>1, <1>2 DEF Serial, Fresh, Stopped, LoadsRest
<1>4. ASSUME Orderly' PROVE Alone'
  <2>1. NoTasks /\ Alone
    BY <1>4, OpensBetween
  <2>2. \A f \in Conns : /\ f # e => sync'[f].pc = "idle"
                         /\ proc'[f].pc = "idle" /\ newTx'[f].pc = "idle" /\ newTx'[f].prev # "READY"
    BY <1>1, <2>1, ConnsAreRunners DEF NoTasks, OnlySync, Alone
  <2>3. Nobody'
    BY <1>1, <2>1, ConnsAreRunners DEF NoTasks, Nobody
  <2> QED
    BY <2>2, <2>3 DEF Alone
<1> QED
  BY <1>3, <1>4 DEF Serial

LEMMA PublishIsSerial ==
  ASSUME TypeOK, Serial, NEW t \in Txs, NEW voided \in BOOLEAN, Publish(t, voided)
  PROVE  Serial'
<1>1. /\ Moves /\ UNCHANGED <<conn, subscribed, state, conns, stops, stopping, walletStopped, firstConnection,
                              wsTxQueue, history, loaded, used>>
      /\ subscribed = {} => wire' = wire
  BY DEF Publish, Moves, fields, storage, tasks, bounds
<1>2. Fresh' /\ Stopped'
  BY <1>1 DEF Moves, Serial, Fresh, Stopped, NoTasks
<1> QED
  BY <1>1, <1>2, MovesAreSerial DEF Serial

LEMMA MessageIsSerial == ASSUME TypeOK, Serial, HandleWebsocketMsg PROVE Serial'
<1>1. /\ wire # <<>> /\ UNCHANGED <<sync, proc, newTx, plan, state, conn, conns, stops, stopping, walletStopped,
                                    firstConnection>>
      /\ state # "READY" => newTxPromise' = newTxPromise
  BY DEF HandleWebsocketMsg, storage, tasks, bounds
<1>2. Fresh' /\ Stopped' /\ LoadsRest'
  BY <1>1, RunsLater, StoppedStays DEF Serial, LoadsRest
<1>3. ASSUME Orderly' PROVE Alone'
  <2>1. Alone
    BY <1>1, <1>3 DEF Serial, Orderly
  <2> QED
    BY <1>1, <2>1 DEF Alone, Nobody
<1> QED
  BY <1>2, <1>3 DEF Serial

LEMMA NextIsSerial == TypeOK /\ Serial /\ [Next]_vars => Serial'
<1> SUFFICES ASSUME TypeOK, Serial, [Next]_vars PROVE Serial'
  OBVIOUS
<1>1. CASE UNCHANGED vars
  <2>1. Moves /\ UNCHANGED <<conn, subscribed, state, conns, stops, stopping, walletStopped, firstConnection,
                              wsTxQueue, history, loaded, used, wire>>
    BY <1>1 DEF vars, fullnode, fields, storage, tasks, bounds, Moves
  <2>2. Fresh' /\ Stopped'
    BY <2>1 DEF Moves, Serial, Fresh, Stopped, NoTasks
  <2> QED
    BY <2>1, <2>2, MovesAreSerial DEF Serial
<1>2. CASE WalletStep
  BY <1>2, MessageIsSerial, ConnectionIsSerial, EnterIsSerial, ProcIsSerial, SyncIsSerial, NewTxIsSerial
     DEF WalletStep, SyncStep, ProcStep
<1>3. CASE Environment
  BY <1>3, PublishIsSerial, ConnectionIsSerial, ConnectionUpIsSerial, SyncIsSerial, NewTxIsSerial DEF Environment
<1> QED
  BY <1>1, <1>2, <1>3 DEF Next

-----------------------------------------------------------------------------
(* The gap is loaded and watched *)

\* A connection of a wallet that was not restarted, and no request failed.
Undisturbed == /\ fails = 0 /\ Orderly /\ conn = "CONNECTED" /\ ~walletStopped
               /\ stops = 0 \/ conns = 1

\* A load goes on from the last address, n.
LoadOK(l, n) ==
    /\ l.pc = "reload" => l.from = 0 /\ l.to = GapLimit
    /\ l.pc = "subscribe" => l.from = n /\ l.to > n
    /\ l.pc \in {"fetch", "save"} => l.to = n
Kept == used + GapLimit <= loaded
Watched == 0 .. loaded - 1 \subseteq subscribed
Rests(l) == l.pc \in {"idle", "done"}

GapInv ==
    Undisturbed =>
      /\ Watched \/ \E e \in Conns : sync[e].pc = "reload"
      /\ \A e \in Conns : LoadOK(sync[e], loaded) /\ (sync[e].pc = "done" => Kept)
      /\ \A r \in Runners : LoadOK(newTx[r].load, loaded)
      /\ \/ \E e \in Conns : sync[e].pc # "idle"
         \/ \E r \in Runners : ~Rests(newTx[r].load)
         \/ Kept

LEMMA IdleIsOK == \A n : LoadOK(IdleLoad, n) /\ Rests(IdleLoad)
  BY DEF LoadOK, IdleLoad, Rests

\* checkGapLimit() loads what is missing, or nothing is.
LEMMA MoreIsOK ==
  ASSUME NEW l \in Load, NEW u \in Nat, loaded \in Nat
  PROVE  /\ LoadOK(MoreToLoad(l, u), loaded) /\ MoreToLoad(l, u).pc \in {"subscribe", "done"}
         /\ MoreToLoad(l, u).pc = "done" => u + GapLimit <= loaded
<1>1. GapLimit \in Nat
  BY WalletAssumption
<1>2. CASE u + GapLimit > loaded
  BY <1>2, LoadBecomes DEF LoadOK
<1>3. CASE ~(u + GapLimit > loaded)
  <2>1. MoreToLoad(l, u) = [IdleLoad EXCEPT !.pc = "done"]
    BY <1>3, Zenon DEF MoreToLoad
  <2>2. MoreToLoad(l, u).pc = "done"
    BY <2>1 DEF IdleLoad
  <2>3. u + GapLimit <= loaded
    BY <1>1, <1>3
  <2> QED
    BY <2>2, <2>3 DEF LoadOK
<1> QED
  BY <1>2, <1>3

LEMMA LoadStepIsOK ==
  ASSUME TypeOK, NEW l \in Load, LoadStep(l), LoadOK(l, loaded), Watched, conn = "CONNECTED"
  PROVE  /\ Watched' /\ LoadOK(Loads(l), loaded') /\ Loads(l).pc \in {"fetch", "save", "subscribe", "done"}
         /\ Loads(l).pc = "done" => Kept'
<1>0. /\ loaded \in Nat /\ used \in Nat /\ l.from \in Nat /\ l.to \in Nat
  BY DEF TypeOK, StorageOK, Load
<1>1. CASE LoadSubscribe(l)
  <2>1. l.pc = "subscribe" /\ l.from = loaded /\ l.to > loaded
    BY <1>1 DEF LoadSubscribe, LoadOK
  <2>2. loaded' = l.to /\ subscribed' = subscribed \cup (l.from .. l.to - 1)
    BY <1>0, <1>1, <2>1 DEF LoadSubscribe, Larger
  <2>3. Loads(l).pc = "fetch" /\ Loads(l).to = l.to
    BY <2>1, LoadBecomes
  <2>4. Watched'
    BY <1>0, <2>1, <2>2 DEF Watched
  <2> QED
    BY <2>2, <2>3, <2>4 DEF LoadOK
<1>2. CASE LoadFetch(l)
  <2>1. l.pc = "fetch" /\ Loads(l).pc = "save" /\ Loads(l).to = l.to /\ UNCHANGED <<loaded, subscribed>>
    BY <1>2, LoadBecomes DEF LoadFetch
  <2> QED
    BY <2>1 DEF LoadOK, Watched
<1>3. CASE LoadSave(l)
  <2>1. l.pc = "save" /\ Loads(l) = MoreToLoad(l, used') /\ UNCHANGED <<loaded, subscribed>>
    BY <1>3, LoadBecomes DEF LoadSave
  <2>2. used' \in Nat
    BY <1>0, <1>3, UsedIsANumber DEF LoadSave
  <2>3. /\ LoadOK(Loads(l), loaded) /\ Loads(l).pc \in {"subscribe", "done"}
        /\ Loads(l).pc = "done" => used' + GapLimit <= loaded
    BY <1>0, <2>1, <2>2, MoreIsOK
  <2> QED
    BY <2>1, <2>3 DEF Watched, Kept
<1> QED
  BY <1>1, <1>2, <1>3 DEF LoadStep

\* A load that takes no step, or ends.
LoadsStay == \A r \in Runners : \/ newTx'[r].load = newTx[r].load
                                \/ newTx'[r].load = IdleLoad /\ Rests(newTx[r].load)
LEMMA GapStays ==
  ASSUME GapInv, Undisturbed' => Undisturbed /\ LoadsStay,
         UNCHANGED <<loaded, used, subscribed, sync>>
  PROVE  GapInv'
<1> SUFFICES ASSUME Undisturbed' PROVE GapInv'
  BY DEF GapInv
<1>1. Undisturbed /\ LoadsStay
  OBVIOUS
<1>2. Kept' = Kept /\ Watched' = Watched
  BY DEF Kept, Watched
<1>3. \A r \in Runners : LoadOK(newTx'[r].load, loaded)
  BY <1>1, IdleIsOK DEF GapInv, LoadsStay
<1>4. (\E r \in Runners : ~Rests(newTx[r].load)) => \E r \in Runners : ~Rests(newTx'[r].load)
  BY <1>1 DEF LoadsStay
<1> QED
  BY <1>1, <1>2, <1>3, <1>4 DEF GapInv

\* The fields that say whether a wallet is undisturbed.
LEMMA UndisturbedBefore ==
  ASSUME TypeOK, UNCHANGED <<plan, conns, conn, walletStopped, stops>>, fails' \in {fails, fails + 1}, Undisturbed'
  PROVE  Undisturbed /\ fails' = fails
<1>1. fails \in Nat
  BY DEF TypeOK, FieldsOK
<1> QED
  BY <1>1 DEF Undisturbed, Orderly

LEMMA SyncKeepsTheGap ==
  ASSUME TypeOK, Serial, GapInv, NEW e \in Conns, SyncReload(e) \/ SyncLoad(e) \/ SyncFails(e) \/ SyncEnd(e)
  PROVE  GapInv'
<1> SUFFICES ASSUME Undisturbed' PROVE GapInv'
  BY DEF GapInv
<1>1. Syncs(e) /\ sync[e].pc # "idle" /\ fails' \in {fails, fails + 1}
  BY SyncReloadIs, SyncLoadIs, SyncOverIs DEF LoadStep, LoadSubscribe, LoadFetch, LoadSave
<1>2. Undisturbed /\ fails' = fails
  BY <1>1, UndisturbedBefore DEF Syncs, Queues
<1>3. Alone /\ LoadsRest /\ conn = "CONNECTED"
  BY <1>2 DEF Serial, Undisturbed
<1>4. /\ \A f \in Conns : f # e => sync[f].pc = "idle" /\ sync'[f] = sync[f]
      /\ \A r \in Runners : newTx'[r].load = IdleLoad
  <2>1. \A r \in Runners : newTx[r].pc = "idle"
    BY <1>1, <1>3, RunsAlone, ConnsAreRunners DEF Nobody
  <2> QED
    BY <1>1, <1>3, <2>1, RunsAlone DEF LoadsRest, Syncs, OnlySync
<1>5. /\ \A f \in Conns : f # e => LoadOK(sync'[f], loaded') /\ sync'[f].pc # "done"
      /\ \A r \in Runners : LoadOK(newTx'[r].load, loaded')
  BY <1>4, IdleIsOK DEF LoadOK
<1>6. CASE SyncReload(e)
  <2>1. /\ sync[e].pc = "reload" /\ sync'[e].pc = "subscribe" /\ loaded' = 0
        /\ sync'[e].from = sync[e].from /\ sync'[e].to = sync[e].to
    BY <1>6, SyncReloadIs
  <2>2. LoadOK(sync[e], loaded)
    BY <1>2 DEF GapInv
  <2>3. LoadOK(sync'[e], loaded')
    BY <2>1, <2>2, WalletAssumption DEF LoadOK
  <2>4. Watched'
    BY <2>1 DEF Watched
  <2> QED
    BY <1>5, <2>1, <2>3, <2>4 DEF GapInv
<1>7. CASE SyncLoad(e)
  <2>1. LoadStep(sync[e]) /\ sync'[e] = Loads(sync[e]) /\ sync[e] \in Load
    BY <1>7, SyncLoadIs DEF Syncs
  <2>2. sync[e].pc # "reload"
    BY <2>1 DEF LoadStep, LoadSubscribe, LoadFetch, LoadSave
  <2>3. Watched /\ LoadOK(sync[e], loaded)
    BY <1>2, <1>4, <2>2 DEF GapInv
  <2>4. /\ Watched' /\ LoadOK(sync'[e], loaded') /\ sync'[e].pc # "idle"
        /\ sync'[e].pc = "done" => Kept'
    BY <1>3, <2>1, <2>3, LoadStepIsOK
  <2> QED
    BY <1>5, <2>4 DEF GapInv
<1>8. CASE SyncFails(e) \/ SyncEnd(e)
  <2>1. sync[e].pc = "done" /\ sync'[e] = IdleLoad /\ UNCHANGED <<subscribed, loaded, used>>
    <3>1. fails \in Nat
      BY DEF TypeOK, FieldsOK
    <3> QED
      BY <1>2, <1>8, <3>1, SyncOverIs
  <2>2. Kept /\ Watched
    BY <1>2, <1>4, <2>1 DEF GapInv
  <2>3. Kept' /\ Watched'
    BY <2>1, <2>2 DEF Kept, Watched
  <2>4. LoadOK(sync'[e], loaded') /\ sync'[e].pc # "done"
    BY <2>1, IdleIsOK, IdleIsTyped
  <2> QED
    BY <1>5, <2>3, <2>4 DEF GapInv
<1> QED
  BY <1>6, <1>7, <1>8

LEMMA EnterKeepsTheGap ==
  ASSUME TypeOK, Serial, GapInv, ChainNext \/ \E e \in Conns : ProcStep(e)
  PROVE  GapInv'
<1>1. ASSUME NEW r \in Runners, NEW m, Enters(r, m), Orderly => newTx[r].pc = "idle" PROVE GapInv'
  <2>1. UNCHANGED <<plan, conns, conn, walletStopped, stops, fails, loaded, used, subscribed, sync>> /\ Only(r)
        /\ newTx'[r].load = IdleLoad
    BY <1>1, IdleIsTyped DEF Enters, Connection
  <2>2. ASSUME Undisturbed' PROVE Undisturbed /\ LoadsStay
    <3>1. Undisturbed
      BY <2>1, <2>2, UndisturbedBefore
    <3>2. newTx[r].load = IdleLoad
      BY <1>1, <3>1 DEF Undisturbed, Serial, LoadsRest
    <3> QED
      BY <2>1, <3>1, <3>2 DEF LoadsStay, Only
  <2> QED
    BY <2>1, <2>2, GapStays
<1>2. CASE ChainNext
  BY <1>1, <1>2, ChainNextIs, ConnsAreRunners
<1>3. ASSUME NEW e \in Conns, ProcDequeue(e) PROVE GapInv'
  <2>1. Enters(e, Head(wsTxQueue)) /\ proc[e].pc = "drain" /\ e \in Runners
    BY <1>3, DequeueIs, ConnsAreRunners
  <2>2. Orderly => newTx[e].pc = "idle"
    BY <2>1 DEF Serial, Alone
  <2> QED
    BY <1>1, <2>1, <2>2
<1>4. ASSUME NEW e \in Conns, Processes(e) PROVE GapInv'
  <2>1. UNCHANGED <<plan, conns, conn, walletStopped, stops, fails, loaded, used, subscribed, sync, newTx>>
    BY <1>4 DEF Processes, Connection, Queues
  <2>2. LoadsStay
    BY <2>1 DEF LoadsStay
  <2> QED
    BY <2>1, <2>2, GapStays, UndisturbedBefore
<1> QED
  BY <1>2, <1>3, <1>4, ProcCleanIs, ProcWalkIs, ProcEndIs DEF ProcStep

LEMMA NewTxKeepsTheGap ==
  ASSUME TypeOK, Serial, GapInv, NEW r \in Runners, NewTxStep(r) \/ ScanFails(r)
  PROVE  GapInv'
<1> SUFFICES ASSUME Undisturbed' PROVE GapInv'
  BY DEF GapInv
<1>1. RunnerGoes(r)
  BY RunnerGoesOn DEF Serial
<1>2. ASSUME ~Undisturbed PROVE FALSE
  BY <1>1, <1>2, UndisturbedBefore, RunnerFails DEF RunnerGoes
<1>3. Undisturbed
  BY <1>2
<1>4. Alone /\ LoadsRest /\ conn = "CONNECTED" /\ fails = 0 /\ fails' = 0
  BY <1>3 DEF Serial, Undisturbed
<1>5. \A e \in Conns : sync[e].pc = "idle" /\ sync'[e].pc = "idle"
  <2>1. \A e \in Conns : sync[e].pc = "idle"
    BY <1>1, <1>4, RunsAlone, ConnsAreRunners DEF RunnerGoes
  <2> QED
    BY <1>1, <2>1 DEF RunnerGoes
<1>6. /\ Watched
      /\ \A q \in Runners : q # r => newTx'[q] = newTx[q] /\ newTx'[q].load = IdleLoad
  <2>1. \A q \in Runners : q # r => newTx[q].pc = "idle"
    BY <1>1, <1>4, RunsAlone, ConnsAreRunners DEF RunnerGoes, Nobody
  <2> QED
    BY <1>1, <1>3, <1>4, <1>5, <2>1 DEF GapInv, LoadsRest, RunnerGoes, Only
<1>7. ASSUME Watched', LoadOK(newTx'[r].load, loaded'), newTx'[r].load.pc = "done" => Kept', newTx'[r].load.pc # "idle"
      PROVE  GapInv'
  BY <1>5, <1>6, <1>7, IdleIsOK DEF GapInv, Rests, LoadOK
<1>8. CASE AddTx(r)
  <2>1. /\ newTx'[r].load = MoreToLoad(IdleLoad, used') /\ used' \in Nat /\ loaded' = loaded /\ UNCHANGED Connection
    BY <1>8, AddTxIs
  <2>2. Watched' /\ loaded \in Nat
    BY <1>6, <2>1 DEF Watched, Connection, TypeOK, StorageOK
  <2>3. /\ LoadOK(newTx'[r].load, loaded') /\ newTx'[r].load.pc # "idle"
        /\ newTx'[r].load.pc = "done" => Kept'
    BY <2>1, <2>2, MoreIsOK, NothingIsTyped DEF Kept
  <2> QED
    BY <1>7, <2>2, <2>3
<1>9. CASE Scan(r)
  <2>1. /\ newTx'[r].load = Loads(newTx[r].load) /\ newTx[r].load \in Load /\ LoadStep(newTx[r].load)
    BY <1>9, ScanIs
  <2>2. LoadOK(newTx[r].load, loaded)
    BY <1>3 DEF GapInv
  <2>3. /\ Watched' /\ LoadOK(newTx'[r].load, loaded') /\ newTx'[r].load.pc # "idle"
        /\ newTx'[r].load.pc = "done" => Kept'
    BY <1>4, <1>6, <2>1, <2>2, LoadStepIsOK
  <2> QED
    BY <1>7, <2>3
<1>10. ASSUME UNCHANGED <<loaded, used, subscribed, sync>>, newTx'[r].load = IdleLoad, Rests(newTx[r].load)
       PROVE  GapInv'
  <2>1. LoadsStay
    BY <1>1, <1>10 DEF LoadsStay, RunnerGoes, Only
  <2> QED
    BY <1>3, <1>10, <2>1, GapStays
<1>11. newTx[r].pc # "scan" => newTx[r].load = IdleLoad /\ Rests(newTx[r].load)
  BY <1>4, IdleIsOK DEF LoadsRest
<1>12. CASE Mark(r)
  <2>1. UNCHANGED <<loaded, used, subscribed, sync>> /\ newTx'[r].load = IdleLoad /\ newTx[r].load.pc = "done"
    BY <1>12, MarkIs DEF Connection
  <2> QED
    BY <1>10, <2>1 DEF Rests
<1>13. ASSUME NEW pcs, GoesOn(r, pcs), newTx[r].pc # "scan" PROVE GapInv'
  <2>1. UNCHANGED <<loaded, used, subscribed, sync>> /\ newTx'[r].load = newTx[r].load
    BY <1>13 DEF GoesOn, Connection
  <2> QED
    BY <1>10, <1>11, <1>13, <2>1
<1>14. ASSUME NEW pc, Ends(r, pc), newTx[r].pc # "scan" PROVE GapInv'
  <2>1. UNCHANGED <<loaded, used, subscribed, sync>> /\ newTx'[r].load = IdleLoad
    BY <1>14, IdleIsTyped DEF Ends, Connection
  <2> QED
    BY <1>10, <1>11, <1>14, <2>1
<1>15. CASE Credit(r) \/ CleanMetadata(r) \/ Walk(r)
  BY <1>13, <1>15, CreditIs, CleanMetadataIs, WalkIs
<1>16. CASE WalkThrows(r) \/ Resave(r)
  BY <1>14, <1>16, WalkThrowsIs, ResaveIs
<1>17. CASE Finish(r)
  BY <1>13, <1>14, <1>17, FinishIs
<1>18. CASE ScanFails(r)
  BY <1>4, <1>18, ScanFailsIs
<1> QED
  BY <1>8, <1>9, <1>12, <1>15, <1>16, <1>17, <1>18 DEF NewTxStep

LEMMA ConnectionKeepsTheGap ==
  ASSUME TypeOK, Serial, GapInv, Start \/ ConnectionDown \/ Stop \/ StopEnd \/ HandleWebsocketMsg
  PROVE  GapInv'
<1>1. CASE Start \/ ConnectionDown \/ StopEnd
  <2>1. conn' # "CONNECTED"
    BY <1>1 DEF Start, ConnectionDown, StopEnd
  <2> QED
    BY <2>1 DEF GapInv, Undisturbed
<1>2. CASE Stop
  <2>1. walletStopped'
    BY <1>2 DEF Stop
  <2> QED
    BY <2>1 DEF GapInv, Undisturbed
<1>3. CASE HandleWebsocketMsg
  <2>1. UNCHANGED <<plan, conns, conn, walletStopped, stops, fails, loaded, used, subscribed, sync, newTx>>
    BY <1>3 DEF HandleWebsocketMsg, storage, tasks, bounds
  <2> QED
    BY <2>1, GapStays, UndisturbedBefore DEF LoadsStay
<1> QED
  BY <1>1, <1>2, <1>3

LEMMA ConnectionUpKeepsTheGap == ASSUME TypeOK, Serial, GapInv, ConnectionUp PROVE GapInv'
<1> SUFFICES ASSUME Undisturbed' PROVE GapInv'
  BY DEF GapInv
<1> DEFINE e == conns + 1
<1>1. /\ conns' = e /\ e \in Conns /\ OnlySync(e)
      /\ sync'[e].pc = IF firstConnection THEN "subscribe" ELSE "reload"
      /\ sync'[e].from = 0 /\ sync'[e].to = GapLimit
      /\ UNCHANGED <<subscribed, loaded, used, newTx, stops>>
  BY ConnectionUpIs
<1>2. NoTasks /\ LoadsRest /\ Fresh /\ Stopped
  BY OpensBetween DEF Undisturbed, Serial
<1>3. conns \in Nat
  BY DEF TypeOK, FieldsOK
<1>4. firstConnection => conns = 0
  BY <1>1, <1>2, <1>3 DEF Undisturbed, Stopped
<1>5. firstConnection => loaded = 0
  BY <1>2, <1>4 DEF Fresh
<1> HIDE DEF e
<1>6. LoadOK(sync'[e], loaded') /\ sync'[e].pc \notin {"idle", "done"}
  BY <1>1, <1>5, WalletAssumption DEF LoadOK
<1>7. \A f \in Conns : f # e => sync'[f].pc = "idle"
  BY <1>1, <1>2 DEF NoTasks, OnlySync
<1>8. \A r \in Runners : newTx'[r].load = IdleLoad
  BY <1>1, <1>2 DEF NoTasks, LoadsRest
<1>9. Watched' \/ sync'[e].pc = "reload"
  <2>1. CASE firstConnection
    BY <1>1, <1>5, <2>1 DEF Watched
  <2>2. CASE ~firstConnection
    BY <1>1, <2>2
  <2> QED
    BY <2>1, <2>2
<1>10. \A f \in Conns : LoadOK(sync'[f], loaded') /\ sync'[f].pc # "done"
  BY <1>6, <1>7 DEF LoadOK
<1> QED
  BY <1>1, <1>6, <1>8, <1>9, <1>10, IdleIsOK DEF GapInv

LEMMA NextKeepsTheGap == TypeOK /\ Serial /\ GapInv /\ [Next]_vars => GapInv'
<1> SUFFICES ASSUME TypeOK, Serial, GapInv, [Next]_vars PROVE GapInv'
  OBVIOUS
<1>1. ASSUME UNCHANGED <<plan, conns, conn, walletStopped, stops, fails, loaded, used, subscribed, sync, newTx>>
      PROVE  GapInv'
  BY <1>1, GapStays, UndisturbedBefore DEF LoadsStay
<1>2. CASE UNCHANGED vars
  BY <1>1, <1>2 DEF vars, fullnode, fields, storage, tasks, bounds
<1>3. ASSUME NEW t \in Txs, NEW voided \in BOOLEAN, Publish(t, voided) PROVE GapInv'
  BY <1>1, <1>3 DEF Publish, fields, storage, tasks, bounds
<1>4. CASE WalletStep
  BY <1>4, ConnectionKeepsTheGap, EnterKeepsTheGap, SyncKeepsTheGap, NewTxKeepsTheGap DEF WalletStep, SyncStep
<1>5. CASE Environment
  BY <1>3, <1>5, ConnectionKeepsTheGap, ConnectionUpKeepsTheGap, SyncKeepsTheGap, NewTxKeepsTheGap DEF Environment
<1> QED
  BY <1>2, <1>4, <1>5 DEF Next

\* A wallet at rest on a connection has loaded the gap and watches all of it, whatever used an
\* address: syncHistory() on its connection or onNewTx() with scanAddressesToLoad().  The tasks do
\* not overlap: there is one connection, or connections come between the tasks (Orderly).
THEOREM TheGapIsWatched == Spec => [](Orderly => GapIsWatched)
<1>1. Init => TypeOK /\ Serial /\ GapInv
  <2>1. Init => GapInv
    BY DEF Init, GapInv, Undisturbed
  <2> QED
    BY <2>1, InitIsTyped, InitIsSerial
<1>2. TypeOK /\ Serial /\ GapInv => (Orderly => GapIsWatched)
  <2> SUFFICES ASSUME TypeOK, Serial, GapInv, Orderly, Connected PROVE GapKept /\ LoadedAreSubscribed
    BY DEF GapIsWatched, GapKept, LoadedAreSubscribed
  <2>1. Undisturbed /\ LoadsRest
    BY DEF Connected, AtRest, Serial, Stopped, Undisturbed
  <2>2. TasksIdle
    BY DEF Connected, AtRest
  <2>3. \A e \in Conns : sync[e].pc = "idle"
    BY <2>2 DEF TasksIdle
  <2>4. \A r \in Runners : Rests(newTx[r].load)
    BY <2>1, <2>2, IdleIsOK DEF TasksIdle, LoadsRest
  <2> QED
    BY <2>1, <2>3, <2>4 DEF GapInv, GapKept, LoadedAreSubscribed, Kept, Watched
<1> QED
  BY <1>1, <1>2, NextIsTyped, NextIsSerial, NextKeepsTheGap, PTL DEF Spec

-----------------------------------------------------------------------------
(* Every transaction is counted once *)

\* The addresses of the first load.  A transaction of a later one that scanAddressesToLoad() finds is saved
\* and not processed.
FirstGap == \A t \in Txs : AddrOf[t] < GapLimit

\* The tasks do not overlap with those of another connection, and no request failed.
Countable == fails = 0 /\ FirstGap /\ (plan.calm \/ plan.conns = 1)

Opened == conns <= plan.conns

\* The addresses of the first gap are loaded by the first load of a synchronisation.
Past == \/ state = "READY" \/ newTxPromise # <<>> \/ newTx[0].pc # "idle"
        \/ \E e \in Conns : proc[e].pc # "idle" \/ sync[e].pc \in {"fetch", "save", "done"}
Started ==
    /\ \A e \in Conns : sync[e].pc \in {"subscribe", "reload"} => sync[e].to >= GapLimit
    /\ Past => loaded >= GapLimit

\* A metadata that counts what it has to, but for the transactions that a walk has left.
Walked(todo) == \A t \in Txs : counted[t] = IF t \in todo THEN 0 ELSE Due(t)
Alike == \A t \in Txs : counted[t] = Due(t)

\* How often a transaction was counted before its message.
OldCount(n) == IF n.stored.ver > 0 /\ ~n.stored.voided THEN 1 ELSE 0
\* A load of scanAddressesToLoad() is beyond the first gap: it finds nothing.
Beyond(l) ==
    /\ l.pc \in {"subscribe", "fetch", "save"} => l.from >= GapLimit
    /\ l.pc = "save" => \A t \in Txs : l.page[t].ver = 0
Counting(n) ==
    /\ n.pc = "add" => Alike /\ n.stored = history[n.tx]
    /\ n.pc \in {"scan", "credit"} =>
         /\ history[n.tx] = n.version
         /\ \A t \in Txs : counted[t] = IF t = n.tx THEN OldCount(n) ELSE Due(t)
    /\ n.pc = "credit" => n.stored.ver = 0
    /\ n.pc = "walk" => n.todo \subseteq Saved(history) /\ Walked(n.todo)
    /\ n.pc = "finish" => Alike
    /\ n.pc = "resave" => Alike /\ n.version = history[n.tx]
    /\ n.pc = "scan" => Beyond(n.load)

ProcCounts == \A e \in Conns : proc[e].pc = "walk" => Walked(proc[e].todo)
RestCounts ==
    newTx[0].pc = "idle" /\ (state = "READY" \/ (newTxPromise # <<>> /\ ~walletStopped)) => Alike
StopCounts == newTx[0].pc # "idle" /\ walletStopped => state # "READY"
ChainCounts == newTx[0].pc # "idle" /\ ~walletStopped => Counting(newTx[0])

CountInv ==
    /\ Opened
    /\ Countable => Started /\ ProcCounts /\ RestCounts /\ StopCounts /\ ChainCounts

LEMMA CountableBefore ==
  ASSUME TypeOK, plan' = plan, fails' \in {fails, fails + 1}, Countable'
  PROVE  Countable /\ fails' = fails
<1>1. fails \in Nat
  BY DEF TypeOK, FieldsOK
<1> QED
  BY <1>1 DEF Countable, FirstGap

LEMMA CountableIsOrderly ==
  ASSUME TypeOK, Serial, Opened, Countable
  PROVE  Orderly /\ Alone
<1>1. conns \in Nat /\ plan \in Plans
  BY DEF TypeOK, FieldsOK
<1>2. Orderly
  BY <1>1 DEF Countable, Opened, Orderly
<1> QED
  BY <1>2 DEF Serial

\* The connection and the user move between the tasks.
LEMMA MovesBetween ==
  ASSUME TypeOK, Serial, Countable, EnvironmentActs, conns < plan.conns
  PROVE  NoTasks
<1>1. CASE plan.calm
  BY <1>1 DEF EnvironmentActs, TasksIdle, NoTasks
<1>2. CASE ~plan.calm
  <2>1. conns \in Nat /\ plan.conns = 1
    BY <1>2 DEF TypeOK, FieldsOK, Countable
  <2>2. conns = 0
    BY <2>1
  <2> QED
    BY <2>2 DEF Serial, Fresh
<1> QED
  BY <1>1, <1>2

\* What is left to show of a step.
LEMMA CountStep ==
  ASSUME TypeOK, plan' = plan, fails' \in {fails, fails + 1}, CountInv, Opened',
         Countable => Started' /\ ProcCounts' /\ RestCounts' /\ StopCounts' /\ ChainCounts'
  PROVE  CountInv'
  BY CountableBefore DEF CountInv

\* Nothing of the metadata depends on the variables that a step changes.
LEMMA CountsStay ==
  ASSUME UNCHANGED <<counted, history>>
  PROVE  Alike' = Alike /\ \A todo : Walked(todo)' = Walked(todo)
  BY DEF Alike, Walked, Due

\* Between the tasks there is nothing to say, until the wallet is READY.
LEMMA NoTasksCount ==
  ASSUME NoTasks', state' # "READY"
  PROVE  Started' /\ ProcCounts' /\ RestCounts' /\ StopCounts' /\ ChainCounts'
<1>1. 0 \in Runners
  BY ConnsAreRunners
<1> QED
  BY <1>1 DEF NoTasks, Started, Past, ProcCounts, RestCounts, StopCounts, ChainCounts

\* A load that is done has loaded the first gap, and one that goes on will.
LEMMA LoadStarts ==
  ASSUME TypeOK, NEW l \in Load, LoadStep(l), l.pc \in {"fetch", "save"} => loaded >= GapLimit,
         l.pc = "subscribe" => l.to >= GapLimit
  PROVE  /\ loaded' >= loaded
         /\ Loads(l).pc \in {"fetch", "save", "subscribe", "done"}
         /\ Loads(l).pc \in {"fetch", "save", "done"} => loaded' >= GapLimit
         /\ Loads(l).pc = "subscribe" => Loads(l).to >= GapLimit
<1>0. /\ loaded \in Nat /\ used \in Nat /\ l.from \in Nat /\ l.to \in Nat /\ GapLimit \in Nat
  BY WalletAssumption DEF TypeOK, StorageOK, Load
<1>1. CASE LoadSubscribe(l)
  <2>1. l.pc = "subscribe" /\ loaded' = Larger(loaded, l.to) /\ Loads(l).pc = "fetch"
    BY <1>1, LoadBecomes DEF LoadSubscribe
  <2>2. loaded' >= loaded /\ loaded' >= l.to /\ loaded' \in Nat
    BY <1>0, <2>1 DEF Larger
  <2>3. loaded' >= GapLimit
    BY <1>0, <2>1, <2>2
  <2> QED
    BY <2>1, <2>2, <2>3
<1>2. CASE LoadFetch(l)
  <2>1. l.pc = "fetch" /\ Loads(l).pc = "save" /\ loaded' = loaded
    BY <1>2, LoadBecomes DEF LoadFetch
  <2> QED
    BY <1>0, <2>1
<1>3. CASE LoadSave(l)
  <2>1. l.pc = "save" /\ Loads(l) = MoreToLoad(l, used') /\ loaded' = loaded
    BY <1>3, LoadBecomes DEF LoadSave
  <2>2. used' \in Nat
    BY <1>0, <1>3, UsedIsANumber DEF LoadSave
  <2>3. CASE used' + GapLimit > loaded
    <3>1. MoreToLoad(l, used').pc = "subscribe" /\ MoreToLoad(l, used').to = used' + GapLimit
      BY <2>3, LoadBecomes
    <3>2. Loads(l).pc = "subscribe" /\ Loads(l).to = used' + GapLimit /\ loaded' = loaded
      BY <2>1, <3>1
    <3>3. \A u \in Nat : u + GapLimit >= GapLimit
      BY <1>0
    <3>4. loaded' >= loaded
      BY <1>0, <2>1
    <3> QED
      BY <2>2, <3>2, <3>3, <3>4
  <2>4. CASE ~(used' + GapLimit > loaded)
    <3>1. MoreToLoad(l, used') = [IdleLoad EXCEPT !.pc = "done"]
      BY <2>4, Zenon DEF MoreToLoad
    <3>2. MoreToLoad(l, used').pc = "done"
      BY <3>1 DEF IdleLoad
    <3> QED
      BY <1>0, <2>1, <3>2
  <2> QED
    BY <2>3, <2>4
<1> QED
  BY <1>1, <1>2, <1>3 DEF LoadStep

LEMMA SyncCounts ==
  ASSUME TypeOK, Serial, Serial', CountInv, NEW e \in Conns,
         SyncReload(e) \/ SyncLoad(e) \/ SyncFails(e) \/ SyncEnd(e)
  PROVE  CountInv'
<1>1. Syncs(e) /\ sync[e].pc # "idle" /\ fails' \in {fails, fails + 1}
  BY SyncReloadIs, SyncLoadIs, SyncOverIs DEF LoadStep, LoadSubscribe, LoadFetch, LoadSave
<1>2. UNCHANGED <<plan, conns, newTxPromise, newTx>> /\ Opened' = Opened
  BY <1>1 DEF Syncs, Queues, Opened
<1> SUFFICES ASSUME Countable PROVE Started' /\ ProcCounts' /\ RestCounts' /\ StopCounts' /\ ChainCounts'
  BY <1>1, <1>2, CountStep DEF CountInv
<1>3. Alone /\ Started
  BY CountableIsOrderly DEF CountInv
<1>4. /\ Nobody
      /\ \A f \in Conns : /\ f # e => sync'[f].pc = "idle"
                          /\ proc[f].pc = "idle" /\ newTx[f].pc = "idle"
  BY <1>1, <1>3, RunsAlone DEF Syncs, OnlySync
<1>5. newTx'[0].pc = "idle" /\ newTxPromise' = <<>> /\ state' # "READY"
  <2>1. state' \in {state, "ERROR", "PROCESSING"}
    BY SyncReloadIs, SyncLoadIs, SyncOverIs
  <2> QED
    BY <1>2, <1>4, <2>1 DEF Nobody
<1>6. \A f \in Conns : proc'[f].pc # "walk"
  BY <1>4, SyncReloadIs, SyncLoadIs, SyncOverIs DEF OnlyProc
<1>7. RestCounts' /\ StopCounts' /\ ChainCounts' /\ ProcCounts'
  BY <1>5, <1>6 DEF RestCounts, StopCounts, ChainCounts, ProcCounts
<1>8. ASSUME sync'[e].pc \in {"subscribe", "reload"} => sync'[e].to >= GapLimit,
             sync'[e].pc \in {"fetch", "save", "done"} \/ (\E f \in Conns : proc'[f].pc # "idle") => loaded' >= GapLimit
      PROVE  Started'
  BY <1>4, <1>5, <1>8 DEF Started, Past
<1>9. CASE SyncReload(e)
  <2>1. sync'[e].pc = "subscribe" /\ sync'[e].to = sync[e].to /\ sync[e].pc = "reload" /\ UNCHANGED proc
    BY <1>9, SyncReloadIs
  <2> QED
    BY <1>3, <1>4, <1>7, <1>8, <2>1 DEF Started
<1>10. CASE SyncLoad(e)
  <2>1. sync'[e] = Loads(sync[e]) /\ sync[e] \in Load /\ LoadStep(sync[e]) /\ UNCHANGED proc
    BY <1>10, SyncLoadIs DEF Syncs
  <2>2. /\ sync[e].pc \in {"fetch", "save"} => loaded >= GapLimit
        /\ sync[e].pc = "subscribe" => sync[e].to >= GapLimit
    BY <1>3 DEF Started, Past
  <2>3. /\ sync'[e].pc \in {"fetch", "save", "subscribe", "done"}
        /\ sync'[e].pc \in {"fetch", "save", "done"} => loaded' >= GapLimit
        /\ sync'[e].pc = "subscribe" => sync'[e].to >= GapLimit
    BY <2>1, <2>2, LoadStarts
  <2> QED
    BY <1>4, <1>7, <1>8, <2>1, <2>3
<1>11. CASE SyncFails(e) \/ SyncEnd(e)
  <2>1. sync[e].pc \in {"fetch", "done"} /\ sync'[e].pc = "idle" /\ loaded' = loaded
    BY <1>11, SyncOverIs, IdleIsTyped
  <2>2. loaded >= GapLimit
    BY <1>3, <2>1 DEF Started, Past
  <2> QED
    BY <1>7, <1>8, <2>1, <2>2
<1> QED
  BY <1>9, <1>10, <1>11

\* A transaction is counted once more.
LEMMA WalkCounts ==
  ASSUME TypeOK, NEW todo, Walked(todo), NEW t \in todo, t \in Txs, history[t].ver > 0,
         history' = history, counted' = Credited(counted, t, history[t])
  PROVE  \A u \in Txs : counted'[u] = IF u \in todo \ {t} THEN 0 ELSE Due(u)
<1>1. counted \in [Txs -> 0..MaxCount] /\ counted[t] = 0 /\ 0 # MaxCount
  BY WalletAssumption DEF TypeOK, StorageOK, Walked
<1>2. counted'[t] = IF history[t].voided THEN 0 ELSE 1
  BY <1>1 DEF Credited
<1>3. \A u \in Txs : u # t => counted'[u] = counted[u]
  BY <1>1 DEF Credited
<1>4. counted'[t] = Due(t)
  BY <1>2 DEF Due
<1> QED
  BY <1>3, <1>4 DEF Walked

LEMMA ProcCountsOn ==
  ASSUME TypeOK, Serial, Serial', CountInv, NEW e \in Conns, ProcClean(e) \/ ProcWalk(e) \/ ProcEnd(e)
  PROVE  CountInv'
<1>1. Processes(e) /\ proc[e].pc # "idle"
  BY ProcCleanIs, ProcWalkIs, ProcEndIs
<1>2. UNCHANGED <<plan, conns, sync, newTxPromise, newTx, loaded, fails, history>> /\ Opened' = Opened
  BY <1>1 DEF Processes, Connection, Queues, Opened
<1> SUFFICES ASSUME Countable PROVE Started' /\ ProcCounts' /\ RestCounts' /\ StopCounts' /\ ChainCounts'
  BY <1>2, CountStep DEF CountInv
<1>3. Alone /\ Started /\ ProcCounts
  BY CountableIsOrderly DEF CountInv
<1>4. Nobody /\ \A f \in Conns : f # e => proc'[f].pc = "idle"
  BY <1>1, <1>3, RunsAlone DEF Processes, OnlyProc
<1>5. newTx'[0].pc = "idle" /\ newTxPromise' = <<>>
  BY <1>2, <1>4 DEF Nobody
<1>6. StopCounts' /\ ChainCounts'
  BY <1>5 DEF StopCounts, ChainCounts
<1>7. loaded >= GapLimit
  BY <1>1, <1>3 DEF Started, Past
<1>8. Started'
  BY <1>2, <1>3, <1>7 DEF Started
<1>9. CASE ProcClean(e)
  <2>1. proc'[e].pc = "walk" /\ proc'[e].todo = Saved(history) /\ counted' = [t \in Txs |-> 0] /\ state' = state
    BY <1>9, ProcCleanIs
  <2>2. \A t \in Txs \ Saved(history) : Due(t) = 0
    BY DEF Saved, Due, TypeOK, StorageOK, Page, Version
  <2>3. \A t \in Txs : Due(t)' = Due(t)
    BY <1>2 DEF Due
  <2>4. Walked(proc[e].todo)'
    BY <2>1, <2>2, <2>3 DEF Walked
  <2> QED
    BY <1>4, <1>5, <1>6, <1>8, <2>1, <2>4 DEF ProcCounts, RestCounts, Nobody
<1>10. CASE ProcWalk(e)
  <2>1. proc[e].pc = "walk" /\ proc'[e].pc = "walk" /\ state' = state
    BY <1>10, ProcWalkIs
  <2>2. PICK t \in proc[e].todo : /\ t \in Txs /\ history[t].ver > 0 /\ proc'[e].todo = proc[e].todo \ {t}
                                  /\ counted' = Credited(counted, t, history[t])
    BY <1>10, ProcWalkIs
  <2>3. Walked(proc[e].todo)
    BY <1>3, <2>1 DEF ProcCounts
  <2>4. \A u \in Txs : counted'[u] = IF u \in proc'[e].todo THEN 0 ELSE Due(u)
    BY <1>2, <2>2, <2>3, WalkCounts
  <2>5. Walked(proc[e].todo)'
    BY <1>2, <2>4 DEF Walked, Due
  <2> QED
    BY <1>4, <1>5, <1>6, <1>8, <2>1, <2>5 DEF ProcCounts, RestCounts, Nobody
<1>11. CASE ProcEnd(e)
  <2>1. /\ proc[e].pc = "walk" /\ proc'[e].pc = "idle" /\ counted' = counted
        /\ state' = IF proc[e].todo = {} THEN "READY" ELSE "ERROR"
    BY <1>11, ProcEndIs
  <2>2. Walked(proc[e].todo)
    BY <1>3, <2>1 DEF ProcCounts
  <2>3. state' = "READY" => Alike'
    BY <1>2, <2>1, <2>2 DEF Walked, Alike, Due
  <2> QED
    BY <1>4, <1>5, <1>6, <1>8, <2>1, <2>3 DEF ProcCounts, RestCounts
<1> QED
  BY <1>9, <1>10, <1>11

\* The entry of onNewTx().
LEMMA EnterCounts ==
  ASSUME TypeOK, Serial, Serial', CountInv, ChainNext \/ \E e \in Conns : ProcDequeue(e)
  PROVE  CountInv'
<1>1. ASSUME NEW r \in Runners, NEW m, Enters(r, m) 
      PROVE  /\ UNCHANGED <<plan, conns, sync, fails, loaded, history, counted, state, walletStopped>>
             /\ Opened' = Opened /\ Only(r) /\ Alike' = Alike /\ \A todo : Walked(todo)' = Walked(todo)
  BY <1>1, CountsStay DEF Enters, Connection, Opened
<1>2. CASE ChainNext
  <2> DEFINE m == Head(newTxPromise)
  <2>1. /\ newTx[0].pc = "idle" /\ newTxPromise # <<>> /\ newTxPromise' = Tail(newTxPromise)
        /\ Enters(0, m) /\ UNCHANGED <<wsTxQueue, proc>>
    BY <1>2, ChainNextIs
  <2>2. /\ UNCHANGED <<plan, conns, sync, fails, loaded, history, counted, state, walletStopped>>
        /\ Opened' = Opened /\ Alike' = Alike /\ \A todo : Walked(todo)' = Walked(todo)
    BY <1>1, <2>1, ConnsAreRunners
  <2> SUFFICES ASSUME Countable PROVE Started' /\ ProcCounts' /\ RestCounts' /\ StopCounts' /\ ChainCounts'
    BY <2>2, CountStep DEF CountInv
  <2>3. Started /\ ProcCounts /\ RestCounts
    BY DEF CountInv
  <2>4. Started' /\ ProcCounts'
    BY <2>1, <2>2, <2>3 DEF Started, Past, ProcCounts
  <2>5. CASE walletStopped
    <3>1. newTx'[0].pc = "idle"
      BY <2>1, <2>5, IdleIsTyped DEF Enters
    <3> QED
      BY <2>1, <2>2, <2>3, <2>4, <2>5, <3>1 DEF RestCounts, StopCounts, ChainCounts
  <2>6. CASE ~walletStopped
    <3>1. newTx'[0].pc = "add" /\ newTx'[0].tx = m.tx /\ newTx'[0].stored = history[m.tx]
      BY <2>1, <2>6 DEF Enters
    <3>2. Alike
      BY <2>1, <2>3, <2>6 DEF RestCounts
    <3>3. Counting(newTx[0])'
      BY <2>2, <3>1, <3>2 DEF Counting
    <3> QED
      BY <2>2, <2>4, <2>6, <3>1, <3>3 DEF RestCounts, StopCounts, ChainCounts
  <2> QED
    BY <2>5, <2>6
<1>3. ASSUME NEW e \in Conns, ProcDequeue(e) PROVE CountInv'
  <2>1. /\ proc[e].pc = "drain" /\ Enters(e, Head(wsTxQueue)) /\ OnlyProc(e)
        /\ proc'[e].pc = IF walletStopped THEN "drain" ELSE "newTx"
        /\ UNCHANGED newTxPromise
    BY <1>3, DequeueIs
  <2>2. /\ UNCHANGED <<plan, conns, sync, fails, loaded, history, counted, state, walletStopped>>
        /\ Opened' = Opened /\ Only(e)
    BY <1>1, <2>1, ConnsAreRunners
  <2> SUFFICES ASSUME Countable PROVE Started' /\ ProcCounts' /\ RestCounts' /\ StopCounts' /\ ChainCounts'
    BY <2>2, CountStep DEF CountInv
  <2>3. Started /\ Alone
    BY CountableIsOrderly DEF CountInv
  <2>4. Nobody /\ \A f \in Conns : f # e => proc'[f].pc = "idle"
    BY <2>1, <2>3, RunsAlone DEF OnlyProc
  <2>5. newTx'[0].pc = "idle" /\ newTxPromise' = <<>> /\ state' # "READY"
    BY <2>1, <2>2, <2>4, ConnsAreRunners DEF Nobody, Only
  <2>6. Started'
    BY <2>1, <2>2, <2>3 DEF Started, Past
  <2> QED
    BY <2>1, <2>4, <2>5, <2>6 DEF ProcCounts, RestCounts, StopCounts, ChainCounts
<1> QED
  BY <1>2, <1>3

\* A load of scanAddressesToLoad() begins beyond the first gap.
LEMMA MoreIsBeyond ==
  ASSUME NEW l \in Load, NEW u \in Nat, loaded \in Nat, loaded >= GapLimit
  PROVE  Beyond(MoreToLoad(l, u)) /\ MoreToLoad(l, u).pc # "save"
<1>1. CASE u + GapLimit > loaded
  <2>1. MoreToLoad(l, u).pc = "subscribe" /\ MoreToLoad(l, u).from = loaded
    BY <1>1, LoadBecomes
  <2> QED
    BY <2>1 DEF Beyond
<1>2. CASE ~(u + GapLimit > loaded)
  <2>1. MoreToLoad(l, u) = [IdleLoad EXCEPT !.pc = "done"]
    BY <1>2, Zenon DEF MoreToLoad
  <2>2. MoreToLoad(l, u).pc = "done"
    BY <2>1 DEF IdleLoad
  <2> QED
    BY <2>2 DEF Beyond
<1> QED
  BY <1>1, <1>2

\* It saves nothing.

LEMMA BeyondFindsNothing ==
  ASSUME TypeOK, FirstGap, NEW l \in Load, LoadStep(l), Beyond(l), loaded >= GapLimit
  PROVE  Beyond(Loads(l)) /\ history' = history /\ loaded' >= loaded
<1>0. /\ loaded \in Nat /\ used \in Nat /\ l.from \in Nat /\ l.to \in Nat /\ GapLimit \in Nat
      /\ history \in Page /\ \A t \in Txs : AddrOf[t] \in Nat
  BY WalletAssumption DEF TypeOK, StorageOK, Load
<1>1. CASE LoadSubscribe(l)
  <2>1. l.pc = "subscribe" /\ Loads(l).pc = "fetch" /\ Loads(l).from = l.from
    BY <1>1, LoadBecomes DEF LoadSubscribe
  <2>2. loaded' >= loaded /\ history' = history
    BY <1>0, <1>1 DEF LoadSubscribe, Larger
  <2>3. Beyond(Loads(l))
    BY <2>1 DEF Beyond
  <2> QED
    BY <2>2, <2>3
<1>2. CASE LoadFetch(l)
  <2>1. /\ l.pc = "fetch" /\ Loads(l).pc = "save" /\ Loads(l).from = l.from
        /\ Loads(l).page = [t \in Txs |-> IF AddrOf[t] \in l.from .. l.to - 1 THEN server[t] ELSE NoVersion]
    BY <1>2, LoadBecomes DEF LoadFetch
  <2>2. \A t \in Txs : AddrOf[t] \notin l.from .. l.to - 1
    BY <1>0, <2>1 DEF FirstGap, Beyond
  <2>3. \A t \in Txs : Loads(l).page[t].ver = 0
    BY <2>1, <2>2 DEF NoVersion
  <2>4. loaded' >= loaded /\ history' = history
    BY <1>0, <1>2 DEF LoadFetch
  <2>5. Beyond(Loads(l))
    BY <2>1, <2>3 DEF Beyond
  <2> QED
    BY <2>4, <2>5
<1>3. CASE LoadSave(l)
  <2>1. /\ l.pc = "save" /\ Loads(l) = MoreToLoad(l, UsedAfter(l.page)) /\ loaded' = loaded
        /\ history' = [t \in Txs |-> IF l.page[t].ver > 0 THEN l.page[t] ELSE history[t]]
    BY <1>3, LoadBecomes DEF LoadSave
  <2>2. history' = history
    BY <1>0, <2>1 DEF Beyond, Page
  <2>3. UsedAfter(l.page) \in Nat
    BY <1>0, UsedIsANumber
  <2>4. Beyond(Loads(l))
    BY <1>0, <2>1, <2>3, MoreIsBeyond
  <2>5. loaded' >= loaded
    BY <1>0, <2>1
  <2> QED
    BY <2>2, <2>4, <2>5
<1> QED
  BY <1>1, <1>2, <1>3 DEF LoadStep

LEMMA LoadedGrows ==
  ASSUME TypeOK, NEW r \in Runners, NewTxStep(r) \/ ScanFails(r)
  PROVE  loaded' >= loaded
<1>0. loaded \in Nat
  BY DEF TypeOK, StorageOK
<1>1. CASE Scan(r)
  <2>1. LoadStep(newTx[r].load) /\ newTx[r].load.to \in Nat
    BY <1>1, ScanIs DEF Load
  <2>2. loaded' = loaded \/ loaded' = Larger(loaded, newTx[r].load.to)
    BY <2>1 DEF LoadStep, LoadSubscribe, LoadFetch, LoadSave
  <2> QED
    BY <1>0, <2>1, <2>2 DEF Larger
<1>2. CASE AddTx(r) \/ Mark(r)
  BY <1>0, <1>2, AddTxIs, MarkIs
<1>3. CASE Credit(r) \/ CleanMetadata(r) \/ Walk(r) \/ Finish(r)
  BY <1>0, <1>3, CreditIs, CleanMetadataIs, WalkIs, FinishIs DEF GoesOn, Ends
<1>4. CASE WalkThrows(r) \/ Resave(r) \/ ScanFails(r)
  BY <1>0, <1>4, WalkThrowsIs, ResaveIs, ScanFailsIs DEF Ends
<1> QED
  BY <1>1, <1>2, <1>3, <1>4 DEF NewTxStep

\* A runner does not make a stopped wallet READY.
LEMMA StaysStopped ==
  ASSUME TypeOK, NEW r \in Runners, NewTxStep(r) \/ ScanFails(r), walletStopped, state # "READY"
  PROVE  state' # "READY"
<1>1. \A n : Restored(n) = state
  BY DEF Restored
<1>2. CASE AddTx(r) \/ Scan(r) \/ Mark(r)
  BY <1>2, AddTxIs, ScanIs, MarkIs
<1>3. CASE Credit(r) \/ CleanMetadata(r) \/ Walk(r)
  BY <1>3, CreditIs, CleanMetadataIs, WalkIs
<1>4. CASE WalkThrows(r) \/ Finish(r) \/ Resave(r) \/ ScanFails(r)
  BY <1>1, <1>4, WalkThrowsIs, FinishIs, ResaveIs, ScanFailsIs
<1> QED
  BY <1>2, <1>3, <1>4 DEF NewTxStep

\* onNewTx() of a message that was chained counts as it has to.
LEMMA ChainGoesOn ==
  ASSUME TypeOK, FirstGap, ~walletStopped, loaded >= GapLimit, Counting(newTx[0]), NewTxStep(0)
  PROVE  /\ newTx'[0].pc = "idle" => Alike'
         /\ newTx'[0].pc # "idle" => Counting(newTx[0])'
<1> DEFINE n == newTx[0]
<1>0. /\ 0 \in Runners /\ n \in NewTx
      /\ history \in Page /\ counted \in [Txs -> 0..MaxCount] /\ loaded \in Nat
  BY ConnsAreRunners DEF TypeOK, TasksOK, StorageOK
<1>1. n.pc # "idle" => n.tx \in Txs /\ n.version.ver > 0
  BY <1>0 DEF TypeOK, TasksOK
<1>2. ASSUME UNCHANGED <<history, counted>> PROVE Alike' = Alike /\ \A todo : Walked(todo)' = Walked(todo)
  BY <1>2, CountsStay
<1>3. CASE AddTx(0)
  <2>1. /\ n.pc = "add" /\ newTx'[0].pc = "scan" /\ SameMessage(0)
        /\ newTx'[0].load = MoreToLoad(IdleLoad, used') /\ used' \in Nat /\ counted' = counted
        /\ history' = [history EXCEPT ![n.tx] = n.version]
    BY <1>0, <1>3, AddTxIs
  <2>2. Alike /\ n.stored = history[n.tx]
    BY <2>1 DEF Counting
  <2>3. history'[n.tx] = n.version /\ \A t \in Txs : t # n.tx => Due(t)' = Due(t)
    BY <1>0, <1>1, <2>1 DEF Due, Page
  <2>4. OldCount(n) = Due(n.tx)
    BY <2>2 DEF OldCount, Due
  <2>5. OldCount(newTx[0])' = OldCount(n)
    BY <2>1 DEF OldCount, SameMessage
  <2>6. \A t \in Txs : counted'[t] = IF t = n.tx THEN OldCount(n) ELSE Due(t)'
    BY <2>1, <2>2, <2>3, <2>4 DEF Alike
  <2>7. Beyond(newTx'[0].load)
    BY <1>0, <2>1, MoreIsBeyond, NothingIsTyped
  <2> QED
    BY <2>1, <2>3, <2>5, <2>6, <2>7 DEF Counting, SameMessage
<1>4. CASE Scan(0)
  <2>1. /\ n.pc = "scan" /\ newTx'[0].pc = "scan" /\ SameMessage(0)
        /\ newTx'[0].load = Loads(n.load) /\ n.load \in Load /\ LoadStep(n.load) /\ counted' = counted
    BY <1>0, <1>4, ScanIs
  <2>2. Beyond(newTx'[0].load) /\ history' = history
    BY <2>1, BeyondFindsNothing DEF Counting
  <2>3. OldCount(newTx[0])' = OldCount(n) /\ \A t \in Txs : Due(t)' = Due(t)
    BY <2>1, <2>2 DEF OldCount, SameMessage, Due
  <2> QED
    BY <2>1, <2>2, <2>3 DEF Counting, SameMessage
<1>5. CASE Mark(0)
  <2>1. /\ n.pc = "scan" /\ SameMessage(0) /\ UNCHANGED <<history, counted>>
        /\ newTx'[0].pc \in {"credit", "clean", "finish"}
        /\ newTx'[0].pc = "credit" <=> n.stored.ver = 0
        /\ newTx'[0].pc = "finish" => n.stored.voided = n.version.voided
    BY <1>0, <1>5, MarkIs
  <2>2. /\ history[n.tx] = n.version
        /\ \A t \in Txs : counted[t] = IF t = n.tx THEN OldCount(n) ELSE Due(t)
    BY <2>1 DEF Counting
  <2>3. OldCount(newTx[0])' = OldCount(n) /\ \A t \in Txs : Due(t)' = Due(t)
    BY <2>1 DEF OldCount, SameMessage, Due
  <2>4. CASE newTx'[0].pc = "credit"
    BY <2>1, <2>2, <2>3, <2>4 DEF Counting, SameMessage
  <2>5. CASE newTx'[0].pc = "clean"
    BY <2>5 DEF Counting
  <2>6. CASE newTx'[0].pc = "finish"
    <3>1. n.stored.ver \in Nat /\ n.stored.ver # 0
      BY <1>0, <2>1, <2>6, WalletAssumption DEF NewTx, Version
    <3>2. OldCount(n) = Due(n.tx)
      BY <1>1, <2>1, <2>2, <2>6, <3>1 DEF OldCount, Due
    <3>3. Alike'
      BY <2>1, <2>2, <2>3, <3>2 DEF Alike
    <3> QED
      BY <2>6, <3>3 DEF Counting
  <2> QED
    BY <2>1, <2>4, <2>5, <2>6
<1>6. CASE Credit(0)
  <2>1. /\ n.pc = "credit" /\ newTx'[0].pc = "finish" /\ history' = history
        /\ counted' = Credited(counted, n.tx, n.version)
    BY <1>0, <1>6, CreditIs DEF GoesOn
  <2>2. /\ history[n.tx] = n.version /\ n.stored.ver = 0
        /\ \A t \in Txs : counted[t] = IF t = n.tx THEN OldCount(n) ELSE Due(t)
    BY <2>1 DEF Counting
  <2>3. counted[n.tx] = 0 /\ 0 # MaxCount /\ n.tx \in Txs
    BY <1>1, <2>1, <2>2, WalletAssumption DEF OldCount
  <2>4. counted'[n.tx] = IF n.version.voided THEN 0 ELSE 1
    BY <1>0, <2>1, <2>3 DEF Credited
  <2>5. counted'[n.tx] = Due(n.tx)
    BY <1>1, <2>1, <2>2, <2>4 DEF Due
  <2>6. \A t \in Txs : t # n.tx => counted'[t] = Due(t)
    BY <1>0, <2>1, <2>2 DEF Credited
  <2>7. Alike'
    BY <2>1, <2>5, <2>6 DEF Alike, Due
  <2> QED
    BY <2>1, <2>7 DEF Counting
<1>7. CASE CleanMetadata(0)
  <2>1. /\ newTx'[0].pc \in {"walk", "finish"} /\ newTx'[0].todo = Saved(history)
        /\ newTx'[0].pc = "finish" <=> Saved(history) = {}
        /\ counted' = [t \in Txs |-> 0] /\ history' = history
    BY <1>0, <1>7, CleanMetadataIs DEF GoesOn
  <2>2. \A t \in Txs \ Saved(history) : Due(t) = 0
    BY DEF Saved, Due, TypeOK, StorageOK, Page, Version
  <2>3. Saved(history') = Saved(history) /\ \A t \in Txs : Due(t)' = Due(t)
    BY <2>1 DEF Due
  <2>4. Walked(newTx[0].todo)' /\ (newTx'[0].pc = "finish" => Alike')
    BY <2>1, <2>2, <2>3 DEF Walked, Alike
  <2> QED
    BY <2>1, <2>3, <2>4 DEF Counting
<1>8. CASE Walk(0)
  <2>1. n.pc = "walk" /\ newTx'[0].pc \in {"walk", "finish"} /\ history' = history
    BY <1>0, <1>8, WalkIs DEF GoesOn
  <2>2. PICK t \in n.todo :
            /\ t \in Txs /\ history[t].ver > 0
            /\ newTx'[0].todo = n.todo \ {t} /\ (newTx'[0].pc = "finish" => newTx'[0].todo = {})
            /\ counted' = Credited(counted, t, history[t])
    BY <1>0, <1>8, WalkIs
  <2>3. n.todo \subseteq Saved(history) /\ Walked(n.todo)
    BY <2>1 DEF Counting
  <2>4. \A u \in Txs : counted'[u] = IF u \in newTx'[0].todo THEN 0 ELSE Due(u)
    BY <2>1, <2>2, <2>3, WalkCounts
  <2>5. Walked(newTx[0].todo)' /\ (newTx'[0].pc = "finish" => Alike')
    BY <2>1, <2>2, <2>4 DEF Walked, Alike, Due
  <2>6. newTx'[0].todo \subseteq Saved(history)'
    BY <2>1, <2>2, <2>3 DEF Saved
  <2> QED
    BY <2>1, <2>5, <2>6 DEF Counting
<1>9. CASE WalkThrows(0)
  <2>1. n.pc = "walk" /\ \E t \in n.todo : history[t].ver = 0
    BY <1>0, <1>9, WalkThrowsIs
  <2>2. n.todo \subseteq Saved(history)
    BY <2>1 DEF Counting
  <2> QED
    BY <2>1, <2>2 DEF Saved
<1>10. CASE Finish(0)
  <2>1. n.pc = "finish"
    BY <1>0, <1>10, FinishIs
  <2>2. Alike
    BY <2>1 DEF Counting
  <2>3. CASE Ends(0, "drain") /\ history' = history
    <3>1. newTx'[0].pc = "idle" /\ UNCHANGED <<history, counted>>
      BY <2>3, IdleIsTyped DEF Ends
    <3> QED
      BY <1>2, <2>2, <3>1
  <2>4. CASE GoesOn(0, {"resave"}) /\ newTx'[0].version = history[n.tx] /\ counted' = counted
    <3>1. newTx'[0].pc = "resave" /\ newTx'[0].tx = n.tx /\ UNCHANGED <<history, counted>>
      BY <2>4 DEF GoesOn
    <3> QED
      BY <1>2, <2>2, <2>4, <3>1 DEF Counting
  <2> QED
    BY <1>0, <1>10, <2>3, <2>4, FinishIs
<1>11. CASE Resave(0)
  <2>1. /\ n.pc = "resave" /\ newTx'[0].pc = "idle" /\ counted' = counted
        /\ history' = [history EXCEPT ![n.tx] = n.version]
    BY <1>0, <1>11, ResaveIs, IdleIsTyped DEF Ends
  <2>2. Alike /\ n.version = history[n.tx]
    BY <2>1 DEF Counting
  <2>3. history' = history
    BY <1>0, <2>1, <2>2 DEF Page
  <2> QED
    BY <1>2, <2>1, <2>2, <2>3
<1> QED
  BY <1>3, <1>4, <1>5, <1>6, <1>7, <1>8, <1>9, <1>10, <1>11 DEF NewTxStep

LEMMA NewTxCounts ==
  ASSUME TypeOK, Serial, Serial', CountInv, NEW r \in Runners, NewTxStep(r) \/ ScanFails(r)
  PROVE  CountInv'
<1>1. RunnerGoes(r) /\ fails' \in {fails, fails + 1}
  BY RunnerGoesOn, RunnerFails DEF Serial
<1>2. UNCHANGED <<plan, conns, sync, newTxPromise, walletStopped>> /\ Opened' = Opened /\ Only(r) /\ newTx[r].pc # "idle"
  BY <1>1 DEF RunnerGoes, Opened
<1> SUFFICES ASSUME Countable, Countable'
             PROVE  Started' /\ ProcCounts' /\ RestCounts' /\ StopCounts' /\ ChainCounts'
  BY <1>1, <1>2, CountableBefore DEF CountInv
<1>3. Alone /\ Alone' /\ Started /\ StopCounts /\ ChainCounts /\ NewTxStep(r)
  <2>1. fails = 0 /\ fails' = 0
    BY DEF Countable
  <2>2. Orderly /\ Alone /\ Orderly'
    BY <1>2, CountableIsOrderly DEF CountInv, Orderly
  <2> QED
    BY <2>1, <2>2, ScanFailsIs DEF CountInv, Serial
<1>4. loaded \in Nat /\ GapLimit \in Nat /\ loaded' >= loaded /\ loaded' \in Nat
  BY WalletAssumption, LoadedGrows, NextIsTyped, NewTxIsTyped DEF TypeOK, StorageOK
<1>5. CASE r = 0
  <2>1. \A f \in Conns : sync[f].pc = "idle" /\ proc[f].pc = "idle" /\ proc' = proc
    BY <1>1, <1>2, <1>3, <1>5, RunsAlone DEF RunnerGoes
  <2>2. loaded >= GapLimit
    BY <1>2, <1>3, <1>5 DEF Started, Past
  <2>3. loaded' >= GapLimit
    BY <1>4, <2>2
  <2>4. Started' /\ ProcCounts'
    BY <1>2, <2>1, <2>3 DEF Started, ProcCounts
  <2>5. CASE walletStopped
    <3>1. state' # "READY"
      BY <1>2, <1>3, <1>5, <2>5, StaysStopped DEF StopCounts
    <3> QED
      BY <1>2, <2>4, <2>5, <3>1 DEF RestCounts, StopCounts, ChainCounts
  <2>6. CASE ~walletStopped
    <3>1. Counting(newTx[0]) /\ FirstGap
      BY <1>2, <1>3, <1>5, <2>6 DEF ChainCounts, Countable
    <3>2. /\ newTx'[0].pc = "idle" => Alike'
          /\ newTx'[0].pc # "idle" => Counting(newTx[0])'
      BY <1>3, <1>5, <2>2, <2>6, <3>1, ChainGoesOn
    <3> QED
      BY <1>2, <2>4, <2>6, <3>2 DEF RestCounts, StopCounts, ChainCounts
  <2> QED
    BY <2>5, <2>6
<1>6. CASE r # 0
  <2>1. r \in Conns
    BY <1>6, ConnsAreRunners
  <2>2. /\ Nobody /\ proc[r].pc = "newTx" /\ \A f \in Conns : sync[f].pc = "idle"
        /\ \A f \in Conns : f # r => proc[f].pc = "idle"
    BY <1>2, <1>3, <2>1, RunsAlone
  <2>3. newTx'[0].pc = "idle" /\ newTxPromise' = <<>>
    BY <1>2, <1>6, <2>2, ConnsAreRunners DEF Only, Nobody
  <2>4. loaded >= GapLimit
    BY <1>3, <2>1, <2>2 DEF Started, Past
  <2>5. loaded' >= GapLimit
    BY <1>4, <2>4
  <2>6. Started'
    BY <1>2, <2>2, <2>5 DEF Started
  <2>7. ProcCounts'
    <3>1. proc'[r].pc # "walk" /\ \A f \in Conns : f # r => proc'[f].pc = "idle"
      BY <1>1, <2>1, <2>2 DEF RunnerGoes, OnlyProc
    <3> QED
      BY <3>1 DEF ProcCounts
  <2>8. state' # "READY"
    <3>1. ~SaysReady(r)
      BY <1>3, <2>1, <2>2 DEF Nobody, Alone, SaysReady
    <3> QED
      BY <1>1, <3>1 DEF RunnerGoes
  <2> QED
    BY <2>3, <2>6, <2>7, <2>8 DEF RestCounts, StopCounts, ChainCounts
<1> QED
  BY <1>5, <1>6

\* start() and a connection that opens or drops: no task runs.
LEMMA ConnectionCounts ==
  ASSUME TypeOK, Serial, CountInv, Start \/ ConnectionUp \/ ConnectionDown
  PROVE  CountInv'
<1>1. EnvironmentActs /\ conns < plan.conns /\ plan' = plan /\ fails' = fails /\ state' # "READY"
  BY DEF Start, ConnectionUp, ConnectionDown, bounds
<1>2. Opened'
  <2>1. conns \in Nat /\ plan.conns \in Nat
    BY WalletAssumption DEF TypeOK, FieldsOK
  <2>2. conns' \in {conns, conns + 1}
    BY DEF Start, ConnectionUp, ConnectionDown, bounds
  <2> QED
    BY <1>1, <2>1, <2>2 DEF Opened
<1> SUFFICES ASSUME Countable PROVE Started' /\ ProcCounts' /\ RestCounts' /\ StopCounts' /\ ChainCounts'
  BY <1>1, <1>2, CountStep
<1>3. NoTasks
  BY <1>1, MovesBetween
<1>4. CASE Start \/ ConnectionDown
  <2>1. UNCHANGED <<sync, proc, newTx, newTxPromise>>
    BY <1>4 DEF Start, ConnectionDown, tasks
  <2>2. NoTasks'
    BY <1>3, <2>1 DEF NoTasks
  <2> QED
    BY <1>1, <2>2, NoTasksCount
<1>5. CASE ConnectionUp
  <2> DEFINE e == conns + 1
  <2>1. /\ e \in Conns /\ OnlySync(e) /\ sync'[e].to = GapLimit
        /\ sync'[e].pc \in {"subscribe", "reload"}
        /\ UNCHANGED <<proc, newTx, newTxPromise>>
    BY <1>5, ConnectionUpIs
  <2> HIDE DEF e
  <2>2. /\ \A f \in Conns : (f # e => sync'[f].pc = "idle") /\ proc'[f].pc = "idle"
        /\ newTx'[0].pc = "idle" /\ newTxPromise' = <<>>
    BY <1>3, <2>1, ConnsAreRunners DEF NoTasks, OnlySync
  <2>3. Started'
    BY <1>1, <2>1, <2>2, WalletAssumption DEF Started, Past
  <2> QED
    BY <1>1, <2>2, <2>3 DEF ProcCounts, RestCounts, StopCounts, ChainCounts
<1> QED
  BY <1>4, <1>5

LEMMA StopCountsOn ==
  ASSUME TypeOK, Serial, CountInv, Stop \/ StopEnd
  PROVE  CountInv'
<1>1. UNCHANGED <<plan, conns, fails, sync, proc, newTx, newTxPromise, loaded>> /\ Opened' = Opened
  BY DEF Stop, StopEnd, storage, fullnode, bounds, Opened
<1> SUFFICES ASSUME Countable PROVE Started' /\ ProcCounts' /\ RestCounts' /\ StopCounts' /\ ChainCounts'
  BY <1>1, CountStep DEF CountInv
<1>2. Started /\ ProcCounts /\ StopCounts
  BY DEF CountInv
<1>3. CASE Stop
  <2>1. state' # "READY" /\ walletStopped' /\ UNCHANGED <<history, counted>>
    BY <1>3 DEF Stop, storage
  <2>2. \A todo : Walked(todo)' = Walked(todo)
    BY <2>1, CountsStay
  <2> QED
    BY <1>1, <1>2, <2>1, <2>2 DEF Started, Past, ProcCounts, RestCounts, StopCounts, ChainCounts
<1>4. CASE StopEnd
  <2>1. walletStopped /\ walletStopped' /\ state' = state /\ history' = NoPage /\ counted' = [t \in Txs |-> 0]
    BY <1>4 DEF StopEnd, Serial, Stopped
  <2>2. \A t \in Txs : Due(t)' = 0
    BY <2>1 DEF Due, NoPage, NoVersion
  <2>3. Alike' /\ \A todo : Walked(todo)'
    BY <2>1, <2>2 DEF Alike, Walked
  <2> QED
    BY <1>1, <1>2, <2>1, <2>3 DEF Started, Past, ProcCounts, RestCounts, StopCounts, ChainCounts
<1> QED
  BY <1>3, <1>4

LEMMA MessageCounts ==
  ASSUME TypeOK, CountInv, HandleWebsocketMsg
  PROVE  CountInv'
<1>1. UNCHANGED <<plan, conns, fails, state, walletStopped, sync, proc, newTx, loaded, history, counted>>
  BY DEF HandleWebsocketMsg, storage, tasks, bounds
<1>2. state # "READY" => newTxPromise' = newTxPromise
  BY DEF HandleWebsocketMsg
<1>3. Alike' = Alike /\ (\A todo : Walked(todo)' = Walked(todo)) /\ Opened' = Opened
  BY <1>1, CountsStay DEF Opened
<1> SUFFICES ASSUME Countable PROVE Started' /\ ProcCounts' /\ RestCounts' /\ StopCounts' /\ ChainCounts'
  BY <1>1, <1>3, CountStep DEF CountInv
<1>4. Started /\ ProcCounts /\ RestCounts /\ StopCounts /\ ChainCounts
  BY DEF CountInv
<1>5. Started'
  BY <1>1, <1>2, <1>4 DEF Started, Past
<1>6. ChainCounts'
  BY <1>1, <1>4 DEF ChainCounts, Counting, Alike, Walked, Due
<1> QED
  BY <1>1, <1>2, <1>3, <1>4, <1>5, <1>6 DEF ProcCounts, RestCounts, StopCounts

LEMMA NextCounts == TypeOK /\ TypeOK' /\ Serial /\ Serial' /\ CountInv /\ [Next]_vars => CountInv'
<1> SUFFICES ASSUME TypeOK, TypeOK', Serial, Serial', CountInv, [Next]_vars PROVE CountInv'
  OBVIOUS
<1>1. ASSUME UNCHANGED <<plan, conns, fails, state, walletStopped, newTxPromise, sync, proc, newTx, loaded, history,
                         counted>>
      PROVE  CountInv'
  BY <1>1 DEF CountInv, Countable, FirstGap, Opened, Started, Past, ProcCounts, RestCounts, StopCounts, ChainCounts,
              Counting, Alike, Walked, Due
<1>2. CASE UNCHANGED vars
  BY <1>1, <1>2 DEF vars, fullnode, fields, storage, tasks, bounds
<1>3. ASSUME NEW t \in Txs, NEW voided \in BOOLEAN, Publish(t, voided) PROVE CountInv'
  BY <1>1, <1>3 DEF Publish, fields, storage, tasks, bounds
<1>4. CASE WalletStep
  BY <1>4, MessageCounts, StopCountsOn, EnterCounts, SyncCounts, ProcCountsOn, NewTxCounts
     DEF WalletStep, SyncStep, ProcStep
<1>5. CASE Environment
  BY <1>3, <1>5, ConnectionCounts, StopCountsOn, SyncCounts, NewTxCounts DEF Environment
<1> QED
  BY <1>2, <1>4, <1>5 DEF Next

\* When the wallet is READY and nothing is in flight, the metadata counts every transaction of the
\* history once and the voided ones not at all: the walks of processHistory(), processNewTx() and
\* what stop() cleaned never overlap.  It is said of transactions on the first addresses and of
\* tasks of one connection, or of connections that come between the tasks.
THEOREM EveryTxCountsOnce == Spec => [](FirstGap /\ (plan.calm \/ plan.conns = 1) => CountedOnce)
<1>1. Init => TypeOK /\ Serial /\ CountInv
  <2> SUFFICES ASSUME Init PROVE CountInv
    BY InitIsTyped, InitIsSerial
  <2>1. TypeOK /\ conns = 0 /\ newTxPromise = <<>> /\ state # "READY"
    BY InitIsTyped DEF Init
  <2>2. NoTasks
    BY IdleIsTyped DEF Init, NoTasks
  <2>3. Opened
    BY <2>1, WalletAssumption DEF TypeOK, FieldsOK, Opened
  <2>4. newTx[0].pc = "idle"
    BY <2>2, ConnsAreRunners DEF NoTasks
  <2> QED
    BY <2>1, <2>2, <2>3, <2>4
    DEF CountInv, NoTasks, Started, Past, ProcCounts, RestCounts, StopCounts, ChainCounts
<1>2. TypeOK /\ CountInv => (FirstGap /\ (plan.calm \/ plan.conns = 1) => CountedOnce)
  BY ConnsAreRunners DEF CountInv, Countable, RestCounts, CountedOnce, AtRest, TasksIdle, Alike
<1> QED
  BY <1>1, <1>2, NextIsTyped, NextIsSerial, NextCounts, PTL DEF Spec

-----------------------------------------------------------------------------
(* The history is the fullnode's *)

\* The first connection of a wallet that was not stopped, and no request failed.
FirstConn == fails = 0 /\ conns = 1 /\ conn = "CONNECTED" /\ ~walletStopped

\* The last that the queue q says of a transaction is the version v, or it says nothing.
TellsLast(q, t, v) ==
    \E i \in 1..Len(q) : q[i].tx = t /\ q[i].version = v /\ \A j \in (i + 1)..Len(q) : q[j].tx # t
Silent(q, t) == \A i \in 1..Len(q) : q[i].tx # t

\* A message waits in the queue of those that synchronise and process, or in the chain.
Working == \E e \in Conns : sync[e].pc # "idle" \/ proc[e].pc # "idle"
Queue == IF Working THEN wsTxQueue ELSE newTxPromise

\* The loads that wait for their page or have it, and the transactions they ask for.
Fetching(l) == l.pc \in {"fetch", "save"}
Busy == {l \in {sync[e] : e \in Conns} \cup {newTx[r].load : r \in Runners} : Fetching(l)}
Covers(l, t) == AddrOf[t] \in l.from .. l.to - 1

\* The messages that addTx() is about to save.
Adding == {newTx[r] : r \in {q \in Runners : newTx[q].pc = "add"}}

\* A transaction of which no message waits: it is saved, or about to be.
Known(t) ==
    /\ \A n \in Adding : n.tx = t => n.version = server[t]
    /\ \A l \in Busy : l.pc = "save" /\ Covers(l, t) => l.page[t] = server[t]
    /\ \/ history[t] = server[t] \/ AddrOf[t] >= loaded
       \/ \E n \in Adding : n.tx = t
       \/ \E l \in Busy : Covers(l, t)
Current(t) ==
    \/ TellsLast(wire, t, server[t])
    \/ Silent(wire, t) /\ TellsLast(Queue, t, server[t])
    \/ Silent(wire, t) /\ Silent(Queue, t) /\ Known(t)

\* A transaction of an address that is not loaded.
Unheard(t) ==
    /\ Silent(wire, t) /\ Silent(wsTxQueue, t) /\ Silent(newTxPromise, t)
    /\ history[t] = NoVersion
    /\ \A r \in Runners : newTx[r].pc # "idle" => newTx[r].tx # t

Subscribed == subscribed = 0 .. loaded - 1
NoReload == \A e \in Conns : sync[e].pc # "reload"
PagesOK ==
    \A l \in Busy, t \in Txs : /\ Covers(l, t) => history[t] = NoVersion
                               /\ l.pc = "save" /\ ~Covers(l, t) => l.page[t].ver = 0
LaterUnheard == \A t \in Txs : AddrOf[t] >= loaded => Unheard(t)
ResaveOK == \A r \in Runners : newTx[r].pc = "resave" => newTx[r].version = history[newTx[r].tx]
AllCurrent == Working \/ wsTxQueue = <<>> => \A t \in Txs : Current(t)
Curr == Subscribed /\ NoReload /\ PagesOK /\ LaterUnheard /\ ResaveOK /\ AllCurrent

CurrInv ==
    /\ \A t \in Txs : server[t].ver = 0 => server[t] = NoVersion
    /\ FirstConn => Curr

LEMMA AppendTells ==
  ASSUME NEW q \in Seq(Told), NEW m \in Told, NEW t, NEW v
  PROVE  /\ m.tx = t /\ m.version = v => TellsLast(Append(q, m), t, v)
         /\ m.tx # t => /\ TellsLast(q, t, v) => TellsLast(Append(q, m), t, v)
                        /\ Silent(q, t) => Silent(Append(q, m), t)
<1> DEFINE p == Append(q, m)
<1>1. /\ Len(p) = Len(q) + 1 /\ Len(q) \in Nat /\ p[Len(q) + 1] = m
      /\ \A i \in 1..Len(q) : p[i] = q[i]
  OBVIOUS
<1> HIDE DEF p
<1>2. ASSUME m.tx = t, m.version = v PROVE TellsLast(p, t, v)
  <2>1. Len(p) \in 1..Len(p) /\ p[Len(p)] = m /\ \A j \in (Len(p) + 1)..Len(p) : FALSE
    BY <1>1
  <2> QED
    BY <1>2, <2>1 DEF TellsLast
<1>3. ASSUME m.tx # t, TellsLast(q, t, v) PROVE TellsLast(p, t, v)
  <2>1. PICK i \in 1..Len(q) : q[i].tx = t /\ q[i].version = v /\ \A j \in (i + 1)..Len(q) : q[j].tx # t
    BY <1>3 DEF TellsLast
  <2>2. \A j \in (i + 1)..Len(p) : p[j].tx # t
    BY <1>1, <1>3, <2>1
  <2> QED
    BY <1>1, <2>1, <2>2 DEF TellsLast
<1>4. ASSUME m.tx # t, Silent(q, t) PROVE Silent(p, t)
  BY <1>1, <1>4 DEF Silent
<1> QED
  BY <1>2, <1>3, <1>4 DEF p

LEMMA TailTells ==
  ASSUME NEW q \in Seq(Told), q # <<>>, NEW t, NEW v
  PROVE  /\ TellsLast(q, t, v) => \/ TellsLast(Tail(q), t, v)
                                  \/ Silent(Tail(q), t) /\ Head(q).tx = t /\ Head(q).version = v
         /\ Silent(q, t) => Silent(Tail(q), t) /\ Head(q).tx # t
<1> DEFINE p == Tail(q)
<1>1. /\ Len(p) = Len(q) - 1 /\ Len(q) \in Nat /\ Len(q) >= 1 /\ Head(q) = q[1]
      /\ \A i \in 1..Len(p) : p[i] = q[i + 1]
  OBVIOUS
<1> HIDE DEF p
<1>2. ASSUME TellsLast(q, t, v)
      PROVE  TellsLast(p, t, v) \/ (Silent(p, t) /\ Head(q).tx = t /\ Head(q).version = v)
  <2>1. PICK i \in 1..Len(q) : q[i].tx = t /\ q[i].version = v /\ \A j \in (i + 1)..Len(q) : q[j].tx # t
    BY <1>2 DEF TellsLast
  <2>2. CASE i = 1
    BY <1>1, <2>1, <2>2 DEF Silent
  <2>3. CASE i # 1
    <3>1. i - 1 \in 1..Len(p) /\ p[i - 1] = q[i] /\ \A j \in ((i - 1) + 1)..Len(p) : p[j].tx # t
      BY <1>1, <2>1, <2>3
    <3> QED
      BY <2>1, <3>1 DEF TellsLast
  <2> QED
    BY <2>2, <2>3
<1>3. ASSUME Silent(q, t) PROVE Silent(p, t) /\ Head(q).tx # t
  BY <1>1, <1>3 DEF Silent
<1> QED
  BY <1>2, <1>3 DEF p

\* An empty queue says nothing.
LEMMA NothingIsTold == \A t, v : Silent(<<>>, t) /\ ~TellsLast(<<>>, t, v)
<1>1. 1..Len(<<>>) = {}
  OBVIOUS
<1> QED
  BY <1>1 DEF Silent, TellsLast

\* A step that starts no synchronisation: the messages wait where they did.
LEMMA QueueStays ==
  ASSUME Alone, Working' => Working, UNCHANGED <<wsTxQueue, newTxPromise>>, Working' \/ wsTxQueue' = <<>>
  PROVE  (Working \/ wsTxQueue = <<>>) /\ Queue' = Queue
<1>1. Working => newTxPromise = <<>>
  BY DEF Working, Alone, Nobody
<1> QED
  BY <1>1 DEF Queue

\* A step that changes nothing the history depends on.
RunnersKeep == \A r \in Runners : newTx'[r].pc # "idle" => newTx[r].pc # "idle" /\ newTx'[r].tx = newTx[r].tx
LEMMA CurrentStays ==
  ASSUME CurrInv, FirstConn' => FirstConn /\ Alone,
         UNCHANGED <<server, wire, wsTxQueue, newTxPromise>>,
         FirstConn /\ FirstConn' =>
            /\ UNCHANGED <<subscribed, history, loaded, Busy, Adding>>
            /\ RunnersKeep /\ ResaveOK' /\ NoReload' /\ (Working' => Working)
  PROVE  CurrInv'
<1> SUFFICES ASSUME FirstConn' PROVE Curr'
  BY DEF CurrInv
<1>1. FirstConn /\ Curr /\ Alone
  BY DEF CurrInv
<1>2. /\ UNCHANGED <<subscribed, history, loaded, Busy, Adding>>
      /\ RunnersKeep /\ ResaveOK' /\ NoReload' /\ (Working' => Working)
  BY <1>1
<1>3. Subscribed' /\ PagesOK'
  BY <1>1, <1>2 DEF Curr, Subscribed, PagesOK
<1>4. LaterUnheard'
  BY <1>1, <1>2 DEF Curr, LaterUnheard, Unheard, RunnersKeep
<1>5. \A t \in Txs : Known(t) => Known(t)'
  BY <1>2 DEF Known
<1>6. AllCurrent'
  <2> SUFFICES ASSUME Working' \/ wsTxQueue' = <<>>, NEW t \in Txs PROVE Current(t)'
    BY DEF AllCurrent
  <2>1. Current(t) /\ Queue' = Queue
    BY <1>1, <1>2, QueueStays DEF Curr, AllCurrent
  <2> QED
    BY <1>5, <2>1 DEF Current
<1> QED
  BY <1>2, <1>3, <1>4, <1>6 DEF Curr

LEMMA BusyStays ==
  ASSUME \A e \in Conns : sync'[e] = sync[e] \/ (~Fetching(sync[e]) /\ ~Fetching(sync'[e])),
         \A r \in Runners : \/ newTx'[r].load = newTx[r].load
                            \/ ~Fetching(newTx[r].load) /\ ~Fetching(newTx'[r].load)
  PROVE  Busy' = Busy
<1>1. \A l : l \in Busy' <=> /\ Fetching(l)
                             /\ (\E e \in Conns : l = sync'[e]) \/ (\E r \in Runners : l = newTx'[r].load)
  BY DEF Busy
<1>2. \A l : l \in Busy <=> /\ Fetching(l)
                            /\ (\E e \in Conns : l = sync[e]) \/ (\E r \in Runners : l = newTx[r].load)
  BY DEF Busy
<1>3. \A l : l \in Busy' => l \in Busy
  BY <1>1, <1>2
<1>4. \A l : l \in Busy => l \in Busy'
  BY <1>1, <1>2
<1> QED
  BY <1>3, <1>4

LEMMA NobodyIsBusy ==
  ASSUME \A e \in Conns : ~Fetching(sync[e]), \A r \in Runners : ~Fetching(newTx[r].load)
  PROVE  Busy = {}
  BY DEF Busy

LEMMA AddingStays ==
  ASSUME \A r \in Runners : newTx'[r] = newTx[r] \/ (newTx[r].pc # "add" /\ newTx'[r].pc # "add")
  PROVE  Adding' = Adding
<1>1. \A n : n \in Adding' <=> \E r \in Runners : newTx'[r].pc = "add" /\ n = newTx'[r]
  BY DEF Adding
<1>2. \A n : n \in Adding <=> \E r \in Runners : newTx[r].pc = "add" /\ n = newTx[r]
  BY DEF Adding
<1>3. \A n : n \in Adding' => n \in Adding
  BY <1>1, <1>2
<1>4. \A n : n \in Adding => n \in Adding'
  BY <1>1, <1>2
<1> QED
  BY <1>3, <1>4

\* Only runner r adds, if it does.
LEMMA OneAdds ==
  ASSUME NEW r \in Runners, \A q \in Runners : q # r => newTx[q].pc # "add"
  PROVE  \A n : n \in Adding <=> newTx[r].pc = "add" /\ n = newTx[r]
  BY DEF Adding

LEMMA FirstIsAlone ==
  ASSUME Serial, FirstConn
  PROVE  Alone /\ Undisturbed /\ LoadsRest
  BY DEF FirstConn, Undisturbed, Orderly, Serial

LEMMA FirstBefore ==
  ASSUME TypeOK, UNCHANGED <<conns, conn, walletStopped>>, fails' \in {fails, fails + 1}, FirstConn'
  PROVE  FirstConn /\ fails' = fails
<1>1. fails \in Nat
  BY DEF TypeOK, FieldsOK
<1> QED
  BY <1>1 DEF FirstConn

LEMMA IdleIsQuiet == ~Fetching(IdleLoad) /\ IdleNewTx.pc # "add"
  BY DEF Fetching, IdleLoad, IdleNewTx

LEMMA PublishIsCurrent ==
  ASSUME TypeOK, Serial, GapInv, CurrInv, NEW t \in Txs, NEW voided \in BOOLEAN, Publish(t, voided)
  PROVE  CurrInv'
<1> DEFINE v == [ver |-> server[t].ver + 1, voided |-> voided]
           m == [tx |-> t, version |-> v]
<1>0. server \in Page /\ server[t] \in Version /\ plan.vers[t] \in 0..MaxVer /\ MaxVer \in Nat /\ wire \in Seq(Told)
  BY WalletAssumption DEF TypeOK, FieldsOK, QueuesOK, Page
<1>1. /\ server' = [server EXCEPT ![t] = v] /\ v.ver > 0 /\ v.ver # 0
      /\ wire' = IF conn = "CONNECTED" /\ AddrOf[t] \in subscribed THEN Append(wire, m) ELSE wire
      /\ m \in Told /\ m.tx = t /\ m.version = v
      /\ UNCHANGED <<conn, subscribed, conns, fails, walletStopped, wsTxQueue, newTxPromise, history, loaded, sync,
                     proc, newTx>>
  BY <1>0 DEF Publish, fields, storage, tasks, bounds, Version, Told, Message
<1> HIDE DEF v, m
<1>2. \A u \in Txs : server'[u].ver = 0 => server'[u] = NoVersion
  BY <1>0, <1>1 DEF CurrInv, Page
<1>3. /\ server'[t] = v /\ \A u \in Txs : u # t => server'[u] = server[u]
      /\ Busy' = Busy /\ Adding' = Adding /\ Queue' = Queue /\ Working' = Working
  BY <1>0, <1>1 DEF Page, Busy, Adding, Queue, Working
<1> SUFFICES ASSUME FirstConn' PROVE Curr'
  BY <1>2 DEF CurrInv
<1>4. FirstConn /\ Curr /\ Undisturbed /\ LoadsRest
  BY <1>1, FirstIsAlone DEF FirstConn, CurrInv
<1>5. Subscribed' /\ NoReload' /\ PagesOK' /\ ResaveOK'
  BY <1>1, <1>3, <1>4 DEF Curr, Subscribed, NoReload, PagesOK, ResaveOK
<1>6. wire' = IF AddrOf[t] < loaded THEN Append(wire, m) ELSE wire
  <2>1. loaded \in Nat /\ AddrOf[t] \in Nat
    BY WalletAssumption DEF TypeOK, StorageOK
  <2>2. AddrOf[t] \in subscribed <=> AddrOf[t] < loaded
    BY <1>4, <2>1 DEF Curr, Subscribed
  <2> QED
    BY <1>1, <1>4, <2>2 DEF FirstConn
<1>7. \A u \in Txs : u # t => /\ Silent(wire, u) => Silent(wire', u)
                              /\ TellsLast(wire, u, server[u]) => TellsLast(wire', u, server'[u])
  BY <1>0, <1>1, <1>3, AppendTells
<1>8. LaterUnheard'
  <2> SUFFICES ASSUME NEW u \in Txs, AddrOf[u] >= loaded PROVE Unheard(u)'
    BY <1>1 DEF LaterUnheard
  <2>1. Unheard(u)
    BY <1>4 DEF Curr, LaterUnheard
  <2>2. Silent(wire', u)
    <3>1. AddrOf[t] < loaded => u # t
      BY WalletAssumption DEF TypeOK, StorageOK
    <3> QED
      BY <1>6, <1>7, <2>1, <3>1 DEF Unheard
  <2> QED
    BY <1>1, <2>1, <2>2 DEF Unheard
<1>9. AllCurrent'
  <2> SUFFICES ASSUME Working' \/ wsTxQueue' = <<>>, NEW u \in Txs PROVE Current(u)'
    BY DEF AllCurrent
  <2>1. Current(u)
    BY <1>1, <1>3, <1>4 DEF Curr, AllCurrent
  <2>2. CASE u # t
    <3>1. Known(u)' = Known(u)
      BY <1>1, <1>3, <2>2 DEF Known
    <3> QED
      BY <1>3, <1>7, <2>1, <2>2, <3>1 DEF Current
  <2>3. CASE u = t /\ AddrOf[t] < loaded
    <3>1. TellsLast(wire', t, server'[t])
      BY <1>0, <1>1, <1>3, <1>6, <2>3, AppendTells
    <3> QED
      BY <2>3, <3>1 DEF Current
  <2>4. CASE u = t /\ ~(AddrOf[t] < loaded)
    <3>1. AddrOf[t] >= loaded /\ AddrOf[t] \in Nat /\ loaded \in Nat
      BY <2>4, WalletAssumption DEF TypeOK, StorageOK
    <3>2. Unheard(t)
      BY <1>4, <3>1 DEF Curr, LaterUnheard
    <3>3. \A n \in Adding : n.tx # t
      BY <3>2 DEF Unheard, Adding
    <3>4. \A l \in Busy : ~Covers(l, t)
      <4> SUFFICES ASSUME NEW l \in Busy PROVE ~Covers(l, t)
        OBVIOUS
      <4>1. LoadOK(l, loaded) /\ l.pc \in {"fetch", "save"}
        BY <1>4 DEF GapInv, Busy, Fetching
      <4>2. l.to = loaded /\ l.from \in Nat
        BY <4>1 DEF LoadOK, Busy, TypeOK, TasksOK, NewTx, Load
      <4> QED
        BY <3>1, <4>2 DEF Covers
    <3>5. Known(t)'
      BY <1>1, <1>3, <3>1, <3>3, <3>4 DEF Known
    <3>6. Silent(wire', t) /\ Silent(Queue', t)
      BY <1>3, <1>6, <2>4, <3>2 DEF Unheard, Queue
    <3> QED
      BY <2>4, <3>5, <3>6 DEF Current
  <2> QED
    BY <2>2, <2>3, <2>4
<1> QED
  BY <1>5, <1>8, <1>9 DEF Curr

LEMMA MessageIsCurrent == ASSUME TypeOK, Serial, CurrInv, HandleWebsocketMsg PROVE CurrInv'
<1> DEFINE m == Head(wire)
<1>1. /\ wire \in Seq(Told) /\ wsTxQueue \in Seq(Told) /\ newTxPromise \in Seq(Told)
      /\ wire # <<>> /\ m \in Told
  BY QueuesAreTyped DEF HandleWebsocketMsg, TypeOK, QueuesOK
<1>2. /\ wire' = Tail(wire)
      /\ \/ state # "READY" /\ wsTxQueue' = Append(wsTxQueue, m) /\ newTxPromise' = newTxPromise
         \/ state = "READY" /\ newTxPromise' = Append(newTxPromise, m) /\ wsTxQueue' = wsTxQueue
      /\ UNCHANGED <<server, conn, subscribed, conns, fails, walletStopped, history, loaded, sync, proc, newTx>>
  BY DEF HandleWebsocketMsg, storage, tasks, bounds
<1> HIDE DEF m
<1> SUFFICES ASSUME FirstConn' PROVE Curr'
  BY <1>2 DEF CurrInv
<1>3. FirstConn /\ Curr /\ Alone
  BY <1>2, FirstIsAlone DEF FirstConn, CurrInv
<1>4. Busy' = Busy /\ Adding' = Adding /\ Working' = Working
  BY <1>2 DEF Busy, Adding, Working
<1>5. Subscribed' /\ NoReload' /\ PagesOK' /\ ResaveOK'
  BY <1>2, <1>3, <1>4 DEF Curr, Subscribed, NoReload, PagesOK, ResaveOK
<1>6. \A t : Silent(wire, t) => m.tx # t /\ Silent(wire', t)
  BY <1>1, <1>2, TailTells DEF m
<1>7. LaterUnheard'
  <2> SUFFICES ASSUME NEW u \in Txs, AddrOf[u] >= loaded PROVE Unheard(u)'
    BY <1>2 DEF LaterUnheard
  <2>1. Unheard(u)
    BY <1>3 DEF Curr, LaterUnheard
  <2>2. Silent(wire, u) /\ Silent(wsTxQueue, u) /\ Silent(newTxPromise, u)
    BY <2>1 DEF Unheard
  <2>3. m.tx # u /\ Silent(wire', u)
    BY <1>6, <2>2
  <2>4. Silent(Append(wsTxQueue, m), u) /\ Silent(Append(newTxPromise, m), u)
    BY <1>1, <2>2, <2>3, AppendTells
  <2>5. Silent(wsTxQueue', u) /\ Silent(newTxPromise', u)
    BY <1>2, <2>2, <2>4
  <2> QED
    BY <1>2, <2>1, <2>3, <2>5 DEF Unheard
<1>8. AllCurrent'
  <2> SUFFICES ASSUME Working' \/ wsTxQueue' = <<>>, NEW t \in Txs PROVE Current(t)'
    BY DEF AllCurrent
  <2>1. Append(wsTxQueue, m) # <<>>
    BY <1>1
  <2>2. Working => state # "READY"
    BY <1>3 DEF Working, Alone, Nobody
  <2>3. (Working \/ wsTxQueue = <<>>) /\ Queue' = Append(Queue, m) /\ Queue \in Seq(Told)
    BY <1>1, <1>2, <1>4, <2>1, <2>2 DEF Queue
  <2>4. Current(t) /\ Known(t)' = Known(t)
    BY <1>2, <1>3, <1>4, <2>3 DEF Curr, AllCurrent, Known
  <2>5. CASE TellsLast(wire, t, server[t])
    <3>1. TellsLast(wire', t, server[t]) \/ (Silent(wire', t) /\ m.tx = t /\ m.version = server[t])
      BY <1>1, <1>2, <2>5, TailTells DEF m
    <3>2. m.tx = t /\ m.version = server[t] => TellsLast(Queue', t, server[t])
      BY <1>1, <2>3, AppendTells
    <3> QED
      BY <1>2, <3>1, <3>2 DEF Current
  <2>6. CASE Silent(wire, t)
    <3>1. m.tx # t /\ Silent(wire', t)
      BY <1>6, <2>6
    <3>2. /\ TellsLast(Queue, t, server[t]) => TellsLast(Queue', t, server[t])
          /\ Silent(Queue, t) => Silent(Queue', t)
      BY <1>1, <2>3, <3>1, AppendTells
    <3>3. ~TellsLast(wire, t, server[t])
      BY <2>6 DEF Silent, TellsLast
    <3> QED
      BY <1>2, <2>4, <3>1, <3>2, <3>3 DEF Current
  <2> QED
    BY <2>4, <2>5, <2>6 DEF Current
<1> QED
  BY <1>5, <1>7, <1>8 DEF Curr

\* The entry of onNewTx(m) in runner r, where m waited first in the queue that is heard.
LEMMA EnterIsCurrent ==
  ASSUME TypeOK, CurrInv, FirstConn, NEW r \in Runners, Enters(r, Head(Queue)),
         \A e \in Conns : sync[e].pc = "idle", \A q \in Runners : newTx[q].pc = "idle", LoadsRest,
         Queue \in Seq(Told), Queue # <<>>, Queue' = Tail(Queue), Working \/ wsTxQueue = <<>>,
         wsTxQueue' = wsTxQueue \/ (wsTxQueue = Queue /\ wsTxQueue' = Tail(Queue)),
         newTxPromise' = newTxPromise \/ (newTxPromise = Queue /\ newTxPromise' = Tail(Queue))
  PROVE  CurrInv'
<1> DEFINE m == Head(Queue)
           n == newTx'[r]
<1>1. /\ UNCHANGED <<server, conn, subscribed, wire, conns, sync, fails, walletStopped, history, loaded>>
      /\ ~walletStopped /\ Only(r)
      /\ n.pc = "add" /\ n.tx = m.tx /\ n.version = m.version /\ n.load = IdleLoad
  BY DEF Enters, Connection, FirstConn
<1>2. /\ \A e \in Conns : ~Fetching(sync[e])
      /\ \A q \in Runners : newTx[q].load = IdleLoad /\ newTx'[q].load = IdleLoad
      /\ \A q \in Runners \ {r} : newTx'[q] = newTx[q] /\ newTx'[q].pc = "idle"
  BY <1>1 DEF LoadsRest, Only, Fetching
<1>3. Busy = {} /\ Busy' = {}
  <2>1. Busy = {}
    BY <1>2, NobodyIsBusy, IdleIsQuiet
  <2>2. Busy' = Busy
    BY <1>1, <1>2, BusyStays
  <2> QED
    BY <2>1, <2>2
<1>4. Adding = {}
  BY DEF Adding
<1>5. Adding' = {n}
  <2>1. \A k : k \in Adding' <=> \E q \in Runners : newTx'[q].pc = "add" /\ k = newTx'[q]
    BY DEF Adding
  <2>2. \A k : k \in Adding' <=> k = n
    BY <1>1, <1>2, <2>1
  <2> HIDE DEF n
  <2> QED
    BY <2>2
<1> HIDE DEF n, m
<1>6. Curr
  BY DEF CurrInv
<1>7. Subscribed' /\ NoReload' /\ PagesOK' /\ ResaveOK'
  <2>1. ResaveOK'
    BY <1>1, <1>2 DEF ResaveOK, n
  <2> QED
    BY <1>1, <1>3, <1>6, <2>1 DEF Curr, Subscribed, NoReload, PagesOK
<1>8. \A t : Silent(Queue, t) => Silent(Tail(Queue), t) /\ m.tx # t
  BY TailTells DEF m
<1>9. LaterUnheard'
  <2> SUFFICES ASSUME NEW u \in Txs, AddrOf[u] >= loaded PROVE Unheard(u)'
    BY <1>1 DEF LaterUnheard
  <2>1. Unheard(u)
    BY <1>6 DEF Curr, LaterUnheard
  <2>2. Silent(Queue, u) /\ Silent(wsTxQueue, u) /\ Silent(newTxPromise, u)
    BY <2>1 DEF Unheard, Queue
  <2>3. Silent(wsTxQueue', u) /\ Silent(newTxPromise', u) /\ m.tx # u
    BY <1>8, <2>2
  <2>4. \A q \in Runners : newTx'[q].pc # "idle" => newTx'[q].tx # u
    BY <1>1, <1>2, <2>3 DEF n
  <2> QED
    BY <1>1, <2>1, <2>3, <2>4 DEF Unheard
<1>10. AllCurrent'
  <2> SUFFICES ASSUME NEW t \in Txs PROVE Current(t)'
    BY DEF AllCurrent
  <2>1. Current(t)
    BY <1>6 DEF Curr, AllCurrent
  <2>2. CASE TellsLast(wire, t, server[t])
    BY <1>1, <2>2 DEF Current
  <2>3. CASE Silent(wire, t) /\ TellsLast(Queue, t, server[t])
    <3>1. \/ TellsLast(Queue', t, server[t])
          \/ Silent(Queue', t) /\ m.tx = t /\ m.version = server[t]
      BY <2>3, TailTells DEF m
    <3>2. m.tx = t /\ m.version = server[t] => Known(t)'
      BY <1>1, <1>3, <1>5 DEF Known
    <3> QED
      BY <1>1, <2>3, <3>1, <3>2 DEF Current
  <2>4. CASE Silent(wire, t) /\ Silent(Queue, t) /\ Known(t)
    <3>1. Silent(Queue', t) /\ m.tx # t
      BY <1>8, <2>4
    <3>2. Known(t)'
      BY <1>1, <1>3, <1>4, <1>5, <2>4, <3>1 DEF Known
    <3> QED
      BY <1>1, <2>4, <3>1, <3>2 DEF Current
  <2> QED
    BY <2>1, <2>2, <2>3, <2>4 DEF Current
<1>11. \A t \in Txs : server'[t].ver = 0 => server'[t] = NoVersion
  BY <1>1 DEF CurrInv
<1> QED
  BY <1>7, <1>9, <1>10, <1>11 DEF Curr, CurrInv

LEMMA ProcIsCurrent ==
  ASSUME TypeOK, Serial, CurrInv, ChainNext \/ \E e \in Conns : ProcStep(e)
  PROVE  CurrInv'
<1>0. wsTxQueue \in Seq(Told) /\ newTxPromise \in Seq(Told)
  BY DEF TypeOK, QueuesOK
<1>1. ASSUME NEW r \in Runners, NEW k, Enters(r, k), ~FirstConn' PROVE CurrInv'
  BY <1>1 DEF CurrInv, Enters, Connection
<1>2. ASSUME NEW r \in Runners, NEW k, Enters(r, k), FirstConn' PROVE FirstConn /\ Alone /\ LoadsRest
  <2>1. FirstConn
    BY <1>2 DEF Enters, Connection, FirstConn
  <2> QED
    BY <2>1, FirstIsAlone
<1>3. CASE ChainNext
  <2>1. /\ newTxPromise # <<>> /\ newTxPromise' = Tail(newTxPromise) /\ Enters(0, Head(newTxPromise))
        /\ newTx[0].pc = "idle" /\ UNCHANGED <<wsTxQueue, proc>> /\ 0 \in Runners
    BY <1>3, ChainNextIs, ConnsAreRunners
  <2> SUFFICES ASSUME FirstConn' PROVE CurrInv'
    BY <1>1, <2>1
  <2>2. FirstConn /\ Alone /\ LoadsRest
    BY <1>2, <2>1
  <2>3. \A e \in Conns : sync[e].pc = "idle" /\ proc[e].pc = "idle" /\ newTx[e].pc = "idle"
    BY <2>1, <2>2, RunsAlone
  <2>4. ~Working /\ ~Working'
    BY <2>1, <2>3 DEF Working, Enters, Connection
  <2>5. Queue = newTxPromise /\ Queue' = Tail(Queue)
    BY <2>1, <2>4 DEF Queue
  <2>6. CASE wsTxQueue = <<>>
    BY <1>0, <2>1, <2>2, <2>3, <2>5, <2>6, EnterIsCurrent, ConnsAreRunners
  <2>7. CASE wsTxQueue # <<>>
    \* What follows when nobody is working and a message stays parked.
    <3>1. /\ UNCHANGED <<server, conn, subscribed, wire, conns, sync, fails, walletStopped, history, loaded>>
          /\ Only(0) /\ newTx'[0].pc = "add" /\ newTx'[0].tx = Head(newTxPromise).tx /\ newTx'[0].load = IdleLoad
      BY <2>1, <2>2 DEF Enters, Connection, FirstConn
    <3>2. Busy' = Busy
      <4>1. newTx[0].load = IdleLoad
        BY <2>1, <2>2 DEF LoadsRest
      <4> QED
        BY <3>1, <4>1, BusyStays DEF Only
    <3>3. Curr
      BY <2>2 DEF CurrInv
    <3>4. LaterUnheard'
      <4> SUFFICES ASSUME NEW u \in Txs, AddrOf[u] >= loaded PROVE Unheard(u)'
        BY <3>1 DEF LaterUnheard
      <4>1. Unheard(u)
        BY <3>3 DEF Curr, LaterUnheard
      <4>2. Silent(newTxPromise', u) /\ Head(newTxPromise).tx # u
        BY <1>0, <2>1, <4>1, TailTells DEF Unheard
      <4> QED
        BY <2>1, <3>1, <4>1, <4>2 DEF Unheard, Only
    <3>5. AllCurrent'
      BY <2>1, <2>4, <2>7 DEF AllCurrent
    <3> QED
      BY <3>1, <3>2, <3>3, <3>4, <3>5
      DEF CurrInv, Curr, Subscribed, NoReload, PagesOK, ResaveOK, Only
  <2> QED
    BY <2>6, <2>7
<1>4. ASSUME NEW e \in Conns, ProcDequeue(e) PROVE CurrInv'
  <2>1. /\ proc[e].pc = "drain" /\ wsTxQueue # <<>> /\ wsTxQueue' = Tail(wsTxQueue)
        /\ Enters(e, Head(wsTxQueue)) /\ proc'[e].pc = IF walletStopped THEN "drain" ELSE "newTx"
        /\ newTxPromise' = newTxPromise /\ e \in Runners
    BY <1>4, DequeueIs, ConnsAreRunners
  <2> SUFFICES ASSUME FirstConn' PROVE CurrInv'
    BY <1>1, <2>1
  <2>2. FirstConn /\ Alone /\ LoadsRest
    BY <1>2, <2>1
  <2>3. Nobody /\ (\A f \in Conns : sync[f].pc = "idle") /\ newTx[e].pc = "idle"
        /\ \A f \in Conns : f # e => newTx[f].pc = "idle"
    BY <2>1, <2>2, RunsAlone DEF Alone
  <2>4. \A q \in Runners : newTx[q].pc = "idle"
    BY <2>3, ConnsAreRunners DEF Nobody
  <2>5. Working /\ Working'
    BY <2>1 DEF Working
  <2>6. Queue = wsTxQueue /\ Queue' = Tail(Queue)
    BY <2>1, <2>5 DEF Queue
  <2> QED
    BY <1>0, <2>1, <2>2, <2>3, <2>4, <2>5, <2>6, EnterIsCurrent
<1>5. ASSUME NEW e \in Conns, Processes(e), proc[e].pc # "idle" PROVE CurrInv'
  <2>1. UNCHANGED <<server, conn, subscribed, wire, conns, sync, fails, walletStopped, history, loaded, wsTxQueue,
                    newTxPromise, newTx>>
    BY <1>5 DEF Processes, Connection, Queues
  <2>2. Busy' = Busy /\ Adding' = Adding /\ RunnersKeep
    BY <2>1 DEF Busy, Adding, RunnersKeep
  <2>3. Working' => Working
    BY <1>5 DEF Working
  <2>4. FirstConn' => FirstConn /\ Alone
    BY <2>1, FirstIsAlone DEF FirstConn
  <2>5. FirstConn => ResaveOK' /\ NoReload'
    BY <2>1 DEF CurrInv, Curr, ResaveOK, NoReload
  <2> QED
    BY <2>1, <2>2, <2>3, <2>4, <2>5, CurrentStays
<1> QED
  BY <1>3, <1>4, <1>5, ProcCleanIs, ProcWalkIs, ProcEndIs DEF ProcStep

\* A step of the only load.
LEMMA LoadIsCurrent ==
  ASSUME TypeOK, CurrInv, FirstConn, Alone, NEW l \in Load, LoadStep(l), LoadOK(l, loaded),
         \A k : k \in Busy <=> Fetching(l) /\ k = l,
         \A k : k \in Busy' <=> Fetching(Loads(l)) /\ k = Loads(l),
         Adding = {}, Adding' = {}, RunnersKeep, ResaveOK', NoReload', Working' => Working,
         UNCHANGED <<server, wire, wsTxQueue, newTxPromise>>
  PROVE  Curr'
<1>0. /\ loaded \in Nat /\ l.from \in Nat /\ l.to \in Nat /\ l.page \in Page
      /\ history \in Page /\ server \in Page /\ \A t \in Txs : AddrOf[t] \in Nat
  BY WalletAssumption DEF TypeOK, StorageOK, FieldsOK, Load
<1>1. Curr /\ (\A t \in Txs : server[t].ver = 0 => server[t] = NoVersion) /\ conn = "CONNECTED"
  BY DEF CurrInv, FirstConn
<1>2. ASSUME Subscribed', PagesOK', LaterUnheard', \A t \in Txs : Known(t) => Known(t)' PROVE Curr'
  <2>1. AllCurrent'
    <3> SUFFICES ASSUME Working' \/ wsTxQueue' = <<>>, NEW t \in Txs PROVE Current(t)'
      BY DEF AllCurrent
    <3>1. Current(t) /\ Queue' = Queue
      BY <1>1, QueueStays DEF Curr, AllCurrent
    <3> QED
      BY <1>2, <3>1 DEF Current
  <2> QED
    BY <1>2, <2>1 DEF Curr
<1>3. ASSUME loaded' >= loaded, loaded' \in Nat, \A t \in Txs : AddrOf[t] >= loaded => history'[t] = history[t]
      PROVE  LaterUnheard'
  <2> SUFFICES ASSUME NEW t \in Txs, AddrOf[t] >= loaded' PROVE Unheard(t)'
    BY DEF LaterUnheard
  <2>1. AddrOf[t] >= loaded
    BY <1>0, <1>3
  <2>2. Unheard(t)
    BY <1>1, <2>1 DEF Curr, LaterUnheard
  <2> QED
    BY <1>3, <2>1, <2>2 DEF Unheard, RunnersKeep
<1>4. CASE LoadSubscribe(l)
  <2>1. l.pc = "subscribe" /\ l.from = loaded /\ l.to > loaded
    BY <1>4 DEF LoadSubscribe, LoadOK
  <2>2. /\ loaded' = l.to /\ subscribed' = subscribed \cup (l.from .. l.to - 1) /\ history' = history
        /\ Loads(l).pc = "fetch" /\ Loads(l).from = l.from /\ Loads(l).to = l.to
    <3>1. loaded' = l.to
      BY <1>0, <1>4, <2>1 DEF LoadSubscribe, Larger
    <3>2. subscribed' = subscribed \cup (l.from .. l.to - 1) /\ history' = history
      BY <1>1, <1>4 DEF LoadSubscribe
    <3> QED
      BY <2>1, <3>1, <3>2, LoadBecomes
  <2>3. /\ \A k : k \notin Busy
        /\ \A k : k \in Busy' <=> k = Loads(l)
    BY <2>1, <2>2 DEF Fetching
  <2>4. \A t \in Txs : Covers(Loads(l), t) <=> AddrOf[t] >= loaded /\ AddrOf[t] < loaded'
    BY <1>0, <2>1, <2>2 DEF Covers
  <2>5. Subscribed'
    BY <1>0, <1>1, <2>1, <2>2 DEF Curr, Subscribed
  <2>6. PagesOK'
    <3>1. \A t \in Txs : Covers(Loads(l), t) => history'[t] = NoVersion
      BY <1>1, <2>2, <2>4 DEF Curr, LaterUnheard, Unheard
    <3>2. Loads(l).pc # "save"
      BY <2>2
    <3> HIDE DEF Loads
    <3> QED
      BY <2>3, <3>1, <3>2 DEF PagesOK
  <2>7. LaterUnheard'
    BY <1>0, <1>3, <2>1, <2>2
  <2>8. ASSUME NEW t \in Txs, Known(t) PROVE Known(t)'
    <3>1. history[t] = server[t] \/ AddrOf[t] >= loaded
      BY <2>3, <2>8 DEF Known
    <3>2. history'[t] = server'[t] \/ AddrOf[t] >= loaded' \/ Covers(Loads(l), t)
      BY <1>0, <2>1, <2>2, <2>4, <3>1
    <3>3. history'[t] = server'[t] \/ AddrOf[t] >= loaded' \/ \E k \in Busy' : Covers(k, t)
      BY <2>3, <3>2
    <3>4. \A k \in Busy' : k.pc # "save"
      BY <2>2, <2>3
    <3> QED
      BY <3>3, <3>4 DEF Known
  <2> QED
    BY <1>2, <2>5, <2>6, <2>7, <2>8
<1>5. CASE LoadFetch(l)
  <2>1. l.pc = "fetch" /\ l.to = loaded /\ UNCHANGED <<subscribed, history, loaded>>
    BY <1>5 DEF LoadFetch, LoadOK
  <2>2. /\ Loads(l).pc = "save" /\ Loads(l).from = l.from /\ Loads(l).to = l.to
        /\ Loads(l).page = [t \in Txs |-> IF AddrOf[t] \in l.from .. l.to - 1 THEN server[t] ELSE NoVersion]
    BY <2>1, LoadBecomes
  <2>3. /\ \A k : k \in Busy <=> k = l
        /\ \A k : k \in Busy' <=> k = Loads(l)
    BY <2>1, <2>2 DEF Fetching
  <2>4. \A t \in Txs : /\ Covers(Loads(l), t) <=> Covers(l, t)
                       /\ Loads(l).page[t] = IF Covers(l, t) THEN server[t] ELSE NoVersion
    BY <2>2 DEF Covers
  <2>5. Subscribed'
    BY <1>1, <2>1 DEF Curr, Subscribed
  <2>6. PagesOK'
    <3>1. \A t \in Txs : Covers(Loads(l), t) => history'[t] = NoVersion
      BY <1>1, <2>1, <2>3, <2>4 DEF Curr, PagesOK
    <3>2. \A t \in Txs : ~Covers(Loads(l), t) => Loads(l).page[t].ver = 0
      BY <2>4 DEF NoVersion
    <3> QED
      BY <2>3, <3>1, <3>2 DEF PagesOK
  <2>7. LaterUnheard'
    BY <1>0, <1>3, <2>1
  <2>8. ASSUME NEW t \in Txs, Known(t) PROVE Known(t)'
    <3>1. history[t] = server[t] \/ AddrOf[t] >= loaded \/ Covers(l, t)
      BY <2>3, <2>8 DEF Known
    <3>2. history'[t] = server'[t] \/ AddrOf[t] >= loaded' \/ \E k \in Busy' : Covers(k, t)
      BY <2>1, <2>3, <2>4, <3>1
    <3>3. \A k \in Busy' : Covers(k, t) => k.page[t] = server'[t]
      BY <2>3, <2>4
    <3> QED
      BY <3>2, <3>3 DEF Known
  <2> QED
    BY <1>2, <2>5, <2>6, <2>7, <2>8
<1>6. CASE LoadSave(l)
  <2>1. /\ l.pc = "save" /\ l.to = loaded /\ UNCHANGED <<subscribed, loaded>>
        /\ \A t \in Txs : history'[t] = IF l.page[t].ver > 0 THEN l.page[t] ELSE history[t]
    BY <1>6 DEF LoadSave, LoadOK
  <2>2. ~Fetching(Loads(l))
    <3>1. Loads(l) = MoreToLoad(l, UsedAfter(l.page))
      BY <2>1, LoadBecomes
    <3>2. UsedAfter(l.page) \in Nat
      BY UsedIsANumber DEF TypeOK, StorageOK
    <3> QED
      BY <1>0, <3>1, <3>2, MoreIsOK DEF Fetching
  <2>3. /\ \A k : k \in Busy <=> k = l
        /\ \A k : k \notin Busy'
    BY <2>1, <2>2 DEF Fetching
  <2>4. \A t \in Txs : ~Covers(l, t) => history'[t] = history[t]
    BY <1>0, <1>1, <2>1, <2>3 DEF Curr, PagesOK
  <2>5. Subscribed' /\ PagesOK'
    BY <1>1, <2>1, <2>3 DEF Curr, Subscribed, PagesOK
  <2>6. LaterUnheard'
    <3>1. \A t \in Txs : AddrOf[t] >= loaded => ~Covers(l, t)
      BY <1>0, <2>1 DEF Covers
    <3> QED
      BY <1>0, <1>3, <2>1, <2>4, <3>1
  <2>7. ASSUME NEW t \in Txs, Known(t) PROVE Known(t)'
    <3>1. history[t] = server[t] \/ AddrOf[t] >= loaded \/ Covers(l, t)
      BY <2>3, <2>7 DEF Known
    <3>2. CASE Covers(l, t)
      <4>1. l.page[t] = server[t] /\ history[t] = NoVersion
        BY <1>1, <2>1, <2>3, <2>7, <3>2 DEF Known, Curr, PagesOK
      <4>2. l.page[t].ver \in Nat
        BY <1>0, WalletAssumption DEF Page, Version
      <4>3. history'[t] = server[t]
        BY <1>1, <2>1, <4>1, <4>2
      <4> QED
        BY <2>3, <4>3 DEF Known
    <3>3. CASE ~Covers(l, t)
      BY <2>1, <2>3, <2>4, <3>1, <3>3 DEF Known
    <3> QED
      BY <3>2, <3>3
  <2> QED
    BY <1>2, <2>5, <2>6, <2>7
<1> QED
  BY <1>4, <1>5, <1>6 DEF LoadStep

\* A step of the only load that runs, in the terms of those that run.
LEMMA OneIsBusy ==
  ASSUME NEW l, l \in {sync[e] : e \in Conns} \cup {newTx[r].load : r \in Runners},
         \A k \in {sync[e] : e \in Conns} \cup {newTx[r].load : r \in Runners} : Fetching(k) => k = l
  PROVE  \A k : k \in Busy <=> Fetching(l) /\ k = l
  BY DEF Busy

LEMMA SyncIsCurrent ==
  ASSUME TypeOK, Serial, GapInv, CurrInv, NEW e \in Conns,
         SyncReload(e) \/ SyncLoad(e) \/ SyncFails(e) \/ SyncEnd(e)
  PROVE  CurrInv'
<1>1. Syncs(e) /\ sync[e].pc # "idle" /\ fails' \in {fails, fails + 1}
  BY SyncReloadIs, SyncLoadIs, SyncOverIs DEF LoadStep, LoadSubscribe, LoadFetch, LoadSave
<1>2. UNCHANGED <<server, conn, wire, conns, walletStopped, wsTxQueue, newTxPromise, newTx>>
  BY <1>1 DEF Syncs, Queues
<1> SUFFICES ASSUME FirstConn' PROVE Curr'
  BY <1>2 DEF CurrInv
<1>3. FirstConn /\ fails' = fails /\ fails \in Nat
  BY <1>1, <1>2, FirstBefore DEF TypeOK, FieldsOK
<1>4. Alone /\ LoadsRest /\ Undisturbed /\ Curr
  BY <1>3, FirstIsAlone DEF CurrInv
<1>5. /\ Nobody /\ \A f \in Conns : f # e => sync[f].pc = "idle" /\ sync'[f] = sync[f]
      /\ \A f \in Conns : newTx[f].pc = "idle"
  BY <1>1, <1>4, RunsAlone DEF Syncs, OnlySync
<1>6. \A r \in Runners : newTx[r].pc = "idle" /\ newTx[r].load = IdleLoad
  BY <1>4, <1>5, ConnsAreRunners DEF Nobody, LoadsRest
<1>7. Adding = {} /\ Adding' = {} /\ RunnersKeep /\ ResaveOK' /\ (Working' => Working)
  BY <1>1, <1>2, <1>6 DEF Adding, RunnersKeep, ResaveOK, Working
<1>8. CASE SyncReload(e)
  BY <1>4, <1>8, SyncReloadIs DEF Curr, NoReload
<1>9. CASE SyncLoad(e)
  <2> DEFINE l == sync[e]
  <2>1. LoadStep(l) /\ l \in Load /\ sync'[e] = Loads(l)
    BY <1>9, SyncLoadIs DEF Syncs
  <2>2. LoadOK(l, loaded)
    BY <1>4 DEF GapInv
  <2>3. \A k : k \in Busy <=> Fetching(l) /\ k = l
    <3>1. \A k \in {sync[f] : f \in Conns} \cup {newTx[r].load : r \in Runners} : Fetching(k) => k = l
      BY <1>5, <1>6, IdleIsQuiet DEF Fetching
    <3> QED
      BY <3>1, OneIsBusy
  <2>4. \A k : k \in Busy' <=> Fetching(Loads(l)) /\ k = Loads(l)
    <3>1. \A k : k \in Busy' <=> /\ Fetching(k)
                                 /\ (\E f \in Conns : k = sync'[f]) \/ (\E r \in Runners : k = newTx'[r].load)
      BY DEF Busy
    <3>2. \A f \in Conns : f # e => ~Fetching(sync'[f])
      BY <1>5 DEF Fetching
    <3>3. \A r \in Runners : ~Fetching(newTx'[r].load)
      BY <1>2, <1>6, IdleIsQuiet
    <3> QED
      BY <2>1, <3>1, <3>2, <3>3
  <2>5. NoReload'
    <3>1. Loads(l).pc # "reload"
      BY <2>1, LoadStepIsOK, <1>4, <2>2 DEF Undisturbed, GapInv, Curr, NoReload
    <3> QED
      BY <1>5, <2>1, <3>1 DEF NoReload
  <2> HIDE DEF l
  <2> QED
    BY <1>2, <1>3, <1>4, <1>7, <2>1, <2>2, <2>3, <2>4, <2>5, LoadIsCurrent
<1>10. CASE SyncFails(e) \/ SyncEnd(e)
  <2>1. /\ sync[e].pc = "done" /\ sync'[e] = IdleLoad /\ UNCHANGED <<subscribed, history, loaded>>
    BY <1>3, <1>10, SyncOverIs
  <2>2. Busy' = Busy /\ Adding' = Adding
    BY <1>2, <1>5, <1>7, <2>1, BusyStays, IdleIsQuiet DEF Fetching
  <2>3. NoReload'
    BY <1>4, <1>5, <2>1, IdleIsTyped DEF Curr, NoReload
  <2>4. CurrInv'
    BY <1>2, <1>3, <1>4, <1>7, <2>1, <2>2, <2>3, CurrentStays
  <2> QED
    BY <2>4 DEF CurrInv
<1> QED
  BY <1>8, <1>9, <1>10

LEMMA NewTxIsCurrent ==
  ASSUME TypeOK, Serial, GapInv, CurrInv, NEW r \in Runners, NewTxStep(r) \/ ScanFails(r)
  PROVE  CurrInv'
<1>1. RunnerGoes(r) /\ fails' \in {fails, fails + 1}
  BY RunnerGoesOn, RunnerFails DEF Serial
<1>2. UNCHANGED <<server, conn, wire, conns, walletStopped, wsTxQueue, newTxPromise, sync>> /\ Only(r)
      /\ newTx[r].pc # "idle"
  BY <1>1 DEF RunnerGoes
<1> SUFFICES ASSUME FirstConn' PROVE Curr'
  BY <1>2 DEF CurrInv
<1>3. FirstConn /\ NewTxStep(r)
  <2>1. FirstConn /\ fails' = fails /\ fails \in Nat
    BY <1>1, <1>2, FirstBefore DEF TypeOK, FieldsOK
  <2> QED
    BY <2>1, ScanFailsIs
<1>4. Alone /\ LoadsRest /\ Undisturbed /\ Curr
  BY <1>3, FirstIsAlone DEF CurrInv
<1>5. /\ \A e \in Conns : sync[e].pc = "idle"
      /\ \A q \in Runners : q # r => newTx[q].pc = "idle" /\ newTx'[q] = newTx[q] /\ newTx[q].load = IdleLoad
  <2>1. /\ \A e \in Conns : sync[e].pc = "idle"
        /\ \A q \in Runners : q # r => newTx[q].pc = "idle"
    BY <1>2, <1>4, RunsAlone, ConnsAreRunners DEF Nobody
  <2> QED
    BY <1>2, <1>4, <2>1 DEF LoadsRest, Only
<1>6. Working' => Working
  <2>1. ASSUME NEW f \in Conns, proc'[f].pc # "idle" PROVE proc[f].pc # "idle"
    <3>1. CASE f = r
      BY <1>2, <1>4, <3>1, RunsAlone
    <3>2. CASE f # r
      <4>1. proc' = proc \/ (r \in Conns /\ OnlyProc(r))
        BY <1>1, ConnsAreRunners DEF RunnerGoes
      <4> QED
        BY <2>1, <3>2, <4>1 DEF OnlyProc
    <3> QED
      BY <3>1, <3>2
  <2> QED
    BY <1>2, <2>1 DEF Working
<1>7. NoReload' /\ \A e \in Conns : ~Fetching(sync[e])
  BY <1>2, <1>4, <1>5 DEF Curr, NoReload, Fetching
<1>8. newTx[r].pc # "scan" => newTx[r].load = IdleLoad
  BY <1>4 DEF LoadsRest
\* A step that neither loads nor saves.
<1>9. ASSUME UNCHANGED <<subscribed, history, loaded>>, ~Fetching(newTx[r].load), newTx'[r].load = IdleLoad,
             newTx[r].pc # "add", newTx'[r].pc # "add",
             newTx'[r].pc # "idle" => newTx'[r].tx = newTx[r].tx,
             newTx'[r].pc = "resave" => newTx'[r].version = history[newTx[r].tx]
      PROVE  Curr'
  <2>1. Busy' = Busy /\ Adding' = Adding
    BY <1>2, <1>5, <1>9, BusyStays, AddingStays, IdleIsQuiet
  <2>2. RunnersKeep /\ ResaveOK'
    BY <1>2, <1>5, <1>9 DEF RunnersKeep, ResaveOK
  <2>3. CurrInv'
    BY <1>2, <1>3, <1>4, <1>6, <1>7, <1>9, <2>1, <2>2, CurrentStays
  <2> QED
    BY <2>3 DEF CurrInv
<1>10. CASE Mark(r)
  <2>1. /\ newTx[r].pc = "scan" /\ newTx[r].load.pc = "done" /\ SameMessage(r) /\ newTx'[r].load = IdleLoad
        /\ newTx'[r].pc \in {"credit", "clean", "finish"} /\ UNCHANGED <<subscribed, history, loaded>>
    BY <1>10, MarkIs DEF Connection
  <2> QED
    BY <1>9, <2>1 DEF SameMessage, Fetching
<1>11. ASSUME NEW pcs, GoesOn(r, pcs), pcs \subseteq {"finish", "walk", "resave"}, newTx[r].pc \notin {"add", "scan"},
              newTx'[r].pc = "resave" => newTx'[r].version = history[newTx[r].tx]
       PROVE  Curr'
  <2>1. /\ newTx'[r].pc \in {"finish", "walk", "resave"} /\ newTx'[r].tx = newTx[r].tx
        /\ newTx'[r].load = IdleLoad /\ UNCHANGED <<subscribed, history, loaded>>
    BY <1>8, <1>11 DEF GoesOn, Connection
  <2> QED
    BY <1>8, <1>9, <1>11, <2>1, IdleIsQuiet
<1>12. CASE Credit(r) \/ CleanMetadata(r) \/ Walk(r)
  <2>1. newTx[r].pc \notin {"add", "scan"} /\ GoesOn(r, {"finish", "walk"})
    BY <1>12, CreditIs, CleanMetadataIs, WalkIs DEF GoesOn
  <2>2. newTx'[r].pc # "resave"
    BY <2>1 DEF GoesOn
  <2> QED
    BY <1>11, <2>1, <2>2
<1>13. ASSUME NEW pc, Ends(r, pc), history' = history, newTx[r].pc \notin {"add", "scan"} PROVE Curr'
  <2>1. newTx'[r] = IdleNewTx /\ UNCHANGED <<subscribed, loaded>>
    BY <1>13 DEF Ends, Connection
  <2> QED
    BY <1>8, <1>9, <1>13, <2>1, IdleIsTyped, IdleIsQuiet
<1>14. CASE WalkThrows(r)
  BY <1>13, <1>14, WalkThrowsIs
<1>15. CASE Finish(r)
  <2>1. newTx[r].pc = "finish"
    BY <1>15, FinishIs
  <2>2. CASE Ends(r, "drain") /\ UNCHANGED <<fails, history>>
    BY <1>13, <2>1, <2>2
  <2>3. CASE GoesOn(r, {"resave"}) /\ newTx'[r].version = history[newTx[r].tx]
    BY <1>11, <2>1, <2>3
  <2> QED
    BY <1>15, <2>2, <2>3, FinishIs
<1>16. CASE Resave(r)
  <2>1. /\ newTx[r].pc = "resave" /\ Ends(r, "drain")
        /\ history' = [history EXCEPT ![newTx[r].tx] = newTx[r].version]
    BY <1>16, ResaveIs
  <2>2. newTx[r].version = history[newTx[r].tx]
    BY <1>4, <2>1 DEF Curr, ResaveOK
  <2>3. history' = history
    BY <2>1, <2>2 DEF TypeOK, StorageOK, Page
  <2> QED
    BY <1>13, <2>1, <2>3
<1>17. CASE Scan(r)
  <2> DEFINE l == newTx[r].load
  <2>1. LoadStep(l) /\ l \in Load /\ newTx'[r].load = Loads(l) /\ newTx[r].pc = "scan" /\ newTx'[r].pc = "scan"
        /\ newTx'[r].tx = newTx[r].tx
    BY <1>17, ScanIs DEF SameMessage
  <2>2. LoadOK(l, loaded)
    BY <1>4 DEF GapInv
  <2>3. \A k : k \in Busy <=> Fetching(l) /\ k = l
    <3>1. \A k \in {sync[f] : f \in Conns} \cup {newTx[q].load : q \in Runners} : Fetching(k) => k = l
      BY <1>5, <1>7, IdleIsQuiet
    <3> QED
      BY <3>1, OneIsBusy
  <2>4. \A k : k \in Busy' <=> Fetching(Loads(l)) /\ k = Loads(l)
    <3>1. \A k : k \in Busy' <=> /\ Fetching(k)
                                 /\ (\E f \in Conns : k = sync'[f]) \/ (\E q \in Runners : k = newTx'[q].load)
      BY DEF Busy
    <3>2. \A f \in Conns : ~Fetching(sync'[f])
      BY <1>2, <1>7
    <3>3. \A q \in Runners : q # r => ~Fetching(newTx'[q].load)
      BY <1>5, IdleIsQuiet
    <3> QED
      BY <2>1, <3>1, <3>2, <3>3
  <2>5. Adding = {} /\ Adding' = {} /\ RunnersKeep /\ ResaveOK'
    BY <1>2, <1>5, <2>1 DEF Adding, RunnersKeep, ResaveOK
  <2> HIDE DEF l
  <2> QED
    BY <1>2, <1>3, <1>4, <1>6, <1>7, <2>1, <2>2, <2>3, <2>4, <2>5, LoadIsCurrent
<1>18. CASE AddTx(r)
  <2> DEFINE n == newTx[r]
  <2>1. /\ n.pc = "add" /\ newTx'[r].pc = "scan" /\ newTx'[r].tx = n.tx
        /\ newTx'[r].load = MoreToLoad(IdleLoad, used') /\ used' \in Nat
        /\ history' = [history EXCEPT ![n.tx] = n.version]
        /\ UNCHANGED <<subscribed, loaded>>
    BY <1>18, AddTxIs DEF SameMessage, Connection
  <2>2. n.tx \in Txs /\ history'[n.tx] = n.version /\ \A t \in Txs : t # n.tx => history'[t] = history[t]
    BY <2>1 DEF TypeOK, TasksOK, StorageOK, Page
  <2>3. ~Fetching(newTx'[r].load) /\ ~Fetching(n.load)
    <3>1. ~Fetching(newTx'[r].load)
      BY <2>1, MoreIsOK, NothingIsTyped DEF Fetching, TypeOK, StorageOK
    <3> QED
      BY <1>8, <2>1, <3>1, IdleIsQuiet
  <2>4. Busy = {} /\ Busy' = {}
    <3>1. Busy = {}
      BY <1>5, <1>7, <2>3, NobodyIsBusy, IdleIsQuiet
    <3>2. Busy' = Busy
      BY <1>2, <1>5, <2>3, BusyStays
    <3> QED
      BY <3>1, <3>2
  <2>5. \A k : k \in Adding <=> k = n
    BY <1>5, <2>1, OneAdds
  <2>6. Adding' = {}
    <3>1. \A q \in Runners : newTx'[q].pc # "add"
      BY <1>5, <2>1
    <3> QED
      BY <3>1 DEF Adding
  <2>7. RunnersKeep /\ ResaveOK'
    BY <1>2, <1>5, <2>1 DEF RunnersKeep, ResaveOK
  <2>8. Subscribed' /\ PagesOK'
    BY <1>4, <2>1, <2>4 DEF Curr, Subscribed, PagesOK
  <2> HIDE DEF n
  <2>9. LaterUnheard'
    <3> SUFFICES ASSUME NEW t \in Txs, AddrOf[t] >= loaded PROVE Unheard(t)'
      BY <2>1 DEF LaterUnheard
    <3>1. Unheard(t)
      BY <1>4 DEF Curr, LaterUnheard
    <3>2. t # n.tx
      BY <1>2, <3>1 DEF Unheard, n
    <3> QED
      BY <1>2, <2>2, <2>7, <3>1, <3>2 DEF Unheard, RunnersKeep
  <2>10. AllCurrent'
    <3> SUFFICES ASSUME Working' \/ wsTxQueue' = <<>>, NEW t \in Txs PROVE Current(t)'
      BY DEF AllCurrent
    <3>1. Current(t) /\ Queue' = Queue
      BY <1>2, <1>4, <1>6, QueueStays DEF Curr, AllCurrent
    <3>2. ASSUME Known(t) PROVE Known(t)'
      <4>1. n.tx = t => history'[t] = server[t]
        BY <2>2, <2>5, <3>2 DEF Known
      <4>2. n.tx # t => history[t] = server[t] \/ AddrOf[t] >= loaded
        BY <2>4, <2>5, <3>2 DEF Known
      <4>3. history'[t] = server'[t] \/ AddrOf[t] >= loaded'
        BY <1>2, <2>1, <2>2, <4>1, <4>2
      <4> QED
        BY <2>4, <2>6, <4>3 DEF Known
    <3> QED
      BY <1>2, <3>1, <3>2 DEF Current
  <2> QED
    BY <1>7, <2>7, <2>8, <2>9, <2>10 DEF Curr
<1> QED
  BY <1>3, <1>10, <1>12, <1>14, <1>15, <1>16, <1>17, <1>18 DEF NewTxStep

LEMMA ConnectionIsCurrent ==
  ASSUME CurrInv, Start \/ ConnectionDown \/ Stop \/ StopEnd
  PROVE  CurrInv'
<1>1. server' = server
  BY DEF Start, ConnectionDown, Stop, StopEnd, fullnode
<1>2. conn' # "CONNECTED" \/ walletStopped'
  BY DEF Start, ConnectionDown, Stop, StopEnd
<1> QED
  BY <1>1, <1>2 DEF CurrInv, FirstConn

\* The first connection opens on a wallet that knows nothing.
LEMMA ConnectionUpIsCurrent == ASSUME TypeOK, Serial, CurrInv, ConnectionUp PROVE CurrInv'
<1> DEFINE e == conns + 1
<1>1. /\ conns' = e /\ e \in Conns /\ OnlySync(e)
      /\ sync'[e].pc = IF firstConnection THEN "subscribe" ELSE "reload"
      /\ UNCHANGED <<server, subscribed, wire, wsTxQueue, newTxPromise, history, loaded, newTx>>
  BY ConnectionUpIs
<1> SUFFICES ASSUME FirstConn' PROVE Curr'
  BY <1>1 DEF CurrInv
<1>2. conns = 0
  BY <1>1 DEF FirstConn, TypeOK, FieldsOK
<1>3. /\ NoTasks /\ firstConnection /\ LoadsRest
      /\ wire = <<>> /\ wsTxQueue = <<>> /\ newTxPromise = <<>> /\ subscribed = {}
      /\ loaded = 0 /\ history = NoPage
  BY <1>2 DEF Serial, Fresh, NoTasks
<1> HIDE DEF e
<1>4. /\ \A f \in Conns : sync'[f].pc \in {"idle", "subscribe"}
      /\ \A r \in Runners : newTx'[r].pc = "idle" /\ newTx'[r].load = IdleLoad
  BY <1>1, <1>3 DEF NoTasks, LoadsRest, OnlySync
<1>5. Busy' = {} /\ Adding' = {}
  <2>1. Busy' = {}
    <3>1. \A f \in Conns : ~Fetching(sync'[f])
      BY <1>4 DEF Fetching
    <3>2. \A r \in Runners : ~Fetching(newTx'[r].load)
      BY <1>4, IdleIsQuiet
    <3> QED
      BY <3>1, <3>2 DEF Busy
  <2>2. Adding' = {}
    BY <1>4 DEF Adding
  <2> QED
    BY <2>1, <2>2
<1>6. Subscribed' /\ NoReload' /\ PagesOK' /\ ResaveOK'
  BY <1>1, <1>3, <1>4, <1>5 DEF Subscribed, NoReload, PagesOK, ResaveOK
<1>7. LaterUnheard'
  <2>1. \A t \in Txs : history'[t] = NoVersion
    BY <1>1, <1>3 DEF NoPage
  <2> QED
    BY <1>1, <1>3, <1>4, <2>1, NothingIsTold DEF LaterUnheard, Unheard
<1>8. AllCurrent'
  <2> SUFFICES ASSUME NEW t \in Txs PROVE Current(t)'
    BY DEF AllCurrent
  <2>1. Queue' = <<>> /\ wire' = <<>>
    BY <1>1, <1>3 DEF Queue
  <2>2. AddrOf[t] >= loaded'
    BY <1>1, <1>3, WalletAssumption
  <2>3. Known(t)'
    BY <1>5, <2>2 DEF Known
  <2> QED
    BY <2>1, <2>3, NothingIsTold DEF Current
<1> QED
  BY <1>6, <1>7, <1>8 DEF Curr

LEMMA NextIsCurrent == TypeOK /\ Serial /\ GapInv /\ CurrInv /\ [Next]_vars => CurrInv'
<1> SUFFICES ASSUME TypeOK, Serial, GapInv, CurrInv, [Next]_vars PROVE CurrInv'
  OBVIOUS
<1>1. CASE UNCHANGED vars
  <2>1. UNCHANGED <<server, conn, subscribed, wire, conns, sync, proc, newTx, fails, walletStopped, history, loaded,
                    wsTxQueue, newTxPromise>>
    BY <1>1 DEF vars, fullnode, fields, storage, tasks, bounds
  <2>2. Busy' = Busy /\ Adding' = Adding /\ Working' = Working /\ RunnersKeep
    BY <2>1 DEF Busy, Adding, Working, RunnersKeep
  <2>3. FirstConn' => FirstConn /\ Alone
    BY <2>1, FirstIsAlone DEF FirstConn
  <2>4. FirstConn => ResaveOK' /\ NoReload'
    BY <2>1 DEF CurrInv, Curr, ResaveOK, NoReload
  <2> QED
    BY <2>1, <2>2, <2>3, <2>4, CurrentStays
<1>2. CASE WalletStep
  BY <1>2, MessageIsCurrent, ConnectionIsCurrent, ProcIsCurrent, SyncIsCurrent, NewTxIsCurrent DEF WalletStep, SyncStep
<1>3. CASE Environment
  BY <1>3, PublishIsCurrent, ConnectionIsCurrent, ConnectionUpIsCurrent, SyncIsCurrent, NewTxIsCurrent DEF Environment
<1> QED
  BY <1>1, <1>2, <1>3 DEF Next

\* A wallet at rest on its first connection has the fullnode's last version of every transaction of its
\* addresses: none fell between the subscription, the history request, the queue and the chain, and none
\* was overwritten by an older one.
THEOREM TheHistoryIsCurrent == Spec => []HistoryCurrent
<1>1. Init => TypeOK /\ Serial /\ GapInv /\ CurrInv
  <2>1. Init => GapInv
    BY DEF Init, GapInv, Undisturbed
  <2>2. Init => CurrInv
    BY DEF Init, CurrInv, FirstConn, NoPage
  <2> QED
    BY <2>1, <2>2, InitIsTyped, InitIsSerial
<1>2. TypeOK /\ Serial /\ CurrInv => HistoryCurrent
  <2> SUFFICES ASSUME TypeOK, Serial, CurrInv, AtRest, conn = "CONNECTED", conns = 1, wire = <<>>, wsTxQueue = <<>>,
                      NEW t \in Txs, AddrOf[t] < loaded
               PROVE  history[t] = server[t]
    BY DEF HistoryCurrent
  <2>1. TasksIdle /\ fails = 0
    BY DEF AtRest
  <2>2. FirstConn /\ LoadsRest
    BY <2>1 DEF FirstConn, Serial, Stopped, TasksIdle
  <2>3. \A e \in Conns : sync[e].pc = "idle" /\ proc[e].pc = "idle"
    BY <2>1 DEF TasksIdle
  <2>4. \A r \in Runners : newTx[r].pc = "idle" /\ newTx[r].load = IdleLoad
    BY <2>1, <2>2 DEF TasksIdle, LoadsRest
  <2>5. Busy = {} /\ Adding = {}
    BY <2>3, <2>4, NobodyIsBusy, IdleIsQuiet DEF Fetching, Adding
  <2>6. Queue = <<>>
    BY <2>1 DEF Queue, TasksIdle
  <2>7. Current(t)
    BY <2>2 DEF CurrInv, Curr, AllCurrent
  <2>8. Known(t)
    BY <2>6, <2>7, NothingIsTold DEF Current
  <2>9. ~(AddrOf[t] >= loaded)
    BY WalletAssumption DEF TypeOK, StorageOK
  <2> QED
    BY <2>5, <2>8, <2>9 DEF Known
<1> QED
  BY <1>1, <1>2, NextIsTyped, NextIsSerial, NextKeepsTheGap, NextIsCurrent, PTL DEF Spec

=============================================================================
