------------------------ MODULE StockMovements_proofs ------------------------
(***************************************************************************)
(* What holds of the lots for any number of lots, requests and amounts:    *)
(* orders keep what they were promised whatever a request wrongly          *)
(* believes, and only a stale request can part a balance from its ledger.  *)
(* The inductive invariant is TypeOK with LocksHaveOwners and the fact     *)
(* that a request with nothing to do believes nothing, which is what makes *)
(* a change under the lock a change of the amounts as they are.            *)
(***************************************************************************)
EXTENDS StockMovements, TLAPS

WhileIdle == \A c \in Clerks : job[c] = Idle => DOMAIN seen[c] = {}

Inv == TypeOK /\ WithinStock /\ LocksHaveOwners /\ WhileIdle

(* What a request believes of a lot is an amount of stock. *)
LEMMA SessionType ==
  ASSUME TypeOK, NEW c \in Clerks, NEW l \in Lots
  PROVE  Session(c, l) \in Amount
BY DEF TypeOK, Session, Amount

(* A commit leaves every lot it touches with the stock orders hold, and    *)
(* both tables well formed.                                                *)
LEMMA MoveKeepsStock ==
  ASSUME TypeOK, WithinStock, NEW c \in Clerks, NEW lots \in SUBSET Lots,
         NEW gain \in [lots -> Int], Move(c, lots, gain), reserved' = reserved
  PROVE  /\ quantity' \in [Lots -> Nat]
         /\ ledger' \in [Lots -> Int]
         /\ WithinStock'
<1> DEFINE new(l) == Session(c, l).q + gain[l]
<1>1. \A l \in lots : Session(c, l).r \in Nat /\ Session(c, l).q \in Nat
  BY SessionType DEF Amount
<1>2. \A l \in lots : new(l) \in Nat /\ reserved[l] <= new(l)
  BY <1>1, MaxStockAssumption DEF Move
<1>3. quantity' = [l \in Lots |-> IF l \in lots THEN new(l) ELSE quantity[l]]
  BY DEF Move
<1>4. ledger' = [l \in Lots |-> IF l \in lots THEN ledger[l] + gain[l] ELSE ledger[l]]
  BY DEF Move
<1> HIDE DEF new
<1> QED BY <1>2, <1>3, <1>4 DEF TypeOK, WithinStock

(* A commit parts the two tables only at a lot whose stored amount is not  *)
(* the one the request believes.                                           *)
LEMMA MoveDrift ==
  ASSUME TypeOK, NEW c \in Clerks, NEW lots \in SUBSET Lots,
         NEW gain \in [lots -> Int], Move(c, lots, gain),
         NEW l \in Lots, Drift(l)' # Drift(l)
  PROVE  l \in DOMAIN seen[c] /\ seen[c][l].q # quantity[l]
<1>1. quantity[l] \in Nat /\ ledger[l] \in Int
  BY DEF TypeOK
<1>2. l \in lots
  BY <1>1 DEF Move, Drift
<1>3. Session(c, l).q \in Nat /\ gain[l] \in Int
  BY <1>2, SessionType DEF Amount
<1>4. /\ quantity'[l] = Session(c, l).q + gain[l]
      /\ ledger'[l] = ledger[l] + gain[l]
  BY <1>2 DEF Move
<1>5. Session(c, l).q # quantity[l]
  BY <1>1, <1>3, <1>4 DEF Drift
<1> QED BY <1>5 DEF Session

(* Every job that carries goods names two lots, and every change a request *)
(* makes is one Move over lots of the model.                               *)
LEMMA CarryIsMove ==
  ASSUME TypeOK, NEW c \in Clerks, job[c].doing \in {"transfer", "move", "package"},
         NEW n \in Amounts, NEW m \in Amounts, Carry(c, n, m)
  PROVE  \E lots \in SUBSET Lots : \E gain \in [lots -> Int] : Move(c, lots, gain)
<1>1. job[c].from \in Lots /\ job[c].to \in Lots
  BY DEF TypeOK, Jobs, Idle
<1> DEFINE lots == {job[c].from, job[c].to}
           gain == [l \in lots |-> IF l = job[c].from THEN -n ELSE m]
<1>2. Move(c, lots, gain)
  BY DEF Carry
<1>3. n \in Int /\ m \in Int
  BY AmountsAssumption
<1>4. gain \in [lots -> Int]
  BY <1>3
<1> QED BY <1>1, <1>2, <1>4

(* The commits of a request, whichever operation it is in. *)
Commits(c) ==
  \E lots \in SUBSET Lots : \E gain \in [lots -> Int] : Move(c, lots, gain)

LEMMA ApplyIsMove ==
  ASSUME TypeOK, NEW c \in Clerks,
         ReceiveApply(c) \/ TransferApply(c) \/ MoveApply(c) \/ PackageApply(c)
  PROVE  /\ Commits(c) /\ End(c)
         /\ UNCHANGED reserved
         /\ job[c] # Idle
<1>1. CASE ReceiveApply(c)
  <2>1. job[c].to \in Lots
    BY <1>1 DEF ReceiveApply, TypeOK, Jobs, Idle
  <2>2. PICK n \in Amounts : Move(c, {job[c].to}, [k \in {job[c].to} |-> n])
    BY <1>1 DEF ReceiveApply
  <2>3. n \in Int
    BY AmountsAssumption
  <2> QED BY <1>1, <2>1, <2>2, <2>3 DEF ReceiveApply, Commits, Idle
<1>2. CASE TransferApply(c)
  BY <1>2, CarryIsMove DEF TransferApply, Commits, Idle
<1>3. CASE MoveApply(c)
  BY <1>3, CarryIsMove DEF MoveApply, Commits, Idle
<1>4. CASE PackageApply(c)
  BY <1>4, CarryIsMove DEF PackageApply, Commits, Idle
<1> QED BY <1>1, <1>2, <1>3, <1>4

(* What is taken out of the lots is taken in whole numbers. *)
LEMMA TakeOutIsMove ==
  ASSUME NEW c \in Clerks, NEW amount, TakeOut(c, amount)
  PROVE  Commits(c) /\ UNCHANGED <<reserved, holder, job, seen>>
<1>1. PICK t \in [Lots -> 0..amount] :
        LockedChange(c, {l \in Lots : t[l] > 0}, [l \in {k \in Lots : t[k] > 0} |-> -t[l]])
  BY DEF TakeOut, Takings
<1> DEFINE lots == {l \in Lots : t[l] > 0}
           gain == [l \in lots |-> -t[l]]
<1>2. gain \in [lots -> Int] /\ lots \in SUBSET Lots
  OBVIOUS
<1>3. Move(c, lots, gain) /\ UNCHANGED <<reserved, holder, job, seen>>
  BY <1>1 DEF LockedChange
<1> QED BY <1>2, <1>3 DEF Commits

(* One lot gaining or losing a whole number. *)
LEMMA OneLotIsMove ==
  ASSUME NEW c \in Clerks, NEW l \in Lots, NEW delta \in Int,
         LockedChange(c, {l}, [k \in {l} |-> delta])
  PROVE  Commits(c) /\ UNCHANGED <<reserved, holder, job, seen>>
<1>1. {l} \in SUBSET Lots /\ [k \in {l} |-> delta] \in [{l} -> Int]
  OBVIOUS
<1> QED BY <1>1 DEF LockedChange, Commits

(* A change under the lock is one commit by a request that believes        *)
(* nothing yet.                                                            *)
LockedStep(c) ==
  CreateMovement(c) \/ ReconcileStock(c) \/ RemoveStock(c) \/ CorrectStock(c)

LEMMA LockedIsMove ==
  ASSUME TypeOK, NEW c \in Clerks, LockedStep(c)
  PROVE  Commits(c) /\ job[c] = Idle /\ UNCHANGED <<reserved, holder, job, seen>>
<1>1. CASE CreateMovement(c)
  <2>1. PICK l \in Lots, n \in Amounts :
          \E delta \in {n, -n} : LockedChange(c, {l}, [k \in {l} |-> delta])
    BY <1>1 DEF CreateMovement
  <2>2. PICK delta \in {n, -n} : LockedChange(c, {l}, [k \in {l} |-> delta])
    BY <2>1
  <2>3. delta \in Int
    BY AmountsAssumption
  <2> QED BY <1>1, <2>2, <2>3, OneLotIsMove DEF CreateMovement
<1>2. CASE ReconcileStock(c)
  <2>1. PICK l \in Lots, count \in 0..MaxStock :
          LockedChange(c, {l}, [k \in {l} |-> count - quantity[l]])
    BY <1>2 DEF ReconcileStock
  <2>2. count - quantity[l] \in Int
    BY MaxStockAssumption DEF TypeOK
  <2> QED BY <1>2, <2>1, <2>2, OneLotIsMove DEF ReconcileStock
<1>3. CASE RemoveStock(c)
  BY <1>3, TakeOutIsMove DEF RemoveStock
<1>4. CASE CorrectStock(c)
  <2>1. PICK difference \in 1..MaxStock :
          \/ TakeOut(c, difference)
          \/ \E l \in Lots : LockedChange(c, {l}, [k \in {l} |-> difference])
    BY <1>4 DEF CorrectStock
  <2>2. difference \in Int
    BY MaxStockAssumption
  <2> QED BY <1>4, <2>1, <2>2, TakeOutIsMove, OneLotIsMove DEF CorrectStock
<1> QED BY <1>1, <1>2, <1>3, <1>4 DEF LockedStep

(* Ending a request frees its locks and forgets what it believed. *)
LEMMA EndKeepsOwners ==
  ASSUME Inv, NEW c \in Clerks, End(c)
  PROVE  /\ LocksHaveOwners' /\ WhileIdle'
         /\ holder' \in [Lots -> Clerks \cup {Nobody}]
         /\ job' \in [Clerks -> Jobs]
         /\ DOMAIN seen' = Clerks
         /\ \A d \in Clerks : /\ DOMAIN seen'[d] \subseteq Lots
                              /\ \A l \in DOMAIN seen'[d] : seen'[d][l] \in Amount
         /\ job'[c] = Idle
<1> USE DEF Inv, TypeOK, End
<1>1. Idle \in Jobs /\ DOMAIN Nothing = {}
  BY DEF Jobs, Nothing
<1>2. \A l \in Lots : holder'[l] # Nobody => holder'[l] = holder[l] /\ holder[l] # c
  OBVIOUS
<1>3. \A d \in Clerks : d # c => job'[d] = job[d] /\ seen'[d] = seen[d]
  OBVIOUS
<1>4. job'[c] = Idle /\ seen'[c] = Nothing
  OBVIOUS
<1>5. LocksHaveOwners'
  BY <1>2, <1>3 DEF LocksHaveOwners
<1>6. WhileIdle'
  BY <1>1, <1>3, <1>4 DEF WhileIdle
<1> QED BY <1>1, <1>3, <1>4, <1>5, <1>6

(* A read takes amounts of stock. *)
LEMMA ReadType ==
  ASSUME TypeOK, NEW c \in Clerks, NEW lots \in SUBSET Lots, Read(c, lots)
  PROVE  /\ DOMAIN seen' = Clerks
         /\ \A d \in Clerks : /\ DOMAIN seen'[d] \subseteq Lots
                              /\ \A l \in DOMAIN seen'[d] : seen'[d][l] \in Amount
         /\ \A d \in Clerks : d # c => seen'[d] = seen[d]
<1>1. \A l \in lots : [q |-> quantity[l], r |-> reserved[l]] \in Amount
  BY DEF TypeOK, Amount
<1> DEFINE snap == [l \in lots |-> [q |-> quantity[l], r |-> reserved[l]]]
<1>2. DOMAIN snap = lots /\ \A l \in lots : snap[l] \in Amount
  BY <1>1
<1>3. seen' = [seen EXCEPT ![c] = snap]
  BY DEF Read
<1> HIDE DEF snap
<1> QED BY <1>2, <1>3 DEF TypeOK

LEMMA InvInit ==
  ASSUME Init
  PROVE  Inv
<1>1. DOMAIN Nothing = {} /\ Idle \in Jobs
  BY DEF Nothing, Jobs
<1> QED BY <1>1, MaxStockAssumption, NobodyAssumption
        DEF Init, Inv, TypeOK, WithinStock, LocksHaveOwners, WhileIdle

LEMMA InvNext ==
  ASSUME Inv, [Next]_vars
  PROVE  Inv'
<1>1. CASE UNCHANGED vars
  BY <1>1 DEF vars, Inv, TypeOK, WithinStock, LocksHaveOwners, WhileIdle
<1>2. CASE OrderStep
  <2> PICK l \in Lots : Reserve(l) \/ Release(l) \/ Dispatch(l)
    BY <1>2 DEF OrderStep
  <2>0. UNCHANGED <<holder, job, seen>>
    BY DEF Reserve, Release, Dispatch
  <2>1. /\ quantity' \in [Lots -> Nat] /\ reserved' \in [Lots -> Nat]
        /\ ledger' \in [Lots -> Int] /\ WithinStock'
    <3>1. CASE Reserve(l)
      BY <3>1, AmountsAssumption DEF Reserve, Inv, TypeOK, WithinStock
    <3>2. CASE Release(l)
      BY <3>2, AmountsAssumption DEF Release, Inv, TypeOK, WithinStock
    <3>3. CASE Dispatch(l)
      <4>1. PICK n \in Amounts : /\ n <= reserved[l]
                                 /\ reserved' = [reserved EXCEPT ![l] = @ - n]
                                 /\ quantity' = [quantity EXCEPT ![l] = @ - n]
                                 /\ ledger' = [ledger EXCEPT ![l] = @ - n]
        BY <3>3 DEF Dispatch
      <4>2. n \in Nat
        BY AmountsAssumption
      <4> QED BY <4>1, <4>2 DEF Inv, TypeOK, WithinStock
    <3> QED BY <3>1, <3>2, <3>3
  <2> QED BY <2>0, <2>1 DEF Inv, TypeOK, LocksHaveOwners, WhileIdle
<1>3. ASSUME NEW c \in Clerks, ClerkStep(c)
      PROVE  Inv'
  <2>1. CASE LockedStep(c)
    <3>1. Commits(c) /\ UNCHANGED <<reserved, holder, job, seen>>
      BY <2>1, LockedIsMove DEF Inv
    <3>2. quantity' \in [Lots -> Nat] /\ ledger' \in [Lots -> Int] /\ WithinStock'
      BY <3>1, MoveKeepsStock DEF Commits, Inv
    <3> QED BY <3>1, <3>2 DEF Inv, TypeOK, LocksHaveOwners, WhileIdle
  <2>2. CASE ReceiveApply(c) \/ TransferApply(c) \/ MoveApply(c) \/ PackageApply(c)
    <3>1. Commits(c) /\ End(c) /\ UNCHANGED reserved
      BY <2>2, ApplyIsMove DEF Inv
    <3>2. quantity' \in [Lots -> Nat] /\ ledger' \in [Lots -> Int] /\ WithinStock'
      BY <3>1, MoveKeepsStock DEF Commits, Inv
    <3> QED BY <3>1, <3>2, EndKeepsOwners DEF Inv, TypeOK
  <2>3. CASE Refuse(c) \/ BreakDeadlock(c)
    <3>1. End(c) /\ UNCHANGED <<quantity, reserved, ledger>>
      BY <2>3 DEF Refuse, BreakDeadlock
    <3> QED BY <3>1, EndKeepsOwners DEF Inv, TypeOK, WithinStock
  <2>4. ASSUME NEW l \in Lots, ReceiveRead(c, l)
        PROVE  Inv'
    <3>1. job'[c] # Idle /\ job' \in [Clerks -> Jobs]
          /\ \A d \in Clerks : d # c => job'[d] = job[d]
      BY <2>4 DEF ReceiveRead, Inv, TypeOK, Jobs, Idle
    <3>2. \A k \in Lots : holder[k] # c
      BY <2>4, NobodyAssumption DEF ReceiveRead, Inv, LocksHaveOwners, Idle
    <3> QED BY <2>4, <3>1, <3>2, ReadType
            DEF ReceiveRead, Inv, TypeOK, WithinStock, LocksHaveOwners, WhileIdle
  <2>5. ASSUME NEW from \in Lots, NEW to \in Lots, MoveRead(c, from, to) \/ PackageRead(c, from, to)
        PROVE  Inv'
    <3>1. job'[c] # Idle /\ job' \in [Clerks -> Jobs]
          /\ \A d \in Clerks : d # c => job'[d] = job[d]
      BY <2>5 DEF MoveRead, PackageRead, Inv, TypeOK, Jobs, Idle
    <3>2. \A k \in Lots : holder[k] # c
      BY <2>5, NobodyAssumption DEF MoveRead, PackageRead, Inv, LocksHaveOwners, Idle
    <3>3. Read(c, {from, to}) \/ Read(c, {to})
      BY <2>5 DEF MoveRead, PackageRead
    <3>4. /\ DOMAIN seen' = Clerks
          /\ \A d \in Clerks : /\ DOMAIN seen'[d] \subseteq Lots
                               /\ \A l \in DOMAIN seen'[d] : seen'[d][l] \in Amount
          /\ \A d \in Clerks : d # c => seen'[d] = seen[d]
      BY <3>3, ReadType DEF Inv
    <3>5. UNCHANGED <<quantity, reserved, ledger, holder>>
      BY <2>5 DEF MoveRead, PackageRead
    <3> QED BY <3>1, <3>2, <3>4, <3>5
            DEF Inv, TypeOK, WithinStock, LocksHaveOwners, WhileIdle
  <2>6. ASSUME NEW from \in Lots, NEW to \in Lots, TransferLock(c, from, to)
        PROVE  Inv'
    <3>1. /\ job'[c].doing = "transfer" /\ job'[c].from = from /\ job'[c] # Idle
          /\ job' \in [Clerks -> Jobs]
          /\ \A d \in Clerks : d # c => job'[d] = job[d]
      BY <2>6 DEF TransferLock, Inv, TypeOK, Jobs, Idle
    <3>2. \A k \in Lots : holder[k] # c
      BY <2>6, NobodyAssumption DEF TransferLock, Inv, LocksHaveOwners, Idle
    <3>3. holder' = [holder EXCEPT ![from] = c] /\ UNCHANGED <<quantity, reserved, ledger, seen>>
      BY <2>6 DEF TransferLock
    <3> QED BY <3>1, <3>2, <3>3
            DEF Inv, TypeOK, WithinStock, LocksHaveOwners, WhileIdle
  <2>7. CASE TransferRead(c)
    <3>1. job[c] # Idle /\ job[c].to \in Lots
      BY <2>7 DEF TransferRead, Inv, TypeOK, Jobs, Idle
    <3>2. Read(c, {job[c].to}) /\ UNCHANGED <<quantity, reserved, ledger, holder, job>>
      BY <2>7 DEF TransferRead
    <3>3. /\ DOMAIN seen' = Clerks
          /\ \A d \in Clerks : /\ DOMAIN seen'[d] \subseteq Lots
                               /\ \A l \in DOMAIN seen'[d] : seen'[d][l] \in Amount
          /\ \A d \in Clerks : d # c => seen'[d] = seen[d]
      BY <3>1, <3>2, ReadType DEF Inv
    <3> QED BY <3>1, <3>2, <3>3
            DEF Inv, TypeOK, WithinStock, LocksHaveOwners, WhileIdle
  <2> QED BY <1>3, <2>1, <2>2, <2>3, <2>4, <2>5, <2>6, <2>7 DEF ClerkStep, LockedStep
<1> QED BY <1>1, <1>2, <1>3 DEF Next

THEOREM StockInvariance == Spec => []Inv
BY InvInit, InvNext, PTL DEF Spec

(* The state of the lots and of the requests is always well formed. *)
THEOREM StockTypeCorrect == Spec => []TypeOK
BY StockInvariance, PTL DEF Inv

(* No commit, however stale, leaves a lot with less than orders hold. *)
THEOREM OrdersKeepTheirStock == Spec => []WithinStock
BY StockInvariance, PTL DEF Inv

(* A row lock kept between steps is always some transfer's source. *)
THEOREM LocksAlwaysHaveOwners == Spec => []LocksHaveOwners
BY StockInvariance, PTL DEF Inv

(* A step parts a lot's balance from its ledger only by committing on what *)
(* it read before somebody else changed the lot.                           *)
LEMMA DriftStep ==
  ASSUME Inv, [Next]_vars, NEW l \in Lots, Drift(l)' # Drift(l)
  PROVE  \E c \in Clerks : /\ job[c] # Idle /\ job'[c] = Idle
                           /\ l \in DOMAIN seen[c]
                           /\ seen[c][l].q # quantity[l]
<1>1. quantity[l] \in Nat /\ ledger[l] \in Int
  BY DEF Inv, TypeOK
<1>2. ~(UNCHANGED <<quantity, ledger>>)
  BY DEF Drift
<1>3. ASSUME OrderStep
      PROVE  FALSE
  <2> PICK k \in Lots : Reserve(k) \/ Release(k) \/ Dispatch(k)
    BY <1>3 DEF OrderStep
  <2>1. Dispatch(k)
    BY <1>2 DEF Reserve, Release
  <2>2. PICK n \in Amounts : /\ quantity' = [quantity EXCEPT ![k] = @ - n]
                             /\ ledger' = [ledger EXCEPT ![k] = @ - n]
    BY <2>1 DEF Dispatch
  <2>3. n \in Nat
    BY AmountsAssumption
  <2> QED BY <1>1, <2>2, <2>3 DEF Drift, Inv, TypeOK
<1>4. PICK c \in Clerks : ClerkStep(c)
  BY <1>2, <1>3 DEF Next, vars
<1>5. CASE LockedStep(c)
  <2>1. Commits(c) /\ job[c] = Idle
    BY <1>5, LockedIsMove DEF Inv
  <2>2. l \in DOMAIN seen[c]
    BY <2>1, MoveDrift DEF Commits, Inv
  <2> QED BY <2>1, <2>2 DEF Inv, WhileIdle
<1>6. CASE ReceiveApply(c) \/ TransferApply(c) \/ MoveApply(c) \/ PackageApply(c)
  <2>1. Commits(c) /\ End(c) /\ job[c] # Idle
    BY <1>6, ApplyIsMove DEF Inv
  <2>2. l \in DOMAIN seen[c] /\ seen[c][l].q # quantity[l]
    BY <2>1, MoveDrift DEF Commits, Inv
  <2> QED BY <2>1, <2>2, EndKeepsOwners
<1> QED BY <1>2, <1>4, <1>5, <1>6
        DEF ClerkStep, LockedStep, ReceiveRead, TransferLock, MoveRead, PackageRead, TransferRead,
            Refuse, BreakDeadlock

(* Balance and ledger part only through a stale read. *)
THEOREM OnlyStaleReadsDrift == Spec => DriftNeedsStaleRead
<1>1. Inv /\ [Next]_vars =>
        [\A l \in Lots : Drift(l)' # Drift(l) =>
           \E c \in Clerks : /\ job[c] # Idle /\ job'[c] = Idle
                             /\ l \in DOMAIN seen[c]
                             /\ seen[c][l].q # quantity[l]]_vars
  BY DriftStep
<1> QED BY <1>1, StockInvariance, PTL DEF Spec, DriftNeedsStaleRead

-----------------------------------------------------------------------------
(* The refinement of StockLedger, for requests whose reads are fresh.      *)

Fresh(c) == \A l \in DOMAIN seen[c] : seen[c][l].q = quantity[l]

InStep == Inv /\ BalanceMatchesLedger

(* A commit of a request whose reads are fresh changes both tables alike,  *)
(* by what it says it moves, and the CHECK keeps what is promised.         *)
LEMMA FreshMove ==
  ASSUME InStep, NEW c \in Clerks, Fresh(c), NEW lots \in SUBSET Lots,
         NEW gain \in [lots -> Int], Move(c, lots, gain)
  PROVE  /\ BalanceMatchesLedger'
         /\ ledger' = [l \in Lots |-> IF l \in lots THEN ledger[l] + gain[l] ELSE ledger[l]]
         /\ ledger' \in [Lots -> Nat]
         /\ \A l \in Lots : ledger[l] \in Nat /\ reserved[l] \in Nat /\ reserved[l] <= ledger[l]
         /\ \A l \in lots : reserved[l] <= ledger[l] + gain[l]
<1>1. \A l \in Lots : /\ quantity[l] \in Nat /\ reserved[l] \in Nat
                      /\ ledger[l] = quantity[l] /\ reserved[l] <= quantity[l]
  BY DEF InStep, Inv, TypeOK, WithinStock, BalanceMatchesLedger
<1>2. \A l \in lots : Session(c, l).q = ledger[l]
  BY <1>1 DEF Session, Fresh
<1>3. quantity' = [l \in Lots |-> IF l \in lots THEN Session(c, l).q + gain[l] ELSE quantity[l]]
  BY DEF Move
<1>4. ledger' = [l \in Lots |-> IF l \in lots THEN ledger[l] + gain[l] ELSE ledger[l]]
  BY DEF Move
<1>5. \A l \in lots : reserved[l] <= ledger[l] + gain[l]
  BY <1>2 DEF Move
<1>6. \A l \in Lots : quantity'[l] = ledger'[l] /\ ledger'[l] \in Nat
  BY <1>1, <1>2, <1>3, <1>4, <1>5
<1>7. ledger' \in [Lots -> Nat]
  BY <1>4, <1>6
<1> QED
  BY <1>1, <1>4, <1>5, <1>6, <1>7 DEF BalanceMatchesLedger

(* One lot's change is a posting. *)
LEMMA OneLotIsPost ==
  ASSUME InStep, NEW c \in Clerks, Fresh(c), NEW l \in Lots, NEW delta \in Int,
         Move(c, {l}, [k \in {l} |-> delta]), reserved' = reserved
  PROVE  BalanceMatchesLedger' /\ Books!Next
<1> DEFINE gain == [k \in {l} |-> delta]
<1>1. {l} \in SUBSET Lots /\ gain \in [{l} -> Int]
  OBVIOUS
<1>2. /\ BalanceMatchesLedger'
      /\ ledger' = [k \in Lots |-> IF k \in {l} THEN ledger[k] + gain[k] ELSE ledger[k]]
      /\ ledger' \in [Lots -> Nat]
      /\ reserved[l] <= ledger[l] + gain[l]
  BY <1>1, FreshMove
<1>3. Books!Post(l)
  BY <1>2 DEF Books!Post
<1> QED
  BY <1>2, <1>3 DEF Books!Next

(* What is taken out of several lots only lowers them. *)
LEMMA TakeOutIsTake ==
  ASSUME InStep, NEW c \in Clerks, Fresh(c), NEW amount, TakeOut(c, amount)
  PROVE  BalanceMatchesLedger' /\ Books!Next
<1>1. PICK t \in [Lots -> 0..amount] :
        LockedChange(c, {l \in Lots : t[l] > 0}, [l \in {k \in Lots : t[k] > 0} |-> -t[l]])
  BY DEF TakeOut, Takings
<1> DEFINE lots == {l \in Lots : t[l] > 0}
           gain == [l \in lots |-> -t[l]]
<1>2. gain \in [lots -> Int] /\ lots \in SUBSET Lots /\ \A l \in Lots : t[l] \in Nat
  OBVIOUS
<1>3. Move(c, lots, gain) /\ UNCHANGED reserved
  BY <1>1 DEF LockedChange
<1>4. \A l \in lots : gain[l] = -t[l]
  OBVIOUS
<1> HIDE DEF lots, gain
<1>5. /\ BalanceMatchesLedger'
      /\ ledger' = [l \in Lots |-> IF l \in lots THEN ledger[l] + gain[l] ELSE ledger[l]]
      /\ ledger' \in [Lots -> Nat]
      /\ \A l \in Lots : /\ ledger[l] \in Nat /\ reserved[l] \in Nat
                         /\ reserved[l] <= ledger[l]
      /\ \A l \in lots : reserved[l] <= ledger[l] + gain[l]
  BY ONLY InStep, c \in Clerks, Fresh(c), <1>2, <1>3, FreshMove
<1>6. \A l \in Lots : reserved[l] <= ledger'[l] /\ ledger'[l] <= ledger[l]
  BY <1>2, <1>4, <1>5
<1>7. Books!Take
  BY <1>3, <1>5, <1>6 DEF Books!Take
<1> QED
  BY <1>5, <1>7 DEF Books!Next

(* Goods that go from one lot to another are a carriage between the two    *)
(* lots, or, were they one lot, a posting.                                 *)
LEMMA CarryIsCarry ==
  ASSUME InStep, NEW c \in Clerks, Fresh(c), job[c].doing \in {"transfer", "move", "package"},
         NEW n \in Amounts, NEW m \in Amounts, m <= n, Carry(c, n, m), reserved' = reserved
  PROVE  BalanceMatchesLedger' /\ Books!Next
<1> DEFINE from == job[c].from
           to   == job[c].to
           lots == {from, to}
           gain == [l \in lots |-> IF l = from THEN -n ELSE m]
<1>1. from \in Lots /\ to \in Lots
  BY DEF InStep, Inv, TypeOK, Jobs, Idle
<1>2. n \in Nat /\ m \in Nat /\ n >= 1 /\ m >= 1
  BY AmountsAssumption
<1>3. Move(c, lots, gain)
  BY DEF Carry
<1>4. gain \in [lots -> Int] /\ gain[from] = -n /\ (to # from => gain[to] = m)
  BY <1>2
<1> HIDE DEF from, to, gain
<1>5. /\ BalanceMatchesLedger'
      /\ ledger' = [l \in Lots |-> IF l \in lots THEN ledger[l] + gain[l] ELSE ledger[l]]
      /\ ledger' \in [Lots -> Nat]
      /\ \A l \in Lots : ledger[l] \in Nat /\ reserved[l] \in Nat /\ reserved[l] <= ledger[l]
      /\ \A l \in lots : reserved[l] <= ledger[l] + gain[l]
  <2>1. lots \in SUBSET Lots
    BY <1>1
  <2>2. gain \in [lots -> Int]
    BY <1>4
  <2> HIDE DEF lots
  <2> QED
    BY <1>3, <2>1, <2>2, FreshMove
<1>6. CASE from = to
  BY <1>1, <1>4, <1>5, <1>6 DEF Books!Next, Books!Post
<1>7. CASE from # to
  <2>1. ledger' = [ledger EXCEPT ![from] = @ - n, ![to] = @ + m]
    BY <1>1, <1>2, <1>4, <1>5, <1>7 DEF InStep, Inv, TypeOK
  <2>2. reserved[from] <= ledger[from] - n /\ n \in 1..ledger[from] /\ m \in 1..n
    BY <1>1, <1>2, <1>4, <1>5
  <2>3. Books!Carry(from, to)
    BY <1>7, <2>1, <2>2 DEF Books!Carry
  <2> QED
    BY <1>1, <1>5, <2>3 DEF Books!Next
<1> QED
  BY <1>6, <1>7

LEMMA BooksOrderStep ==
  ASSUME InStep, OrderStep
  PROVE  BalanceMatchesLedger' /\ Books!Next
<1>1. PICK l \in Lots : Reserve(l) \/ Release(l) \/ Dispatch(l)
  BY DEF OrderStep
<1>2. /\ ledger \in [Lots -> Int] /\ quantity \in [Lots -> Nat] /\ reserved \in [Lots -> Nat]
      /\ \A k \in Lots : ledger[k] = quantity[k] /\ reserved[k] <= quantity[k]
  BY DEF InStep, Inv, TypeOK, WithinStock, BalanceMatchesLedger
<1>3. CASE Reserve(l)
  <2>1. PICK n \in Amounts : reserved[l] + n <= quantity[l] /\ reserved' = [reserved EXCEPT ![l] = @ + n]
    BY <1>3 DEF Reserve
  <2>2. Books!SetAside(l)
    BY <1>2, <1>3, <2>1, AmountsAssumption DEF Reserve, Books!SetAside
  <2> QED
    BY <1>2, <1>3, <2>2 DEF Reserve, BalanceMatchesLedger, Books!Next
<1>4. CASE Release(l)
  <2>1. PICK n \in Amounts : n <= reserved[l] /\ reserved' = [reserved EXCEPT ![l] = @ - n]
    BY <1>4 DEF Release
  <2>2. Books!SetAside(l)
    BY <1>2, <1>4, <2>1, AmountsAssumption DEF Release, Books!SetAside
  <2> QED
    BY <1>2, <1>4, <2>2 DEF Release, BalanceMatchesLedger, Books!Next
<1>5. CASE Dispatch(l)
  <2>1. PICK n \in Amounts : /\ n <= reserved[l]
                             /\ reserved' = [reserved EXCEPT ![l] = @ - n]
                             /\ quantity' = [quantity EXCEPT ![l] = @ - n]
                             /\ ledger' = [ledger EXCEPT ![l] = @ - n]
    BY <1>5 DEF Dispatch
  <2>2. n \in 1..reserved[l]
    BY <1>2, <2>1, AmountsAssumption
  <2>3. Books!Ship(l)
    BY <2>1, <2>2 DEF Books!Ship
  <2> QED
    BY <1>2, <2>1, <2>3 DEF BalanceMatchesLedger, Books!Next
<1> QED
  BY <1>1, <1>3, <1>4, <1>5

LEMMA BooksLockedStep ==
  ASSUME InStep, NEW c \in Clerks, LockedStep(c)
  PROVE  BalanceMatchesLedger' /\ Books!Next
<1>1. job[c] = Idle /\ UNCHANGED <<reserved, holder, job, seen>>
  BY LockedIsMove DEF InStep, Inv
<1>2. Fresh(c)
  BY <1>1 DEF InStep, Inv, WhileIdle, Fresh
<1>3. CASE CreateMovement(c)
  <2>1. PICK l \in Lots, n \in Amounts :
          \E delta \in {n, -n} : LockedChange(c, {l}, [k \in {l} |-> delta])
    BY <1>3 DEF CreateMovement
  <2>2. PICK delta \in {n, -n} : LockedChange(c, {l}, [k \in {l} |-> delta])
    BY <2>1
  <2>3. delta \in Int
    BY AmountsAssumption
  <2> QED BY <1>1, <1>2, <2>2, <2>3, OneLotIsPost DEF LockedChange
<1>4. CASE ReconcileStock(c)
  <2>1. PICK l \in Lots, count \in 0..MaxStock :
          LockedChange(c, {l}, [k \in {l} |-> count - quantity[l]])
    BY <1>4 DEF ReconcileStock
  <2>2. count - quantity[l] \in Int
    BY MaxStockAssumption DEF InStep, Inv, TypeOK
  <2> QED BY <1>1, <1>2, <2>1, <2>2, OneLotIsPost DEF LockedChange
<1>5. CASE RemoveStock(c)
  BY <1>2, <1>5, TakeOutIsTake DEF RemoveStock
<1>6. CASE CorrectStock(c)
  <2>1. PICK difference \in 1..MaxStock :
          \/ TakeOut(c, difference)
          \/ \E l \in Lots : LockedChange(c, {l}, [k \in {l} |-> difference])
    BY <1>6 DEF CorrectStock
  <2>2. difference \in Int
    BY MaxStockAssumption
  <2>3. CASE \E l \in Lots : LockedChange(c, {l}, [k \in {l} |-> difference])
    BY <1>1, <1>2, <2>2, <2>3, OneLotIsPost DEF LockedChange
  <2> QED BY <1>2, <2>1, <2>3, TakeOutIsTake
<1> QED BY <1>3, <1>4, <1>5, <1>6 DEF LockedStep

LEMMA BooksApplyStep ==
  ASSUME InStep, NEW c \in Clerks, Fresh(c),
         ReceiveApply(c) \/ TransferApply(c) \/ MoveApply(c) \/ PackageApply(c)
  PROVE  BalanceMatchesLedger' /\ Books!Next
<1>1. CASE ReceiveApply(c)
  <2>1. job[c].to \in Lots
    BY <1>1 DEF ReceiveApply, InStep, Inv, TypeOK, Jobs, Idle
  <2>2. PICK n \in Amounts : Move(c, {job[c].to}, [k \in {job[c].to} |-> n])
    BY <1>1 DEF ReceiveApply
  <2>3. n \in Int
    BY AmountsAssumption
  <2> QED BY <1>1, <2>1, <2>2, <2>3, OneLotIsPost DEF ReceiveApply
<1>2. \A n \in Amounts : n <= n
  BY AmountsAssumption
<1>3. CASE TransferApply(c)
  BY <1>2, <1>3, CarryIsCarry DEF TransferApply
<1>4. CASE MoveApply(c)
  BY <1>2, <1>4, CarryIsCarry DEF MoveApply
<1>5. CASE PackageApply(c)
  BY <1>5, CarryIsCarry DEF PackageApply
<1> QED BY <1>1, <1>3, <1>4, <1>5

LEMMA BooksStep ==
  ASSUME InStep, [Next]_vars, [CommitsOnFreshReads]_vars
  PROVE  BalanceMatchesLedger' /\ [Books!Next]_(Books!bookVars)
<1>1. CASE UNCHANGED <<quantity, reserved, ledger>>
  BY <1>1 DEF InStep, BalanceMatchesLedger, Books!bookVars
<1>2. CASE OrderStep
  BY <1>2, BooksOrderStep
<1>3. ASSUME NEW c \in Clerks, ClerkStep(c)
      PROVE  BalanceMatchesLedger' /\ [Books!Next]_(Books!bookVars)
  <2>1. CASE LockedStep(c)
    BY <2>1, BooksLockedStep
  <2>2. CASE ReceiveApply(c) \/ TransferApply(c) \/ MoveApply(c) \/ PackageApply(c)
    <3>1. CASE UNCHANGED vars
      BY <1>1, <3>1 DEF vars
    <3>2. CASE CommitsOnFreshReads
      BY <2>2, <3>2, BooksApplyStep DEF CommitsOnFreshReads, Applies, Fresh
    <3> QED
      BY <3>1, <3>2
  <2> QED
    BY <1>1, <1>3, <2>1, <2>2 DEF ClerkStep, LockedStep, ReceiveRead, TransferLock, MoveRead,
       PackageRead, TransferRead, Refuse, BreakDeadlock
<1> QED
  BY <1>1, <1>2, <1>3 DEF Next, vars

(* The lots and their movement rows are one set of books wherever requests *)
(* commit on fresh reads only.                                             *)
THEOREM OneSetOfBooksIsKept == Spec => OneSetOfBooks
<1>1. Init => BalanceMatchesLedger /\ Books!Init
  BY MaxStockAssumption DEF Init, BalanceMatchesLedger, Books!Init
<1>2. Inv /\ BalanceMatchesLedger /\ [Next]_vars /\ [CommitsOnFreshReads]_vars
        => BalanceMatchesLedger' /\ [Books!Next]_(Books!bookVars)
  BY BooksStep DEF InStep
<1> QED
  BY <1>1, <1>2, StockInvariance, PTL DEF Spec, OneSetOfBooks, Books!Spec
=============================================================================
