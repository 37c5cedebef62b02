--------------------------- MODULE StockMovements ---------------------------
(***************************************************************************)
(* The warehouse side of the lots: receipts, counts, removals, transfers,  *)
(* product-level moves and packaging, with the orders' own reservations    *)
(* running beside them.  The balance of a lot (inventory_lots) and its     *)
(* movement rows (stock_movements) are two tables written together.        *)
(*                                                                         *)
(* Most operations read a lot for the first time under its row lock and    *)
(* are one step.  Four of them (receive_stock_no_commit, transfer_stock,   *)
(* move_stock, complete_operation) read a lot before they lock it and keep *)
(* the object: the locking query that follows does not ask for             *)
(* populate_existing(), so the session goes on with the amounts of the     *)
(* first read.  seen holds those amounts; such an operation is two steps   *)
(* or more.  When it commits, the CHECK of the table (reserved <= quantity)*)
(* looks at the row as it is, and a refusal rolls everything back.         *)
(* OrderLifecycle takes these operations as atomic; this module is about   *)
(* what happens inside them.  Slip_... definitions are mistakes kept for   *)
(* comparison.                                                             *)
(***************************************************************************)
EXTENDS Integers, FiniteSets, Functions

CONSTANTS
  Lots,       \* inventory lots of one product
  Clerks,     \* staff requests running at a time
  Amounts,    \* base units one operation may move
  MaxStock,   \* bound: base units a lot, or its movement rows, add up to
  Nobody      \* no transaction holds the row lock

ASSUME AmountsAssumption == Amounts \subseteq Nat \ {0}
ASSUME MaxStockAssumption == MaxStock \in Nat
ASSUME NobodyAssumption == Nobody \notin Clerks

VARIABLES
  quantity,   \* inventory_lots.quantity_base
  reserved,   \* inventory_lots.reserved_base
  ledger,     \* sum of the lot's stock_movements, receipts minus removals
  holder,     \* the transfer that holds the lot's row lock between its steps
  job,        \* what each request is in the middle of
  seen        \* lot amounts a request read without a lock and still believes

vars == <<quantity, reserved, ledger, holder, job, seen>>

Amount == [q : Nat, r : Nat]

Idle == [doing |-> "nothing"]

Jobs ==
  {Idle} \cup [doing : {"receive"}, to : Lots]
         \cup [doing : {"transfer", "move", "package"}, from : Lots, to : Lots]

TypeOK ==
  /\ quantity \in [Lots -> Nat]
  /\ reserved \in [Lots -> Nat]
  /\ ledger \in [Lots -> Int]
  /\ holder \in [Lots -> Clerks \cup {Nobody}]
  /\ job \in [Clerks -> Jobs]
  /\ DOMAIN seen = Clerks
  /\ \A c \in Clerks : /\ DOMAIN seen[c] \subseteq Lots
                       /\ \A l \in DOMAIN seen[c] : seen[c][l] \in Amount

Nothing == [l \in {} |-> [q |-> 0, r |-> 0]]

(* Lots whose movement rows already account for what is in them. *)
Init ==
  /\ quantity \in [Lots -> 0..MaxStock]
  /\ reserved = [l \in Lots |-> 0]
  /\ ledger = quantity
  /\ holder = [l \in Lots |-> Nobody]
  /\ job = [c \in Clerks |-> Idle]
  /\ seen = [c \in Clerks |-> Nothing]

-----------------------------------------------------------------------------
(* A locking query waits for the transaction that holds the row. *)
Free(l, c) == holder[l] \in {Nobody, c}

(* The amounts of lot l as request c's session has them. *)
Session(c, l) ==
  IF l \in DOMAIN seen[c] THEN seen[c][l] ELSE [q |-> quantity[l], r |-> reserved[l]]

Slip_MoveUnchecked(c, lots, gain) ==
  LET new(l) == Session(c, l).q + gain[l] IN
  /\ \A l \in lots : new(l) \in Session(c, l).r..MaxStock
  /\ \A l \in lots : ledger[l] + gain[l] \in (-MaxStock)..MaxStock
  /\ quantity' = [l \in Lots |-> IF l \in lots THEN new(l) ELSE quantity[l]]
  /\ ledger' = [l \in Lots |-> IF l \in lots THEN ledger[l] + gain[l] ELSE ledger[l]]

Slip_MoveForgetsRow(c, lots, gain) ==
  LET new(l) == Session(c, l).q + gain[l] IN
  /\ \A l \in lots : new(l) \in Session(c, l).r..MaxStock
  /\ \A l \in lots : reserved[l] <= new(l)
  /\ quantity' = [l \in Lots |-> IF l \in lots THEN new(l) ELSE quantity[l]]
  /\ UNCHANGED ledger

(* apply_movement_base on both lots of a change, as one commit: gain[l] is *)
(* what l gains or loses.  The session checks the amounts it believes, the *)
(* database checks the row.                                                *)
Move(c, lots, gain) ==
  LET new(l) == Session(c, l).q + gain[l] IN
  /\ \A l \in lots : new(l) \in Session(c, l).r..MaxStock
  /\ \A l \in lots : reserved[l] <= new(l)
  /\ \A l \in lots : ledger[l] + gain[l] \in (-MaxStock)..MaxStock
  /\ quantity' = [l \in Lots |-> IF l \in lots THEN new(l) ELSE quantity[l]]
  /\ ledger' = [l \in Lots |-> IF l \in lots THEN ledger[l] + gain[l] ELSE ledger[l]]

Slip_EndKeepsLocks(c) ==
  /\ job' = [job EXCEPT ![c] = Idle]
  /\ seen' = [seen EXCEPT ![c] = Nothing]
  /\ UNCHANGED holder

(* The end of a transaction, committed or rolled back. *)
End(c) ==
  /\ job' = [job EXCEPT ![c] = Idle]
  /\ seen' = [seen EXCEPT ![c] = Nothing]
  /\ holder' = [l \in Lots |-> IF holder[l] = c THEN Nobody ELSE holder[l]]

-----------------------------------------------------------------------------
(* Orders: reserve at checkout, release on expiry or cancellation, dispatch *)
(* on delivery.  Each reads the lot under its lock.                        *)

Reserve(l) ==
  /\ holder[l] = Nobody
  /\ \E n \in Amounts :
       /\ reserved[l] + n <= quantity[l]
       /\ reserved' = [reserved EXCEPT ![l] = @ + n]
  /\ UNCHANGED <<quantity, ledger, holder, job, seen>>

Release(l) ==
  /\ holder[l] = Nobody
  /\ \E n \in Amounts :
       /\ n <= reserved[l]
       /\ reserved' = [reserved EXCEPT ![l] = @ - n]
  /\ UNCHANGED <<quantity, ledger, holder, job, seen>>

Dispatch(l) ==
  /\ holder[l] = Nobody
  /\ \E n \in Amounts :
       /\ n <= reserved[l]
       /\ ledger[l] - n >= -MaxStock
       /\ reserved' = [reserved EXCEPT ![l] = @ - n]
       /\ quantity' = [quantity EXCEPT ![l] = @ - n]
       /\ ledger' = [ledger EXCEPT ![l] = @ - n]
  /\ UNCHANGED <<holder, job, seen>>

-----------------------------------------------------------------------------
(* Operations that lock every lot they touch first and believe what they   *)
(* then read.                                                              *)

LockedChange(c, lots, gain) ==
  /\ \A l \in lots : holder[l] = Nobody
  /\ Move(c, lots, gain)
  /\ UNCHANGED <<reserved, holder, job, seen>>

(* The raw movements endpoint: any movement, in or out. *)
CreateMovement(c) ==
  /\ job[c] = Idle
  /\ \E l \in Lots : \E n \in Amounts : \E delta \in {n, -n} :
       LockedChange(c, {l}, [k \in {l} |-> delta])

(* A physical count of one lot becomes an adjustment by the difference. *)
ReconcileStock(c) ==
  /\ job[c] = Idle
  /\ \E l \in Lots : \E count \in (0..MaxStock) \ {quantity[l]} :
       LockedChange(c, {l}, [k \in {l} |-> count - quantity[l]])

(* Takes stock no order holds out of the lots of a product: which of them  *)
(* give it is the oldest-first rule of _fifo; any choice is allowed here.  *)
Takings(amount) ==
  {t \in [Lots -> 0..amount] : /\ \A l \in Lots : t[l] <= quantity[l] - reserved[l]
                               /\ SumFunction(t) = amount}

TakeOut(c, amount) ==
  \E t \in Takings(amount) :
    LET taken == {l \in Lots : t[l] > 0}
    IN  LockedChange(c, taken, [l \in taken |-> -t[l]])

(* remove_stock, by lot or by product. *)
RemoveStock(c) == job[c] = Idle /\ \E n \in Amounts : TakeOut(c, n)

(* correct_stock: the count of a whole product.  Only its difference from  *)
(* the stock on hand matters, since a count below what orders hold is      *)
(* refused: a shortage is taken out like a removal, a surplus goes to one  *)
(* lot.                                                                    *)
CorrectStock(c) ==
  /\ job[c] = Idle
  /\ \E difference \in 1..MaxStock :
       \/ TakeOut(c, difference)
       \/ \E l \in Lots : LockedChange(c, {l}, [k \in {l} |-> difference])

-----------------------------------------------------------------------------
(* get_or_create_lot_no_commit: the lot is read, and kept, without a lock. *)
Read(c, lots) ==
  seen' = [seen EXCEPT ![c] = [l \in lots |-> [q |-> quantity[l], r |-> reserved[l]]]]

ReceiveRead(c, l) ==
  /\ job[c] = Idle
  /\ Read(c, {l})
  /\ job' = [job EXCEPT ![c] = [doing |-> "receive", to |-> l]]
  /\ UNCHANGED <<quantity, reserved, ledger, holder>>

ReceiveApply(c) ==
  /\ job[c].doing = "receive"
  /\ holder[job[c].to] = Nobody
  /\ \E n \in Amounts : Move(c, {job[c].to}, [k \in {job[c].to} |-> n])
  /\ End(c)
  /\ UNCHANGED reserved

(* transfer_stock locks the source, then reads the destination, then locks *)
(* the destination as well.                                                *)
TransferLock(c, from, to) ==
  /\ job[c] = Idle
  /\ from # to
  /\ holder[from] = Nobody
  /\ holder' = [holder EXCEPT ![from] = c]
  /\ job' = [job EXCEPT ![c] = [doing |-> "transfer", from |-> from, to |-> to]]
  /\ UNCHANGED <<quantity, reserved, ledger, seen>>

TransferRead(c) ==
  /\ job[c].doing = "transfer"
  /\ job[c].to \notin DOMAIN seen[c]
  /\ Read(c, {job[c].to})
  /\ UNCHANGED <<quantity, reserved, ledger, holder, job>>

(* n base units from one lot to another, m of them arriving. *)
Carry(c, n, m) ==
  LET from == job[c].from
      to   == job[c].to
  IN  Move(c, {from, to}, [l \in {from, to} |-> IF l = from THEN -n ELSE m])

TransferApply(c) ==
  /\ job[c].doing = "transfer"
  /\ job[c].to \in DOMAIN seen[c]
  /\ Free(job[c].to, c)
  /\ \E n \in Amounts : Carry(c, n, n)
  /\ End(c)
  /\ UNCHANGED reserved

(* move_stock reads the lots of both warehouses, then locks them all in    *)
(* one pass in id order.                                                   *)
MoveRead(c, from, to) ==
  /\ job[c] = Idle
  /\ from # to
  /\ Read(c, {from, to})
  /\ job' = [job EXCEPT ![c] = [doing |-> "move", from |-> from, to |-> to]]
  /\ UNCHANGED <<quantity, reserved, ledger, holder>>

MoveApply(c) ==
  /\ job[c].doing = "move"
  /\ holder[job[c].from] = Nobody /\ holder[job[c].to] = Nobody
  /\ \E n \in Amounts : Carry(c, n, n)
  /\ End(c)
  /\ UNCHANGED reserved

(* complete_operation of packaging: the traceability check leaves one      *)
(* output lot in the session; inputs and outputs are then locked in one    *)
(* pass in id order.  No more comes out than went in.                      *)
PackageRead(c, from, to) ==
  /\ job[c] = Idle
  /\ from # to
  /\ Read(c, {to})
  /\ job' = [job EXCEPT ![c] = [doing |-> "package", from |-> from, to |-> to]]
  /\ UNCHANGED <<quantity, reserved, ledger, holder>>

PackageApply(c) ==
  /\ job[c].doing = "package"
  /\ holder[job[c].from] = Nobody /\ holder[job[c].to] = Nobody
  /\ \E n, m \in Amounts : m <= n /\ Carry(c, n, m)
  /\ End(c)
  /\ UNCHANGED reserved

(* A refused movement, a CHECK that fails, a lost connection: whatever was *)
(* done so far is rolled back.                                             *)
Refuse(c) ==
  /\ job[c] # Idle
  /\ End(c)
  /\ UNCHANGED <<quantity, reserved, ledger>>

(* Transfer c waits for a lot that transfer d holds. *)
WaitsFor(c, d) ==
  /\ job[c].doing = "transfer"
  /\ job[c].to \in DOMAIN seen[c]
  /\ d # c
  /\ holder[job[c].to] = d

(* The database cancels one of two transfers that wait for each other. *)
BreakDeadlock(c) ==
  /\ \E d \in Clerks : WaitsFor(c, d) /\ WaitsFor(d, c)
  /\ Refuse(c)

-----------------------------------------------------------------------------
OrderStep == \E l \in Lots : Reserve(l) \/ Release(l) \/ Dispatch(l)

ClerkStep(c) ==
  \/ CreateMovement(c)
  \/ ReconcileStock(c)
  \/ RemoveStock(c)
  \/ CorrectStock(c)
  \/ \E l \in Lots : ReceiveRead(c, l)
  \/ ReceiveApply(c)
  \/ \E from, to \in Lots : \/ TransferLock(c, from, to)
                            \/ MoveRead(c, from, to)
                            \/ PackageRead(c, from, to)
  \/ TransferRead(c)
  \/ TransferApply(c)
  \/ MoveApply(c)
  \/ PackageApply(c)
  \/ Refuse(c)
  \/ BreakDeadlock(c)

Next == OrderStep \/ \E c \in Clerks : ClerkStep(c)

Spec == Init /\ [][Next]_vars

(* A request runs on, row locks are granted in the order they are asked    *)
(* for, and the database looks for deadlocks.  A transfer that can never   *)
(* apply (not enough stock) is refused: apply or refuse, it ends once it   *)
(* has its locks.                                                          *)
TransferFinish(c) ==
  /\ job[c].doing = "transfer"
  /\ job[c].to \in DOMAIN seen[c]
  /\ Free(job[c].to, c)
  /\ TransferApply(c) \/ Refuse(c)

Fairness ==
  \A c \in Clerks : /\ WF_vars(TransferRead(c))
                    /\ SF_vars(TransferFinish(c))
                    /\ WF_vars(BreakDeadlock(c))

FairSpec == Spec /\ Fairness

-----------------------------------------------------------------------------
(* Whatever a request wrongly believes about a lot, no commit leaves it    *)
(* with less stock than orders were promised (ck_inventory_lots_base       *)
(* behind the checks of apply_movement_base).                              *)
WithinStock == \A l \in Lots : reserved[l] <= quantity[l]

(* How far a lot's balance is from what its movement rows add up to. *)
Drift(l) == quantity[l] - ledger[l]

(* The two tables can part in one way only: a request commits on a lot     *)
(* whose balance changed after the request read it without a lock.  No     *)
(* locked change, order step, refusal or up-to-date request moves them     *)
(* apart, and no lot other than the stale one is touched.                  *)
DriftNeedsStaleRead ==
  [][\A l \in Lots : Drift(l)' # Drift(l) =>
       \E c \in Clerks : /\ job[c] # Idle /\ job'[c] = Idle
                         /\ l \in DOMAIN seen[c]
                         /\ seen[c][l].q # quantity[l]]_vars

(* A row lock kept between steps belongs to the transfer whose source the  *)
(* lot is: no finished, refused or cancelled request leaves a lot locked.  *)
LocksHaveOwners ==
  \A l \in Lots : holder[l] # Nobody =>
    job[holder[l]].doing = "transfer" /\ job[holder[l]].from = l

(* The balance of a lot is the sum of its movements. *)
BalanceMatchesLedger == \A l \in Lots : quantity[l] = ledger[l]

(* The books of the warehouse, as the movement rows of each lot add up. *)
Books == INSTANCE StockLedger WITH stock <- ledger, promised <- reserved

(* A request applies what it set out to do only to lots that nobody        *)
(* changed after it read them: what populate_existing() would give.        *)
Applies(c) == ReceiveApply(c) \/ TransferApply(c) \/ MoveApply(c) \/ PackageApply(c)

CommitsOnFreshReads ==
  \A c \in Clerks : Applies(c) => \A l \in DOMAIN seen[c] : seen[c][l].q = quantity[l]

(* The lots and their movement rows are one set of books in every          *)
(* behaviour in which no request commits on a stale read: the two tables   *)
(* agree, and nothing happens to them but what StockLedger allows.  Locks, *)
(* reads out of order, refusals and cancelled transfers are no exception.  *)
OneSetOfBooks ==
  [][CommitsOnFreshReads]_vars => Books!Spec /\ []BalanceMatchesLedger

(* Every transfer is applied or refused: opposite transfers that block     *)
(* each other do not hang the requests or the lots (transfer_stock).       *)
EveryTransferEnds ==
  \A c \in Clerks : job[c].doing = "transfer" ~> job[c] = Idle
=============================================================================
