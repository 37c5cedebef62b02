----------------------------- MODULE MobileCart -----------------------------
(***************************************************************************)
(* The shopping cart of the mobile app: what react-query holds of it, the  *)
(* taps on steppers and on the cart page that change it at once, and the   *)
(* requests behind them.  A tap is never blocked, so any number of         *)
(* requests are out; each tells the cache when it is sent, when it fails   *)
(* and when it ends, and the last to end reads the cart again.  Until the  *)
(* add of a product is answered its row has no id: taps made meanwhile     *)
(* are only noted, and one call that follows the add brings them.          *)
(* Prices are left out: a row's total is the quantity it was worked out    *)
(* for.  One device; a request that fails was served before or never.      *)
(* A definition named Slip_... is a plausible mistake in the one that      *)
(* follows it, kept to show that a property catches it.                    *)
(***************************************************************************)
EXTENDS Integers, FiniteSets

CONSTANTS
  Variants,    \* product variants
  Carded,      \* those tapped on a product card, which knows what a row needs
  None,
  MaxTaps,     \* bound: taps
  MaxLosses  \* bound: requests and reads that fail

ASSUME CartAssumption ==
  /\ Carded \subseteq Variants /\ IsFiniteSet(Variants)
  /\ None \notin Variants \cup Int
  /\ MaxTaps \in Nat /\ MaxLosses \in Nat

VARIABLES
  srv,       \* the customer's cart in the database
  nextId,    \* the id of the next row
  cache,     \* the cart the app shows
  loaded,    \* the cart was read, or written by hand
  fetch,     \* the read that is out: there is one at most
  calls,     \* requests that are out
  pendingAdds,  \* per variant: the add that is noted as not answered
  desiredQty,   \* per variant: the quantity tapped meanwhile
  queued,    \* per variant: the add whose answer a follower waits for
  owed,      \* history: a read that should follow a change was not started, or failed
  intent,    \* history: per variant the quantity the last tap asked for
  crossed,   \* history: variants with two requests out at a time
  undone,    \* history: an error brought a snapshot back
  unsent,    \* history: variants whose follower took the add's answer for one piece
  taps, losses

cartShown == <<cache, loaded, fetch, owed>>
notes == <<pendingAdds, desiredQty, queued>>
tapHistory == <<intent, crossed, taps>>
lapses == <<undone, unsent>>
cartVars == <<srv, nextId, cartShown, calls, notes, tapHistory, lapses, losses>>

NoRow == [id |-> 0, qty |-> 0, line |-> 0]
Temporary == -1
Row(id, qty) == [id |-> id, qty |-> qty, line |-> qty]
NoFetch == [at |-> "none", rows |-> [v \in Variants |-> NoRow]]
Fetching == [NoFetch EXCEPT !.at = "out"]

Qty == 0..(MaxTaps + 1)
Ids == Temporary..(MaxTaps + Cardinality(Variants))
Carts == [Variants -> [id : Ids, qty : Qty, line : Qty]]
Kinds == {"add", "update", "remove", "clear", "sync"}

CartTypeOK ==
  /\ srv \in Carts /\ \A v \in Variants : srv[v].id # Temporary /\ srv[v].line = srv[v].qty
  /\ nextId \in Nat
  /\ cache \in Carts /\ loaded \in BOOLEAN
  /\ fetch.at \in {"none", "out", "answered"} /\ fetch.rows \in Carts
  /\ \A c \in calls : c.kind \in Kinds /\ c.at \in {"out", "served", "failed"} /\ c.n \in 1..MaxTaps
  /\ pendingAdds \in [Variants -> 0..MaxTaps]
  /\ desiredQty \in [Variants -> Qty \cup {None}]
  /\ queued \in [Variants -> 0..MaxTaps]
  /\ owed \in BOOLEAN
  /\ intent \in [Variants -> Qty] /\ crossed \subseteq Variants
  /\ undone \in BOOLEAN /\ unsent \subseteq Variants
  /\ taps \in 0..MaxTaps /\ losses \in 0..MaxLosses

\* Ids of the rows there are: which has which makes no difference.
Numbering == CHOOSE id \in [Variants -> 1..Cardinality(Variants)] : \A v, w \in Variants : id[v] = id[w] => v = w

CartInit ==
  /\ \E had \in SUBSET Variants :
       srv = [v \in Variants |-> IF v \in had THEN Row(Numbering[v], 1) ELSE NoRow]
  /\ nextId = Cardinality(Variants) + 1
  /\ loaded \in BOOLEAN
  /\ cache = IF loaded THEN srv ELSE NoFetch.rows
  /\ fetch = IF loaded THEN NoFetch ELSE Fetching
  /\ calls = {}
  /\ pendingAdds = [v \in Variants |-> 0]
  /\ desiredQty = [v \in Variants |-> None]
  /\ queued = [v \in Variants |-> 0]
  /\ owed = FALSE
  /\ intent = [v \in Variants |-> srv[v].qty]
  /\ crossed = {} /\ undone = FALSE /\ unsent = {} /\ taps = 0 /\ losses = 0

-----------------------------------------------------------------------------
(* Reads of the cart. *)

\* invalidateQueries: a read that is out starts anew, but the first one goes on.
Invalidate ==
  IF loaded \/ fetch.at = "none"
  THEN fetch' = Fetching /\ owed' = FALSE
  ELSE UNCHANGED fetch /\ owed' = TRUE

\* A page that shows the cart is opened, or the app comes back, after fifteen seconds.
Refetch ==
  /\ fetch.at = "none"
  /\ fetch' = Fetching /\ owed' = FALSE
  /\ UNCHANGED <<srv, nextId, cache, loaded, calls, notes, tapHistory, lapses, losses>>

ServeFetch ==
  /\ fetch.at = "out"
  /\ fetch' = [at |-> "answered", rows |-> srv]
  /\ UNCHANGED <<srv, nextId, cache, loaded, owed, calls, notes, tapHistory, lapses, losses>>

FetchArrives ==
  /\ fetch.at = "answered"
  /\ cache' = fetch.rows /\ loaded' = TRUE /\ fetch' = NoFetch
  /\ UNCHANGED <<srv, nextId, owed, calls, notes, tapHistory, lapses, losses>>

FetchFails ==
  /\ fetch.at # "none" /\ losses < MaxLosses
  /\ losses' = losses + 1
  /\ fetch' = NoFetch /\ owed' = TRUE
  /\ UNCHANGED <<srv, nextId, cache, loaded, calls, notes, tapHistory, lapses>>

-----------------------------------------------------------------------------
(* Mutations: cancelQueries, a snapshot, the change shown, the request. *)

Mutations == {c \in calls : c.kind # "sync"}
About(v) == {c \in calls : c.v = v \/ c.kind = "clear"}
Snapshot == [taken |-> loaded, rows |-> cache]
NoSnapshot == [taken |-> FALSE, rows |-> NoFetch.rows]

Call(kind, v, id, qty, before) ==
  [n |-> taps + 1, kind |-> kind, v |-> v, id |-> id, qty |-> qty, before |-> before, at |-> "out", row |-> NoRow]

\* What a tap on v does to the histories: the quantity it asks for.
Asks(v, qty) ==
  /\ taps < MaxTaps
  /\ taps' = taps + 1
  /\ intent' = [intent EXCEPT ![v] = qty]

Crosses(vs) == crossed' = crossed \cup {v \in vs : About(v) # {}}

\* onMutate with `rows' shown instead.
Mutate(c, rows) ==
  /\ calls' = calls \cup {c}
  /\ cache' = IF loaded THEN rows ELSE cache
  /\ fetch' = NoFetch
  /\ UNCHANGED <<srv, nextId, loaded, owed, lapses, losses>>

\* startAdd: one more.  A card shows the row at once; elsewhere the cart stays as it is.
StartAdd(v) ==
  /\ cache[v] = NoRow
  /\ Asks(v, intent[v] + 1) /\ Crosses({v})
  /\ pendingAdds' = [pendingAdds EXCEPT ![v] = taps + 1]
  /\ IF v \in Carded
     THEN Mutate(Call("add", v, 0, 1, Snapshot), [cache EXCEPT ![v] = Row(Temporary, 1)])
     ELSE /\ calls' = calls \cup {Call("add", v, 0, 1, NoSnapshot)}
          /\ UNCHANGED <<srv, nextId, cartShown, lapses, losses>>
  /\ UNCHANGED <<desiredQty, queued>>

\* useUpdateCartItemQuantity shows the quantity; the totals wait for the next read.
UpdateItem(v, qty) ==
  /\ Asks(v, qty) /\ Crosses({v})
  /\ Mutate(Call("update", v, cache[v].id, qty, Snapshot), [cache EXCEPT ![v].qty = qty])
  /\ UNCHANGED notes

RemoveItem(v) ==
  /\ Asks(v, 0) /\ Crosses({v})
  /\ Mutate(Call("remove", v, cache[v].id, 0, Snapshot), [cache EXCEPT ![v] = NoRow])
  /\ UNCHANGED notes

\* The add is not answered yet: the quantity is noted and shown, and the first tap
\* queues a follower behind the add that is noted as out.
ChangeWhilePending(v, qty) ==
  /\ Asks(v, qty) /\ UNCHANGED crossed
  /\ desiredQty' = [desiredQty EXCEPT ![v] = qty]
  /\ queued' = IF desiredQty[v] = None THEN [queued EXCEPT ![v] = pendingAdds[v]] ELSE queued
  /\ cache' = [cache EXCEPT ![v] = IF qty = 0 THEN NoRow ELSE Row(Temporary, qty)]
  /\ UNCHANGED <<srv, nextId, loaded, fetch, owed, calls, pendingAdds, lapses, losses>>

\* The stepper of a product.
Increment(v) ==
  IF cache[v].id = Temporary THEN ChangeWhilePending(v, cache[v].qty + 1) ELSE UpdateItem(v, cache[v].qty + 1)

Decrement(v) ==
  IF cache[v].id = Temporary THEN ChangeWhilePending(v, cache[v].qty - 1)
  ELSE IF cache[v].qty <= 1 THEN RemoveItem(v) ELSE UpdateItem(v, cache[v].qty - 1)

\* Add, and once there is a row more and less of it.
Stepper(v) ==
  \/ StartAdd(v)
  \/ /\ cache[v] # NoRow
     /\ Increment(v) \/ Decrement(v)

\* Where a product is shown: only a card knows what a row needs, so that a tap on
\* it shows one at once; a tile has no way to take less.
ProductCard(v) == v \in Carded /\ Stepper(v)
ProductScreen(v) == v \notin Carded /\ Stepper(v)
HorizontalProductCard(v) == v \notin Carded /\ Stepper(v)

MiniProductTile(v) ==
  /\ v \notin Carded
  /\ \/ StartAdd(v)
     \/ /\ cache[v] # NoRow
        /\ Increment(v)

\* A row of the cart page, which does not ask whether the row has an id yet.
CartPageRow(v) ==
  /\ cache[v] # NoRow
  /\ \/ UpdateItem(v, cache[v].qty + 1)
     \/ RemoveItem(v)
     \/ /\ cache[v].qty > 1
        /\ UpdateItem(v, cache[v].qty - 1)

ClearCart ==
  /\ \E v \in Variants : cache[v] # NoRow
  /\ ~\E c \in calls : c.kind = "clear"
  /\ taps < MaxTaps
  /\ taps' = taps + 1
  /\ intent' = [v \in Variants |-> 0]
  /\ Crosses(Variants)
  /\ Mutate(Call("clear", None, 0, 0, Snapshot), NoFetch.rows)
  /\ UNCHANGED notes

-----------------------------------------------------------------------------
(* The backend. *)

\* add_item adds to a row that is there; the others need the row they name.
ServeCart(c) ==
  /\ c.at = "out"
  /\ LET held == srv[c.v] IN
     CASE c.kind = "add" ->
            LET row == IF held = NoRow THEN Row(nextId, c.qty) ELSE Row(held.id, held.qty + c.qty) IN
            /\ srv' = [srv EXCEPT ![c.v] = row]
            /\ nextId' = IF held = NoRow THEN nextId + 1 ELSE nextId
            /\ calls' = (calls \ {c}) \cup {[c EXCEPT !.at = "served", !.row = row]}
       [] c.kind = "clear" ->
            /\ srv' = NoFetch.rows
            /\ calls' = (calls \ {c}) \cup {[c EXCEPT !.at = "served"]}
            /\ UNCHANGED nextId
       [] c.kind \in {"update", "remove", "sync"} /\ held.id = c.id /\ held # NoRow ->
            /\ srv' = [srv EXCEPT ![c.v] = IF c.qty = 0 THEN NoRow ELSE Row(held.id, c.qty)]
            /\ calls' = (calls \ {c}) \cup {[c EXCEPT !.at = "served"]}
            /\ UNCHANGED nextId
       [] OTHER ->
            /\ calls' = (calls \ {c}) \cup {[c EXCEPT !.at = "failed"]}
            /\ UNCHANGED <<srv, nextId>>
  /\ UNCHANGED <<cartShown, notes, tapHistory, lapses, losses>>

\* The connection fails before the request arrives or before its answer does.
LoseCall(c) ==
  /\ c.at \in {"out", "served"} /\ losses < MaxLosses
  /\ losses' = losses + 1
  /\ calls' = (calls \ {c}) \cup {[c EXCEPT !.at = "failed"]}
  /\ UNCHANGED <<srv, nextId, cartShown, notes, tapHistory, lapses>>

-----------------------------------------------------------------------------
(* Answers: onError or onSuccess, then onSettled. *)

Slip_InvalidateWhenIdle == fetch' = fetch /\ owed' = owed

\* isMutating counts the mutations of the whole app: a request of the wishlist or of an
\* address that is out at this moment (the second disjunct) keeps the cart from being read.
InvalidateWhenIdle ==
  \/ /\ Cardinality(Mutations) = 1
     /\ Invalidate
  \/ UNCHANGED fetch /\ owed' = (owed \/ Cardinality(Mutations) = 1)

Restored(c) == IF c.before.taken THEN c.before.rows ELSE cache
Undoes(c) == undone' = (undone \/ (c.at = "failed" /\ c.before.taken))

\* useUpdateCartItemQuantity, useRemoveCartItem, useClearCart.
Settle(c) ==
  /\ c.kind \in {"update", "remove", "clear"} /\ c.at # "out"
  /\ cache' = IF c.at = "failed" THEN Restored(c) ELSE cache
  /\ IF c.kind = "clear" THEN Invalidate ELSE InvalidateWhenIdle
  /\ Undoes(c)
  /\ calls' = calls \ {c}
  /\ UNCHANGED <<srv, nextId, loaded, notes, tapHistory, unsent, losses>>

\* The row of the answer, with the quantity that was tapped meanwhile.
Swapped(c) ==
  LET wanted == desiredQty[c.v] IN
  IF wanted = None THEN c.row ELSE IF wanted > 0 THEN Row(c.row.id, wanted) ELSE NoRow

Slip_Follow(c) ==
  IF queued[c.v] # c.n THEN {}
  ELSE IF c.at = "failed" \/ desiredQty[c.v] \in {None, 0, 1} THEN {}
  ELSE {[c EXCEPT !.kind = "sync", !.id = c.row.id, !.qty = desiredQty[c.v], !.before = NoSnapshot,
                  !.at = "out", !.row = NoRow]}

\* The follower of an add: the quantity noted meanwhile, if it is another than the add's.
Follow(c) ==
  IF queued[c.v] # c.n THEN {}
  ELSE IF c.at = "failed" \/ desiredQty[c.v] \in {None, 1} THEN {}
  ELSE {[c EXCEPT !.kind = "sync", !.id = c.row.id, !.qty = desiredQty[c.v], !.before = NoSnapshot,
                  !.at = "out", !.row = NoRow]}

\* It compares with the one piece of its add, not with the row that the add came to: where the
\* cart that was shown lacked a row there is, one is left at more than one.
KeepsMore(c) == unsent' =
  IF queued[c.v] = c.n /\ c.at = "served" /\ desiredQty[c.v] = 1 /\ c.row.qty # 1
  THEN unsent \cup {c.v} ELSE unsent

\* useAddToCart: while a quantity is noted the follower reads the cart, now if it
\* has nothing to send, or after its call.
SettleAdd(c) ==
  /\ c.kind = "add" /\ c.at # "out"
  /\ cache' = IF c.at = "failed" THEN Restored(c)
              ELSE IF loaded THEN [cache EXCEPT ![c.v] = Swapped(c)] ELSE cache
  /\ Undoes(c) /\ KeepsMore(c)
  /\ calls' = (calls \ {c}) \cup Follow(c)
  /\ pendingAdds' = [pendingAdds EXCEPT ![c.v] = 0]
  /\ IF queued[c.v] = c.n
     THEN /\ desiredQty' = [desiredQty EXCEPT ![c.v] = None]
          /\ queued' = [queued EXCEPT ![c.v] = 0]
     ELSE UNCHANGED <<desiredQty, queued>>
  /\ IF queued[c.v] = c.n /\ Follow(c) = {} THEN Invalidate
     ELSE IF desiredQty[c.v] # None THEN UNCHANGED <<fetch, owed>>
     ELSE InvalidateWhenIdle
  /\ UNCHANGED <<srv, nextId, loaded, tapHistory, losses>>

\* The finally of the follower.
SettleSync(c) ==
  /\ c.kind = "sync" /\ c.at # "out"
  /\ calls' = calls \ {c}
  /\ Invalidate
  /\ UNCHANGED <<srv, nextId, cache, loaded, notes, tapHistory, lapses, losses>>

-----------------------------------------------------------------------------
CartNext ==
  \/ Refetch \/ ServeFetch \/ FetchArrives \/ FetchFails \/ ClearCart
  \/ \E v \in Variants :
       ProductCard(v) \/ ProductScreen(v) \/ HorizontalProductCard(v) \/ MiniProductTile(v) \/ CartPageRow(v)
  \/ \E c \in calls : ServeCart(c) \/ LoseCall(c) \/ Settle(c) \/ SettleAdd(c) \/ SettleSync(c)

CartSpec == CartInit /\ [][CartNext]_cartVars

-----------------------------------------------------------------------------
(* Properties. *)

Quiet == calls = {} /\ fetch.at = "none"

\* A quantity that was noted and that no follower will bring.
Orphaned == \E v \in Variants : desiredQty[v] # None /\ queued[v] = 0

\* When everything has been answered the app shows the cart of the server, rows and
\* totals, unless the read that should have followed was not made, or a noted
\* quantity was left behind (useCart.ts:21-26 names no exception).
SettledCartIsServers ==
  Quiet /\ loaded /\ ~owed /\ ~Orphaned => cache = srv

\* Taps are not blocked, and none is lost: where no two requests of a variant crossed
\* and none failed or was undone, the server has the quantity of the last tap, those made
\* before the row existed included, unless the follower wrongly had nothing to send.
TapsArrive ==
  Quiet /\ losses = 0 /\ ~undone =>
    \A v \in Variants \ (crossed \cup unsent) : srv[v].qty = intent[v]

\* useCart.ts:254 says of every tap that it syncs.
EveryTapSyncs ==
  Quiet /\ losses = 0 /\ ~undone => \A v \in Variants \ crossed : srv[v].qty = intent[v]

\* A quantity tapped while an add was out waits for that add and for no other, unless
\* requests for the variant crossed (each add removes the note of any other) or an error
\* brought back a row without an id whose add was answered long ago.
NotedIsBrought ==
  \A v \in Variants : desiredQty[v] # None /\ v \notin crossed /\ ~undone =>
    \E c \in calls : c.kind = "add" /\ c.v = v /\ c.n = queued[v]

\* A row shown without an id is one whose add is still out, or came back with a
\* snapshot; no read ever brings one.
TemporaryHasAdd ==
  ~undone =>
    \A v \in Variants : cache[v].id = Temporary => \E c \in calls : c.kind = "add" /\ c.v = v

\* What useCart.ts:21-26 promises: the app reconciles back to whatever the server
\* returns, always.
AlwaysReconciled == Quiet /\ loaded /\ losses = 0 => cache = srv
=============================================================================
