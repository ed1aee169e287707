--------------------------- MODULE CheckoutProofs ---------------------------
(***************************************************************************)
(* Proofs about Checkout for any products, carts, amounts and number of    *)
(* requests in flight.  IInv is the inductive invariant: TypeOK and the    *)
(* properties themselves, strengthened by what an open transaction and a   *)
(* half-finished merchant request may rely on.                             *)
(***************************************************************************)
EXTENDS Checkout, SumTheorems, TLAPS

(* In the loop, the cursor is at an item of the cart. *)
CartShape ==
    \A s \in Slot : pc[s] \in {"take", "sync"} =>
        cart[s] \in Carts /\ at[s] \in 1..Len(cart[s])

(* Only a checkout has uncommitted decrements. *)
OnlyCheckoutsTake ==
    \A s \in Slot : pc[s] \notin {"take", "sync", "place"} =>
        taken[s] = Nothing /\ synced[s] = Nothing

(* A merchant request has a product of its own. *)
JobShape ==
    \A s \in Slot :
        pc[s] \in {"addInventory", "dropInventory", "dropProduct",
                   "restockInventory", "restockProduct"} => target[s] \in Product

(* The row lock: two transactions never have decrements of one product. *)
OneHolder ==
    \A p \in Product : \A s, t \in Slot :
        HoldsProduct(s, p) /\ HoldsProduct(t, p) => s = t

(* A product with an uncommitted decrement stays listed. *)
HeldIsLive == \A p \in Product : \A s \in Slot : HoldsProduct(s, p) => life[p] = "live"

(* What a transaction has taken and not yet passed on to the inventory. *)
Pending(s, p) == IF pc[s] = "sync" /\ Now(s) = p THEN Wanted(s) ELSE 0

(* The inventory decrements of a transaction follow those of the product,  *)
(* and are equal to them unless the inventory row was missing.             *)
SyncFollowsTake ==
    \A p \in Product : \A s \in Slot :
        /\ synced[s][p] + Pending(s, p) <= taken[s][p]
        /\ ~missed[p] => synced[s][p] + Pending(s, p) = taken[s][p]
        /\ synced[s][p] > 0 => inv[p] # Null

(* The second INSERT of createProduct is the only one for its product, and *)
(* will write the product's stock, unless a checkout came first.           *)
AddingInventory ==
    /\ \A s \in Slot : pc[s] = "addInventory" =>
          /\ life[target[s]] # "new" /\ inv[target[s]] = Null
          /\ ~missed[target[s]] /\ life[target[s]] = "live"
                => stock[target[s]] = value[s]
    /\ \A s, t \in Slot :
          pc[s] = "addInventory" /\ pc[t] = "addInventory" /\ target[s] = target[t]
                => s = t

(* Nobody has sold, erased or stored any of a product still to come. *)
NewIsBlank ==
    \A p \in Product :
        life[p] = "new" => inv[p] = Null /\ sold[p] = 0 /\ erased[p] = 0

IInv ==
    /\ TypeOK
    /\ CartShape
    /\ OnlyCheckoutsTake
    /\ JobShape
    /\ OneHolder
    /\ HeldIsLive
    /\ SyncFollowsTake
    /\ AddingInventory
    /\ NewIsBlank
    /\ StockNeverNegative
    /\ UnitsConserved
    /\ InventoryInSync

-----------------------------------------------------------------------------

LEMMA InitIInv == Init => IInv
<1> SUFFICES ASSUME Init PROVE IInv
  OBVIOUS
<1> USE CheckoutAssumption DEF Init, Nothing
<1>1. TypeOK
  BY DEF TypeOK
<1>2. CartShape /\ OnlyCheckoutsTake /\ JobShape
  BY DEF CartShape, OnlyCheckoutsTake, JobShape
<1>3. OneHolder /\ HeldIsLive
  BY DEF OneHolder, HeldIsLive, HoldsProduct
<1>4. SyncFollowsTake
  BY DEF SyncFollowsTake, Pending
<1>5. AddingInventory /\ NewIsBlank
  BY DEF AddingInventory, NewIsBlank
<1>6. StockNeverNegative /\ UnitsConserved /\ InventoryInSync
  BY DEF StockNeverNegative, UnitsConserved, InventoryInSync
<1>7. QED
  BY <1>1, <1>2, <1>3, <1>4, <1>5, <1>6 DEF IInv

(* The item a checkout is at. *)
LEMMA CurrentItem ==
    ASSUME TypeOK, CartShape, NEW s \in Slot, pc[s] \in {"take", "sync"}
    PROVE  Now(s) \in Product /\ Wanted(s) \in Nat /\ Wanted(s) > 0
<1>1. cart[s] \in Seq(Item) /\ at[s] \in 1..Len(cart[s])
  BY CheckoutAssumption DEF CartShape
<1>2. cart[s][at[s]] \in Item
  BY <1>1
<1>3. QED
  BY <1>2 DEF Item, Now, Wanted

(* Adding to one cell of a table of counters. *)
LEMMA AddToCell ==
    ASSUME NEW S, NEW P, NEW f \in [S -> [P -> Nat]], NEW s \in S, NEW p \in P,
           NEW n \in Nat, NEW g, g = [f EXCEPT ![s][p] = @ + n]
    PROVE  /\ g \in [S -> [P -> Nat]]
           /\ g[s][p] = f[s][p] + n
           /\ \A q \in P : q # p => g[s][q] = f[s][q]
           /\ \A t \in S : t # s => g[t] = f[t]
OBVIOUS

(* The ValidationPipe strips the amount and Prisma then keeps the column.  *)
LEMMA RestockWritesNothing ==
    ASSUME NEW old, NEW v \in Nat
    PROVE  Written(old, Delivered(v)) = old
BY DEF Written, Delivered

-----------------------------------------------------------------------------
(* One lemma per action, or per group of actions with the same effect. *)

(* A request that ends without a COMMIT leaves the rows alone and gives    *)
(* back its locks.                                                         *)
LEMMA EndKeepsIInv ==
    ASSUME IInv, NEW s \in Slot, End(s), UNCHANGED rows
    PROVE  IInv'
<1>1. /\ pc'[s] = "idle" /\ taken'[s] = Nothing /\ synced'[s] = Nothing
      /\ \A t \in Slot : t # s =>
            /\ pc'[t] = pc[t] /\ cart'[t] = cart[t] /\ at'[t] = at[t]
            /\ taken'[t] = taken[t] /\ synced'[t] = synced[t]
            /\ target'[t] = target[t] /\ value'[t] = value[t]
      /\ UNCHANGED <<life, tracked, stock, inv, sold, base, erased, missed>>
  BY DEF IInv, TypeOK, End, GoTo, rows
<1>2. TypeOK'
  BY DEF IInv, TypeOK, End, GoTo, rows, Nothing
<1>3. CartShape' /\ OnlyCheckoutsTake' /\ JobShape'
  BY <1>1 DEF IInv, CartShape, OnlyCheckoutsTake, JobShape, Nothing
<1>4. OneHolder' /\ HeldIsLive'
  BY <1>1 DEF IInv, OneHolder, HeldIsLive, HoldsProduct, Nothing
<1>5. SyncFollowsTake'
  <2>1. \A p \in Product : Pending(s, p)' = 0
    BY <1>1 DEF Pending
  <2>2. \A t \in Slot : t # s => \A p \in Product : Pending(t, p)' = Pending(t, p)
    BY <1>1 DEF Pending, Now, Wanted
  <2>3. QED
    BY <1>1, <2>1, <2>2 DEF IInv, SyncFollowsTake, Nothing
<1>6. AddingInventory' /\ NewIsBlank'
  BY <1>1 DEF IInv, AddingInventory, NewIsBlank
<1>7. StockNeverNegative' /\ UnitsConserved' /\ InventoryInSync'
  BY <1>1 DEF IInv, StockNeverNegative, UnitsConserved, InventoryInSync, Nothing
<1>8. QED
  BY <1>2, <1>3, <1>4, <1>5, <1>6, <1>7 DEF IInv

(* A merchant request that starts or goes on without touching a row. *)
LEMMA JobKeepsIInv ==
    ASSUME IInv, TypeOK', NEW s \in Slot, UNCHANGED <<rows, tx>>,
           pc[s] \notin {"take", "sync", "place"},
           pc'[s] \in {"dropInventory", "dropProduct", "restockInventory", "restockProduct"},
           target'[s] \in Product,
           \A t \in Slot : t # s => /\ pc'[t] = pc[t] /\ target'[t] = target[t]
                                    /\ value'[t] = value[t]
    PROVE  IInv'
<1>1. UNCHANGED <<life, tracked, stock, inv, sold, base, erased, missed, cart, at, taken, synced>>
  BY DEF rows, tx
<1>2. CartShape' /\ OnlyCheckoutsTake' /\ JobShape'
  BY <1>1 DEF IInv, CartShape, OnlyCheckoutsTake, JobShape, Nothing
<1>3. OneHolder' /\ HeldIsLive'
  BY <1>1 DEF IInv, OneHolder, HeldIsLive, HoldsProduct
<1>4. SyncFollowsTake'
  <2>1. \A p \in Product : Pending(s, p)' = 0 /\ Pending(s, p) = 0
    BY DEF Pending
  <2>2. \A t \in Slot : t # s => \A p \in Product : Pending(t, p)' = Pending(t, p)
    BY <1>1 DEF Pending, Now, Wanted
  <2>3. QED
    BY <1>1, <2>1, <2>2 DEF IInv, SyncFollowsTake
<1>5. AddingInventory' /\ NewIsBlank'
  BY <1>1 DEF IInv, AddingInventory, NewIsBlank
<1>6. StockNeverNegative' /\ UnitsConserved' /\ InventoryInSync'
  BY <1>1 DEF IInv, StockNeverNegative, UnitsConserved, InventoryInSync
<1>7. QED
  BY <1>2, <1>3, <1>4, <1>5, <1>6 DEF IInv

(* The first item of the cart. *)
LEMMA BeginCheckoutKeepsIInv ==
    ASSUME IInv, NEW s \in Slot, NEW c \in Carts, BeginCheckout(s, c)
    PROVE  IInv'
<1>1. /\ pc[s] = "idle" /\ pc'[s] = "take" /\ cart'[s] = c /\ at'[s] = 1
      /\ \A t \in Slot : t # s =>
            pc'[t] = pc[t] /\ cart'[t] = cart[t] /\ at'[t] = at[t]
      /\ UNCHANGED <<life, tracked, stock, inv, sold, base, erased, missed>>
      /\ UNCHANGED <<taken, synced, target, value>>
  BY DEF IInv, TypeOK, BeginCheckout, GoTo, rows, job
<1>2. TypeOK'
  BY DEF IInv, TypeOK, BeginCheckout, GoTo, rows, job
<1>3. 1 \in 1..Len(c)
  BY CheckoutAssumption
<1>4. CartShape' /\ OnlyCheckoutsTake' /\ JobShape'
  BY <1>1, <1>3 DEF IInv, CartShape, OnlyCheckoutsTake, JobShape, Nothing
<1>5. OneHolder' /\ HeldIsLive'
  BY <1>1 DEF IInv, OneHolder, HeldIsLive, HoldsProduct
<1>6. SyncFollowsTake'
  <2>1. \A p \in Product : Pending(s, p)' = 0 /\ Pending(s, p) = 0
    BY <1>1 DEF Pending
  <2>2. \A t \in Slot : t # s => \A p \in Product : Pending(t, p)' = Pending(t, p)
    BY <1>1 DEF Pending, Now, Wanted
  <2>3. QED
    BY <1>1, <2>1, <2>2 DEF IInv, SyncFollowsTake
<1>7. AddingInventory' /\ NewIsBlank'
  BY <1>1 DEF IInv, AddingInventory, NewIsBlank
<1>8. StockNeverNegative' /\ UnitsConserved' /\ InventoryInSync'
  BY <1>1 DEF IInv, StockNeverNegative, UnitsConserved, InventoryInSync
<1>9. QED
  BY <1>2, <1>4, <1>5, <1>6, <1>7, <1>8 DEF IInv

(* Where the loop goes from its last statement. *)
LEMMA NextItemSteps ==
    ASSUME TypeOK, CartShape, NEW s \in Slot, pc[s] \in {"take", "sync"},
           NextItem(s), cart' = cart
    PROVE  /\ pc' \in [Slot -> {"idle", "take", "sync", "place", "addInventory",
                                "dropInventory", "dropProduct",
                                "restockInventory", "restockProduct"}]
           /\ at' \in [Slot -> Nat]
           /\ pc'[s] \in {"take", "place"}
           /\ \A t \in Slot : t # s => pc'[t] = pc[t] /\ at'[t] = at[t]
           /\ CartShape'
<1>1. /\ at'[s] = at[s] + 1
      /\ pc'[s] = IF at[s] = Len(cart[s]) THEN "place" ELSE "take"
      /\ \A t \in Slot : t # s => pc'[t] = pc[t] /\ at'[t] = at[t]
  BY DEF NextItem, GoTo, TypeOK
<1>2. cart[s] \in Carts /\ at[s] \in 1..Len(cart[s]) /\ Len(cart[s]) \in Nat
  BY CheckoutAssumption DEF CartShape
<1>3. CartShape'
  BY <1>1, <1>2 DEF CartShape
<1>4. QED
  BY <1>1, <1>3 DEF NextItem, GoTo, TypeOK

(* A product without stock keeping is passed over. *)
LEMMA SkipKeepsIInv ==
    ASSUME IInv, NEW s \in Slot, SkipUntracked(s)
    PROVE  IInv'
<1>1. /\ pc[s] = "take" /\ NextItem(s)
      /\ UNCHANGED <<life, tracked, stock, inv, sold, base, erased, missed>>
      /\ UNCHANGED <<cart, taken, synced, target, value>>
  BY DEF SkipUntracked, rows, job
<1>2. /\ pc'[s] \in {"take", "place"}
      /\ \A t \in Slot : t # s => pc'[t] = pc[t] /\ at'[t] = at[t]
      /\ CartShape'
  BY <1>1, NextItemSteps DEF IInv
<1>3. TypeOK'
  BY <1>1, NextItemSteps DEF IInv, TypeOK
<1>4. OnlyCheckoutsTake' /\ JobShape'
  BY <1>1, <1>2 DEF IInv, OnlyCheckoutsTake, JobShape, Nothing
<1>5. OneHolder' /\ HeldIsLive'
  BY <1>1 DEF IInv, OneHolder, HeldIsLive, HoldsProduct
<1>6. SyncFollowsTake'
  <2>1. \A p \in Product : Pending(s, p)' = 0 /\ Pending(s, p) = 0
    BY <1>1, <1>2 DEF Pending
  <2>2. \A t \in Slot : t # s => \A p \in Product : Pending(t, p)' = Pending(t, p)
    BY <1>1, <1>2 DEF Pending, Now, Wanted
  <2>3. QED
    BY <1>1, <2>1, <2>2 DEF IInv, SyncFollowsTake
<1>7. AddingInventory' /\ NewIsBlank'
  BY <1>1, <1>2 DEF IInv, AddingInventory, NewIsBlank
<1>8. StockNeverNegative' /\ UnitsConserved' /\ InventoryInSync'
  BY <1>1 DEF IInv, StockNeverNegative, UnitsConserved, InventoryInSync
<1>9. QED
  BY <1>2, <1>3, <1>4, <1>5, <1>6, <1>7, <1>8 DEF IInv

(* The conditional decrement takes a free row that has enough. *)
LEMMA TakeKeepsIInv ==
    ASSUME IInv, NEW s \in Slot, TakeStock(s)
    PROVE  IInv'
<1> DEFINE p == Now(s)
           n == Wanted(s)
<1>1. p \in Product /\ n \in Nat /\ n > 0
  BY CurrentItem DEF IInv, TakeStock
<1> HIDE DEF p, n
<1>2. /\ pc[s] = "take" /\ pc'[s] = "sync" /\ ProductFree(s, p)
      /\ life[p] = "live" /\ stock[p] - taken[s][p] >= n
      /\ \A t \in Slot : t # s => pc'[t] = pc[t] /\ taken'[t] = taken[t]
      /\ taken'[s][p] = taken[s][p] + n
      /\ \A q \in Product : q # p => taken'[s][q] = taken[s][q]
      /\ UNCHANGED <<life, tracked, stock, inv, sold, base, erased, missed>>
      /\ UNCHANGED <<cart, at, synced, target, value>>
  <2>1. taken' = [taken EXCEPT ![s][p] = @ + n]
    BY DEF TakeStock, p, n
  <2>2. /\ taken \in [Slot -> [Product -> Nat]] /\ taken[s] \in [Product -> Nat]
        /\ pc \in [Slot -> {"idle", "take", "sync", "place", "addInventory",
                            "dropInventory", "dropProduct",
                            "restockInventory", "restockProduct"}]
    BY DEF IInv, TypeOK
  <2>3. /\ taken'[s][p] = taken[s][p] + n
        /\ \A q \in Product : q # p => taken'[s][q] = taken[s][q]
        /\ \A t \in Slot : t # s => taken'[t] = taken[t]
    BY <1>1, <2>1, <2>2, AddToCell
  <2>4. pc[s] = "take" /\ pc'[s] = "sync" /\ \A t \in Slot : t # s => pc'[t] = pc[t]
    BY <2>2 DEF TakeStock, GoTo
  <2>5. ProductFree(s, p) /\ life[p] = "live" /\ stock[p] - taken[s][p] >= n
    BY DEF TakeStock, Enough, p, n
  <2>6. QED
    BY <2>3, <2>4, <2>5 DEF TakeStock, rows, job
<1>3. TypeOK'
  <2>1. [taken[s] EXCEPT ![p] = @ + n] \in [Product -> Nat]
    BY <1>1 DEF IInv, TypeOK
  <2>2. QED
    BY <1>2, <2>1 DEF IInv, TypeOK, TakeStock, GoTo, p, n
<1>4. CartShape' /\ OnlyCheckoutsTake' /\ JobShape'
  BY <1>2 DEF IInv, CartShape, OnlyCheckoutsTake, JobShape, Nothing
<1>5. \A q \in Product : \A t \in Slot :
        /\ taken'[t][q] > 0 => taken[t][q] > 0 \/ (t = s /\ q = p)
        /\ t # s => ~(taken[t][p] > 0)
        /\ taken[t][q] \in Nat /\ synced[t][q] \in Nat
  BY <1>1, <1>2 DEF ProductFree, HoldsProduct, IInv, TypeOK
<1>6. OneHolder' /\ HeldIsLive'
  BY <1>1, <1>2, <1>5 DEF IInv, OneHolder, HeldIsLive, HoldsProduct
<1>7. SyncFollowsTake'
  <2>1. \A q \in Product : /\ Pending(s, q) = 0
                           /\ Pending(s, q)' = IF q = p THEN n ELSE 0
    BY <1>2 DEF Pending, Now, Wanted, p, n
  <2>2. \A t \in Slot : t # s => \A q \in Product : Pending(t, q)' = Pending(t, q)
    BY <1>2 DEF Pending, Now, Wanted
  <2>3. QED
    BY <1>1, <1>2, <1>5, <2>1, <2>2 DEF IInv, SyncFollowsTake
<1>8. AddingInventory' /\ NewIsBlank'
  BY <1>2 DEF IInv, AddingInventory, NewIsBlank
<1>9. StockNeverNegative'
  <2>1. \A q \in Product : stock[q] \in Int /\ stock[q] >= 0
    BY DEF IInv, StockNeverNegative, TypeOK
  <2>2. ASSUME NEW q \in Product, NEW t \in Slot
        PROVE  stock[q] >= taken'[t][q]
    <3>1. CASE t = s /\ q = p
      BY <1>1, <1>2, <1>5, <2>1, <3>1
    <3>2. CASE ~(t = s /\ q = p)
      <4>1. taken'[t][q] = taken[t][q]
        BY <1>2, <3>2
      <4>2. QED
        BY <4>1 DEF IInv, StockNeverNegative
    <3>3. QED
      BY <3>1, <3>2
  <2>3. QED
    BY <1>2, <2>1, <2>2 DEF StockNeverNegative
<1>10. UnitsConserved' /\ InventoryInSync'
  BY <1>2 DEF IInv, UnitsConserved, InventoryInSync
<1>11. QED
  BY <1>3, <1>4, <1>6, <1>7, <1>8, <1>9, <1>10 DEF IInv

(* The inventory decrement catches up with what was taken, or the missing  *)
(* row is put on record.                                                   *)
LEMMA SyncKeepsIInv ==
    ASSUME IInv, NEW s \in Slot, SyncInventory(s)
    PROVE  IInv'
<1> DEFINE p == Now(s)
           n == Wanted(s)
<1>1. p \in Product /\ n \in Nat /\ n > 0
  BY CurrentItem DEF IInv, SyncInventory
<1>2. /\ pc[s] = "sync" /\ NextItem(s)
      /\ UNCHANGED <<life, tracked, stock, inv, sold, base, erased>>
      /\ UNCHANGED <<cart, taken, target, value>>
  BY DEF SyncInventory, job
<1>3. /\ pc'[s] \in {"take", "place"}
      /\ \A t \in Slot : t # s => pc'[t] = pc[t] /\ at'[t] = at[t]
      /\ CartShape'
  BY <1>2, NextItemSteps DEF IInv
<1>4. \/ inv[p] # Null /\ synced' = [synced EXCEPT ![s][p] = @ + n] /\ missed' = missed
      \/ inv[p] = Null /\ synced' = synced /\ missed' = [missed EXCEPT ![p] = TRUE]
  BY DEF SyncInventory
<1>5. \A q \in Product : Pending(s, q) = IF q = p THEN n ELSE 0
  BY <1>2 DEF Pending
<1> HIDE DEF p, n
<1>6. /\ synced' \in [Slot -> [Product -> Nat]]
      /\ \A q \in Product : q # p => synced'[s][q] = synced[s][q]
      /\ \A t \in Slot : t # s => synced'[t] = synced[t]
      /\ \/ inv[p] # Null /\ synced'[s][p] = synced[s][p] + n /\ missed' = missed
         \/ inv[p] = Null /\ synced' = synced /\ missed'[p]
      /\ missed' \in [Product -> BOOLEAN]
      /\ \A q \in Product : missed[q] => missed'[q]
  <2>1. /\ synced \in [Slot -> [Product -> Nat]] /\ missed \in [Product -> BOOLEAN]
    BY DEF IInv, TypeOK
  <2>2. CASE inv[p] # Null /\ synced' = [synced EXCEPT ![s][p] = @ + n] /\ missed' = missed
    BY <1>1, <2>1, <2>2, AddToCell
  <2>3. CASE inv[p] = Null /\ synced' = synced /\ missed' = [missed EXCEPT ![p] = TRUE]
    BY <1>1, <2>1, <2>3
  <2>4. QED
    BY <1>4, <2>2, <2>3
<1>7. TypeOK'
  BY <1>2, <1>6, NextItemSteps DEF IInv, TypeOK
<1>8. OnlyCheckoutsTake' /\ JobShape'
  BY <1>2, <1>3, <1>6 DEF IInv, OnlyCheckoutsTake, JobShape, Nothing
<1>9. OneHolder' /\ HeldIsLive'
  BY <1>2 DEF IInv, OneHolder, HeldIsLive, HoldsProduct
<1>10. SyncFollowsTake'
  <2>1. \A q \in Product : Pending(s, q)' = 0
    BY <1>3 DEF Pending
  <2>2. \A t \in Slot : t # s => \A q \in Product : Pending(t, q)' = Pending(t, q)
    BY <1>2, <1>3 DEF Pending, Now, Wanted
  <2>3. \A q \in Product : /\ taken[s][q] \in Nat /\ synced[s][q] \in Nat
                           /\ synced[s][q] + Pending(s, q) <= taken[s][q]
                           /\ ~missed[q] => synced[s][q] + Pending(s, q) = taken[s][q]
                           /\ synced[s][q] > 0 => inv[q] # Null
    BY DEF IInv, TypeOK, SyncFollowsTake
  <2>4. \A q \in Product :
          /\ synced'[s][q] <= taken[s][q]
          /\ ~missed'[q] => synced'[s][q] = taken[s][q]
          /\ synced'[s][q] > 0 => inv[q] # Null
    BY <1>1, <1>5, <1>6, <2>3
  <2>5. \A t \in Slot : t # s => \A q \in Product :
          /\ synced'[t][q] + Pending(t, q)' <= taken'[t][q]
          /\ ~missed'[q] => synced'[t][q] + Pending(t, q)' = taken'[t][q]
          /\ synced'[t][q] > 0 => inv'[q] # Null
    BY <1>2, <1>6, <2>2 DEF IInv, SyncFollowsTake
  <2>6. \A q \in Product : synced'[s][q] + Pending(s, q)' = synced'[s][q]
    BY <1>6, <2>1
  <2>7. QED
    BY <1>2, <2>4, <2>5, <2>6 DEF SyncFollowsTake
<1>11. AddingInventory' /\ NewIsBlank'
  BY <1>2, <1>3, <1>6 DEF IInv, AddingInventory, NewIsBlank, JobShape
<1>12. StockNeverNegative' /\ UnitsConserved' /\ InventoryInSync'
  BY <1>2, <1>6 DEF IInv, StockNeverNegative, UnitsConserved, InventoryInSync
<1>13. QED
  BY <1>3, <1>7, <1>8, <1>9, <1>10, <1>11, <1>12 DEF IInv

(* COMMIT of an order: what it took leaves the shelf, once.  A product in  *)
(* a committed decrement is listed and held by this transaction alone.     *)
LEMMA PlaceKeepsIInv ==
    ASSUME IInv, NEW s \in Slot, PlaceOrder(s)
    PROVE  IInv'
<1>1. CASE UNCHANGED <<stock, sold, inv>>
  BY <1>1, EndKeepsIInv DEF PlaceOrder, rows
<1>2. CASE /\ stock' = [p \in Product |-> stock[p] - taken[s][p]]
           /\ sold' = [p \in Product |-> sold[p] + taken[s][p]]
           /\ inv' = [p \in Product |-> IF synced[s][p] > 0 THEN inv[p] - synced[s][p]
                                                            ELSE inv[p]]
  <2>1. /\ pc[s] = "place" /\ pc'[s] = "idle"
        /\ taken'[s] = Nothing /\ synced'[s] = Nothing
        /\ \A t \in Slot : t # s =>
              /\ pc'[t] = pc[t] /\ cart'[t] = cart[t] /\ at'[t] = at[t]
              /\ taken'[t] = taken[t] /\ synced'[t] = synced[t]
              /\ target'[t] = target[t] /\ value'[t] = value[t]
        /\ UNCHANGED <<life, tracked, base, erased, missed>>
    BY DEF IInv, TypeOK, PlaceOrder, End, GoTo
  <2>2. \A p \in Product :
          /\ stock[p] \in Int /\ stock[p] >= taken[s][p]
          /\ sold[p] \in Nat /\ base[p] \in Nat /\ taken[s][p] \in Nat
          /\ synced[s][p] \in Nat /\ synced[s][p] <= taken[s][p]
          /\ ~missed[p] => synced[s][p] = taken[s][p]
          /\ synced[s][p] > 0 => inv[p] # Null
          /\ inv[p] \in Int \cup {Null}
          /\ taken[s][p] > 0 => life[p] = "live"
    <3>1. \A p \in Product : Pending(s, p) = 0
      BY <2>1 DEF Pending
    <3>2. \A p \in Product :
            /\ stock[p] \in Int /\ sold[p] \in Nat /\ base[p] \in Nat
            /\ taken[s][p] \in Nat /\ synced[s][p] \in Nat
            /\ inv[p] \in Int \cup {Null}
      BY DEF IInv, TypeOK
    <3>3. \A p \in Product : stock[p] >= taken[s][p]
      BY DEF IInv, StockNeverNegative
    <3>4. \A p \in Product :
            /\ synced[s][p] <= taken[s][p]
            /\ ~missed[p] => synced[s][p] = taken[s][p]
            /\ synced[s][p] > 0 => inv[p] # Null
      <4>1. ASSUME NEW p \in Product
            PROVE  synced[s][p] + Pending(s, p) = synced[s][p]
        <5>1. Pending(s, p) = 0 /\ synced[s][p] \in Nat
          BY <3>1, <3>2
        <5>2. QED
          BY <5>1
      <4>2. \A p \in Product :
              /\ synced[s][p] + Pending(s, p) <= taken[s][p]
              /\ ~missed[p] => synced[s][p] + Pending(s, p) = taken[s][p]
              /\ synced[s][p] > 0 => inv[p] # Null
        BY DEF IInv, SyncFollowsTake
      <4>3. QED
        BY <4>1, <4>2
    <3>5. \A p \in Product : taken[s][p] > 0 => life[p] = "live"
      BY DEF IInv, HeldIsLive, HoldsProduct
    <3>6. QED
      BY <3>2, <3>3, <3>4, <3>5
  <2>3. \A p \in Product :
          /\ stock'[p] = stock[p] - taken[s][p] /\ sold'[p] = sold[p] + taken[s][p]
          /\ synced[s][p] > 0 => inv'[p] = inv[p] - synced[s][p] /\ inv'[p] \in Int
          /\ ~(synced[s][p] > 0) => inv'[p] = inv[p]
    <3>1. \A p \in Product :
            /\ stock'[p] = stock[p] - taken[s][p] /\ sold'[p] = sold[p] + taken[s][p]
            /\ inv'[p] = IF synced[s][p] > 0 THEN inv[p] - synced[s][p] ELSE inv[p]
      BY <1>2
    <3>2. ASSUME NEW p \in Product, synced[s][p] > 0
          PROVE  inv'[p] = inv[p] - synced[s][p] /\ inv'[p] \in Int
      <4>1. inv[p] \in Int /\ synced[s][p] \in Int
        BY <2>2, <3>2
      <4>2. inv'[p] = inv[p] - synced[s][p]
        BY <3>1, <3>2
      <4>3. QED
        BY <4>1, <4>2
    <3>3. \A p \in Product : ~(synced[s][p] > 0) => inv'[p] = inv[p]
      BY <3>1
    <3>4. QED
      BY <3>1, <3>2, <3>3
  <2>4. \A p \in Product : taken[s][p] = 0 =>
            stock'[p] = stock[p] /\ sold'[p] = sold[p] /\ inv'[p] = inv[p]
    BY <2>2, <2>3
  <2>5. \A p \in Product : (inv'[p] = Null) <=> (inv[p] = Null)
    BY <2>2, <2>3, CheckoutAssumption
  <2>6. TypeOK'
    <3>1. /\ stock' \in [Product -> Int] /\ sold' \in [Product -> Nat]
          /\ inv' \in [Product -> Int \cup {Null}]
      BY <1>2, <2>2
    <3>2. QED
      BY <2>1, <3>1 DEF IInv, TypeOK, PlaceOrder, End, GoTo, Nothing
  <2>7. CartShape' /\ OnlyCheckoutsTake' /\ JobShape'
    BY <2>1 DEF IInv, CartShape, OnlyCheckoutsTake, JobShape, Nothing
  <2>8. OneHolder' /\ HeldIsLive'
    BY <2>1 DEF IInv, OneHolder, HeldIsLive, HoldsProduct, Nothing
  <2>9. SyncFollowsTake'
    <3>1. \A p \in Product : Pending(s, p)' = 0
      BY <2>1 DEF Pending
    <3>2. \A t \in Slot : t # s => \A p \in Product : Pending(t, p)' = Pending(t, p)
      BY <2>1 DEF Pending, Now, Wanted
    <3>3. QED
      BY <2>1, <2>5, <3>1, <3>2 DEF IInv, SyncFollowsTake, Nothing
  <2>10. AddingInventory'
    <3>1. ASSUME NEW t \in Slot, pc[t] = "addInventory", ~missed[target[t]]
          PROVE  stock'[target[t]] = stock[target[t]]
      <4>1. target[t] \in Product /\ inv[target[t]] = Null
        BY <3>1 DEF IInv, JobShape, AddingInventory
      <4>2. QED
        BY <2>2, <2>4, <3>1, <4>1
    <3>2. \A t \in Slot : pc[t] = "addInventory" => target[t] \in Product
      BY DEF IInv, JobShape
    <3>3. QED
      BY <2>1, <2>5, <3>1, <3>2 DEF IInv, AddingInventory
  <2>11. NewIsBlank'
    BY <2>1, <2>2, <2>4 DEF IInv, NewIsBlank
  <2>12. StockNeverNegative'
    <3>1. ASSUME NEW p \in Product, NEW t \in Slot PROVE stock'[p] >= taken'[t][p]
      <4>1. CASE t = s
        BY <2>1, <2>2, <2>3, <4>1 DEF Nothing
      <4>2. CASE t # s /\ taken[s][p] = 0
        BY <2>1, <2>4, <4>2 DEF IInv, StockNeverNegative
      <4>3. CASE t # s /\ taken[s][p] > 0
        <5>1. taken[t][p] \in Nat /\ ~(taken[t][p] > 0)
          BY <4>3 DEF IInv, TypeOK, OneHolder, HoldsProduct
        <5>2. QED
          BY <2>1, <2>2, <2>3, <4>3, <5>1
      <4>4. QED
        BY <2>2, <4>1, <4>2, <4>3
    <3>2. QED
      BY <2>2, <2>3, <3>1 DEF StockNeverNegative
  <2>13. UnitsConserved'
    <3>1. \A p \in Product : stock'[p] + sold'[p] + erased[p] = stock[p] + sold[p] + erased[p]
      BY <2>2, <2>3 DEF IInv, TypeOK
    <3>2. QED
      BY <2>1, <3>1 DEF IInv, UnitsConserved
  <2>14. InventoryInSync'
    <3>1. ASSUME NEW p \in Product, inv'[p] # Null, ~missed'[p]
          PROVE  inv'[p] = stock'[p]
      <4>1. inv[p] = stock[p] /\ synced[s][p] = taken[s][p]
        BY <2>1, <2>2, <2>5, <3>1 DEF IInv, InventoryInSync
      <4>2. QED
        BY <2>2, <2>3, <2>4, <4>1
    <3>2. QED
      BY <3>1 DEF InventoryInSync
  <2>15. QED
    BY <2>6, <2>7, <2>8, <2>9, <2>10, <2>11, <2>12, <2>13, <2>14 DEF IInv
<1>3. QED
  BY <1>1, <1>2 DEF PlaceOrder

(* A new product: nobody can have taken any of it, and the request that    *)
(* will add its inventory row, if there is one, carries the same amount.   *)
LEMMA CreateKeepsIInv ==
    ASSUME IInv, NEW s \in Slot, NEW p \in Product, NEW v \in Amounts, NEW t \in BOOLEAN,
           CreateProduct(s, p, v, t)
    PROVE  IInv'
<1>1. /\ v \in Nat /\ life[p] = "new" /\ pc[s] = "idle"
      /\ life'[p] = "live" /\ stock'[p] = v /\ base'[p] = v
      /\ \A q \in Product : q # p =>
            life'[q] = life[q] /\ stock'[q] = stock[q] /\ base'[q] = base[q]
      /\ UNCHANGED <<inv, sold, erased, missed, cart, at, taken, synced>>
  BY CheckoutAssumption DEF IInv, TypeOK, CreateProduct, BeginJob, tx
<1>2. /\ \A u \in Slot : u # s =>
            pc'[u] = pc[u] /\ target'[u] = target[u] /\ value'[u] = value[u]
      /\ \/ pc'[s] = "addInventory" /\ target'[s] = p /\ value'[s] = v
         \/ pc'[s] = "idle"
  BY <1>1 DEF IInv, TypeOK, CreateProduct, BeginJob, GoTo, job
<1>3. TypeOK'
  <2>1. /\ life' \in [Product -> {"new", "live", "deleted"}]
        /\ tracked' \in [Product -> BOOLEAN]
        /\ stock' \in [Product -> Int] /\ base' \in [Product -> Nat]
    BY <1>1 DEF IInv, TypeOK, CreateProduct
  <2>2. /\ pc' \in [Slot -> {"idle", "take", "sync", "place", "addInventory",
                             "dropInventory", "dropProduct",
                             "restockInventory", "restockProduct"}]
        /\ target' \in [Slot -> Product \cup {Null}] /\ value' \in [Slot -> Nat]
    <3>1. CASE t
      <4>1. BeginJob(s, "addInventory", p, v)
        BY Zenon, <3>1 DEF CreateProduct
      <4>2. QED
        BY <1>1, <4>1 DEF BeginJob, GoTo, IInv, TypeOK
    <3>2. CASE ~t
      <4>1. UNCHANGED <<pc, tx, job>>
        BY Zenon, <3>2 DEF CreateProduct
      <4>2. QED
        BY <4>1 DEF IInv, TypeOK, job
    <3>3. QED
      BY <3>1, <3>2
  <2>3. QED
    BY <1>1, <2>1, <2>2 DEF IInv, TypeOK
<1>4. CartShape' /\ OnlyCheckoutsTake' /\ JobShape'
  BY <1>1, <1>2 DEF IInv, CartShape, OnlyCheckoutsTake, JobShape, Nothing
<1>5. \A u \in Slot : ~(taken[u][p] > 0)
  BY <1>1 DEF IInv, HeldIsLive, HoldsProduct
<1>6. OneHolder' /\ HeldIsLive'
  BY <1>1, <1>5 DEF IInv, OneHolder, HeldIsLive, HoldsProduct
<1>7. SyncFollowsTake'
  <2>1. \A q \in Product : Pending(s, q)' = 0 /\ Pending(s, q) = 0
    BY <1>1, <1>2 DEF Pending
  <2>2. \A u \in Slot : u # s => \A q \in Product : Pending(u, q)' = Pending(u, q)
    BY <1>1, <1>2 DEF Pending, Now, Wanted
  <2>3. QED
    BY <1>1, <2>1, <2>2 DEF IInv, SyncFollowsTake
<1>8. AddingInventory'
  <2>1. \A u \in Slot : pc[u] = "addInventory" => target[u] \in Product /\ target[u] # p
    BY <1>1 DEF IInv, JobShape, AddingInventory
  <2>2. inv[p] = Null
    BY <1>1 DEF IInv, NewIsBlank
  <2>3. QED
    BY <1>1, <1>2, <2>1, <2>2 DEF IInv, AddingInventory
<1>9. NewIsBlank'
  BY <1>1 DEF IInv, NewIsBlank
<1>10. StockNeverNegative'
  <2>1. stock'[p] >= 0 /\ \A u \in Slot : stock'[p] >= taken'[u][p]
    <3>1. \A u \in Slot : taken[u][p] \in Nat /\ taken'[u][p] = taken[u][p]
      BY <1>1 DEF IInv, TypeOK
    <3>2. QED
      BY <1>1, <1>5, <3>1
  <2>2. QED
    BY <1>1, <2>1 DEF IInv, StockNeverNegative
<1>11. UnitsConserved' /\ InventoryInSync'
  BY <1>1 DEF IInv, NewIsBlank, UnitsConserved, InventoryInSync
<1>12. QED
  BY <1>3, <1>4, <1>6, <1>7, <1>8, <1>9, <1>10, <1>11 DEF IInv

(* The inventory row, with the amount the product still has. *)
LEMMA AddKeepsIInv ==
    ASSUME IInv, NEW s \in Slot, AddInventory(s)
    PROVE  IInv'
<1> DEFINE p == target[s]
<1>1. /\ pc[s] = "addInventory" /\ p \in Product /\ life[p] # "new" /\ value[s] \in Nat
      /\ inv[p] = Null
      /\ ~missed[p] /\ life[p] = "live" => stock[p] = value[s]
  BY DEF AddInventory, IInv, TypeOK, JobShape, AddingInventory
<1>2. CASE life[p] # "live"
  <2>1. UNCHANGED rows
    BY <1>2 DEF AddInventory, rows
  <2>2. QED
    BY <2>1, EndKeepsIInv DEF AddInventory
<1>3. CASE life[p] = "live"
  <2>1. /\ pc'[s] = "idle" /\ taken'[s] = Nothing /\ synced'[s] = Nothing
        /\ \A t \in Slot : t # s =>
              /\ pc'[t] = pc[t] /\ cart'[t] = cart[t] /\ at'[t] = at[t]
              /\ taken'[t] = taken[t] /\ synced'[t] = synced[t]
              /\ target'[t] = target[t] /\ value'[t] = value[t]
        /\ UNCHANGED <<life, tracked, stock, sold, base, erased, missed>>
    BY DEF IInv, TypeOK, AddInventory, End, GoTo
  <2>2. inv' = [inv EXCEPT ![p] = value[s]]
    BY <1>3 DEF AddInventory
  <2>3. /\ inv'[p] = value[s] /\ inv'[p] # Null
        /\ \A q \in Product : q # p => inv'[q] = inv[q]
    BY <1>1, <2>2, CheckoutAssumption DEF IInv, TypeOK
  <2>4. TypeOK'
    <3>1. inv' \in [Product -> Int \cup {Null}]
      BY <1>1, <2>2 DEF IInv, TypeOK
    <3>2. QED
      BY <2>1, <3>1 DEF IInv, TypeOK, AddInventory, End, GoTo, Nothing
  <2>5. CartShape' /\ OnlyCheckoutsTake' /\ JobShape'
    BY <2>1 DEF IInv, CartShape, OnlyCheckoutsTake, JobShape, Nothing
  <2>6. OneHolder' /\ HeldIsLive'
    BY <2>1 DEF IInv, OneHolder, HeldIsLive, HoldsProduct, Nothing
  <2>7. SyncFollowsTake'
    <3>1. \A q \in Product : Pending(s, q)' = 0
      BY <2>1 DEF Pending
    <3>2. \A t \in Slot : t # s => \A q \in Product : Pending(t, q)' = Pending(t, q)
      BY <2>1 DEF Pending, Now, Wanted
    <3>3. QED
      BY <2>1, <2>3, <3>1, <3>2 DEF IInv, SyncFollowsTake, Nothing
  <2>8. AddingInventory'
    <3>1. \A t \in Slot : t # s /\ pc[t] = "addInventory" =>
              target[t] \in Product /\ target[t] # p
      BY <1>1 DEF IInv, JobShape, AddingInventory
    <3>2. QED
      BY <2>1, <2>3, <3>1 DEF IInv, AddingInventory
  <2>9. NewIsBlank'
    BY <1>3, <2>1, <2>3 DEF IInv, NewIsBlank
  <2>10. StockNeverNegative' /\ UnitsConserved'
    BY <2>1 DEF IInv, StockNeverNegative, UnitsConserved, Nothing
  <2>11. InventoryInSync'
    BY <1>1, <1>3, <2>1, <2>3 DEF IInv, InventoryInSync
  <2>12. QED
    BY <2>4, <2>5, <2>6, <2>7, <2>8, <2>9, <2>10, <2>11 DEF IInv
<1>4. QED
  BY <1>2, <1>3

(* Products that go: no transaction holds one, and the slots stay as they  *)
(* are or are done.                                                        *)
LEMMA RemoveKeepsIInv ==
    ASSUME IInv, TypeOK', NEW gone \in SUBSET Product, Remove(gone),
           \A p \in gone : \A t \in Slot : ~HoldsProduct(t, p),
           \A t \in Slot :
              \/ pc'[t] = "idle" /\ taken'[t] = Nothing /\ synced'[t] = Nothing
              \/ /\ pc'[t] = pc[t] /\ cart'[t] = cart[t] /\ at'[t] = at[t]
                 /\ taken'[t] = taken[t] /\ synced'[t] = synced[t]
                 /\ target'[t] = target[t] /\ value'[t] = value[t]
    PROVE  IInv'
<1>1. \A p \in gone : \A t \in Slot :
          taken[t][p] \in Nat /\ synced[t][p] \in Nat /\ ~(taken[t][p] > 0)
  BY DEF IInv, TypeOK, HoldsProduct
<1>2. /\ \A p \in gone : /\ life'[p] = "deleted" /\ stock'[p] = 0 /\ inv'[p] = Null
                          /\ sold'[p] = 0 /\ base'[p] = 0 /\ erased'[p] = 0
      /\ \A q \in Product \ gone :
            /\ life'[q] = life[q] /\ stock'[q] = stock[q] /\ inv'[q] = inv[q]
            /\ sold'[q] = sold[q] /\ base'[q] = base[q] /\ erased'[q] = erased[q]
      /\ UNCHANGED <<tracked, missed>>
  BY DEF Remove
<1>3. CartShape' /\ OnlyCheckoutsTake' /\ JobShape'
  BY DEF IInv, CartShape, OnlyCheckoutsTake, JobShape, Nothing
<1>4. OneHolder' /\ HeldIsLive'
  BY <1>1, <1>2 DEF IInv, OneHolder, HeldIsLive, HoldsProduct, Nothing
<1>5. SyncFollowsTake'
  <2>1. ASSUME NEW t \in Slot, NEW p \in Product
        PROVE  /\ synced'[t][p] + Pending(t, p)' <= taken'[t][p]
               /\ ~missed'[p] => synced'[t][p] + Pending(t, p)' = taken'[t][p]
               /\ synced'[t][p] > 0 => inv'[p] # Null
    <3>1. CASE pc'[t] = "idle" /\ taken'[t] = Nothing /\ synced'[t] = Nothing
      BY <3>1 DEF Pending, Nothing
    <3>2. CASE /\ pc'[t] = pc[t] /\ cart'[t] = cart[t] /\ at'[t] = at[t]
               /\ taken'[t] = taken[t] /\ synced'[t] = synced[t]
      <4>1. Pending(t, p)' = Pending(t, p)
        BY <3>2 DEF Pending, Now, Wanted
      <4>2. /\ synced[t][p] + Pending(t, p) <= taken[t][p]
            /\ ~missed[p] => synced[t][p] + Pending(t, p) = taken[t][p]
            /\ synced[t][p] > 0 => inv[p] # Null
        BY DEF IInv, SyncFollowsTake
      <4>3. p \in gone => ~(synced[t][p] > 0)
        <5>1. Pending(t, p) \in Nat
          BY CurrentItem DEF IInv, Pending
        <5>2. QED
          BY <1>1, <4>2, <5>1
      <4>4. QED
        BY <1>2, <3>2, <4>1, <4>2, <4>3
    <3>3. QED
      BY <3>1, <3>2
  <2>2. QED
    BY <2>1 DEF SyncFollowsTake
<1>6. AddingInventory'
  <2>1. \A t \in Slot : pc[t] = "addInventory" => target[t] \in Product
    BY DEF IInv, JobShape
  <2>2. \A t \in Slot : pc'[t] = "addInventory" =>
            pc[t] = "addInventory" /\ target'[t] = target[t] /\ value'[t] = value[t]
    OBVIOUS
  <2>3. QED
    BY <1>2, <2>1, <2>2 DEF IInv, AddingInventory
<1>7. NewIsBlank'
  BY <1>2 DEF IInv, NewIsBlank
<1>8. StockNeverNegative'
  <2>1. ASSUME NEW p \in Product, NEW t \in Slot
        PROVE  stock'[p] >= 0 /\ stock'[p] >= taken'[t][p]
    <3>1. stock[p] \in Int /\ stock[p] >= 0 /\ stock[p] >= taken[t][p]
          /\ taken[t][p] \in Nat
      BY DEF IInv, StockNeverNegative, TypeOK
    <3>2. taken'[t][p] = 0 \/ taken'[t][p] = taken[t][p]
      BY DEF Nothing
    <3>3. QED
      BY <1>1, <1>2, <3>1, <3>2
  <2>2. ASSUME NEW p \in Product PROVE stock'[p] >= 0
    BY <1>2 DEF IInv, StockNeverNegative
  <2>3. QED
    BY <2>1, <2>2 DEF StockNeverNegative
<1>9. UnitsConserved' /\ InventoryInSync'
  BY <1>2 DEF IInv, UnitsConserved, InventoryInSync
<1>10. QED
  BY <1>3, <1>4, <1>5, <1>6, <1>7, <1>8, <1>9 DEF IInv

LEMMA RemoveKeepsTypes ==
    ASSUME TypeOK, NEW gone \in SUBSET Product, Remove(gone)
    PROVE  /\ life' \in [Product -> {"new", "live", "deleted"}]
           /\ stock' \in [Product -> Int] /\ inv' \in [Product -> Int \cup {Null}]
           /\ sold' \in [Product -> Nat] /\ base' \in [Product -> Nat]
           /\ erased' \in [Product -> Nat]
           /\ UNCHANGED <<tracked, missed>>
BY DEF TypeOK, Remove

(* A deletion takes the product once no transaction holds it. *)
LEMMA DropKeepsIInv ==
    ASSUME IInv, NEW s \in Slot, DropProduct(s)
    PROVE  IInv'
<1> DEFINE p == target[s]
<1>1. /\ pc[s] = "dropProduct" /\ p \in Product /\ ProductFree(s, p)
      /\ {p} \in SUBSET Product /\ Remove({p}) /\ End(s)
  BY DEF DropProduct, IInv, JobShape
<1> HIDE DEF p
<1>2. \A t \in Slot : ~HoldsProduct(t, p)
  <2>1. taken[s][p] = 0
    BY <1>1 DEF IInv, OnlyCheckoutsTake, Nothing
  <2>2. QED
    BY <1>1, <2>1 DEF ProductFree, HoldsProduct
<1>3. /\ pc'[s] = "idle" /\ taken'[s] = Nothing /\ synced'[s] = Nothing
      /\ \A t \in Slot : t # s =>
            /\ pc'[t] = pc[t] /\ cart'[t] = cart[t] /\ at'[t] = at[t]
            /\ taken'[t] = taken[t] /\ synced'[t] = synced[t]
            /\ target'[t] = target[t] /\ value'[t] = value[t]
  BY <1>1 DEF IInv, TypeOK, End, GoTo
<1>4. TypeOK'
  BY <1>1, RemoveKeepsTypes DEF IInv, TypeOK, End, GoTo, Nothing
<1>5. \A q \in {p} : \A t \in Slot : ~HoldsProduct(t, q)
  BY <1>2
<1>6. QED
  BY <1>1, <1>3, <1>4, <1>5, RemoveKeepsIInv

(* The products of an owner's account, none of them locked. *)
LEMMA DeleteOwnerKeepsIInv ==
    ASSUME IInv, NEW shop \in SUBSET Product, DeleteOwner(shop)
    PROVE  IInv'
<1>1. /\ Remove(shop) /\ UNCHANGED <<pc, cart, at, taken, synced, target, value>>
      /\ \A p \in shop : \A t \in Slot : ~HoldsProduct(t, p)
  BY DEF DeleteOwner, tx, job
<1>2. TypeOK'
  BY <1>1, RemoveKeepsTypes DEF IInv, TypeOK
<1>3. QED
  BY <1>1, <1>2, RemoveKeepsIInv

(* The orders of a customer's account go: their units change hands.        *)
LEMMA DeleteCustomerKeepsIInv ==
    ASSUME IInv, NEW units \in [Product -> Portions], DeleteCustomer(units)
    PROVE  IInv'
<1>1. /\ UNCHANGED <<life, tracked, stock, inv, base, missed>>
      /\ UNCHANGED <<pc, cart, at, taken, synced, target, value>>
  BY DEF DeleteCustomer, tx, job
<1>2. \A p \in Product :
          /\ units[p] \in Nat /\ sold[p] \in Nat /\ erased[p] \in Nat
          /\ stock[p] \in Int /\ base[p] \in Nat /\ units[p] <= sold[p]
          /\ sold'[p] = sold[p] - units[p] /\ erased'[p] = erased[p] + units[p]
  BY CheckoutAssumption DEF DeleteCustomer, IInv, TypeOK
<1>3. TypeOK'
  <2>1. sold' \in [Product -> Nat] /\ erased' \in [Product -> Nat]
    BY <1>2 DEF DeleteCustomer
  <2>2. QED
    BY <1>1, <2>1 DEF IInv, TypeOK
<1>4. CartShape' /\ OnlyCheckoutsTake' /\ JobShape'
  BY <1>1 DEF IInv, CartShape, OnlyCheckoutsTake, JobShape
<1>5. OneHolder' /\ HeldIsLive'
  BY <1>1 DEF IInv, OneHolder, HeldIsLive, HoldsProduct
<1>6. SyncFollowsTake'
  BY <1>1 DEF IInv, SyncFollowsTake, Pending, Now, Wanted
<1>7. AddingInventory'
  BY <1>1 DEF IInv, AddingInventory
<1>8. NewIsBlank'
  BY <1>1, <1>2 DEF IInv, NewIsBlank
<1>9. StockNeverNegative' /\ InventoryInSync'
  BY <1>1 DEF IInv, StockNeverNegative, InventoryInSync
<1>10. UnitsConserved'
  <2>1. \A p \in Product : stock[p] + sold'[p] + erased'[p] = stock[p] + sold[p] + erased[p]
    BY <1>2
  <2>2. QED
    BY <1>1, <2>1 DEF IInv, UnitsConserved
<1>11. QED
  BY <1>3, <1>4, <1>5, <1>6, <1>7, <1>8, <1>9, <1>10 DEF IInv

(* A restock: both updates leave the amounts as they are. *)
LEMMA RestockKeepsIInv ==
    ASSUME IInv, NEW s \in Slot, RestockInventory(s) \/ RestockProduct(s)
    PROVE  IInv'
<1>1. value[s] \in Nat
  BY DEF IInv, TypeOK
<1>2. CASE RestockInventory(s)
  <2>1. target[s] \in Product /\ pc[s] = "restockInventory"
    BY <1>2 DEF RestockInventory, IInv, JobShape
  <2>2. inv' = inv
    BY <1>1, <1>2, <2>1, RestockWritesNothing DEF RestockInventory, IInv, TypeOK
  <2>3. UNCHANGED <<rows, tx, job>>
    BY <1>2, <2>2 DEF RestockInventory, rows
  <2>4. TypeOK'
    BY <1>2, <2>3 DEF RestockInventory, GoTo, IInv, TypeOK, rows, tx, job
  <2>5. QED
    BY <1>2, <2>1, <2>3, <2>4, JobKeepsIInv DEF RestockInventory, GoTo, IInv, TypeOK, job
<1>3. CASE RestockProduct(s)
  <2>1. target[s] \in Product
    BY <1>3 DEF RestockProduct, IInv, JobShape
  <2>2. Delivered(value[s]) = Null
    BY <1>1 DEF Delivered
  <2>3. stock' = stock
    BY <1>3, <2>1, <2>2 DEF RestockProduct, Written, IInv, TypeOK
  <2>4. base[target[s]] = stock[target[s]] + sold[target[s]] + erased[target[s]]
    BY <1>3, <2>1 DEF RestockProduct, IInv, UnitsConserved
  <2>5. base' = base
    BY <1>3, <2>1, <2>3, <2>4 DEF RestockProduct, IInv, TypeOK
  <2>6. QED
    BY <1>3, <2>3, <2>5, EndKeepsIInv DEF RestockProduct, rows
<1>4. QED
  BY <1>2, <1>3

(* Where a merchant's request begins, and a deletion's first statement. *)
LEMMA JobStepKeepsIInv ==
    ASSUME IInv, NEW s \in Slot, NEW p \in Product,
           \/ BeginDelete(s, p)
           \/ \E v \in Amounts : BeginRestock(s, p, v)
           \/ DropInventory(s)
    PROVE  IInv'
<1>1. CASE BeginDelete(s, p)
  <2>1. TypeOK'
    BY <1>1 DEF BeginDelete, BeginJob, GoTo, IInv, TypeOK, rows, tx
  <2>2. /\ pc[s] = "idle" /\ pc'[s] = "dropInventory" /\ target'[s] = p
        /\ \A t \in Slot : t # s => /\ pc'[t] = pc[t] /\ target'[t] = target[t]
                                     /\ value'[t] = value[t]
        /\ UNCHANGED <<rows, tx>>
    BY <1>1 DEF BeginDelete, BeginJob, GoTo, IInv, TypeOK
  <2>3. QED
    BY <2>1, <2>2, JobKeepsIInv
<1>2. ASSUME NEW v \in Amounts, BeginRestock(s, p, v)
      PROVE  IInv'
  <2>1. TypeOK'
    BY <1>2, CheckoutAssumption DEF BeginRestock, BeginJob, GoTo, IInv, TypeOK, rows, tx
  <2>2. /\ pc[s] = "idle" /\ pc'[s] = "restockInventory" /\ target'[s] = p
        /\ \A t \in Slot : t # s => /\ pc'[t] = pc[t] /\ target'[t] = target[t]
                                     /\ value'[t] = value[t]
        /\ UNCHANGED <<rows, tx>>
    BY <1>2 DEF BeginRestock, BeginJob, GoTo, IInv, TypeOK
  <2>3. QED
    BY <2>1, <2>2, JobKeepsIInv
<1>3. CASE DropInventory(s)
  <2>1. TypeOK'
    BY <1>3 DEF DropInventory, GoTo, IInv, TypeOK, rows, tx
  <2>2. target[s] \in Product /\ pc[s] = "dropInventory"
    BY <1>3 DEF DropInventory, IInv, JobShape
  <2>3. /\ pc'[s] = "dropProduct" /\ target'[s] = target[s]
        /\ \A t \in Slot : t # s => /\ pc'[t] = pc[t] /\ target'[t] = target[t]
                                     /\ value'[t] = value[t]
        /\ UNCHANGED <<rows, tx>>
    BY <1>3 DEF DropInventory, GoTo, IInv, TypeOK
  <2>4. QED
    BY <2>1, <2>2, <2>3, JobKeepsIInv
<1>4. QED
  BY <1>1, <1>2, <1>3

LEMMA StutterKeepsIInv == IInv /\ UNCHANGED vars => IInv'
<1> SUFFICES ASSUME IInv, UNCHANGED vars PROVE IInv'
  OBVIOUS
<1> USE DEF vars, rows, tx, job, IInv
<1>1. TypeOK' /\ CartShape' /\ OnlyCheckoutsTake' /\ JobShape'
  BY DEF TypeOK, CartShape, OnlyCheckoutsTake, JobShape
<1>2. OneHolder' /\ HeldIsLive'
  BY DEF OneHolder, HeldIsLive, HoldsProduct
<1>3. SyncFollowsTake'
  BY DEF SyncFollowsTake, Pending, Now, Wanted
<1>4. AddingInventory' /\ NewIsBlank'
  BY DEF AddingInventory, NewIsBlank
<1>5. StockNeverNegative' /\ UnitsConserved' /\ InventoryInSync'
  BY DEF StockNeverNegative, UnitsConserved, InventoryInSync
<1>6. QED
  BY <1>1, <1>2, <1>3, <1>4, <1>5

LEMMA StepIInv == IInv /\ [Next]_vars => IInv'
<1> SUFFICES ASSUME IInv, [Next]_vars PROVE IInv'
  OBVIOUS
<1>1. ASSUME NEW s \in Slot, Continue(s)
      PROVE  IInv'
  <2>1. CASE SoldOut(s) \/ RestockFails(s) \/ BreakDeadlock(s)
    BY <2>1, EndKeepsIInv DEF SoldOut, RestockFails, BreakDeadlock
  <2>2. CASE DropInventory(s)
    <3>1. target[s] \in Product
      BY <2>2 DEF DropInventory, IInv, JobShape
    <3>2. QED
      BY <2>2, <3>1, JobStepKeepsIInv
  <2>3. QED
    BY <1>1, <2>1, <2>2, SkipKeepsIInv, TakeKeepsIInv, SyncKeepsIInv, PlaceKeepsIInv,
       AddKeepsIInv, DropKeepsIInv, RestockKeepsIInv DEF Continue
<1>2. ASSUME NEW s \in Slot, Fail(s)
      PROVE  IInv'
  BY <1>2, EndKeepsIInv DEF Fail
<1>3. QED
  BY <1>1, <1>2, BeginCheckoutKeepsIInv, CreateKeepsIInv, JobStepKeepsIInv,
     DeleteCustomerKeepsIInv, DeleteOwnerKeepsIInv, StutterKeepsIInv DEF Next

-----------------------------------------------------------------------------

(* IInv holds in every reachable state, whatever is sold and however many  *)
(* requests are in flight.                                                 *)
THEOREM Invariance == Spec => []IInv
  BY InitIInv, StepIInv, PTL DEF Spec

(* Rows, transactions and merchant requests keep their types. *)
THEOREM TypeCorrect == Spec => []TypeOK
<1>1. IInv => TypeOK
  BY DEF IInv
<1>2. QED
  BY <1>1, Invariance, PTL

(* No shop ever sells more than it has: neither the committed stock nor    *)
(* what an open checkout sees of it is negative.                           *)
THEOREM NothingIsOversold == Spec => []StockNeverNegative
<1>1. IInv => StockNeverNegative
  BY DEF IInv
<1>2. QED
  BY <1>1, Invariance, PTL

(* What the merchant put in stock is on the shelf or in orders, through    *)
(* every rollback, deadlock and failure.                                   *)
THEOREM NoUnitIsLost == Spec => []UnitsConserved
<1>1. IInv => UnitsConserved
  BY DEF IInv
<1>2. QED
  BY <1>1, Invariance, PTL

(* The inventory view shows the stock, unless an order came before it.     *)
THEOREM InventoryShowsStock == Spec => []InventoryInSync
<1>1. IInv => InventoryInSync
  BY DEF IInv
<1>2. QED
  BY <1>1, Invariance, PTL

-----------------------------------------------------------------------------
(* The whole cart.  Demand is a recursive function over the items.         *)
(* Demand by its recursion. *)
LEMMA DemandStep ==
    ASSUME NEW c, NEW p
    PROVE  /\ Demand(c, p, 0) = 0
           /\ \A n \in Nat \ {0} :
                Demand(c, p, n) = Demand(c, p, n-1)
                                    + (IF c[n].product = p THEN c[n].quantity ELSE 0)
<1> DEFINE g == [i \in Nat |-> IF c[i].product = p THEN c[i].quantity ELSE 0]
           F == CHOOSE f : f = [i \in Nat |-> IF i = 0 THEN 0
                        ELSE f[i-1] + (IF c[i].product = p THEN c[i].quantity ELSE 0)]
<1>1. PICK f : f = [i \in Nat |-> IF i = 0 THEN 0 ELSE f[i-1] + g[i]]
  <2> HIDE DEF g
  <2>1. QED
    BY RecursionOnNat
<1>2. f = [i \in Nat |-> IF i = 0 THEN 0
                        ELSE f[i-1] + (IF c[i].product = p THEN c[i].quantity ELSE 0)]
  BY <1>1
<1>3. F = [i \in Nat |-> IF i = 0 THEN 0
                        ELSE F[i-1] + (IF c[i].product = p THEN c[i].quantity ELSE 0)]
  BY <1>2
<1>4. \A n : Demand(c, p, n) = F[n]
  BY DEF Demand
<1>5. QED
  <2> HIDE DEF F
  <2>1. QED
    BY <1>3, <1>4

InLoop(s) == pc[s] \in {"take", "sync", "place"}

(* At the INSERT, the loop is past the last item. *)
LoopIsOver(s) ==
    pc[s] = "place" => cart[s] \in Carts /\ at[s] = Len(cart[s]) + 1

(* What a checkout found listed is never to come again. *)
ItemsAreKnown(s) ==
    InLoop(s) => \A i \in DOMAIN cart[s] : life[cart[s][i].product] # "new"

(* The items the loop has taken: those before the cursor, and between the  *)
(* two updates of an item that one as well.                                *)
Done(s) == IF pc[s] = "sync" THEN at[s] ELSE at[s] - 1

(* A transaction has taken what its cart wants of a tracked product so     *)
(* far; of one that is to come it has taken and its cart wants nothing.    *)
TakenSoFar(s) ==
    InLoop(s) => \A p \in Product : tracked[p] \/ life[p] = "new" =>
                    taken[s][p] = Demand(cart[s], p, Done(s))

CartInv ==
    \A s \in Slot : LoopIsOver(s) /\ ItemsAreKnown(s) /\ TakenSoFar(s)

(* No product comes back, and only one that comes can become tracked. *)
OnlyNewChange ==
    \A p \in Product :
        /\ life'[p] = "new" => life[p] = "new"
        /\ tracked'[p] => tracked[p] \/ life[p] = "new"

LEMMA ItemsAreProducts ==
    ASSUME TypeOK, NEW s \in Slot
    PROVE  \A i \in DOMAIN cart[s] : cart[s][i].product \in Product
<1>1. cart[s] \in Seq(Item)
  <2>1. cart[s] \in Carts \cup {<<>>}
    BY DEF TypeOK
  <2>2. <<>> \in Seq(Item)
    OBVIOUS
  <2>3. QED
    BY <2>1, <2>2, CheckoutAssumption
<1>2. \A i \in DOMAIN cart[s] : cart[s][i] \in Item
  BY <1>1
<1>3. QED
  BY <1>2 DEF Item

(* A checkout that a step leaves where it is keeps what it relies on. *)
LEMMA OtherCartsKeep ==
    ASSUME TypeOK, CartInv, OnlyNewChange, NEW t \in Slot,
           pc'[t] = pc[t], cart'[t] = cart[t], at'[t] = at[t], taken'[t] = taken[t]
    PROVE  (LoopIsOver(t) /\ ItemsAreKnown(t) /\ TakenSoFar(t))'
<1>1. LoopIsOver(t) /\ ItemsAreKnown(t) /\ TakenSoFar(t)
  BY DEF CartInv
<1>2. Done(t)' = Done(t) /\ InLoop(t)' = InLoop(t)
  BY DEF Done, InLoop
<1>3. LoopIsOver(t)'
  BY <1>1 DEF LoopIsOver
<1>4. ItemsAreKnown(t)'
  BY <1>1, <1>2, ItemsAreProducts DEF ItemsAreKnown, OnlyNewChange
<1>5. TakenSoFar(t)'
  BY <1>1, <1>2 DEF TakenSoFar, OnlyNewChange
<1>6. QED
  BY <1>3, <1>4, <1>5

LEMMA InitCart == Init => CartInv
BY DEF Init, CartInv, LoopIsOver, ItemsAreKnown, TakenSoFar, InLoop

(* A slot that leaves the loop, or was never in it. *)
LEMMA OutsideKeepsCart ==
    ASSUME TypeOK, CartInv, OnlyNewChange, NEW s \in Slot, ~InLoop(s)',
           \A t \in Slot : t # s => /\ pc'[t] = pc[t] /\ cart'[t] = cart[t]
                                    /\ at'[t] = at[t] /\ taken'[t] = taken[t]
    PROVE  CartInv'
<1>1. (LoopIsOver(s) /\ ItemsAreKnown(s) /\ TakenSoFar(s))'
  BY DEF LoopIsOver, ItemsAreKnown, TakenSoFar, InLoop
<1>2. QED
  BY <1>1, OtherCartsKeep DEF CartInv

LEMMA EndKeepsCart ==
    ASSUME TypeOK, CartInv, OnlyNewChange, NEW s \in Slot, End(s)
    PROVE  CartInv'
<1>1. /\ pc'[s] = "idle"
      /\ \A t \in Slot : t # s => /\ pc'[t] = pc[t] /\ cart'[t] = cart[t]
                                   /\ at'[t] = at[t] /\ taken'[t] = taken[t]
  BY DEF End, GoTo, TypeOK
<1>2. QED
  BY <1>1, OutsideKeepsCart DEF InLoop

LEMMA BeginKeepsCart ==
    ASSUME IInv, CartInv, NEW s \in Slot, NEW c \in Carts, BeginCheckout(s, c)
    PROVE  CartInv'
<1>1. /\ pc[s] = "idle" /\ pc'[s] = "take" /\ cart'[s] = c /\ at'[s] = 1
      /\ \A t \in Slot : t # s =>
            pc'[t] = pc[t] /\ cart'[t] = cart[t] /\ at'[t] = at[t]
      /\ \A i \in DOMAIN c : life[c[i].product] = "live"
      /\ UNCHANGED <<life, tracked, taken>>
  BY DEF IInv, TypeOK, BeginCheckout, GoTo, rows
<1>2. LoopIsOver(s)' /\ ItemsAreKnown(s)'
  BY <1>1 DEF LoopIsOver, ItemsAreKnown
<1>3. TakenSoFar(s)'
  <2>1. taken'[s] = Nothing
    BY <1>1 DEF IInv, OnlyCheckoutsTake
  <2>2. Done(s)' = 0
    BY <1>1 DEF Done
  <2>3. \A p \in Product : taken'[s][p] = Demand(cart'[s], p, Done(s)')
    BY <2>1, <2>2, DemandStep DEF Nothing
  <2>4. QED
    BY <2>3 DEF TakenSoFar
<1>4. OnlyNewChange
  BY <1>1 DEF OnlyNewChange
<1>5. QED
  BY <1>1, <1>2, <1>3, <1>4, OtherCartsKeep DEF CartInv, IInv

(* The end of the loop body: the item counts as taken, as it did or as it  *)
(* need not.                                                               *)
LEMMA NextItemKeepsCart ==
    ASSUME IInv, CartInv, NEW s \in Slot, pc[s] \in {"take", "sync"}, NextItem(s),
           UNCHANGED <<life, tracked, cart, taken>>,
           \A p \in Product : tracked[p] \/ life[p] = "new" =>
               taken[s][p] = Demand(cart[s], p, at[s])
    PROVE  CartInv'
<1>1. /\ at'[s] = at[s] + 1
      /\ pc'[s] = IF at[s] = Len(cart[s]) THEN "place" ELSE "take"
      /\ \A t \in Slot : t # s => pc'[t] = pc[t] /\ at'[t] = at[t]
  BY DEF NextItem, GoTo, IInv, TypeOK
<1>2. at[s] \in Nat /\ cart[s] \in Carts /\ Len(cart[s]) \in Nat
  BY CheckoutAssumption DEF IInv, TypeOK, CartShape
<1>3. LoopIsOver(s)'
  BY <1>1, <1>2 DEF LoopIsOver
<1>4. ItemsAreKnown(s)'
  BY DEF CartInv, ItemsAreKnown, InLoop
<1>5. TakenSoFar(s)'
  <2>1. Done(s)' = at[s]
    BY <1>1, <1>2 DEF Done
  <2>2. QED
    BY <2>1 DEF TakenSoFar
<1>6. OnlyNewChange
  BY DEF OnlyNewChange
<1>7. QED
  BY <1>1, <1>3, <1>4, <1>5, <1>6, OtherCartsKeep DEF CartInv, IInv

(* What the item at the cursor adds to the demand. *)
LEMMA DemandAtCursor ==
    ASSUME IInv, NEW s \in Slot, pc[s] \in {"take", "sync"}, NEW p \in Product
    PROVE  /\ p = Now(s) => Demand(cart[s], p, at[s])
                             = Demand(cart[s], p, at[s] - 1) + Wanted(s)
           /\ p # Now(s) /\ Demand(cart[s], p, at[s] - 1) \in Int
                => Demand(cart[s], p, at[s]) = Demand(cart[s], p, at[s] - 1)
<1>1. at[s] \in Nat \ {0}
  BY CheckoutAssumption DEF IInv, CartShape
<1>2. Demand(cart[s], p, at[s])
        = Demand(cart[s], p, at[s] - 1)
          + (IF Now(s) = p THEN Wanted(s) ELSE 0)
  BY <1>1, DemandStep DEF Now, Wanted
<1>3. QED
  BY <1>2

LEMMA SkipKeepsCart ==
    ASSUME IInv, CartInv, NEW s \in Slot, SkipUntracked(s)
    PROVE  CartInv'
<1>1. /\ pc[s] = "take" /\ ~tracked[Now(s)] /\ NextItem(s)
      /\ UNCHANGED <<life, tracked, cart, taken>>
  BY DEF SkipUntracked, rows
<1>2. life[Now(s)] # "new"
  <2>1. at[s] \in DOMAIN cart[s]
    BY <1>1, CheckoutAssumption DEF IInv, CartShape
  <2>2. QED
    BY <1>1, <2>1 DEF CartInv, ItemsAreKnown, InLoop, Now
<1>3. ASSUME NEW p \in Product, tracked[p] \/ life[p] = "new"
      PROVE  taken[s][p] = Demand(cart[s], p, at[s])
  <2>1. taken[s][p] = Demand(cart[s], p, at[s] - 1) /\ taken[s][p] \in Nat
    BY <1>1, <1>3 DEF CartInv, TakenSoFar, InLoop, Done, IInv, TypeOK
  <2>2. p # Now(s)
    BY <1>1, <1>2, <1>3
  <2>3. QED
    BY <1>1, <2>1, <2>2, DemandAtCursor
<1>4. QED
  BY <1>1, <1>3, NextItemKeepsCart

LEMMA TakeKeepsCart ==
    ASSUME IInv, CartInv, NEW s \in Slot, TakeStock(s)
    PROVE  CartInv'
<1> DEFINE q == Now(s)
<1>1. Now(s) \in Product /\ Wanted(s) \in Nat
  BY CurrentItem DEF IInv, TakeStock
<1>2. /\ pc[s] = "take" /\ pc'[s] = "sync"
      /\ \A t \in Slot : t # s => pc'[t] = pc[t]
      /\ UNCHANGED <<life, tracked, cart, at>>
  BY DEF TakeStock, GoTo, IInv, TypeOK, rows
<1>3. /\ taken'[s][q] = taken[s][q] + Wanted(s)
      /\ \A p \in Product : p # q => taken'[s][p] = taken[s][p]
      /\ \A t \in Slot : t # s => taken'[t] = taken[t]
  <2>1. taken' = [taken EXCEPT ![s][q] = @ + Wanted(s)]
    BY DEF TakeStock
  <2>2. taken \in [Slot -> [Product -> Nat]]
    BY DEF IInv, TypeOK
  <2> HIDE DEF q
  <2>3. QED
    BY <1>1, <2>1, <2>2, AddToCell DEF q
<1>4. LoopIsOver(s)' /\ ItemsAreKnown(s)'
  BY <1>2 DEF LoopIsOver, CartInv, ItemsAreKnown, InLoop
<1>5. TakenSoFar(s)'
  <2>1. Done(s)' = at[s]
    BY <1>2 DEF Done
  <2>2. ASSUME NEW p \in Product, tracked[p] \/ life[p] = "new"
        PROVE  taken'[s][p] = Demand(cart[s], p, at[s])
    <3>1. taken[s][p] = Demand(cart[s], p, at[s] - 1) /\ taken[s][p] \in Nat
      BY <1>2, <2>2 DEF CartInv, TakenSoFar, InLoop, Done, IInv, TypeOK
    <3>2. QED
      BY <1>2, <1>3, <3>1, DemandAtCursor
  <2>3. QED
    BY <1>2, <2>1, <2>2 DEF TakenSoFar
<1>6. OnlyNewChange
  BY <1>2 DEF OnlyNewChange
<1>7. QED
  BY <1>2, <1>3, <1>4, <1>5, <1>6, OtherCartsKeep DEF CartInv, IInv

LEMMA SyncKeepsCart ==
    ASSUME IInv, CartInv, NEW s \in Slot, SyncInventory(s)
    PROVE  CartInv'
<1>1. /\ pc[s] = "sync" /\ NextItem(s)
      /\ UNCHANGED <<life, tracked, cart, taken>>
  BY DEF SyncInventory
<1>2. ASSUME NEW p \in Product, tracked[p] \/ life[p] = "new"
      PROVE  taken[s][p] = Demand(cart[s], p, at[s])
  BY <1>1, <1>2 DEF CartInv, TakenSoFar, InLoop, Done
<1>3. QED
  BY <1>1, <1>2, NextItemKeepsCart

(* A merchant request moves no checkout. *)
LEMMA JobKeepsCart ==
    ASSUME IInv, CartInv, OnlyNewChange, NEW s \in Slot, UNCHANGED tx,
           ~InLoop(s)', \A t \in Slot : t # s => pc'[t] = pc[t]
    PROVE  CartInv'
<1>1. UNCHANGED <<cart, at, taken>>
  BY DEF tx
<1>2. QED
  BY <1>1, OutsideKeepsCart DEF IInv

LEMMA CreateKeepsCart ==
    ASSUME IInv, CartInv, NEW s \in Slot, NEW p \in Product, NEW v \in Amounts,
           NEW t \in BOOLEAN, CreateProduct(s, p, v, t)
    PROVE  CartInv'
<1>1. /\ OnlyNewChange /\ UNCHANGED tx
      /\ \A u \in Slot : u # s => pc'[u] = pc[u]
      /\ pc'[s] \in {"idle", "addInventory"}
  BY DEF CreateProduct, BeginJob, GoTo, OnlyNewChange, IInv, TypeOK
<1>2. QED
  BY <1>1, JobKeepsCart DEF InLoop

LEMMA StepCart == IInv /\ CartInv /\ [Next]_vars => CartInv'
<1> SUFFICES ASSUME IInv, CartInv, [Next]_vars PROVE CartInv'
  OBVIOUS
<1>1. ASSUME NEW s \in Slot, Continue(s) \/ Fail(s)
      PROVE  CartInv'
  <2>1. CASE SoldOut(s) \/ RestockFails(s) \/ BreakDeadlock(s) \/ Fail(s)
             \/ AddInventory(s) \/ RestockProduct(s) \/ PlaceOrder(s)
    <3>1. End(s) /\ UNCHANGED <<life, tracked>>
      BY <2>1 DEF SoldOut, RestockFails, BreakDeadlock, Fail, AddInventory,
                  RestockProduct, PlaceOrder, rows
    <3>2. QED
      BY <3>1, EndKeepsCart DEF OnlyNewChange, IInv
  <2>2. CASE DropProduct(s)
    <3>1. End(s) /\ OnlyNewChange
      BY <2>2 DEF DropProduct, Remove, OnlyNewChange, IInv, TypeOK
    <3>2. QED
      BY <3>1, EndKeepsCart DEF IInv
  <2>3. CASE DropInventory(s) \/ RestockInventory(s)
    <3>1. /\ UNCHANGED tx /\ OnlyNewChange
          /\ pc'[s] \in {"dropProduct", "restockProduct"}
          /\ \A t \in Slot : t # s => pc'[t] = pc[t]
      BY <2>3 DEF DropInventory, RestockInventory, GoTo, rows, OnlyNewChange, IInv, TypeOK
    <3>2. QED
      BY <3>1, JobKeepsCart DEF InLoop
  <2>4. QED
    BY <1>1, <2>1, <2>2, <2>3, SkipKeepsCart, TakeKeepsCart, SyncKeepsCart DEF Continue
<1>2. ASSUME NEW s \in Slot, NEW p \in Product,
             BeginDelete(s, p) \/ \E v \in Amounts : BeginRestock(s, p, v)
      PROVE  CartInv'
  <2>1. /\ UNCHANGED tx /\ OnlyNewChange
        /\ pc'[s] \in {"dropInventory", "restockInventory"}
        /\ \A t \in Slot : t # s => pc'[t] = pc[t]
    BY <1>2 DEF BeginDelete, BeginRestock, BeginJob, GoTo, rows, OnlyNewChange, IInv, TypeOK
  <2>2. QED
    BY <2>1, JobKeepsCart DEF InLoop
<1>3. CASE UNCHANGED vars
  <2>1. UNCHANGED <<pc, cart, at, taken, life, tracked>>
    BY <1>3 DEF vars, rows, tx
  <2>2. OnlyNewChange
    BY <2>1 DEF OnlyNewChange
  <2>3. QED
    BY <2>1, <2>2, OtherCartsKeep DEF CartInv, IInv
<1>4. ASSUME \/ \E units \in [Product -> Portions] : DeleteCustomer(units)
             \/ \E shop \in SUBSET Product : DeleteOwner(shop)
      PROVE  CartInv'
  <2>1. UNCHANGED <<pc, cart, at, taken>> /\ OnlyNewChange
    BY <1>4 DEF DeleteCustomer, DeleteOwner, Remove, OnlyNewChange, tx
  <2>2. QED
    BY <2>1, OtherCartsKeep DEF CartInv, IInv
<1>5. QED
  BY <1>1, <1>2, <1>3, <1>4, BeginKeepsCart, CreateKeepsCart DEF Next

(* An order is inserted with every tracked item of its cart taken, for     *)
(* carts of any length, however often they list a product.                 *)
THEOREM OrdersTakeTheWholeCart == Spec => []OrderTakesWholeCart
<1>1. ASSUME IInv, CartInv PROVE OrderTakesWholeCart
  <2>1. ASSUME NEW s \in Slot, pc[s] = "place"
        PROVE  Done(s) = Len(cart[s])
    <3>1. at[s] = Len(cart[s]) + 1 /\ cart[s] \in Seq(Item)
      BY <1>1, <2>1, CheckoutAssumption DEF CartInv, LoopIsOver
    <3>2. QED
      BY <2>1, <3>1 DEF Done
  <2>2. QED
    BY <1>1, <2>1 DEF CartInv, TakenSoFar, InLoop, OrderTakesWholeCart
<1>2. Init => CartInv
  BY InitCart
<1>3. QED
  BY <1>1, <1>2, StepCart, Invariance, PTL DEF Spec
=============================================================================
