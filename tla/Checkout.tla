------------------------------ MODULE Checkout ------------------------------
(***************************************************************************)
(* Stock and the requests that change it: OrdersService.createOrder for    *)
(* the customers, BusinessProductsService (create, delete) and             *)
(* BusinessInventoryService (updateStock) for the merchant.                *)
(*                                                                         *)
(* Every statement is atomic and PostgreSQL runs at READ COMMITTED.  A     *)
(* transaction's writes are kept in the slot (`taken`, `synced`) until     *)
(* COMMIT; an updated or deleted row is locked until then, and a statement *)
(* that wants a locked row waits and then sees the committed row.          *)
(***************************************************************************)
EXTENDS Integers, Sequences

CONSTANTS
    Product,     \* ids of the products the shop may list
    Slot,        \* requests the server can have in flight at once
    Carts,       \* carts a customer may send: sequences of items
    Amounts,     \* stock levels a merchant may type in
    Portions,    \* units of a product that one customer's orders may hold
    Null         \* no row, no value, undefined

Item == [product : Product, quantity : Nat \ {0}]

ASSUME CheckoutAssumption ==
    /\ Carts \subseteq Seq(Item) \ {<<>>}
    /\ Amounts \subseteq Nat
    /\ Portions \subseteq Nat
    /\ Null \notin Int
    /\ Null \notin Product

VARIABLES
    life,        \* whether the Product row is to come, there or deleted
    tracked,     \* Product.trackInventory, never updated
    stock,       \* Product.stock, committed
    inv,         \* Inventory.currentStock of the product, committed
    sold,        \* units in its OrderItem rows
    base,        \* history: units the merchant ever put in stock
    erased,      \* history: units in orders erased with their customer
    missed,      \* history: an order found no Inventory row for it
    pc,          \* the statement each slot waits for
    cart, at,    \* checkout: its cart and the item the loop is at
    taken,       \* checkout: uncommitted decrements of Product.stock
    synced,      \* checkout: uncommitted decrements of currentStock
    target,      \* merchant request: its product
    value        \* merchant request: its amount (dropProduct: see below)

rows == <<life, tracked, stock, inv, sold, base, erased, missed>>
tx == <<cart, at, taken, synced>>
job == <<target, value>>
vars == <<rows, pc, tx, job>>

TypeOK ==
    /\ life \in [Product -> {"new", "live", "deleted"}]
    /\ tracked \in [Product -> BOOLEAN]
    /\ stock \in [Product -> Int]
    /\ inv \in [Product -> Int \cup {Null}]
    /\ sold \in [Product -> Nat]
    /\ base \in [Product -> Nat]
    /\ erased \in [Product -> Nat]
    /\ missed \in [Product -> BOOLEAN]
    /\ pc \in [Slot -> {"idle", "take", "sync", "place", "addInventory",
                        "dropInventory", "dropProduct",
                        "restockInventory", "restockProduct"}]
    /\ cart \in [Slot -> Carts \cup {<<>>}]
    /\ at \in [Slot -> Nat]
    /\ taken \in [Slot -> [Product -> Nat]]
    /\ synced \in [Slot -> [Product -> Nat]]
    /\ target \in [Slot -> Product \cup {Null}]
    /\ value \in [Slot -> Nat]

Nothing == [p \in Product |-> 0]

Init ==
    /\ life = [p \in Product |-> "new"]
    /\ tracked = [p \in Product |-> FALSE]
    /\ stock = Nothing
    /\ inv = [p \in Product |-> Null]
    /\ sold = Nothing
    /\ base = Nothing
    /\ erased = Nothing
    /\ missed = [p \in Product |-> FALSE]
    /\ pc = [s \in Slot |-> "idle"]
    /\ cart = [s \in Slot |-> <<>>]
    /\ at = [s \in Slot |-> 0]
    /\ taken = [s \in Slot |-> Nothing]
    /\ synced = [s \in Slot |-> Nothing]
    /\ target = [s \in Slot |-> Null]
    /\ value = [s \in Slot |-> 0]

GoTo(s, next) == pc' = [pc EXCEPT ![s] = next]

(* The request of slot s is over; what it did not commit is gone. *)
End(s) ==
    /\ GoTo(s, "idle")
    /\ cart' = [cart EXCEPT ![s] = <<>>]
    /\ at' = [at EXCEPT ![s] = 0]
    /\ taken' = [taken EXCEPT ![s] = Nothing]
    /\ synced' = [synced EXCEPT ![s] = Nothing]
    /\ target' = [target EXCEPT ![s] = Null]
    /\ value' = [value EXCEPT ![s] = 0]

BeginJob(s, next, p, v) ==
    /\ pc[s] = "idle"
    /\ GoTo(s, next)
    /\ target' = [target EXCEPT ![s] = p]
    /\ value' = [value EXCEPT ![s] = v]
    /\ UNCHANGED tx

(* Who holds the row locks.  A deletion has locked the Inventory row it    *)
(* found (value 1) until its COMMIT, which comes with the Product row.     *)
HoldsProduct(t, p) == taken[t][p] > 0

HoldsInventory(t, p) ==
    \/ synced[t][p] > 0
    \/ pc[t] = "dropProduct" /\ target[t] = p /\ value[t] = 1

ProductFree(s, p) == \A t \in Slot \ {s} : ~HoldsProduct(t, p)
InventoryFree(s, p) == \A t \in Slot \ {s} : ~HoldsInventory(t, p)

-----------------------------------------------------------------------------
(* createOrder *)

Now(s) == cart[s][at[s]].product
Wanted(s) == cart[s][at[s]].quantity

(* The reads before the transaction: every product is listed and what is   *)
(* tracked has enough for each single item of the cart.                    *)
BeginCheckout(s, c) ==
    /\ pc[s] = "idle"
    /\ \A i \in DOMAIN c :
          /\ life[c[i].product] = "live"
          /\ tracked[c[i].product] => c[i].quantity <= stock[c[i].product]
    /\ GoTo(s, "take")
    /\ cart' = [cart EXCEPT ![s] = c]
    /\ at' = [at EXCEPT ![s] = 1]
    /\ UNCHANGED <<rows, taken, synced, job>>

(* The end of the loop body. *)
NextItem(s) ==
    /\ at' = [at EXCEPT ![s] = @ + 1]
    /\ GoTo(s, IF at[s] = Len(cart[s]) THEN "place" ELSE "take")

SkipUntracked(s) ==
    /\ pc[s] = "take" /\ ~tracked[Now(s)]
    /\ NextItem(s)
    /\ UNCHANGED <<rows, cart, taken, synced, job>>

(* What the transaction sees of the row: `stock: { gte: quantity }`. *)
Enough_Unchecked(s) == life[Now(s)] = "live"

Enough(s) ==
    /\ life[Now(s)] = "live"
    /\ stock[Now(s)] - taken[s][Now(s)] >= Wanted(s)

TakeStock_Autocommit(s) ==
    /\ pc[s] = "take" /\ tracked[Now(s)] /\ ProductFree(s, Now(s)) /\ Enough(s)
    /\ stock' = [stock EXCEPT ![Now(s)] = @ - Wanted(s)]
    /\ GoTo(s, "sync")
    /\ UNCHANGED <<life, tracked, inv, sold, base, erased, missed, tx, job>>

TakeStock_Overwrite(s) ==
    /\ pc[s] = "take" /\ tracked[Now(s)] /\ ProductFree(s, Now(s)) /\ Enough(s)
    /\ taken' = [taken EXCEPT ![s][Now(s)] = Wanted(s)]
    /\ GoTo(s, "sync")
    /\ UNCHANGED <<rows, cart, at, synced, job>>

TakeStock(s) ==
    /\ pc[s] = "take" /\ tracked[Now(s)] /\ ProductFree(s, Now(s)) /\ Enough(s)
    /\ taken' = [taken EXCEPT ![s][Now(s)] = @ + Wanted(s)]
    /\ GoTo(s, "sync")
    /\ UNCHANGED <<rows, cart, at, synced, job>>

(* updateMany matched no row: ConflictException, ROLLBACK. *)
SoldOut(s) ==
    /\ pc[s] = "take" /\ tracked[Now(s)] /\ ProductFree(s, Now(s)) /\ ~Enough(s)
    /\ End(s)
    /\ UNCHANGED rows

SyncInventory_Forgotten(s) ==
    /\ pc[s] = "sync" /\ InventoryFree(s, Now(s))
    /\ NextItem(s)
    /\ UNCHANGED <<rows, cart, taken, synced, job>>

(* updateMany on the Inventory row, which need not be there. *)
SyncInventory(s) ==
    /\ pc[s] = "sync" /\ InventoryFree(s, Now(s))
    /\ IF inv[Now(s)] # Null
       THEN /\ synced' = [synced EXCEPT ![s][Now(s)] = @ + Wanted(s)]
            /\ UNCHANGED missed
       ELSE /\ missed' = [missed EXCEPT ![Now(s)] = TRUE]
            /\ UNCHANGED synced
    /\ NextItem(s)
    /\ UNCHANGED <<life, tracked, stock, inv, sold, base, erased, cart, taken, job>>

(* INSERT orders and its items, COMMIT.  The foreign keys of the items     *)
(* refuse a product that was deleted meanwhile: ROLLBACK.                  *)
PlaceOrder(s) ==
    /\ pc[s] = "place"
    /\ IF \A i \in DOMAIN cart[s] : life[cart[s][i].product] = "live"
       THEN /\ stock' = [p \in Product |-> stock[p] - taken[s][p]]
            /\ sold' = [p \in Product |-> sold[p] + taken[s][p]]
            /\ inv' = [p \in Product |-> IF synced[s][p] > 0 THEN inv[p] - synced[s][p]
                                                           ELSE inv[p]]
       ELSE UNCHANGED <<stock, sold, inv>>
    /\ End(s)
    /\ UNCHANGED <<life, tracked, base, erased, missed>>

-----------------------------------------------------------------------------
(* createProduct: the Product row, then the Inventory row by a second      *)
(* statement whose failure is logged.                                      *)
CreateProduct(s, p, v, t) ==
    /\ life[p] = "new"
    /\ life' = [life EXCEPT ![p] = "live"]
    /\ tracked' = [tracked EXCEPT ![p] = t]
    /\ stock' = [stock EXCEPT ![p] = v]
    /\ base' = [base EXCEPT ![p] = v]
    /\ IF t THEN BeginJob(s, "addInventory", p, v)
            ELSE pc[s] = "idle" /\ UNCHANGED <<pc, tx, job>>
    /\ UNCHANGED <<inv, sold, erased, missed>>

AddInventory(s) ==
    /\ pc[s] = "addInventory"
    /\ inv' = IF life[target[s]] = "live" THEN [inv EXCEPT ![target[s]] = value[s]]
                                          ELSE inv
    /\ End(s)
    /\ UNCHANGED <<life, tracked, stock, sold, base, erased, missed>>

(* deleteProduct: one transaction, the Inventory row first. *)
BeginDelete(s, p) ==
    /\ life[p] = "live"
    /\ BeginJob(s, "dropInventory", p, 0)
    /\ UNCHANGED rows

DropInventory(s) ==
    /\ pc[s] = "dropInventory" /\ InventoryFree(s, target[s])
    /\ value' = [value EXCEPT ![s] = IF inv[target[s]] = Null THEN 0 ELSE 1]
    /\ GoTo(s, "dropProduct")
    /\ UNCHANGED <<rows, tx, target>>

(* A Product row goes and takes the Inventory and OrderItem rows that name *)
(* it along (onDelete: Cascade).                                           *)
Remove(gone) ==
    LET Without(f, blank) == [p \in Product |-> IF p \in gone THEN blank ELSE f[p]] IN
    /\ life' = Without(life, "deleted")
    /\ stock' = Without(stock, 0)
    /\ inv' = Without(inv, Null)
    /\ sold' = Without(sold, 0)
    /\ base' = Without(base, 0)
    /\ erased' = Without(erased, 0)
    /\ UNCHANGED <<tracked, missed>>

(* DELETE Product, COMMIT; a row that another deletion took makes the      *)
(* transaction fail.                                                       *)
DropProduct(s) ==
    /\ pc[s] = "dropProduct" /\ ProductFree(s, target[s])
    /\ Remove({target[s]})
    /\ End(s)

-----------------------------------------------------------------------------
(* updateStock.  The global ValidationPipe whitelists the decorated        *)
(* properties of a body and UpdateStockDto decorates none, so whatever the *)
(* merchant sent, the service reads an undefined dto.stock.                *)
Delivered(v) == IF v \in Nat THEN Null ELSE v

(* Prisma leaves a column out of the UPDATE when its value is undefined. *)
Written(old, v) == IF v = Null THEN old ELSE v

BeginRestock(s, p, v) ==
    /\ inv[p] # Null
    /\ BeginJob(s, "restockInventory", p, v)
    /\ UNCHANGED rows

(* The first UPDATE sets lastRestockedAt at least, so it locks the row. *)
RestockInventory(s) ==
    LET p == target[s] IN
    /\ pc[s] = "restockInventory" /\ InventoryFree(s, p)
    /\ inv[p] # Null
    /\ inv' = [inv EXCEPT ![p] = Written(@, Delivered(value[s]))]
    /\ GoTo(s, "restockProduct")
    /\ UNCHANGED <<life, tracked, stock, sold, base, erased, missed, tx, job>>

RestockProduct_Raw(s) ==
    LET p == target[s] IN
    /\ pc[s] = "restockProduct" /\ life[p] = "live"
    /\ stock' = [stock EXCEPT ![p] = Delivered(value[s])]
    /\ End(s)
    /\ UNCHANGED <<life, tracked, inv, sold, base, erased, missed>>

RestockProduct(s) ==
    LET p == target[s] IN
    /\ pc[s] = "restockProduct" /\ life[p] = "live"
    /\ Delivered(value[s]) = Null \/ ProductFree(s, p)
    /\ stock' = [stock EXCEPT ![p] = Written(@, Delivered(value[s]))]
    /\ base' = [base EXCEPT ![p] = stock'[p] + sold[p] + erased[p]]
    /\ End(s)
    /\ UNCHANGED <<life, tracked, inv, sold, erased, missed>>

(* The row went away between the statements: the request fails. *)
RestockFails(s) ==
    /\ \/ pc[s] = "restockInventory" /\ inv[target[s]] = Null
       \/ pc[s] = "restockProduct" /\ life[target[s]] # "live"
    /\ End(s)
    /\ UNCHANGED rows

-----------------------------------------------------------------------------
(* deleteAccount: one DELETE of the User row and everything that cascades  *)
(* from it.  No check stands before it, and the requests of the account    *)
(* that are in flight fail.                                                *)

(* A customer's orders go with their items, and nothing goes back on the   *)
(* shelf.  Whose order holds which unit is not kept: any part of the units *)
(* sold may be this customer's.                                            *)
DeleteCustomer(units) ==
    /\ units # Nothing
    /\ \A p \in Product : units[p] <= sold[p]
    /\ sold' = [p \in Product |-> sold[p] - units[p]]
    /\ erased' = [p \in Product |-> erased[p] + units[p]]
    /\ UNCHANGED <<life, tracked, stock, inv, base, missed, pc, tx, job>>

(* An owner's products go, once no transaction has a lock on them.         *)
DeleteOwner(shop) ==
    /\ shop # {}
    /\ \A p \in shop : /\ life[p] = "live"
                       /\ \A t \in Slot : ~HoldsProduct(t, p) /\ ~HoldsInventory(t, p)
    /\ Remove(shop)
    /\ UNCHANGED <<pc, tx, job>>

-----------------------------------------------------------------------------
(* PostgreSQL breaks a cycle of waiting transactions by failing one.       *)

WaitsFor(s, t) ==
    \/ pc[s] = "take" /\ tracked[Now(s)] /\ HoldsProduct(t, Now(s))
    \/ pc[s] = "sync" /\ HoldsInventory(t, Now(s))
    \/ pc[s] = "dropInventory" /\ HoldsInventory(t, target[s])
    \/ pc[s] = "dropProduct" /\ HoldsProduct(t, target[s])

InCycle(s) ==
    \E cycle \in SUBSET Slot :
        /\ s \in cycle
        /\ \A x \in cycle : /\ \E y \in cycle \ {x} : WaitsFor(x, y)
                            /\ \E y \in cycle \ {x} : WaitsFor(y, x)

BreakDeadlock_Retries(s) ==
    /\ InCycle(s)
    /\ UNCHANGED vars

BreakDeadlock(s) ==
    /\ InCycle(s)
    /\ End(s)
    /\ UNCHANGED rows

(* A request may be cut short at any statement: the transaction times out, *)
(* the connection is lost, the process dies.                               *)
Fail(s) ==
    /\ pc[s] # "idle"
    /\ End(s)
    /\ UNCHANGED rows

(* A statement of the request in slot s returns and its handler goes on. *)
Continue(s) ==
    \/ SkipUntracked(s) \/ TakeStock(s) \/ SoldOut(s) \/ SyncInventory(s)
    \/ PlaceOrder(s) \/ AddInventory(s) \/ DropInventory(s) \/ DropProduct(s)
    \/ RestockInventory(s) \/ RestockProduct(s) \/ RestockFails(s)
    \/ BreakDeadlock(s)

Next ==
    \/ \E s \in Slot :
        \/ \E c \in Carts : BeginCheckout(s, c)
        \/ \E p \in Product :
              \/ \E v \in Amounts, t \in BOOLEAN : CreateProduct(s, p, v, t)
              \/ BeginDelete(s, p)
              \/ \E v \in Amounts : BeginRestock(s, p, v)
        \/ Continue(s)
        \/ Fail(s)
    \/ \E units \in [Product -> Portions] : DeleteCustomer(units)
    \/ \E shop \in SUBSET Product : DeleteOwner(shop)

Spec == Init /\ [][Next]_vars

(* A statement that can run is run in the end; one that waits for a lock   *)
(* gets the row when it comes free, and a deadlock is detected.            *)
Fairness == \A s \in Slot : SF_vars(Continue(s))

FairSpec == Spec /\ Fairness

-----------------------------------------------------------------------------
(* Properties *)

(* Two customers racing for the last unit cannot both have it, nor one     *)
(* customer whose cart lists a product twice: no transaction ever sees a   *)
(* negative stock, committed or its own.                                   *)
StockNeverNegative ==
    \A p \in Product : stock[p] >= 0 /\ \A s \in Slot : stock[p] >= taken[s][p]

(* Every unit the merchant put in stock is on the shelf, in an order, or   *)
(* in an order erased with the account of its customer: failed, rolled     *)
(* back and deadlocked checkouts lose none and make none.                  *)
UnitsConserved ==
    \A p \in Product :
        life[p] = "live" => stock[p] + sold[p] + erased[p] = base[p]

(* "Keep the business inventory view in sync with the product's stock"     *)
(* (orders.service.ts), except for a product some order reached before its *)
(* Inventory row.                                                          *)
InventoryInSync ==
    \A p \in Product : inv[p] # Null /\ ~missed[p] => inv[p] = stock[p]

(* The units of product p in the first n items of cart c. *)
Demand(c, p, n) ==
    LET f[i \in Nat] == IF i = 0 THEN 0
                        ELSE f[i-1] + (IF c[i].product = p THEN c[i].quantity ELSE 0)
    IN f[n]

(* An order is placed for its whole cart or not at all: when its           *)
(* transaction comes to insert it, it has taken every tracked item.        *)
OrderTakesWholeCart ==
    \A s \in Slot : pc[s] = "place" =>
        \A p \in Product : tracked[p] => taken[s][p] = Demand(cart[s], p, Len(cart[s]))

(* Every request comes to an end: carts that list products in opposite     *)
(* order, and a deletion against a checkout, lock rows in opposite order.  *)
RequestsEnd == \A s \in Slot : pc[s] # "idle" ~> pc[s] = "idle"

(* "Updating inventory stock also updates the Product's stock field"       *)
(* (INVENTORY_API.md): the last step of a restock leaves the amount sent.  *)
RestockSetsStock ==
    [][\A s \in Slot :
         RestockProduct(s) => stock'[target[s]] = value[s]]_vars
=============================================================================
