-------------------------------- MODULE Shops --------------------------------
(***************************************************************************)
(* How one owner gets a shop, stocks it and shows it: registration and     *)
(* publication (BusinessOnboardingService), the opening hours              *)
(* (OperatingHoursService) and the products that publication counts        *)
(* (BusinessProductsService), with the list of shops customers see.        *)
(* Every handler reads, then writes: nothing runs in a transaction.        *)
(***************************************************************************)
EXTENDS Integers, FiniteSets

CONSTANTS
    MaxShops,    \* bound: shops the owner registers
    Day,         \* days of the week
    Product,
    Inactive,    \* products that are created with isActive false; nothing
                 \* changes the flag of a product afterwards
    Merchant     \* requests of the owner the server can have in flight

ASSUME ShopsAssumption == MaxShops \in Nat

\* The Business rows, in the order they are created.
Shop == 1..MaxShops

VARIABLES
    shops,       \* how many there are
    active,      \* the shops that are published
    hours,       \* the days with a row in OperatingHours, per shop
    shelf,       \* per product: its shop, 0 before and after
    merchant,    \* per request: the await it waits for and what it read
    lapse        \* history: how a shop may have become what it should not be

shopsVars == <<shops, active, hours, shelf, merchant, lapse>>

NotAsked == [pc |-> "idle", shop |-> 0, day |-> 0, product |-> 0]

ShopsTypeOK ==
    /\ shops \in 0..MaxShops
    /\ active \subseteq Shop
    /\ hours \in [Shop -> SUBSET Day]
    /\ shelf \in [Product -> 0..MaxShops]
    /\ \A m \in Merchant :
         /\ merchant[m].pc \in {"idle", "create", "hours", "count", "activate",
                                "hide", "set", "clear", "stock", "discard"}
         /\ merchant[m].shop \in 0..MaxShops
         /\ merchant[m].day \in Day \cup {0}
         /\ merchant[m].product \in Product \cup {0}
    /\ lapse \in [twice : BOOLEAN, shut : SUBSET Shop, emptied : SUBSET Shop,
                  unseen : SUBSET Shop]

ShopsInit ==
    /\ shops = 0 /\ active = {}
    /\ hours = [s \in Shop |-> {}]
    /\ shelf = [p \in Product |-> 0]
    /\ merchant = [m \in Merchant |-> NotAsked]
    /\ lapse = [twice |-> FALSE, shut |-> {}, emptied |-> {},
                 unseen |-> {}]

\* The products of a shop, and those that getShopProducts shows a customer.
Goods(s) == {p \in Product : shelf[p] = s}
Offered(s) == Goods(s) \ Inactive

Waiting(pc) == {m \in Merchant : merchant[m].pc = pc}

Asks(m, q) ==
    /\ merchant[m] = NotAsked
    /\ merchant' = [merchant EXCEPT ![m] = q]

Answers(m) == merchant' = [merchant EXCEPT ![m] = NotAsked]
Awaits(m, pc) == merchant' = [merchant EXCEPT ![m].pc = pc]

\* findFirst by owner, createdAt descending: the shop registered last.
PrimaryShop == shops
HasShop == PrimaryShop > 0

-----------------------------------------------------------------------------
(* Registration. *)

\* register looks for a shop of the owner.  One that is there gets the new
\* name, and its missing hours are not looked at: nothing modelled changes.
Register(m) ==
    /\ ~HasShop
    /\ Asks(m, [NotAsked EXCEPT !.pc = "create"])
    /\ lapse' = [lapse EXCEPT !.twice = @ \/ Waiting("create") # {}]
    /\ UNCHANGED <<shops, active, hours, shelf>>

CreateShop(m) ==
    /\ merchant[m].pc = "create"
    /\ shops < MaxShops
    /\ shops' = shops + 1
    /\ merchant' = [merchant EXCEPT ![m].pc = "hours", ![m].shop = shops + 1]
    /\ UNCHANGED <<active, hours, shelf, lapse>>

\* createMany with skipDuplicates, one statement for all seven days; the
\* commit of the active role that follows is part of signing in.
CreateHours(m) ==
    /\ merchant[m].pc = "hours"
    /\ hours' = [hours EXCEPT ![merchant[m].shop] = Day]
    /\ Answers(m)
    /\ UNCHANGED <<shops, active, shelf, lapse>>

-----------------------------------------------------------------------------
(* Publication. *)

Publish(m, s) ==
    /\ s \in 1..shops \ active
    /\ Asks(m, [NotAsked EXCEPT !.pc = "count", !.shop = s])
    /\ UNCHANGED <<shops, active, hours, shelf, lapse>>

CountProducts_Skipped(m) ==
    /\ merchant[m].pc = "count"
    /\ Awaits(m, "activate")
    /\ UNCHANGED <<shops, active, hours, shelf, lapse>>

\* All products count, also those that no customer sees.
CountProducts(m) ==
    /\ merchant[m].pc = "count"
    /\ LET s == merchant[m].shop
       IN  \/ Goods(s) = {} /\ Answers(m) /\ UNCHANGED lapse
           \/ /\ Goods(s) # {}
              /\ Awaits(m, "activate")
              /\ lapse' = [lapse EXCEPT
                             !.unseen = @ \cup {t \in {s} : Offered(t) = {}}]
    /\ UNCHANGED <<shops, active, hours, shelf>>

ActivateShop(m) ==
    /\ merchant[m].pc = "activate"
    /\ active' = active \cup {merchant[m].shop}
    /\ Answers(m)
    /\ UNCHANGED <<shops, hours, shelf, lapse>>

Unpublish(m, s) ==
    /\ s \in 1..shops
    /\ Asks(m, [NotAsked EXCEPT !.pc = "hide", !.shop = s])
    /\ UNCHANGED <<shops, active, hours, shelf, lapse>>

HideShop(m) ==
    /\ merchant[m].pc = "hide"
    /\ active' = active \ {merchant[m].shop}
    /\ Answers(m)
    /\ UNCHANGED <<shops, hours, shelf, lapse>>

-----------------------------------------------------------------------------
(* Opening hours and products, of the shop registered last. *)

SetHours(m, d) ==
    /\ HasShop
    /\ Asks(m, [NotAsked EXCEPT !.pc = "set", !.shop = PrimaryShop, !.day = d])
    /\ UNCHANGED <<shops, active, hours, shelf, lapse>>

UpsertDay(m) ==
    /\ merchant[m].pc = "set"
    /\ hours' = [hours EXCEPT ![merchant[m].shop] = @ \cup {merchant[m].day}]
    /\ Answers(m)
    /\ UNCHANGED <<shops, active, shelf, lapse>>

\* updateOperatingHours writes a row that is there: no day comes or goes.
DeleteHours(m, d) ==
    /\ HasShop /\ d \in hours[PrimaryShop]
    /\ Asks(m, [NotAsked EXCEPT !.pc = "clear", !.shop = PrimaryShop, !.day = d])
    /\ UNCHANGED <<shops, active, hours, shelf, lapse>>

\* A second delete of the row throws.
ClearDay(m) ==
    /\ merchant[m].pc = "clear"
    /\ hours' = [hours EXCEPT ![merchant[m].shop] = @ \ {merchant[m].day}]
    /\ lapse' = [lapse EXCEPT !.shut = @ \cup {merchant[m].shop}]
    /\ Answers(m)
    /\ UNCHANGED <<shops, active, shelf>>

CreateProduct(m, p) ==
    /\ HasShop
    /\ shelf[p] = 0 /\ \A n \in Merchant : merchant[n].product # p
    /\ Asks(m, [NotAsked EXCEPT !.pc = "stock", !.shop = PrimaryShop, !.product = p])
    /\ UNCHANGED <<shops, active, hours, shelf, lapse>>

StockProduct(m) ==
    /\ merchant[m].pc = "stock"
    /\ shelf' = [shelf EXCEPT ![merchant[m].product] = merchant[m].shop]
    /\ LET shown == {s \in {merchant[m].shop} : merchant[m].product \notin Inactive}
       IN  lapse' = [lapse EXCEPT !.emptied = @ \ shown, !.unseen = @ \ shown]
    /\ Answers(m)
    /\ UNCHANGED <<shops, active, hours>>

\* resolveOwnedProduct: of the shop registered last.
DeleteProduct(m, p) ==
    /\ HasShop /\ shelf[p] = PrimaryShop
    /\ Asks(m, [NotAsked EXCEPT !.pc = "discard", !.shop = PrimaryShop, !.product = p])
    /\ UNCHANGED <<shops, active, hours, shelf, lapse>>

\* The shops whose products have been counted.
Approved == active \cup {merchant[m].shop : m \in Waiting("activate")}

\* The shop stays published when the last product it offers goes.  A second
\* delete of a product throws.
DiscardProduct(m) ==
    /\ merchant[m].pc = "discard"
    /\ shelf[merchant[m].product] = merchant[m].shop
    /\ shelf' = [shelf EXCEPT ![merchant[m].product] = 0]
    /\ lapse' = [lapse EXCEPT !.emptied = @ \cup
                   {s \in {merchant[m].shop} \cap Approved :
                      Offered(s) \subseteq {merchant[m].product}}]
    /\ Answers(m)
    /\ UNCHANGED <<shops, active, hours>>

\* A statement fails or the process stops.
LoseMerchant(m) ==
    /\ merchant[m] # NotAsked
    /\ Answers(m)
    /\ lapse' = IF merchant[m].pc = "hours"
                  THEN [lapse EXCEPT !.shut = @ \cup {merchant[m].shop}]
                  ELSE lapse
    /\ UNCHANGED <<shops, active, hours, shelf>>

ShopsNext ==
    \E m \in Merchant :
      \/ Register(m)
      \/ CreateShop(m)
      \/ CreateHours(m)
      \/ \E s \in Shop : Publish(m, s) \/ Unpublish(m, s)
      \/ CountProducts(m)
      \/ ActivateShop(m)
      \/ HideShop(m)
      \/ \E d \in Day : SetHours(m, d) \/ DeleteHours(m, d)
      \/ UpsertDay(m)
      \/ ClearDay(m)
      \/ \E p \in Product : CreateProduct(m, p) \/ DeleteProduct(m, p)
      \/ StockProduct(m)
      \/ DiscardProduct(m)
      \/ LoseMerchant(m)

ShopsSpec == ShopsInit /\ [][ShopsNext]_shopsVars

-----------------------------------------------------------------------------
\* One owner has one shop unless two registrations looked for it at once; a
\* shop has a row for every day of the week unless the owner took one away or
\* its registration stopped half-way, which no later registration mends; and a
\* shop on the list offers a customer something, unless its last offer was
\* taken off after the count or the count found only inactive products.
ShopsAreReady ==
    /\ shops <= 1 \/ lapse.twice
    /\ \A s \in 1..shops :
         \/ hours[s] = Day
         \/ s \in lapse.shut
         \/ \E m \in Waiting("hours") : merchant[m].shop = s
    /\ \A s \in active :
         Offered(s) # {} \/ s \in lapse.emptied \/ s \in lapse.unseen
=============================================================================
