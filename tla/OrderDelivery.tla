--------------------------- MODULE OrderDelivery ---------------------------
(***************************************************************************)
(* An order from the merchant's inbox to the customer's door: the merchant *)
(* half is BusinessOrdersService, the courier half DeliveriesService with  *)
(* its claim transaction, and the customer's timeline is TrackingService,  *)
(* reached only through the mirror in DeliveriesService.updateStatus.      *)
(*                                                                         *)
(* Handlers are sequences of awaited statements.  A request in flight sits *)
(* in a slot; `pc` names the statement it waits for:                       *)
(*    write                          the merchant's UPDATE orders          *)
(*    claim -> ensure                accept: COMMIT, then the timeline row *)
(*    update -> mirror -> mirrorWrite -> emit     updateStatus (courier)   *)
(* The claim transaction runs at READ COMMITTED: nobody sees its INSERT    *)
(* before COMMIT, and its UPDATE holds the row until then, so the two      *)
(* writes and the COMMIT are one step and the read before them another.    *)
(***************************************************************************)
EXTENDS Naturals, Sequences, FiniteSets

CONSTANTS
    Order,       \* ids of the orders that were placed
    Courier,     \* delivery profiles
    Merchant,    \* the owner of the business the orders belong to
    Slot,        \* requests the server can have in flight at once
    Leaving,     \* couriers who may delete their account
    MaxMishaps,  \* bound on restarts and on couriers and orders deleted
    MaxRows      \* bound: rows an order was given before it is claimed again
                 \* because their couriers have all left

ASSUME OrderDeliveryAssumption ==
    /\ Merchant \notin Courier
    /\ Leaving \subseteq Courier
    /\ MaxMishaps \in Nat
    /\ MaxRows \in Nat

VARIABLES
    order,       \* Order.status, "erased" once the row is deleted
    assigned,    \* the AssignedOrder rows each order was given, oldest first
    tracking,    \* OrderTracking.status, "none" while there is no row
    shown,       \* last order_status_updated sent to the order's room
    req,         \* the request each slot is serving
    gone,        \* couriers whose account was deleted
    contended,   \* history: two requests on Order.status overlapped
    raced,       \* history: two courier updates of the order overlapped
    dropped,     \* history: a mirror of an update was refused or failed
    crashes      \* restarts so far

vars == <<order, assigned, tracking, shown, req, gone,
          contended, raced, dropped, crashes>>
history == <<contended, raced, dropped, crashes>>

OrderStatus == {"pending", "confirmed", "preparing", "ready", "assigned",
                "in_transit", "delivered", "cancelled", "refunded"}
CourierStatus == {"assigned", "picked_up", "in_transit", "delivered", "failed"}
Timeline == {"none", "order_confirmed", "preparing", "picked_up",
             "on_the_way", "delivered"}

Assignment == [courier : Courier, status : CourierStatus]

Idle == [pc |-> "idle"]

Request == [pc : {"write", "claim", "ensure", "update", "mirror", "mirrorWrite",
                  "emit"},
            order : Order,
            by : Courier \cup {Merchant},
            row : Nat,
            to : OrderStatus \cup CourierStatus]

TypeOK ==
    /\ order \in [Order -> OrderStatus \cup {"erased"}]
    /\ assigned \in [Order -> Seq(Assignment)]
    /\ tracking \in [Order -> Timeline]
    /\ shown \in [Order -> Timeline]
    /\ req \in [Slot -> Request \cup {Idle}]
    /\ gone \subseteq Courier
    /\ contended \in [Order -> BOOLEAN]
    /\ raced \in [Order -> BOOLEAN]
    /\ dropped \in [Order -> BOOLEAN]
    /\ crashes \in Nat

(* createOrder leaves the order pending and creates nothing else. *)
Init ==
    /\ order = [o \in Order |-> "pending"]
    /\ assigned = [o \in Order |-> <<>>]
    /\ tracking = [o \in Order |-> "none"]
    /\ shown = [o \in Order |-> "none"]
    /\ req = [s \in Slot |-> Idle]
    /\ gone = {}
    /\ contended = [o \in Order |-> FALSE]
    /\ raced = [o \in Order |-> FALSE]
    /\ dropped = [o \in Order |-> FALSE]
    /\ crashes = 0

(* A request on o waiting for one of the statements pcs. *)
InFlight(pcs, o) == \E s \in Slot : req[s].pc \in pcs /\ req[s].order = o

CourierUpdate == {"update", "mirror", "mirrorWrite", "emit"}

Serving(pc, o, by, row, to) ==
    [pc |-> pc, order |-> o, by |-> by, row |-> row, to |-> to]

Begin(s, q) == req[s].pc = "idle" /\ req' = [req EXCEPT ![s] = q]

(* The request of slot s goes on to its next statement, or ends. *)
GoTo(s, pc) ==
    req' = [req EXCEPT ![s] = Serving(pc, @.order, @.by, @.row, @.to)]

Finish(s) == req' = [req EXCEPT ![s] = Idle]

(* The assignments of o still in the table: a courier's account takes its  *)
(* rows with it.                                                           *)
Rows(o) == {i \in DOMAIN assigned[o] : assigned[o][i].courier \notin gone}

Exists(o) == order[o] # "erased"

(* The write of slot s finds the order it names, and its courier.          *)
Found(s) == Exists(req[s].order) /\ req[s].by \notin gone

-----------------------------------------------------------------------------
(* The merchant: read and check, then UPDATE ... WHERE id. *)

MerchantReads(s, o, to) ==
    /\ Begin(s, Serving("write", o, Merchant, 0, to))
    /\ contended' = [contended EXCEPT ![o] = @ \/ InFlight({"write", "claim"}, o)]
    /\ UNCHANGED <<order, assigned, tracking, shown, raced, dropped, crashes, gone>>

AcceptOrder(s, o) ==
    /\ order[o] = "pending"
    /\ MerchantReads(s, o, "confirmed")

RejectOrder_Anytime(s, o) == MerchantReads(s, o, "cancelled")

RejectOrder(s, o) ==
    /\ order[o] \in {"pending", "confirmed"}
    /\ MerchantReads(s, o, "cancelled")

(* BUSINESS_FORWARD_TRANSITIONS *)
Forward_AssignedToo(from, to) ==
    <<from, to>> \in {<<"confirmed", "preparing">>, <<"preparing", "ready">>,
                      <<"ready", "delivered">>, <<"assigned", "delivered">>}

Forward(from, to) ==
    <<from, to>> \in {<<"confirmed", "preparing">>, <<"preparing", "ready">>,
                      <<"ready", "delivered">>}

(* appStatusToDbFilter(target)[0], for the statuses of the merchant's app. *)
DbStatusOf == [new |-> "pending", accepted |-> "confirmed", preparing |-> "preparing",
               ready |-> "ready", on_delivery |-> "assigned",
               completed |-> "delivered", cancelled |-> "cancelled"]

AdvanceOrder(s, o) ==
    \E target \in DOMAIN DbStatusOf :
        /\ Forward(order[o], DbStatusOf[target])
        /\ MerchantReads(s, o, DbStatusOf[target])

MerchantWrites(s) ==
    /\ req[s].pc = "write"
    /\ Found(s)
    /\ order' = [order EXCEPT ![req[s].order] = req[s].to]
    /\ Finish(s)
    /\ UNCHANGED <<assigned, tracking, shown, history, gone>>

-----------------------------------------------------------------------------
(* A courier claims an order. *)

Claimable_StatusOnly(o) == order[o] \in {"ready", "assigned"}

Claimable(o) == order[o] = "ready" /\ Rows(o) = {}

ClaimReads(s, c, o) ==
    /\ c \notin gone
    /\ Claimable(o)
    /\ Rows(o) = {} => Len(assigned[o]) < MaxRows
    /\ Begin(s, Serving("claim", o, c, 0, "assigned"))
    /\ contended' = [contended EXCEPT ![o] = @ \/ InFlight({"write", "claim"}, o)]
    /\ UNCHANGED <<order, assigned, tracking, shown, raced, dropped, crashes, gone>>

(* INSERT INTO AssignedOrder, UPDATE orders WHERE id, COMMIT: neither      *)
(* statement looks again at what the read saw, but both need their keys.   *)
ClaimCommits_NoInsert(s) ==
    /\ req[s].pc = "claim"
    /\ Found(s)
    /\ order' = [order EXCEPT ![req[s].order] = "assigned"]
    /\ GoTo(s, "ensure")
    /\ UNCHANGED <<assigned, tracking, shown, history, gone>>

ClaimCommits(s) ==
    /\ req[s].pc = "claim"
    /\ Found(s)
    /\ assigned' = [assigned EXCEPT ![req[s].order] =
                        Append(@, [courier |-> req[s].by, status |-> "assigned"])]
    /\ order' = [order EXCEPT ![req[s].order] = "assigned"]
    /\ GoTo(s, "ensure")
    /\ UNCHANGED <<tracking, shown, history, gone>>

(* ensureForOrder: an upsert that creates the row or changes nothing. *)
Ensured_OrderStatus(status) == IF status = "none" THEN "confirmed" ELSE status

Ensured(status) == IF status = "none" THEN "order_confirmed" ELSE status

EnsureTracking(s) ==
    /\ req[s].pc = "ensure"
    /\ Exists(req[s].order)
    /\ tracking' = [tracking EXCEPT ![req[s].order] = Ensured(@)]
    /\ Finish(s)
    /\ UNCHANGED <<order, assigned, shown, history, gone>>

(* getForOrder: the upsert runs before the permission check, so anybody's  *)
(* GET creates the row; the rest of the handler only reads.                *)
OpenTracking(o) ==
    /\ Exists(o)
    /\ tracking[o] = "none"
    /\ tracking' = [tracking EXCEPT ![o] = Ensured(@)]
    /\ UNCHANGED <<order, assigned, shown, req, history, gone>>

-----------------------------------------------------------------------------
(* A courier moves a delivery on. *)

(* FORWARD_TRANSITIONS *)
MayDeliver(from, to) ==
    \/ <<from, to>> \in {<<"assigned", "picked_up">>, <<"picked_up", "in_transit">>,
                         <<"in_transit", "delivered">>}
    \/ from \in {"assigned", "picked_up", "in_transit"} /\ to = "failed"

(* TRACKING_MIRROR; `failed` is not mirrored. *)
Mirror_RawStatus == [picked_up |-> "picked_up", in_transit |-> "in_transit",
                     delivered |-> "delivered"]

Mirror == [picked_up |-> "picked_up", in_transit |-> "on_the_way",
           delivered |-> "delivered"]

(* Positions in TIMELINE_ORDER; a missing row comes before all of them. *)
Rank == [none |-> 0, order_confirmed |-> 1, preparing |-> 2, picked_up |-> 3,
         on_the_way |-> 4, delivered |-> 5]

(* findFirst on orderId alone: any row of the order may come back, and the *)
(* courier is refused when it is another courier's.                        *)
DeliveryReads(s, c, o) ==
    \E i \in Rows(o), to \in {"picked_up", "in_transit", "delivered", "failed"} :
        /\ assigned[o][i].courier = c
        /\ MayDeliver(assigned[o][i].status, to)
        /\ Begin(s, Serving("update", o, c, i, to))
        /\ raced' = [raced EXCEPT ![o] = @ \/ InFlight(CourierUpdate, o)]
        /\ UNCHANGED <<order, assigned, tracking, shown,
                       contended, dropped, crashes, gone>>

DeliveryWrites_SkipLastMirror(s) ==
    LET q == req[s] IN
    /\ q.pc = "update"
    /\ Found(s)
    /\ assigned' = [assigned EXCEPT ![q.order] =
            [@ EXCEPT ![q.row] = [courier |-> q.by, status |-> q.to]]]
    /\ IF q.to \in {"picked_up", "in_transit"} THEN GoTo(s, "mirror") ELSE Finish(s)
    /\ UNCHANGED <<order, tracking, shown, history, gone>>

DeliveryWrites(s) ==
    LET q == req[s] IN
    /\ q.pc = "update"
    /\ Found(s)
    /\ assigned' = [assigned EXCEPT ![q.order] =
            [@ EXCEPT ![q.row] = [courier |-> q.by, status |-> q.to]]]
    /\ IF q.to \in DOMAIN Mirror THEN GoTo(s, "mirror") ELSE Finish(s)
    /\ UNCHANGED <<order, tracking, shown, history, gone>>

(* TrackingService.updateStatus: the courier must still be assigned to the *)
(* order, and the timeline must exist and be behind the mirrored status.   *)
Ahead_Unchecked(o, status) == tracking[o] # "none" /\ status \in Timeline

Ahead(o, status) == tracking[o] # "none" /\ Rank[status] > Rank[tracking[o]]

MirrorReads(s) ==
    /\ req[s].pc = "mirror"
    /\ Found(s)
    /\ Ahead(req[s].order, Mirror[req[s].to])
    /\ GoTo(s, "mirrorWrite")
    /\ UNCHANGED <<order, assigned, tracking, shown, history, gone>>

(* The mirror threw; the catch logs it and the delivery update stands. *)
MirrorDropped(s) ==
    /\ \/ req[s].pc = "mirror"
          /\ ~(Found(s) /\ Ahead(req[s].order, Mirror[req[s].to]))
       \/ req[s].pc = "mirrorWrite"     \* the UPDATE failed
    /\ dropped' = [dropped EXCEPT ![req[s].order] = TRUE]
    /\ Finish(s)
    /\ UNCHANGED <<order, assigned, tracking, shown, contended, raced, crashes, gone>>

MirrorWrites(s) ==
    /\ req[s].pc = "mirrorWrite"
    /\ Exists(req[s].order)
    /\ tracking' = [tracking EXCEPT ![req[s].order] = Mirror[req[s].to]]
    /\ GoTo(s, "emit")
    /\ UNCHANGED <<order, assigned, shown, history, gone>>

(* onOrderStatusUpdated sends the status just written to the room. *)
EmitTracking_Silent(s) ==
    /\ req[s].pc = "emit"
    /\ Finish(s)
    /\ UNCHANGED <<order, assigned, tracking, shown, history, gone>>

EmitTracking(s) ==
    /\ req[s].pc = "emit"
    /\ shown' = [shown EXCEPT ![req[s].order] = Mirror[req[s].to]]
    /\ Finish(s)
    /\ UNCHANGED <<order, assigned, tracking, history, gone>>

(* A statement of a request throws: a row or a key it names went with an   *)
(* account, or the database failed.  The client gets the error.            *)
RequestFails(s) ==
    /\ req[s].pc \in {"write", "claim", "ensure", "update"}
    /\ Finish(s)
    /\ UNCHANGED <<order, assigned, tracking, shown, history, gone>>

-----------------------------------------------------------------------------
Mishaps == crashes + Cardinality(gone) + Cardinality({o \in Order : ~Exists(o)})

(* deleteAccount asks for no order to be finished.  The cascade takes the  *)
(* delivery profile of a courier and its assignments, whatever their       *)
(* state; the orders they belong to keep their status.                     *)
DeleteCourier(c) ==
    /\ Mishaps < MaxMishaps
    /\ c \in Leaving \ gone
    /\ gone' = gone \cup {c}
    /\ UNCHANGED <<order, assigned, tracking, shown, req, history>>

(* A customer, or the owner of the business, takes their orders along,     *)
(* with the assignments and the timelines.                                 *)
DeleteAccount(orders) ==
    /\ Mishaps < MaxMishaps
    /\ order' = [o \in Order |-> IF o \in orders THEN "erased" ELSE order[o]]
    /\ assigned' = [o \in Order |-> IF o \in orders THEN <<>> ELSE assigned[o]]
    /\ tracking' = [o \in Order |-> IF o \in orders THEN "none" ELSE tracking[o]]
    /\ UNCHANGED <<shown, req, gone, history>>

(* The process dies; an open claim transaction is rolled back. *)
Crash ==
    /\ Mishaps < MaxMishaps
    /\ crashes' = crashes + 1
    /\ req' = [s \in Slot |-> Idle]
    /\ UNCHANGED <<order, assigned, tracking, shown, contended, raced, dropped, gone>>

(* A statement of the request in slot s returns and its handler goes on. *)
Continue(s) ==
    \/ MerchantWrites(s) \/ ClaimCommits(s) \/ EnsureTracking(s)
    \/ DeliveryWrites(s) \/ MirrorReads(s) \/ MirrorDropped(s)
    \/ MirrorWrites(s) \/ EmitTracking(s) \/ RequestFails(s)

Next ==
    \/ \E s \in Slot, o \in Order :
          \/ AcceptOrder(s, o) \/ RejectOrder(s, o) \/ AdvanceOrder(s, o)
          \/ \E c \in Courier : ClaimReads(s, c, o) \/ DeliveryReads(s, c, o)
    \/ \E s \in Slot : Continue(s)
    \/ \E o \in Order : OpenTracking(o)
    \/ \E c \in Courier : DeleteCourier(c)
    \/ \E orders \in SUBSET Order : DeleteAccount(orders)
    \/ Crash

Spec == Init /\ [][Next]_vars

(* Requests in flight are carried on; nobody is obliged to send one. *)
Fairness == \A s \in Slot : WF_vars(Continue(s))

FairSpec == Spec /\ Fairness

-----------------------------------------------------------------------------
(* Properties *)

(* An order shown as handed to a courier has a courier, or had one whose   *)
(* account is deleted: the claim writes the assignment and the status in   *)
(* one transaction, whatever races it and wherever it fails or the server  *)
(* dies (DeliveriesRepository.claim).                                      *)
AssignedOrderHasCourier ==
    \A o \in Order : order[o] = "assigned" =>
        \/ Rows(o) # {}
        \/ \E i \in DOMAIN assigned[o] : assigned[o][i].courier \in gone

(* An order that no two requests fought over has one courier, and from the *)
(* claim on the merchant can neither cancel nor complete it.               *)
ClaimIsExclusive ==
    \A o \in Order :
        assigned[o] # <<>> /\ ~contended[o]
            => Len(assigned[o]) = 1 /\ order[o] = "assigned"

(* The life of an order as the merchant's and the courier's checks have    *)
(* it, on orders no two requests fought over; cancelled and delivered are  *)
(* final, and a deleted order never comes back.                            *)
OrderLifecycleUnlessContended ==
    [][\A o \in Order :
         \/ order'[o] = order[o]
         \/ order[o] # "erased" /\ (contended'[o] \/ order'[o] = "erased")
         \/ <<order[o], order'[o]>> \in
               {<<"pending", "confirmed">>, <<"pending", "cancelled">>,
                <<"confirmed", "cancelled">>, <<"confirmed", "preparing">>,
                <<"preparing", "ready">>, <<"ready", "delivered">>,
                <<"ready", "assigned">>}]_vars

(* The timeline of an order never goes back, even when two couriers        *)
(* claimed it, unless two updates of the order overlapped.                 *)
TimelineForwardUnlessRaced ==
    [][\A o \in Order :
         \/ raced'[o] \/ order'[o] = "erased"
         \/ Rank[tracking'[o]] >= Rank[tracking[o]]]_vars

(* At rest the timeline and the room show what the one courier reported:   *)
(* an update is behind them only if updates overlapped, a mirror was       *)
(* dropped or the server died.                                             *)
TimelineFollowsCourier ==
    \A o \in Order :
        \/ contended[o] \/ raced[o] \/ dropped[o] \/ crashes > 0
        \/ InFlight(CourierUpdate, o)
        \/ \A i \in DOMAIN assigned[o] :
              assigned[o][i].status \in DOMAIN Mirror =>
                  /\ tracking[o] = Mirror[assigned[o][i].status]
                  /\ shown[o] = tracking[o]

(* The customer is told that the order has arrived, unless the mirror was  *)
(* dropped or the server died: a delivered assignment ends in a delivered  *)
(* timeline on the customer's screen.                                      *)
DeliveredReachesCustomer ==
    \A o \in Order :
        (\E i \in DOMAIN assigned[o] : assigned[o][i].status = "delivered")
            ~> (shown[o] = "delivered" \/ raced[o] \/ dropped[o] \/ crashes > 0)

(* "two couriers racing to accept the same order can't both succeed"       *)
(* (deliveries.repository.ts)                                              *)
OneCourierPerOrder == \A o \in Order : Len(assigned[o]) <= 1

(* "assigned/in_transit are driven by DeliveriesModule" (orders.dto.ts):   *)
(* an order whose courier is on the road becomes in_transit.               *)
OrderFollowsCourier ==
    \A o \in Order :
        (\E i \in DOMAIN assigned[o] : assigned[o][i].status = "in_transit")
            ~> order[o] = "in_transit"
=============================================================================
