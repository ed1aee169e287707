------------------------ MODULE OrderDeliveryProofs ------------------------
(***************************************************************************)
(* Proofs about OrderDelivery for any orders, couriers and slots.  IInv is *)
(* the inductive invariant: what a request in flight may rely on, and the  *)
(* properties that follow from it.  The requests come in two families that *)
(* disturb different rows: those on Order.status (write, claim) and those  *)
(* on the assignment and the timeline (CourierUpdate).                     *)
(***************************************************************************)
EXTENDS OrderDelivery, SequenceTheorems, TLAPS

USE DEF Exists, Found

StatusRequest == {"write", "claim"}
Mirroring == {"mirror", "mirrorWrite", "emit"}

(* What a request in flight may be, by the handler that admitted it; a     *)
(* courier's update keeps pointing at a row, while the order is there.     *)
RequestShape ==
    \A s \in Slot :
        /\ req[s].pc = "write" =>
              req[s].to \in {"confirmed", "preparing", "ready", "delivered", "cancelled"}
        /\ req[s].pc \in {"claim", "ensure"} => req[s].by \in Courier
        /\ req[s].pc \in CourierUpdate =>
              /\ req[s].by \in Courier
              /\ Exists(req[s].order) => req[s].row \in DOMAIN assigned[req[s].order]
              /\ req[s].to \in {"picked_up", "in_transit", "delivered", "failed"}
        /\ req[s].pc \in Mirroring => req[s].to \in DOMAIN Mirror

(* Unless requests fought over it, an order has one request on its status  *)
(* at a time ...                                                           *)
AloneOnStatus ==
    \A s, t \in Slot :
        /\ req[s].pc \in StatusRequest /\ req[t].pc \in StatusRequest
        /\ req[s].order = req[t].order
        /\ ~contended[req[s].order]
        => s = t

(* ... and that request finds the row as it was when it was admitted.      *)
LegalMove(from, to) ==
    <<from, to>> \in {<<"pending", "confirmed">>, <<"pending", "cancelled">>,
                      <<"confirmed", "cancelled">>, <<"confirmed", "preparing">>,
                      <<"preparing", "ready">>, <<"ready", "delivered">>}

Unclaimed(o) == order[o] = "ready" /\ assigned[o] = <<>>

StatusGuardHolds ==
    \A s \in Slot :
        req[s].pc \in StatusRequest /\ ~contended[req[s].order] /\ Exists(req[s].order) =>
            /\ req[s].pc = "write" => LegalMove(order[req[s].order], req[s].to)
            /\ req[s].pc = "claim" => Unclaimed(req[s].order)

(* An order handed over was given to a courier; a deleted one left nothing *)
(* behind.                                                                 *)
HandedOver == \A o \in Order : order[o] = "assigned" => assigned[o] # <<>>

NothingOfErased == \A o \in Order : ~Exists(o) => assigned[o] = <<>>

(* The same for the courier's updates of an order.                         *)
AloneUpdating ==
    \A s, t \in Slot :
        /\ req[s].pc \in CourierUpdate /\ req[t].pc \in CourierUpdate
        /\ req[s].order = req[t].order
        /\ ~raced[req[s].order]
        => s = t

MirrorStillAhead ==
    \A s \in Slot :
        req[s].pc = "mirrorWrite" /\ ~raced[req[s].order] /\ Exists(req[s].order) =>
            Ahead(req[s].order, Mirror[req[s].to])

(* An order on which nothing went wrong so far.                            *)
Smooth(o) == ~contended[o] /\ ~raced[o] /\ ~dropped[o] /\ crashes = 0

(* The timeline and the room show what the courier reported.               *)
Settled(o) ==
    \A i \in DOMAIN assigned[o] :
        assigned[o][i].status \in DOMAIN Mirror =>
            /\ tracking[o] = Mirror[assigned[o][i].status]
            /\ shown[o] = tracking[o]

(* They are behind it only while the mirror of an update is under way, and *)
(* that update carries what they will show.                                *)
SettledOrMirroring ==
    \A o \in Order : Smooth(o) => InFlight(Mirroring, o) \/ Settled(o)

MirrorCarriesRow ==
    \A s \in Slot :
        req[s].pc \in Mirroring /\ Smooth(req[s].order) /\ Exists(req[s].order) =>
            /\ assigned[req[s].order][req[s].row].status = req[s].to
            /\ req[s].pc = "emit" => tracking[req[s].order] = Mirror[req[s].to]

IInv ==
    /\ TypeOK
    /\ RequestShape
    /\ HandedOver
    /\ NothingOfErased
    /\ ClaimIsExclusive
    /\ AloneOnStatus
    /\ StatusGuardHolds
    /\ AloneUpdating
    /\ MirrorStillAhead
    /\ SettledOrMirroring
    /\ MirrorCarriesRow

-----------------------------------------------------------------------------
(* The mirrored statuses and their places on the timeline.                 *)
LEMMA MirrorValues ==
    /\ DOMAIN Mirror = {"picked_up", "in_transit", "delivered"}
    /\ \A to \in DOMAIN Mirror : Mirror[to] \in Timeline \ {"none"}
    /\ "failed" \notin DOMAIN Mirror /\ "assigned" \notin DOMAIN Mirror
BY DEF Mirror, Timeline

LEMMA RankIsNatural == \A t \in Timeline : Rank[t] \in Nat
BY DEF Rank, Timeline

LEMMA EnsuredMovesOn ==
    ASSUME NEW t \in Timeline
    PROVE  Ensured(t) \in Timeline \ {"none"} /\ Rank[Ensured(t)] >= Rank[t]
BY DEF Ensured, Timeline, Rank

(* A request found in flight is a Request record.                          *)
LEMMA InFlightTyped ==
    ASSUME TypeOK, NEW s \in Slot, req[s].pc # "idle"
    PROVE  /\ req[s] \in Request
           /\ req[s].order \in Order
           /\ req[s].by \in Courier \cup {Merchant}
           /\ req[s].row \in Nat
           /\ req[s].to \in OrderStatus \cup CourierStatus
           /\ assigned[req[s].order] \in Seq(Assignment)
BY DEF TypeOK, Request, Idle

(* A request that moves on keeps everything but its next statement.        *)
LEMMA GoToEffect ==
    ASSUME TypeOK, NEW s \in Slot, req[s].pc # "idle", NEW pc, GoTo(s, pc)
    PROVE  /\ req'[s] = Serving(pc, req[s].order, req[s].by, req[s].row, req[s].to)
           /\ \A t \in Slot : t # s => req'[t] = req[t]
           /\ req' = [req EXCEPT ![s] = req'[s]]
BY DEF TypeOK, GoTo, Serving

(* A claim appends a row, an update overwrites one.                        *)
LEMMA ClaimedRows ==
    ASSUME NEW rows \in Seq(Assignment), NEW c \in Courier
    PROVE  LET new == Append(rows, [courier |-> c, status |-> "assigned"])
           IN  /\ new \in Seq(Assignment) /\ Len(new) = Len(rows) + 1
               /\ \A i \in DOMAIN rows : i \in DOMAIN new /\ new[i] = rows[i]
               /\ rows = <<>> => DOMAIN new = {1} /\ new[1].status = "assigned"
<1>1. [courier |-> c, status |-> "assigned"] \in Assignment
  BY DEF Assignment, CourierStatus
<1>2. QED
  BY <1>1, AppendProperties

LEMMA UpdatedRows ==
    ASSUME NEW rows \in Seq(Assignment), NEW i \in DOMAIN rows, NEW c \in Courier,
           NEW to \in CourierStatus
    PROVE  LET new == [rows EXCEPT ![i] = [courier |-> c, status |-> to]]
           IN  /\ new \in Seq(Assignment) /\ Len(new) = Len(rows)
               /\ DOMAIN new = DOMAIN rows /\ new[i].status = to
               /\ \A j \in DOMAIN rows : j # i => new[j] = rows[j]
<1>1. [courier |-> c, status |-> to] \in Assignment
  BY DEF Assignment
<1>2. QED
  BY <1>1, ExceptSeq

LEMMA InitIInv == Init => IInv
<1> SUFFICES ASSUME Init PROVE IInv
  OBVIOUS
<1> USE DEF Init, Idle
<1>1. TypeOK
  BY OrderDeliveryAssumption DEF TypeOK, OrderStatus, Timeline
<1>2. RequestShape /\ AloneOnStatus /\ StatusGuardHolds
  BY DEF RequestShape, AloneOnStatus, StatusRequest, StatusGuardHolds,
         CourierUpdate, Mirroring
<1>3. HandedOver /\ NothingOfErased /\ ClaimIsExclusive
  BY DEF HandedOver, NothingOfErased, ClaimIsExclusive
<1>4. AloneUpdating /\ MirrorStillAhead /\ MirrorCarriesRow
  BY DEF AloneUpdating, MirrorStillAhead, MirrorCarriesRow, CourierUpdate, Mirroring
<1>5. SettledOrMirroring
  BY DEF SettledOrMirroring, Settled
<1>6. QED
  BY <1>1, <1>2, <1>3, <1>4, <1>5 DEF IInv

-----------------------------------------------------------------------------
(* What a step keeps of the two families of requests.                      *)

(* A step that admits no request on the status of an order and writes no   *)
(* status and no new assignment keeps what is known of both.               *)
LEMMA StatusPartKept ==
    ASSUME IInv,
           \A t \in Slot : req'[t].pc \in StatusRequest => req'[t] = req[t],
           \A o \in Order : /\ Len(assigned'[o]) = Len(assigned[o])
                            /\ assigned'[o] = <<>> <=> assigned[o] = <<>>,
           UNCHANGED <<order, contended>>
    PROVE  /\ HandedOver' /\ NothingOfErased' /\ ClaimIsExclusive'
           /\ AloneOnStatus' /\ StatusGuardHolds'
<1>1. HandedOver' /\ NothingOfErased' /\ ClaimIsExclusive'
  BY DEF IInv, HandedOver, NothingOfErased, ClaimIsExclusive
<1>2. AloneOnStatus'
  BY DEF IInv, AloneOnStatus, StatusRequest
<1>3. StatusGuardHolds'
  BY InFlightTyped DEF IInv, StatusRequest, StatusGuardHolds, Unclaimed
<1>4. QED
  BY <1>1, <1>2, <1>3

(* A step that leaves the courier's updates alone and at most opens a      *)
(* timeline keeps what is known of them.                                   *)
LEMMA UpdatePartKept ==
    ASSUME IInv,
           \A t \in Slot : /\ req'[t].pc \in CourierUpdate => req'[t] = req[t]
                           /\ req[t].pc \in CourierUpdate => req'[t] = req[t],
           \A o \in Order : tracking[o] # "none" => tracking'[o] = tracking[o],
           \A o \in Order : Smooth(o)' => Smooth(o),
           \A o \in Order : Exists(o)' => Exists(o),
           UNCHANGED <<assigned, shown, raced>>
    PROVE  /\ AloneUpdating' /\ MirrorStillAhead'
           /\ SettledOrMirroring' /\ MirrorCarriesRow'
<1>1. AloneUpdating'
  BY DEF IInv, AloneUpdating, CourierUpdate
<1>2. MirrorStillAhead'
  BY InFlightTyped DEF IInv, MirrorStillAhead, CourierUpdate, Ahead
<1>3. SettledOrMirroring'
  <2>1. \A o \in Order : InFlight(Mirroring, o) => InFlight(Mirroring, o)'
    BY DEF InFlight, Mirroring, CourierUpdate
  <2>2. \A o \in Order : Settled(o) => Settled(o)'
    BY MirrorValues DEF Settled
  <2>3. QED
    BY <2>1, <2>2 DEF IInv, SettledOrMirroring
<1>4. MirrorCarriesRow'
  <2>1. SUFFICES ASSUME NEW t \in Slot, req'[t].pc \in Mirroring, Smooth(req[t].order)',
                        Exists(req[t].order)'
                 PROVE  /\ assigned'[req'[t].order][req'[t].row].status = req'[t].to
                        /\ req'[t].pc = "emit" =>
                              tracking'[req'[t].order] = Mirror[req'[t].to]
    BY DEF MirrorCarriesRow
  <2>2. req'[t] = req[t] /\ req[t].order \in Order /\ req[t].to \in DOMAIN Mirror
    BY <2>1, InFlightTyped DEF IInv, RequestShape, Mirroring, CourierUpdate
  <2>3. Smooth(req[t].order)
    BY <2>1, <2>2 DEF Smooth
  <2>4. QED
    BY <2>1, <2>2, <2>3, MirrorValues DEF IInv, MirrorCarriesRow, Mirroring
<1>5. QED
  BY <1>1, <1>2, <1>3, <1>4

-----------------------------------------------------------------------------
(* One lemma per action: the action keeps IInv.  Each starts from the      *)
(* pointwise effect of the action on `req` and on the row it writes.       *)

(* A read that admits a request on the status of o: nothing but the slot   *)
(* changes, and a second request on that status is recorded.               *)
LEMMA AdmitOnStatusKeepsIInv ==
    ASSUME IInv, NEW s \in Slot, NEW o \in Order, NEW q,
           q \in Request, q.order = o,
           \/ q.pc = "write" /\ LegalMove(order[o], q.to)
           \/ q.pc = "claim" /\ order[o] = "ready" /\ q.by \in Courier,
           Begin(s, q),
           contended' = [contended EXCEPT ![o] = @ \/ InFlight({"write", "claim"}, o)],
           UNCHANGED <<order, assigned, tracking, shown, raced, dropped, crashes, gone>>
    PROVE  IInv'
<1>1. /\ req[s].pc = "idle" /\ req'[s] = q
      /\ req' = [req EXCEPT ![s] = q]
      /\ \A t \in Slot : t # s => req'[t] = req[t]
      /\ contended'[o] = (contended[o] \/ InFlight({"write", "claim"}, o))
      /\ \A p \in Order : p # o => contended'[p] = contended[p]
  BY DEF IInv, TypeOK, Begin
<1>2. TypeOK'
  <2>1. contended'[o] \in BOOLEAN
    BY <1>1 DEF IInv, TypeOK, InFlight
  <2>2. QED
    BY <1>1, <2>1 DEF IInv, TypeOK
<1>3. \A p \in Order : contended[p] => contended'[p]
  BY <1>1
<1>4. RequestShape'
  BY <1>1 DEF IInv, RequestShape, LegalMove, CourierUpdate, Mirroring
<1>5. HandedOver' /\ NothingOfErased' /\ ClaimIsExclusive'
  BY <1>3 DEF IInv, HandedOver, NothingOfErased, ClaimIsExclusive
<1>6. AloneOnStatus'
  <2>1. \A t \in Slot : t # s /\ req[t].pc \in StatusRequest /\ req[t].order = o
                            => contended'[o]
    BY <1>1 DEF InFlight, StatusRequest
  <2>2. \A t \in Slot : req[t].pc \in StatusRequest => req[t].order \in Order
    BY InFlightTyped DEF IInv, StatusRequest
  <2>3. QED
    BY <1>1, <1>3, <2>1, <2>2 DEF IInv, AloneOnStatus
<1>7. StatusGuardHolds'
  <2>1. order[o] = "ready" /\ ~contended[o] => Unclaimed(o)
    BY DEF IInv, ClaimIsExclusive, Unclaimed
  <2>2. QED
    BY <1>1, <1>3, <2>1, InFlightTyped
    DEF IInv, StatusRequest, StatusGuardHolds, Unclaimed
<1>8. AloneUpdating' /\ MirrorStillAhead' /\ SettledOrMirroring' /\ MirrorCarriesRow'
  <2>1. \A p \in Order : Smooth(p)' => Smooth(p)
    BY <1>3 DEF Smooth
  <2>2. QED
    BY <1>1, <2>1, UpdatePartKept DEF CourierUpdate
<1>9. QED
  BY <1>2, <1>4, <1>5, <1>6, <1>7, <1>8 DEF IInv

LEMMA MerchantReadsKeepsIInv ==
    ASSUME IInv, NEW s \in Slot, NEW o \in Order, NEW to \in OrderStatus,
           MerchantReads(s, o, to), LegalMove(order[o], to)
    PROVE  IInv'
<1> DEFINE q == Serving("write", o, Merchant, 0, to)
<1>1. q \in Request /\ q.order = o /\ q.pc = "write" /\ q.to = to
  BY DEF Request, Serving
<1>2. QED
  BY <1>1, AdmitOnStatusKeepsIInv DEF MerchantReads

LEMMA ClaimReadsKeepsIInv ==
    ASSUME IInv, NEW s \in Slot, NEW o \in Order, NEW c \in Courier, ClaimReads(s, c, o)
    PROVE  IInv'
<1> DEFINE q == Serving("claim", o, c, 0, "assigned")
<1>1. q \in Request /\ q.order = o /\ q.pc = "claim" /\ q.by = c
  BY DEF Request, Serving, OrderStatus
<1>2. QED
  BY <1>1, AdmitOnStatusKeepsIInv DEF ClaimReads, Claimable

(* The merchant's UPDATE.                                                  *)
LEMMA MerchantWritesKeepsIInv ==
    ASSUME IInv, NEW s \in Slot, MerchantWrites(s)
    PROVE  IInv'
<1> DEFINE o == req[s].order
<1>1. /\ req[s].pc = "write" /\ o \in Order /\ req[s] \in Request
      /\ req'[s] = Idle /\ req' = [req EXCEPT ![s] = Idle]
      /\ \A t \in Slot : t # s => req'[t] = req[t]
      /\ order'[o] = req[s].to /\ \A p \in Order : p # o => order'[p] = order[p]
      /\ Exists(o)
      /\ UNCHANGED <<assigned, tracking, shown, contended, raced, dropped, crashes, gone>>
  BY InFlightTyped DEF IInv, TypeOK, MerchantWrites, Finish, history
<1>2. req[s].to \in {"confirmed", "preparing", "ready", "delivered", "cancelled"}
  BY <1>1 DEF IInv, RequestShape
<1>3. TypeOK'
  <2>1. req[s].to \in OrderStatus
    BY <1>2 DEF OrderStatus
  <2>2. order' \in [Order -> OrderStatus \cup {"erased"}]
    BY <2>1 DEF IInv, TypeOK, MerchantWrites
  <2>3. QED
    BY <1>1, <2>2 DEF IInv, TypeOK
<1>4. RequestShape'
  <2>1. \A t \in Slot :
            req[t].pc \in CourierUpdate /\ order'[req[t].order] # "erased"
                => Exists(req[t].order)
    BY <1>1, InFlightTyped DEF IInv, CourierUpdate
  <2>2. QED
    BY <1>1, <2>1 DEF IInv, RequestShape, Idle, CourierUpdate, Mirroring
<1>5. HandedOver' /\ NothingOfErased'
  BY <1>1, <1>2 DEF IInv, HandedOver, NothingOfErased
<1>6. ~contended[o] => order[o] # "assigned" /\ assigned[o] = <<>>
  BY <1>1 DEF IInv, StatusRequest, StatusGuardHolds, LegalMove, ClaimIsExclusive
<1>7. ClaimIsExclusive'
  BY <1>1, <1>6 DEF IInv, ClaimIsExclusive
<1>8. AloneOnStatus'
  BY <1>1 DEF IInv, AloneOnStatus, StatusRequest, Idle
<1>9. StatusGuardHolds'
  <2>1. \A t \in Slot : t # s /\ req[t].pc \in StatusRequest /\ req[t].order = o
                            => contended[o]
    BY <1>1 DEF IInv, AloneOnStatus, StatusRequest
  <2>2. QED
    BY <1>1, <2>1, InFlightTyped
    DEF IInv, StatusRequest, StatusGuardHolds, Unclaimed, Idle
<1>10. AloneUpdating' /\ MirrorStillAhead' /\ SettledOrMirroring' /\ MirrorCarriesRow'
  <2>1. \A p \in Order : Smooth(p)' => Smooth(p)
    BY <1>1 DEF Smooth
  <2>2. QED
    BY <1>1, <2>1, UpdatePartKept DEF CourierUpdate, Idle
<1>11. QED
  BY <1>3, <1>4, <1>5, <1>7, <1>8, <1>9, <1>10 DEF IInv

(* INSERT, UPDATE and COMMIT of a claim.  Without a fight for its status   *)
(* the order had no assignment; with one, nothing is promised.             *)
LEMMA ClaimCommitsKeepsIInv ==
    ASSUME IInv, NEW s \in Slot, ClaimCommits(s)
    PROVE  IInv'
<1>0. PICK o \in Order : o = req[s].order
  BY InFlightTyped DEF IInv, ClaimCommits
<1> DEFINE new == Append(assigned[o], [courier |-> req[s].by, status |-> "assigned"])
<1>1. /\ req[s].pc = "claim" /\ req[s].order = o /\ req[s].by \in Courier /\ Exists(o)
      /\ assigned[o] \in Seq(Assignment) /\ req[s] \in Request
  BY <1>0, InFlightTyped DEF IInv, RequestShape, ClaimCommits
<1>2. /\ req'[s] = Serving("ensure", o, req[s].by, req[s].row, req[s].to)
      /\ req' = [req EXCEPT ![s] = req'[s]]
      /\ \A t \in Slot : t # s => req'[t] = req[t]
  BY <1>1, GoToEffect DEF IInv, ClaimCommits
<1>3. /\ req'[s].pc = "ensure" /\ req'[s].by = req[s].by /\ req'[s] \in Request
  BY <1>1, <1>2 DEF Serving, Request
<1>4. /\ order'[o] = "assigned" /\ \A p \in Order : p # o => order'[p] = order[p]
      /\ assigned'[o] = new /\ \A p \in Order : p # o => assigned'[p] = assigned[p]
      /\ UNCHANGED <<tracking, shown, contended, raced, dropped, crashes, gone>>
  BY <1>1 DEF IInv, TypeOK, ClaimCommits, history
<1>5. /\ new \in Seq(Assignment) /\ Len(new) = Len(assigned[o]) + 1
      /\ \A i \in DOMAIN assigned[o] : i \in DOMAIN new /\ new[i] = assigned[o][i]
      /\ assigned[o] = <<>> => DOMAIN new = {1} /\ new[1].status = "assigned"
      /\ Len(assigned[o]) \in Nat
  BY <1>1, ClaimedRows
<1>6. new # <<>>
  BY <1>5
<1> HIDE DEF new
<1>7. ~contended[o] => order[o] = "ready" /\ assigned[o] = <<>>
  BY <1>1 DEF IInv, StatusRequest, StatusGuardHolds, Unclaimed
<1>8. TypeOK'
  <2>1. /\ order' = [order EXCEPT ![o] = "assigned"]
        /\ assigned' = [assigned EXCEPT ![o] = assigned'[o]]
    BY <1>1, <1>4 DEF IInv, TypeOK, ClaimCommits
  <2>2. order' \in [Order -> OrderStatus \cup {"erased"}] /\ assigned' \in [Order -> Seq(Assignment)]
    BY <1>4, <1>5, <2>1 DEF IInv, TypeOK, OrderStatus
  <2>3. QED
    BY <1>2, <1>3, <1>4, <2>2 DEF IInv, TypeOK
<1>9. RequestShape'
  <2>1. \A t \in Slot : req[t].pc \in CourierUpdate =>
            /\ req[t].order \in Order
            /\ Exists(req[t].order) => req[t].row \in DOMAIN assigned[req[t].order]
    BY InFlightTyped DEF IInv, RequestShape, CourierUpdate
  <2>2. \A t \in Slot : req[t].pc \in CourierUpdate /\ order'[req[t].order] # "erased" =>
            req[t].row \in DOMAIN assigned'[req[t].order]
    BY <1>1, <1>4, <1>5, <2>1
  <2>3. QED
    BY <1>1, <1>2, <1>3, <2>2 DEF IInv, RequestShape, CourierUpdate, Mirroring
<1>10. HandedOver' /\ NothingOfErased'
  BY <1>4, <1>6 DEF IInv, HandedOver, NothingOfErased
<1>11. ClaimIsExclusive'
  BY <1>4, <1>5, <1>7 DEF IInv, ClaimIsExclusive
<1>12. AloneOnStatus'
  BY <1>1, <1>2, <1>3, <1>4 DEF IInv, AloneOnStatus, StatusRequest
<1>13. StatusGuardHolds'
  <2>1. \A t \in Slot : t # s /\ req[t].pc \in StatusRequest /\ req[t].order = o
                            => contended[o]
    BY <1>1 DEF IInv, AloneOnStatus, StatusRequest
  <2>2. QED
    BY <1>1, <1>2, <1>3, <1>4, <2>1, InFlightTyped
    DEF IInv, StatusRequest, StatusGuardHolds, Unclaimed
<1>14. AloneUpdating' /\ MirrorStillAhead'
  <2>1. AloneUpdating'
    BY <1>1, <1>2, <1>3, <1>4 DEF IInv, AloneUpdating, CourierUpdate
  <2>2. \A t \in Slot : req'[t].pc = "mirrorWrite" =>
            req'[t] = req[t] /\ req[t].order \in Order
    BY <1>2, <1>3, InFlightTyped DEF IInv
  <2>3. \A p \in Order : Exists(p)' => Exists(p)
    BY <1>1, <1>4
  <2>4. MirrorStillAhead'
    BY <1>4, <2>2, <2>3 DEF IInv, MirrorStillAhead, Ahead
  <2>5. QED
    BY <2>1, <2>4
<1>15. \A p \in Order : Smooth(p)' = Smooth(p)
  BY <1>4 DEF Smooth
<1>16. \A p \in Order : Smooth(p) /\ Settled(p) => Settled(p)'
  <2>1. Smooth(o) => Settled(o)'
    BY <1>4, <1>5, <1>7, MirrorValues DEF Smooth, Settled
  <2>2. QED
    BY <1>4, <2>1 DEF Settled
<1>17. SettledOrMirroring'
  <2>1. \A p \in Order : InFlight(Mirroring, p) => InFlight(Mirroring, p)'
    BY <1>1, <1>2, <1>3 DEF InFlight, Mirroring
  <2>2. QED
    BY <1>15, <1>16, <2>1 DEF IInv, SettledOrMirroring
<1>18. MirrorCarriesRow'
  <2>1. SUFFICES ASSUME NEW t \in Slot, req'[t].pc \in Mirroring, Smooth(req[t].order)',
                        Exists(req[t].order)'
                 PROVE  /\ assigned'[req'[t].order][req'[t].row].status = req'[t].to
                        /\ req'[t].pc = "emit" =>
                              tracking'[req'[t].order] = Mirror[req'[t].to]
    BY DEF MirrorCarriesRow
  <2>2. t # s /\ req'[t] = req[t] /\ req[t].order \in Order
    BY <1>2, <1>3, <2>1, InFlightTyped DEF IInv, Mirroring
  <2> DEFINE p == req[t].order
  <2>7. Exists(p)
    BY <1>1, <1>4, <2>1, <2>2
  <2>3. req[t].row \in DOMAIN assigned[req[t].order]
    BY <2>1, <2>2, <2>7 DEF IInv, RequestShape, CourierUpdate, Mirroring
  <2>4. assigned'[req[t].order][req[t].row] = assigned[req[t].order][req[t].row]
    BY <1>4, <1>5, <2>2, <2>3
  <2>5. Smooth(req[t].order)
    BY <1>4, <2>1, <2>2 DEF Smooth
  <2>6. QED
    BY <1>4, <2>1, <2>2, <2>4, <2>5, <2>7 DEF IInv, MirrorCarriesRow
<1>19. QED
  BY <1>8, <1>9, <1>10, <1>11, <1>12, <1>13, <1>14, <1>17, <1>18 DEF IInv

(* Opening the timeline: the upsert of a claim, or a customer who looks.   *)
LEMMA EnsureTrackingKeepsIInv ==
    ASSUME IInv, NEW s \in Slot, EnsureTracking(s)
    PROVE  IInv'
<1> DEFINE o == req[s].order
<1>1. /\ req[s].pc = "ensure" /\ o \in Order
      /\ req'[s] = Idle /\ req' = [req EXCEPT ![s] = Idle]
      /\ \A t \in Slot : t # s => req'[t] = req[t]
      /\ tracking'[o] = Ensured(tracking[o])
      /\ \A p \in Order : p # o => tracking'[p] = tracking[p]
      /\ UNCHANGED <<order, assigned, shown, contended, raced, dropped, crashes, gone>>
  BY InFlightTyped DEF IInv, TypeOK, EnsureTracking, Finish, history
<1>2. TypeOK'
  <2>1. Ensured(tracking[o]) \in Timeline
    BY <1>1, EnsuredMovesOn DEF IInv, TypeOK
  <2>2. QED
    BY <1>1, <2>1 DEF IInv, TypeOK, EnsureTracking
<1>3. RequestShape'
  BY <1>1 DEF IInv, RequestShape, Idle, CourierUpdate, Mirroring
<1>4. HandedOver' /\ NothingOfErased' /\ ClaimIsExclusive' /\ AloneOnStatus' /\ StatusGuardHolds'
  BY <1>1, StatusPartKept DEF Idle, StatusRequest
<1>5. AloneUpdating' /\ MirrorStillAhead' /\ SettledOrMirroring' /\ MirrorCarriesRow'
  <2>1. \A p \in Order : Smooth(p)' => Smooth(p)
    BY <1>1 DEF Smooth
  <2>2. \A p \in Order : tracking[p] # "none" => tracking'[p] = tracking[p]
    BY <1>1 DEF Ensured
  <2>3. QED
    BY <1>1, <2>1, <2>2, UpdatePartKept DEF CourierUpdate, Idle
<1>6. QED
  BY <1>2, <1>3, <1>4, <1>5 DEF IInv

LEMMA OpenTrackingKeepsIInv ==
    ASSUME IInv, NEW o \in Order, OpenTracking(o)
    PROVE  IInv'
<1>1. /\ tracking'[o] = Ensured(tracking[o])
      /\ \A p \in Order : p # o => tracking'[p] = tracking[p]
      /\ UNCHANGED <<req, order, assigned, shown, contended, raced, dropped, crashes, gone>>
  BY DEF IInv, TypeOK, OpenTracking, history
<1>2. TypeOK'
  <2>1. Ensured(tracking[o]) \in Timeline
    BY EnsuredMovesOn DEF IInv, TypeOK
  <2>2. QED
    BY <1>1, <2>1 DEF IInv, TypeOK, OpenTracking
<1>3. RequestShape'
  BY <1>1 DEF IInv, RequestShape
<1>4. HandedOver' /\ NothingOfErased' /\ ClaimIsExclusive' /\ AloneOnStatus' /\ StatusGuardHolds'
  BY <1>1, StatusPartKept
<1>5. AloneUpdating' /\ MirrorStillAhead' /\ SettledOrMirroring' /\ MirrorCarriesRow'
  <2>1. \A p \in Order : Smooth(p)' => Smooth(p)
    BY <1>1 DEF Smooth
  <2>2. \A p \in Order : tracking[p] # "none" => tracking'[p] = tracking[p]
    BY <1>1 DEF Ensured
  <2>3. QED
    BY <1>1, <2>1, <2>2, UpdatePartKept
<1>6. QED
  BY <1>2, <1>3, <1>4, <1>5 DEF IInv

(* The courier's read: it admits an update, and a second one on the order  *)
(* is recorded.  The order was settled unless it was raced.                *)
LEMMA DeliveryReadsKeepsIInv ==
    ASSUME IInv, NEW s \in Slot, NEW c \in Courier, NEW o \in Order, DeliveryReads(s, c, o)
    PROVE  IInv'
<1>1. PICK i \in DOMAIN assigned[o],
           to \in {"picked_up", "in_transit", "delivered", "failed"} :
               /\ Begin(s, Serving("update", o, c, i, to))
               /\ raced' = [raced EXCEPT ![o] = @ \/ InFlight(CourierUpdate, o)]
               /\ UNCHANGED <<order, assigned, tracking, shown,
                              contended, dropped, crashes, gone>>
  BY DEF DeliveryReads, Rows
<1> DEFINE q == Serving("update", o, c, i, to)
<1>2. /\ q.pc = "update" /\ q.order = o /\ q.by = c /\ q.row = i /\ q.to = to
      /\ q \in Request
  <2>1. i \in Nat
    BY DEF IInv, TypeOK
  <2>2. QED
    BY <2>1 DEF Serving, Request, CourierStatus
<1> HIDE DEF q
<1>3. /\ req[s].pc = "idle" /\ req'[s] = q /\ req' = [req EXCEPT ![s] = q]
      /\ \A t \in Slot : t # s => req'[t] = req[t]
      /\ raced'[o] = (raced[o] \/ InFlight(CourierUpdate, o))
      /\ \A p \in Order : p # o => raced'[p] = raced[p]
  BY <1>1 DEF IInv, TypeOK, Begin, q
<1>4. TypeOK'
  <2>1. raced'[o] \in BOOLEAN
    BY <1>3 DEF IInv, TypeOK, InFlight
  <2>2. QED
    BY <1>1, <1>2, <1>3, <2>1 DEF IInv, TypeOK
<1>5. \A p \in Order : raced[p] => raced'[p]
  BY <1>3
<1>6. RequestShape'
  BY <1>1, <1>2, <1>3 DEF IInv, RequestShape, CourierUpdate, Mirroring
<1>7. HandedOver' /\ NothingOfErased' /\ ClaimIsExclusive' /\ AloneOnStatus' /\ StatusGuardHolds'
  BY <1>1, <1>2, <1>3, StatusPartKept DEF StatusRequest
<1>8. AloneUpdating'
  <2>1. \A t \in Slot : t # s /\ req[t].pc \in CourierUpdate /\ req[t].order = o
                            => raced'[o]
    BY <1>3 DEF InFlight, CourierUpdate
  <2>2. \A t \in Slot : req[t].pc \in CourierUpdate => req[t].order \in Order
    BY InFlightTyped DEF IInv, CourierUpdate
  <2>3. QED
    BY <1>2, <1>3, <1>5, <2>1, <2>2 DEF IInv, AloneUpdating
<1>9. MirrorStillAhead'
  BY <1>1, <1>2, <1>3, <1>5, InFlightTyped DEF IInv, MirrorStillAhead, Ahead
<1>10. \A p \in Order : Smooth(p)' => Smooth(p)
  BY <1>1, <1>5 DEF Smooth
<1>11. SettledOrMirroring'
  <2>1. \A p \in Order : InFlight(Mirroring, p) => InFlight(Mirroring, p)'
    BY <1>3 DEF InFlight, Mirroring
  <2>2. QED
    BY <1>1, <1>10, <2>1 DEF IInv, SettledOrMirroring, Settled
<1>12. MirrorCarriesRow'
  <2>1. \A t \in Slot : req'[t].pc \in Mirroring =>
            t # s /\ req'[t] = req[t] /\ req[t].order \in Order
    BY <1>2, <1>3, InFlightTyped DEF IInv, Mirroring
  <2>2. \A t \in Slot : req'[t].pc \in Mirroring /\ Smooth(req[t].order)'
            => Smooth(req[t].order)
    BY <1>1, <1>5, <2>1 DEF Smooth
  <2>3. QED
    BY <1>1, <2>1, <2>2 DEF IInv, MirrorCarriesRow
<1>13. QED
  BY <1>4, <1>6, <1>7, <1>8, <1>9, <1>11, <1>12 DEF IInv

(* The courier's UPDATE.  The timeline is behind until the mirror has run, *)
(* and a failed delivery is not mirrored.                                  *)
LEMMA DeliveryWritesKeepsIInv ==
    ASSUME IInv, NEW s \in Slot, DeliveryWrites(s)
    PROVE  IInv'
<1>0. PICK o \in Order : o = req[s].order
  BY InFlightTyped DEF IInv, DeliveryWrites
<1> DEFINE i == req[s].row
           to == req[s].to
           new == [assigned[o] EXCEPT ![i] = [courier |-> req[s].by, status |-> to]]
<1>1. /\ req[s].pc = "update" /\ req[s].order = o /\ req[s].by \in Courier
      /\ i \in DOMAIN assigned[o]
      /\ to \in {"picked_up", "in_transit", "delivered", "failed"}
      /\ assigned[o] \in Seq(Assignment) /\ req[s] \in Request
  BY <1>0, InFlightTyped DEF IInv, RequestShape, DeliveryWrites, CourierUpdate
<1>2. /\ req' = [req EXCEPT ![s] = req'[s]]
      /\ \A t \in Slot : t # s => req'[t] = req[t]
      /\ IF to \in DOMAIN Mirror
           THEN req'[s] = Serving("mirror", o, req[s].by, i, to)
           ELSE req'[s] = Idle
  <2>1. CASE to \in DOMAIN Mirror
    BY <1>1, <2>1, GoToEffect DEF IInv, DeliveryWrites
  <2>2. CASE to \notin DOMAIN Mirror
    BY <1>1, <2>2 DEF IInv, TypeOK, DeliveryWrites, Finish
  <2>3. QED
    BY <2>1, <2>2
<1>3. \/ /\ to \in DOMAIN Mirror /\ req'[s].pc = "mirror"
         /\ req'[s].order = o /\ req'[s].by = req[s].by
         /\ req'[s].row = i /\ req'[s].to = to /\ req'[s] \in Request
      \/ to \notin DOMAIN Mirror /\ req'[s] = Idle
  BY <1>1, <1>2 DEF Serving, Request
<1>4. /\ assigned' = [assigned EXCEPT ![o] = new] /\ assigned'[o] = new
      /\ \A p \in Order : p # o => assigned'[p] = assigned[p]
      /\ UNCHANGED <<order, tracking, shown, contended, raced, dropped, crashes, gone>>
  BY <1>1 DEF IInv, TypeOK, DeliveryWrites, history
<1>5. /\ new \in Seq(Assignment) /\ Len(new) = Len(assigned[o])
      /\ DOMAIN new = DOMAIN assigned[o] /\ new[i].status = to
      /\ \A j \in DOMAIN assigned[o] : j # i => new[j] = assigned[o][j]
  <2>1. to \in CourierStatus
    BY <1>1 DEF CourierStatus
  <2>2. QED
    BY <1>1, <2>1, UpdatedRows
<1>6. new # <<>> /\ assigned[o] # <<>>
  BY <1>1, <1>5
<1> HIDE DEF new
<1>7. TypeOK'
  BY <1>2, <1>3, <1>4, <1>5 DEF IInv, TypeOK
<1>8. RequestShape'
  <2>1. \A t \in Slot : req[t].pc \in CourierUpdate =>
            /\ req[t].order \in Order
            /\ Exists(req[t].order) => req[t].row \in DOMAIN assigned'[req[t].order]
    BY <1>4, <1>5, InFlightTyped DEF IInv, RequestShape, CourierUpdate
  <2>2. QED
    BY <1>1, <1>2, <1>3, <1>4, <1>5, <2>1
    DEF IInv, RequestShape, Idle, CourierUpdate, Mirroring
<1>9. HandedOver' /\ NothingOfErased' /\ ClaimIsExclusive' /\ AloneOnStatus' /\ StatusGuardHolds'
  <2>1. \A p \in Order : /\ Len(assigned'[p]) = Len(assigned[p])
                         /\ assigned'[p] = <<>> <=> assigned[p] = <<>>
    BY <1>4, <1>5, <1>6
  <2>2. \A t \in Slot : req'[t].pc \in StatusRequest => req'[t] = req[t]
    BY <1>2, <1>3 DEF StatusRequest, Idle
  <2>3. QED
    BY <1>4, <2>1, <2>2, StatusPartKept
<1>10. AloneUpdating'
  BY <1>1, <1>2, <1>3, <1>4 DEF IInv, AloneUpdating, CourierUpdate, Idle
<1>11. MirrorStillAhead'
  BY <1>2, <1>3, <1>4, InFlightTyped DEF IInv, MirrorStillAhead, Ahead, Idle
<1>12. \A p \in Order : Smooth(p)' = Smooth(p)
  BY <1>4 DEF Smooth
<1>13. SettledOrMirroring'
  <2>1. ASSUME NEW p \in Order, p # o, Smooth(p)
        PROVE  InFlight(Mirroring, p)' \/ Settled(p)'
    <3>1. InFlight(Mirroring, p) => InFlight(Mirroring, p)'
      BY <1>1, <1>2, <2>1 DEF InFlight, Mirroring
    <3>2. Settled(p) => Settled(p)'
      BY <1>4, <2>1 DEF Settled
    <3>3. QED
      BY <2>1, <3>1, <3>2 DEF IInv, SettledOrMirroring
  <2>2. ASSUME Smooth(o)
        PROVE  InFlight(Mirroring, o)' \/ Settled(o)'
    <3>1. CASE to \in DOMAIN Mirror
      BY <1>3, <3>1, MirrorValues DEF InFlight, Mirroring, Idle
    <3>2. CASE to \notin DOMAIN Mirror
      <4>1. Len(assigned[o]) = 1
        BY <1>6, <2>2 DEF IInv, ClaimIsExclusive, Smooth
      <4>2. \A j \in DOMAIN assigned'[o] : assigned'[o][j].status = to
        BY <1>1, <1>4, <1>5, <4>1
      <4>3. QED
        BY <3>2, <4>2 DEF Settled
    <3>3. QED
      BY <3>1, <3>2
  <2>3. QED
    BY <1>12, <2>1, <2>2 DEF SettledOrMirroring
<1>14. MirrorCarriesRow'
  <2>1. SUFFICES ASSUME NEW t \in Slot, req'[t].pc \in Mirroring, Smooth(req[t].order)',
                        Exists(req[t].order)'
                 PROVE  /\ assigned'[req'[t].order][req'[t].row].status = req'[t].to
                        /\ req'[t].pc = "emit" =>
                              tracking'[req'[t].order] = Mirror[req'[t].to]
    BY DEF MirrorCarriesRow
  <2>2. CASE t = s
    BY <1>3, <1>4, <1>5, <2>1, <2>2 DEF Mirroring, Idle
  <2>3. CASE t # s
    <3>1. req'[t] = req[t] /\ req[t].order \in Order
      BY <1>2, <2>1, <2>3, InFlightTyped DEF IInv, Mirroring
    <3>2. Smooth(req[t].order)
      BY <1>4, <2>1, <3>1 DEF Smooth
    <3>3. req[t].order # o
      BY <1>1, <2>1, <2>3, <3>1, <3>2
      DEF IInv, AloneUpdating, Smooth, CourierUpdate, Mirroring
    <3>4. QED
      BY <1>4, <2>1, <3>1, <3>2, <3>3 DEF IInv, MirrorCarriesRow
  <2>4. QED
    BY <2>2, <2>3
<1>15. QED
  BY <1>7, <1>8, <1>9, <1>10, <1>11, <1>13, <1>14 DEF IInv

(* TrackingService.updateStatus reads and finds the timeline behind.       *)
LEMMA MirrorReadsKeepsIInv ==
    ASSUME IInv, NEW s \in Slot, MirrorReads(s)
    PROVE  IInv'
<1>0. PICK o \in Order : o = req[s].order
  BY InFlightTyped DEF IInv, MirrorReads
<1>1. /\ req[s].pc = "mirror" /\ req[s].order = o /\ req[s] \in Request
      /\ Ahead(o, Mirror[req[s].to])
      /\ UNCHANGED <<order, assigned, tracking, shown, contended, raced, dropped, crashes, gone>>
  BY <1>0, InFlightTyped DEF IInv, MirrorReads, history
<1>2. /\ req' = [req EXCEPT ![s] = req'[s]]
      /\ req'[s] = Serving("mirrorWrite", o, req[s].by, req[s].row, req[s].to)
      /\ \A t \in Slot : t # s => req'[t] = req[t]
  BY <1>1, GoToEffect DEF IInv, MirrorReads
<1>3. /\ req'[s].pc = "mirrorWrite" /\ req'[s].order = o /\ req'[s].by = req[s].by
      /\ req'[s].row = req[s].row /\ req'[s].to = req[s].to /\ req'[s] \in Request
  BY <1>1, <1>2 DEF Serving, Request
<1>4. TypeOK'
  BY <1>1, <1>2, <1>3 DEF IInv, TypeOK
<1>5. RequestShape'
  BY <1>1, <1>2, <1>3 DEF IInv, RequestShape, CourierUpdate, Mirroring
<1>6. HandedOver' /\ NothingOfErased' /\ ClaimIsExclusive' /\ AloneOnStatus' /\ StatusGuardHolds'
  BY <1>1, <1>2, <1>3, StatusPartKept DEF StatusRequest
<1>7. AloneUpdating'
  BY <1>1, <1>2, <1>3 DEF IInv, AloneUpdating, CourierUpdate
<1>8. MirrorStillAhead'
  BY <1>1, <1>2, <1>3, InFlightTyped DEF IInv, MirrorStillAhead, Ahead
<1>9. SettledOrMirroring'
  <2>1. \A p \in Order : InFlight(Mirroring, p) => InFlight(Mirroring, p)'
    BY <1>1, <1>2, <1>3 DEF InFlight, Mirroring
  <2>2. QED
    BY <1>1, <2>1 DEF IInv, SettledOrMirroring, Settled, Smooth
<1>10. MirrorCarriesRow'
  BY <1>1, <1>2, <1>3 DEF IInv, MirrorCarriesRow, Smooth, Mirroring
<1>11. QED
  BY <1>4, <1>5, <1>6, <1>7, <1>8, <1>9, <1>10 DEF IInv

(* The mirror throws: from then on the order is marked.                    *)
LEMMA MirrorDroppedKeepsIInv ==
    ASSUME IInv, NEW s \in Slot, MirrorDropped(s)
    PROVE  IInv'
<1>0. PICK o \in Order : o = req[s].order
  BY InFlightTyped DEF IInv, MirrorDropped
<1>1. /\ req[s].pc \in {"mirror", "mirrorWrite"} /\ req[s].order = o
      /\ req'[s] = Idle /\ req' = [req EXCEPT ![s] = Idle]
      /\ \A t \in Slot : t # s => req'[t] = req[t]
      /\ dropped' = [dropped EXCEPT ![o] = TRUE] /\ dropped'[o]
      /\ \A p \in Order : p # o => dropped'[p] = dropped[p]
      /\ UNCHANGED <<order, assigned, tracking, shown, contended, raced, crashes, gone>>
  BY <1>0 DEF IInv, TypeOK, MirrorDropped, Finish
<1>2. TypeOK'
  BY <1>1 DEF IInv, TypeOK
<1>3. RequestShape'
  BY <1>1 DEF IInv, RequestShape, Idle, CourierUpdate, Mirroring
<1>4. HandedOver' /\ NothingOfErased' /\ ClaimIsExclusive' /\ AloneOnStatus' /\ StatusGuardHolds'
  BY <1>1, StatusPartKept DEF StatusRequest, Idle
<1>5. AloneUpdating' /\ MirrorStillAhead'
  BY <1>1 DEF IInv, AloneUpdating, MirrorStillAhead, CourierUpdate, Ahead, Idle
<1>6. ~Smooth(o)' /\ \A p \in Order : p # o => Smooth(p)' = Smooth(p)
  BY <1>1 DEF Smooth
<1>7. SettledOrMirroring'
  <2>1. \A p \in Order : p # o /\ InFlight(Mirroring, p) => InFlight(Mirroring, p)'
    BY <1>1 DEF InFlight, Mirroring
  <2>2. QED
    BY <1>1, <1>6, <2>1 DEF IInv, SettledOrMirroring, Settled
<1>8. MirrorCarriesRow'
  <2>1. \A t \in Slot : req'[t].pc \in Mirroring =>
            t # s /\ req'[t] = req[t] /\ req[t].order \in Order
    BY <1>1, InFlightTyped DEF IInv, Mirroring, Idle
  <2>2. \A t \in Slot : req'[t].pc \in Mirroring /\ Smooth(req[t].order)'
            => Smooth(req[t].order)
    BY <1>1, <2>1 DEF Smooth
  <2>3. QED
    BY <1>1, <2>1, <2>2 DEF IInv, MirrorCarriesRow
<1>9. QED
  BY <1>2, <1>3, <1>4, <1>5, <1>7, <1>8 DEF IInv

(* The timeline is written.                                                *)
LEMMA MirrorWritesKeepsIInv ==
    ASSUME IInv, NEW s \in Slot, MirrorWrites(s)
    PROVE  IInv'
<1>0. PICK o \in Order : o = req[s].order
  BY InFlightTyped DEF IInv, MirrorWrites
<1>1. /\ req[s].pc = "mirrorWrite" /\ req[s].order = o /\ req[s] \in Request
      /\ req[s].to \in DOMAIN Mirror
  BY <1>0, InFlightTyped DEF IInv, RequestShape, MirrorWrites, Mirroring
<1>2. /\ req' = [req EXCEPT ![s] = req'[s]]
      /\ req'[s] = Serving("emit", o, req[s].by, req[s].row, req[s].to)
      /\ \A t \in Slot : t # s => req'[t] = req[t]
  BY <1>1, GoToEffect DEF IInv, MirrorWrites
<1>3. /\ req'[s].pc = "emit" /\ req'[s].order = o /\ req'[s].by = req[s].by
      /\ req'[s].row = req[s].row /\ req'[s].to = req[s].to /\ req'[s] \in Request
  BY <1>1, <1>2 DEF Serving, Request
<1>4. /\ tracking' = [tracking EXCEPT ![o] = Mirror[req[s].to]]
      /\ tracking'[o] = Mirror[req[s].to]
      /\ \A p \in Order : p # o => tracking'[p] = tracking[p]
      /\ UNCHANGED <<order, assigned, shown, contended, raced, dropped, crashes, gone>>
  BY <1>1 DEF IInv, TypeOK, MirrorWrites, history
<1>5. TypeOK'
  <2>1. Mirror[req[s].to] \in Timeline
    BY <1>1, MirrorValues
  <2>2. tracking' \in [Order -> Timeline]
    BY <1>4, <2>1 DEF IInv, TypeOK
  <2>3. QED
    BY <1>1, <1>2, <1>3, <1>4, <2>2 DEF IInv, TypeOK
<1>6. RequestShape'
  BY <1>1, <1>2, <1>3, <1>4 DEF IInv, RequestShape, CourierUpdate, Mirroring
<1>7. HandedOver' /\ NothingOfErased' /\ ClaimIsExclusive' /\ AloneOnStatus' /\ StatusGuardHolds'
  BY <1>2, <1>3, <1>4, StatusPartKept DEF StatusRequest
<1>8. AloneUpdating'
  BY <1>1, <1>2, <1>3, <1>4 DEF IInv, AloneUpdating, CourierUpdate
<1>9. \A t \in Slot : t # s /\ req[t].pc \in CourierUpdate /\ ~raced[req[t].order]
                          => req[t].order # o
  BY <1>1 DEF IInv, AloneUpdating, CourierUpdate
<1>10. MirrorStillAhead'
  BY <1>2, <1>3, <1>4, <1>9, InFlightTyped
  DEF IInv, MirrorStillAhead, Ahead, CourierUpdate
<1>11. SettledOrMirroring'
  <2>1. \A p \in Order : InFlight(Mirroring, p) \/ p = o => InFlight(Mirroring, p)'
    BY <1>1, <1>2, <1>3 DEF InFlight, Mirroring
  <2>2. QED
    BY <1>4, <2>1 DEF IInv, SettledOrMirroring, Settled, Smooth
<1>12. MirrorCarriesRow'
  <2>1. SUFFICES ASSUME NEW t \in Slot, req'[t].pc \in Mirroring, Smooth(req[t].order)',
                        Exists(req[t].order)'
                 PROVE  /\ assigned'[req'[t].order][req'[t].row].status = req'[t].to
                        /\ req'[t].pc = "emit" =>
                              tracking'[req'[t].order] = Mirror[req'[t].to]
    BY DEF MirrorCarriesRow
  <2>2. CASE t = s
    BY <1>1, <1>3, <1>4, <2>1, <2>2 DEF IInv, MirrorCarriesRow, Mirroring, Smooth
  <2>3. CASE t # s
    <3>1. req'[t] = req[t] /\ req[t].order \in Order
      BY <1>2, <2>1, <2>3, InFlightTyped DEF IInv, Mirroring
    <3>2. Smooth(req[t].order)
      BY <1>4, <2>1, <3>1 DEF Smooth
    <3>3. req[t].order # o
      BY <1>9, <2>1, <2>3, <3>1, <3>2 DEF Smooth, CourierUpdate, Mirroring
    <3>4. QED
      BY <1>4, <2>1, <3>1, <3>2, <3>3 DEF IInv, MirrorCarriesRow
  <2>4. QED
    BY <2>2, <2>3
<1>13. QED
  BY <1>5, <1>6, <1>7, <1>8, <1>10, <1>11, <1>12 DEF IInv

(* The broadcast: the room sees what was written, and the order is settled *)
(* again, since without a fight it has the one assignment.                 *)
LEMMA EmitTrackingKeepsIInv ==
    ASSUME IInv, NEW s \in Slot, EmitTracking(s)
    PROVE  IInv'
<1>0. PICK o \in Order : o = req[s].order
  BY InFlightTyped DEF IInv, EmitTracking
<1>1. /\ req[s].pc = "emit" /\ req[s].order = o /\ req[s].to \in DOMAIN Mirror
      /\ Exists(o) => req[s].row \in DOMAIN assigned[o]
      /\ assigned[o] \in Seq(Assignment)
  BY <1>0, InFlightTyped DEF IInv, RequestShape, EmitTracking, Mirroring, CourierUpdate
<1>2. /\ req'[s] = Idle /\ req' = [req EXCEPT ![s] = Idle]
      /\ \A t \in Slot : t # s => req'[t] = req[t]
      /\ shown' = [shown EXCEPT ![o] = Mirror[req[s].to]]
      /\ shown'[o] = Mirror[req[s].to]
      /\ \A p \in Order : p # o => shown'[p] = shown[p]
      /\ UNCHANGED <<order, assigned, tracking, contended, raced, dropped, crashes, gone>>
  BY <1>1 DEF IInv, TypeOK, EmitTracking, Finish, history
<1>3. TypeOK'
  BY <1>1, <1>2, MirrorValues DEF IInv, TypeOK
<1>4. RequestShape'
  BY <1>2 DEF IInv, RequestShape, Idle, CourierUpdate, Mirroring
<1>5. HandedOver' /\ NothingOfErased' /\ ClaimIsExclusive' /\ AloneOnStatus' /\ StatusGuardHolds'
  BY <1>2, StatusPartKept DEF StatusRequest, Idle
<1>6. AloneUpdating' /\ MirrorStillAhead'
  BY <1>2 DEF IInv, AloneUpdating, MirrorStillAhead, CourierUpdate, Ahead, Idle
<1>7. Smooth(o) => Settled(o)'
  <2>1. SUFFICES ASSUME Smooth(o), Exists(o) PROVE Settled(o)'
    BY <1>2 DEF IInv, NothingOfErased, Settled
  <2>2. assigned[o][req[s].row].status = req[s].to /\ tracking[o] = Mirror[req[s].to]
    <3>1. req[s].pc \in Mirroring
      BY <1>1 DEF Mirroring
    <3>2. QED
      BY <1>1, <2>1, <3>1 DEF IInv, MirrorCarriesRow
  <2>3. assigned[o] # <<>> /\ req[s].row \in DOMAIN assigned[o]
    BY <1>1, <2>1
  <2>4. Len(assigned[o]) = 1
    BY <2>1, <2>3 DEF IInv, ClaimIsExclusive, Smooth
  <2>5. \A i \in DOMAIN assigned[o] : i = req[s].row
    BY <1>1, <2>3, <2>4
  <2>6. QED
    BY <1>2, <2>2, <2>5 DEF Settled
<1>8. SettledOrMirroring'
  <2>1. \A p \in Order : p # o /\ InFlight(Mirroring, p) => InFlight(Mirroring, p)'
    BY <1>1, <1>2 DEF InFlight, Mirroring
  <2>2. \A p \in Order : p # o /\ Settled(p) => Settled(p)'
    BY <1>2 DEF Settled
  <2>3. \A p \in Order : Smooth(p)' = Smooth(p)
    BY <1>2 DEF Smooth
  <2>4. QED
    BY <1>7, <2>1, <2>2, <2>3 DEF IInv, SettledOrMirroring
<1>9. MirrorCarriesRow'
  BY <1>2 DEF IInv, MirrorCarriesRow, Smooth, Mirroring, Idle
<1>10. QED
  BY <1>3, <1>4, <1>5, <1>6, <1>8, <1>9 DEF IInv

(* A restart forgets the requests; what is written stays.                  *)
LEMMA CrashKeepsIInv ==
    ASSUME IInv, Crash
    PROVE  IInv'
<1>1. /\ \A t \in Slot : req'[t] = Idle
      /\ crashes' > 0
      /\ UNCHANGED <<order, assigned, tracking, shown, contended, raced, dropped, gone>>
  BY DEF IInv, TypeOK, Crash
<1>2. TypeOK'
  BY <1>1 DEF IInv, TypeOK, Crash
<1>3. RequestShape'
  BY <1>1 DEF RequestShape, Idle, CourierUpdate, Mirroring
<1>4. HandedOver' /\ NothingOfErased' /\ ClaimIsExclusive' /\ AloneOnStatus' /\ StatusGuardHolds'
  BY <1>1, StatusPartKept DEF StatusRequest, Idle
<1>5. AloneUpdating' /\ MirrorStillAhead' /\ MirrorCarriesRow'
  BY <1>1 DEF AloneUpdating, MirrorStillAhead, MirrorCarriesRow, CourierUpdate,
              Mirroring, Idle
<1>6. SettledOrMirroring'
  BY <1>1 DEF SettledOrMirroring, Smooth
<1>7. QED
  BY <1>2, <1>3, <1>4, <1>5, <1>6 DEF IInv

(* A request whose statement throws leaves everything as it was.           *)
LEMMA FailureKeepsIInv ==
    ASSUME IInv, NEW s \in Slot, RequestFails(s)
    PROVE  IInv'
<1>1. /\ req[s].pc \in {"write", "claim", "ensure", "update"}
      /\ req'[s] = Idle /\ req' = [req EXCEPT ![s] = Idle]
      /\ \A t \in Slot : t # s => req'[t] = req[t]
      /\ UNCHANGED <<order, assigned, tracking, shown, contended, raced, dropped, crashes, gone>>
  BY DEF IInv, TypeOK, RequestFails, Finish, history
<1>2. TypeOK'
  BY <1>1 DEF IInv, TypeOK
<1>3. RequestShape'
  BY <1>1 DEF IInv, RequestShape, Idle, CourierUpdate, Mirroring
<1>4. HandedOver' /\ NothingOfErased' /\ ClaimIsExclusive' /\ AloneOnStatus' /\ StatusGuardHolds'
  BY <1>1, StatusPartKept DEF StatusRequest, Idle
<1>5. AloneUpdating' /\ MirrorStillAhead' /\ MirrorCarriesRow'
  BY <1>1 DEF IInv, AloneUpdating, MirrorStillAhead, MirrorCarriesRow, Smooth,
              CourierUpdate, Mirroring, Ahead, Idle
<1>6. SettledOrMirroring'
  <2>1. \A p \in Order : InFlight(Mirroring, p) => InFlight(Mirroring, p)'
    BY <1>1 DEF InFlight, Mirroring
  <2>2. QED
    BY <1>1, <2>1 DEF IInv, SettledOrMirroring, Settled, Smooth
<1>7. QED
  BY <1>2, <1>3, <1>4, <1>5, <1>6 DEF IInv

(* The account of a courier goes; the orders it was given stay as they     *)
(* are.                                                                    *)
LEMMA DeleteCourierKeepsIInv ==
    ASSUME IInv, NEW c \in Courier, DeleteCourier(c)
    PROVE  IInv'
<1>1. /\ gone' \subseteq Courier
      /\ UNCHANGED <<order, assigned, tracking, shown, req, contended, raced, dropped, crashes>>
  BY DEF IInv, TypeOK, DeleteCourier, history
<1>2. TypeOK'
  BY <1>1 DEF IInv, TypeOK
<1>3. RequestShape'
  BY <1>1 DEF IInv, RequestShape
<1>4. HandedOver' /\ NothingOfErased' /\ ClaimIsExclusive' /\ AloneOnStatus' /\ StatusGuardHolds'
  BY <1>1, StatusPartKept
<1>5. AloneUpdating' /\ MirrorStillAhead' /\ SettledOrMirroring' /\ MirrorCarriesRow'
  BY <1>1, UpdatePartKept DEF Smooth
<1>6. QED
  BY <1>2, <1>3, <1>4, <1>5 DEF IInv

(* Orders go with an account: nothing is said of them any more.            *)
LEMMA DeleteAccountKeepsIInv ==
    ASSUME IInv, NEW orders \in SUBSET Order, DeleteAccount(orders)
    PROVE  IInv'
<1>1. /\ \A o \in orders : order'[o] = "erased" /\ assigned'[o] = <<>> /\ tracking'[o] = "none"
      /\ \A o \in Order \ orders : /\ order'[o] = order[o]
                                   /\ assigned'[o] = assigned[o]
                                   /\ tracking'[o] = tracking[o]
      /\ UNCHANGED <<shown, req, contended, raced, dropped, crashes, gone>>
  BY DEF DeleteAccount, history
<1>2. TypeOK'
  <2>1. "none" \in Timeline /\ <<>> \in Seq(Assignment)
    BY DEF Timeline
  <2>2. QED
    BY <1>1, <2>1 DEF IInv, TypeOK, DeleteAccount
<1>3. \A o \in Order : o \in orders <=> ~Exists(o)' /\ (Exists(o) \/ o \in orders)
  BY <1>1 DEF IInv
<1>4. \A t \in Slot : req[t].pc # "idle" => req[t].order \in Order
  BY InFlightTyped DEF IInv
<1>5. RequestShape'
  BY <1>1, <1>3, <1>4 DEF IInv, RequestShape, CourierUpdate
<1>6. HandedOver' /\ NothingOfErased' /\ ClaimIsExclusive'
  BY <1>1 DEF IInv, HandedOver, NothingOfErased, ClaimIsExclusive
<1>7. AloneOnStatus' /\ StatusGuardHolds'
  BY <1>1, <1>3, <1>4
  DEF IInv, AloneOnStatus, StatusRequest, StatusGuardHolds, Unclaimed
<1>8. AloneUpdating' /\ MirrorStillAhead'
  BY <1>1, <1>3, <1>4 DEF IInv, AloneUpdating, MirrorStillAhead, CourierUpdate, Ahead
<1>9. SettledOrMirroring'
  BY <1>1 DEF IInv, SettledOrMirroring, Settled, Smooth, InFlight
<1>10. MirrorCarriesRow'
  BY <1>1, <1>3, <1>4 DEF IInv, MirrorCarriesRow, Smooth, Mirroring
<1>11. QED
  BY <1>2, <1>5, <1>6, <1>7, <1>8, <1>9, <1>10 DEF IInv

LEMMA StutterKeepsIInv == ASSUME IInv, UNCHANGED vars PROVE IInv'
BY DEF IInv, vars, TypeOK, RequestShape, HandedOver, NothingOfErased, ClaimIsExclusive,
       AloneOnStatus, StatusGuardHolds, Unclaimed, AloneUpdating, MirrorStillAhead,
       Ahead, SettledOrMirroring, Settled, InFlight, MirrorCarriesRow, Smooth

-----------------------------------------------------------------------------

(* The merchant's three handlers admit legal moves only.                   *)
LEMMA MerchantHandlers ==
    ASSUME NEW s \in Slot, NEW o \in Order,
           AcceptOrder(s, o) \/ RejectOrder(s, o) \/ AdvanceOrder(s, o)
    PROVE  \E to \in OrderStatus : MerchantReads(s, o, to) /\ LegalMove(order[o], to)
<1>1. CASE AcceptOrder(s, o)
  BY <1>1 DEF AcceptOrder, OrderStatus, LegalMove
<1>2. CASE RejectOrder(s, o)
  BY <1>2 DEF RejectOrder, OrderStatus, LegalMove
<1>3. CASE AdvanceOrder(s, o)
  BY <1>3 DEF AdvanceOrder, Forward, DbStatusOf, OrderStatus, LegalMove
<1>4. QED
  BY <1>1, <1>2, <1>3

LEMMA StepIInv == IInv /\ [Next]_vars => IInv'
<1> SUFFICES ASSUME IInv, [Next]_vars PROVE IInv'
  OBVIOUS
<1>1. ASSUME NEW s \in Slot, NEW o \in Order,
             AcceptOrder(s, o) \/ RejectOrder(s, o) \/ AdvanceOrder(s, o)
      PROVE  IInv'
  BY <1>1, MerchantHandlers, MerchantReadsKeepsIInv
<1>2. ASSUME NEW s \in Slot, NEW o \in Order, NEW c \in Courier,
             ClaimReads(s, c, o) \/ DeliveryReads(s, c, o)
      PROVE  IInv'
  BY <1>2, ClaimReadsKeepsIInv, DeliveryReadsKeepsIInv
<1>3. ASSUME NEW s \in Slot, Continue(s)
      PROVE  IInv'
  BY <1>3, MerchantWritesKeepsIInv, ClaimCommitsKeepsIInv, EnsureTrackingKeepsIInv,
     DeliveryWritesKeepsIInv, MirrorReadsKeepsIInv, MirrorDroppedKeepsIInv,
     MirrorWritesKeepsIInv, EmitTrackingKeepsIInv, FailureKeepsIInv DEF Continue
<1>4. ASSUME NEW o \in Order, OpenTracking(o)
      PROVE  IInv'
  BY <1>4, OpenTrackingKeepsIInv
<1>5. CASE Crash
  BY <1>5, CrashKeepsIInv
<1>6. ASSUME NEW c \in Courier, DeleteCourier(c)
      PROVE  IInv'
  BY <1>6, DeleteCourierKeepsIInv
<1>7. ASSUME NEW orders \in SUBSET Order, DeleteAccount(orders)
      PROVE  IInv'
  BY <1>7, DeleteAccountKeepsIInv
<1>8. CASE UNCHANGED vars
  BY <1>8, StutterKeepsIInv
<1>9. QED
  BY <1>1, <1>2, <1>3, <1>4, <1>5, <1>6, <1>7, <1>8 DEF Next

THEOREM Invariance == Spec => []IInv
BY InitIInv, StepIInv, PTL DEF Spec

(* What one step may do to the status of an order nobody fought over.      *)
LEMMA LifecycleStep ==
    IInv /\ [Next]_vars =>
      \A o \in Order :
         \/ order'[o] = order[o]
         \/ order[o] # "erased" /\ (contended'[o] \/ order'[o] = "erased")
         \/ <<order[o], order'[o]>> \in
               {<<"pending", "confirmed">>, <<"pending", "cancelled">>,
                <<"confirmed", "cancelled">>, <<"confirmed", "preparing">>,
                <<"preparing", "ready">>, <<"ready", "delivered">>,
                <<"ready", "assigned">>}
<1> SUFFICES ASSUME IInv, [Next]_vars, NEW o \in Order
             PROVE  \/ order'[o] = order[o]
                    \/ order[o] # "erased" /\ (contended'[o] \/ order'[o] = "erased")
                    \/ LegalMove(order[o], order'[o])
                    \/ order[o] = "ready" /\ order'[o] = "assigned"
  BY DEF LegalMove
<1>1. ASSUME NEW s \in Slot, MerchantWrites(s), order'[o] # order[o]
      PROVE  Exists(o) /\ (contended'[o] \/ LegalMove(order[o], order'[o]))
  <2>1. /\ req[s].pc = "write" /\ req[s].order = o /\ order'[o] = req[s].to
        /\ Exists(o)
    BY <1>1, InFlightTyped DEF IInv, TypeOK, MerchantWrites
  <2>2. QED
    BY <1>1, <2>1 DEF IInv, StatusRequest, StatusGuardHolds, MerchantWrites, history
<1>2. ASSUME NEW s \in Slot, ClaimCommits(s), order'[o] # order[o]
      PROVE  /\ Exists(o)
             /\ \/ contended'[o]
                \/ order[o] = "ready" /\ order'[o] = "assigned"
  <2>1. /\ req[s].pc = "claim" /\ req[s].order = o /\ order'[o] = "assigned"
        /\ Exists(o)
    BY <1>2, InFlightTyped DEF IInv, TypeOK, ClaimCommits
  <2>2. QED
    BY <1>2, <2>1 DEF IInv, StatusRequest, StatusGuardHolds, Unclaimed, ClaimCommits, history
<1>3. CASE UNCHANGED order
  BY <1>3
<1>4. ASSUME NEW orders \in SUBSET Order, DeleteAccount(orders), order'[o] # order[o]
      PROVE  order[o] # "erased" /\ order'[o] = "erased"
  BY <1>4 DEF DeleteAccount
<1>5. CASE UNCHANGED vars
  BY <1>3, <1>5 DEF vars
<1>6. ASSUME NEW s \in Slot, NEW p \in Order,
             \/ AcceptOrder(s, p) \/ RejectOrder(s, p) \/ AdvanceOrder(s, p)
             \/ \E c \in Courier : ClaimReads(s, c, p) \/ DeliveryReads(s, c, p)
      PROVE  UNCHANGED order
  BY <1>6 DEF AcceptOrder, RejectOrder, AdvanceOrder, MerchantReads, ClaimReads, DeliveryReads
<1>7. ASSUME NEW s \in Slot, Continue(s)
      PROVE  MerchantWrites(s) \/ ClaimCommits(s) \/ UNCHANGED order
  BY <1>7 DEF Continue, EnsureTracking, DeliveryWrites, MirrorReads, MirrorDropped,
      MirrorWrites, EmitTracking, RequestFails
<1>8. ASSUME \/ \E p \in Order : OpenTracking(p)
             \/ \E c \in Courier : DeleteCourier(c)
             \/ Crash
      PROVE  UNCHANGED order
  BY <1>8 DEF OpenTracking, DeleteCourier, Crash
<1>9. \/ UNCHANGED order
      \/ \E s \in Slot : MerchantWrites(s) \/ ClaimCommits(s)
      \/ \E orders \in SUBSET Order : DeleteAccount(orders)
  BY <1>5, <1>6, <1>7, <1>8 DEF Next, vars
<1>10. QED
  BY <1>1, <1>2, <1>3, <1>4, <1>9

(* What one step may do to the timeline.                                   *)
LEMMA TimelineStep ==
    IInv /\ [Next]_vars =>
      \A o \in Order :
         \/ raced'[o] \/ order'[o] = "erased"
         \/ Rank[tracking'[o]] >= Rank[tracking[o]]
<1> SUFFICES ASSUME IInv, [Next]_vars, NEW o \in Order, order'[o] # "erased"
             PROVE  raced'[o] \/ Rank[tracking'[o]] >= Rank[tracking[o]]
  OBVIOUS
<1>1. tracking[o] \in Timeline /\ Rank[tracking[o]] \in Nat
  BY RankIsNatural DEF IInv, TypeOK
<1>2. CASE tracking'[o] = tracking[o] \/ tracking'[o] = Ensured(tracking[o])
  BY <1>1, <1>2, EnsuredMovesOn
<1>3. ASSUME NEW s \in Slot, MirrorWrites(s), tracking'[o] # tracking[o]
      PROVE  raced'[o] \/ Rank[tracking'[o]] >= Rank[tracking[o]]
  <2>1. /\ req[s].pc = "mirrorWrite" /\ req[s].order = o
        /\ tracking'[o] = Mirror[req[s].to] /\ raced' = raced /\ Exists(o)
    BY <1>3, InFlightTyped DEF IInv, TypeOK, MirrorWrites, history
  <2>2. Rank[tracking'[o]] \in Nat
    BY <2>1, MirrorValues, RankIsNatural DEF IInv, RequestShape, Mirroring
  <2>3. QED
    BY <1>1, <2>1, <2>2 DEF IInv, MirrorStillAhead, Ahead
<1>4. ASSUME NEW s \in Slot, EnsureTracking(s)
      PROVE  tracking'[o] = tracking[o] \/ tracking'[o] = Ensured(tracking[o])
  BY <1>4 DEF IInv, TypeOK, EnsureTracking
<1>5. ASSUME NEW p \in Order, OpenTracking(p)
      PROVE  tracking'[o] = tracking[o] \/ tracking'[o] = Ensured(tracking[o])
  BY <1>5 DEF IInv, TypeOK, OpenTracking
<1>6. CASE UNCHANGED tracking
  BY <1>2, <1>6
<1>7. ASSUME NEW orders \in SUBSET Order, DeleteAccount(orders)
      PROVE  tracking'[o] = tracking[o]
  BY <1>7 DEF DeleteAccount
<1>8. CASE UNCHANGED vars
  BY <1>6, <1>8 DEF vars
<1>9. ASSUME NEW s \in Slot, NEW p \in Order,
             \/ AcceptOrder(s, p) \/ RejectOrder(s, p) \/ AdvanceOrder(s, p)
             \/ \E c \in Courier : ClaimReads(s, c, p) \/ DeliveryReads(s, c, p)
      PROVE  UNCHANGED tracking
  BY <1>9 DEF AcceptOrder, RejectOrder, AdvanceOrder, MerchantReads, ClaimReads, DeliveryReads
<1>10. ASSUME NEW s \in Slot, Continue(s)
       PROVE  EnsureTracking(s) \/ MirrorWrites(s) \/ UNCHANGED tracking
  BY <1>10 DEF Continue, MerchantWrites, ClaimCommits, DeliveryWrites, MirrorReads,
      MirrorDropped, EmitTracking, RequestFails
<1>11. ASSUME (\E c \in Courier : DeleteCourier(c)) \/ Crash
       PROVE  UNCHANGED tracking
  BY <1>11 DEF DeleteCourier, Crash
<1>12. \/ UNCHANGED tracking
       \/ \E s \in Slot : EnsureTracking(s) \/ MirrorWrites(s)
       \/ \E p \in Order : OpenTracking(p)
       \/ \E orders \in SUBSET Order : DeleteAccount(orders)
  BY <1>8, <1>9, <1>10, <1>11 DEF Next, vars
<1>13. QED
  BY <1>2, <1>3, <1>4, <1>5, <1>6, <1>7, <1>12

-----------------------------------------------------------------------------
(* The theorems.                                                           *)

(* The rows, the timeline, the room and the requests keep their types.     *)
THEOREM TypeCorrect == Spec => []TypeOK
BY Invariance, PTL DEF IInv

(* DeliveriesRepository.claim hands an order over together with its        *)
(* assignment row: whatever races it and wherever it fails or the server   *)
(* dies, an order shown as assigned has a courier, or had one who deleted  *)
(* the account since.                                                      *)
THEOREM HandedOverMeansCourier == Spec => []AssignedOrderHasCourier
<1>1. IInv => AssignedOrderHasCourier
  <2>1. SUFFICES ASSUME IInv, NEW o \in Order, order[o] = "assigned", Rows(o) = {}
                 PROVE  \E i \in DOMAIN assigned[o] : assigned[o][i].courier \in gone
    BY DEF AssignedOrderHasCourier
  <2>2. assigned[o] \in Seq(Assignment) /\ assigned[o] # <<>>
    BY <2>1 DEF IInv, TypeOK, HandedOver
  <2>3. 1 \in DOMAIN assigned[o]
    BY <2>2
  <2>4. QED
    BY <2>1, <2>3 DEF Rows
<1>2. QED
  BY <1>1, Invariance, PTL

(* An order that no two requests fought over is handed to one courier, and *)
(* stays with that courier.                                                *)
THEOREM UncontestedClaimIsExclusive == Spec => []ClaimIsExclusive
BY Invariance, PTL DEF IInv

(* At rest the timeline and the customer's screen show what the courier    *)
(* reported, unless a request was overtaken, dropped or cut off.           *)
THEOREM TimelineShowsDelivery == Spec => []TimelineFollowsCourier
<1>1. IInv => TimelineFollowsCourier
  <2>1. SUFFICES ASSUME IInv, NEW o \in Order,
                        ~contended[o], ~raced[o], ~dropped[o], ~(crashes > 0),
                        ~InFlight(CourierUpdate, o)
                 PROVE  Settled(o)
    BY DEF TimelineFollowsCourier, Settled
  <2>2. Smooth(o)
    BY <2>1, OrderDeliveryAssumption DEF IInv, TypeOK, Smooth
  <2>3. ~InFlight(Mirroring, o)
    BY <2>1 DEF InFlight, Mirroring, CourierUpdate
  <2>4. QED
    BY <2>1, <2>2, <2>3 DEF IInv, SettledOrMirroring
<1>2. QED
  BY <1>1, Invariance, PTL

(* BUSINESS_FORWARD_TRANSITIONS, the reject rule and the claim's guard hold *)
(* of every step on an order nobody fought over, from read to write.       *)
THEOREM OrdersFollowTheirLifecycle == Spec => OrderLifecycleUnlessContended
<1>1. IInv /\ [Next]_vars =>
        [\A o \in Order :
           \/ order'[o] = order[o]
           \/ order[o] # "erased" /\ (contended'[o] \/ order'[o] = "erased")
           \/ <<order[o], order'[o]>> \in
                 {<<"pending", "confirmed">>, <<"pending", "cancelled">>,
                  <<"confirmed", "cancelled">>, <<"confirmed", "preparing">>,
                  <<"preparing", "ready">>, <<"ready", "delivered">>,
                  <<"ready", "assigned">>}]_vars
  BY LifecycleStep
<1>2. QED
  BY <1>1, Invariance, PTL DEF Spec, OrderLifecycleUnlessContended

(* The guard of TrackingService.updateStatus, checked before the write,    *)
(* keeps the timeline from going back unless two updates overlapped.       *)
THEOREM TimelineMovesForward == Spec => TimelineForwardUnlessRaced
<1>1. IInv /\ [Next]_vars =>
        [\A o \in Order :
           \/ raced'[o] \/ order'[o] = "erased"
           \/ Rank[tracking'[o]] >= Rank[tracking[o]]]_vars
  BY TimelineStep
<1>2. QED
  BY <1>1, Invariance, PTL DEF Spec, TimelineForwardUnlessRaced

-----------------------------------------------------------------------------
(* The safety half of DeliveredReachesCustomer, on any order, contended or *)
(* not: two couriers may have claimed it.                                  *)

(* Nothing kept the report of a delivery from the customer. *)
Heard(o) == ~raced[o] /\ ~dropped[o] /\ crashes = 0

DeliveredRow(o) == \E i \in DOMAIN assigned[o] : assigned[o][i].status = "delivered"

(* As long as the customer does not know of a delivery, the update that    *)
(* recorded it is still mirroring it.                                      *)
DeliveredIsOnItsWay ==
    \A o \in Order : DeliveredRow(o) /\ Heard(o) =>
        \/ shown[o] = "delivered"
        \/ \E s \in Slot :
              req[s].pc \in Mirroring /\ req[s].order = o /\ req[s].to = "delivered"

(* What an update is about to send is what it wrote, and what the customer *)
(* knows to be delivered is delivered on the timeline.                     *)
EmitsTimeline ==
    \A s \in Slot : req[s].pc = "emit" /\ ~raced[req[s].order] /\ Exists(req[s].order) =>
        tracking[req[s].order] = Mirror[req[s].to]

ShownDelivered ==
    \A o \in Order :
        shown[o] = "delivered" /\ ~raced[o] /\ Exists(o) => tracking[o] = "delivered"

ArrivalInv == IInv /\ EmitsTimeline /\ ShownDelivered /\ DeliveredIsOnItsWay

(* A request keeps all three unless it is a step of a mirror, or makes a   *)
(* delivered row.                                                          *)
LEMMA ArrivalKept ==
    ASSUME ArrivalInv,
           shown' = shown, crashes' = crashes, dropped' = dropped,
           \A o \in Order : raced[o] => raced'[o],
           \A o \in Order : Exists(o)' =>
               Exists(o) /\ (tracking'[o] = tracking[o] \/ tracking[o] = "none"),
           \A o \in Order : DeliveredRow(o)' => DeliveredRow(o),
           \A t \in Slot : req[t].pc \in Mirroring \/ req'[t].pc \in Mirroring
                               => req'[t] = req[t]
    PROVE  EmitsTimeline' /\ ShownDelivered' /\ DeliveredIsOnItsWay'
<1>1. EmitsTimeline'
  <2> SUFFICES ASSUME NEW t \in Slot, req'[t].pc = "emit", ~raced'[req'[t].order],
                      order'[req'[t].order] # "erased"
               PROVE  tracking'[req'[t].order] = Mirror[req'[t].to]
    BY DEF EmitsTimeline
  <2>1. req'[t] = req[t] /\ req[t].pc = "emit"
    BY DEF Mirroring
  <2>2. req[t].order \in Order /\ req[t].to \in DOMAIN Mirror
    BY <2>1, InFlightTyped DEF ArrivalInv, IInv, RequestShape, Mirroring
  <2>3. tracking[req[t].order] = Mirror[req[t].to]
    BY <2>1, <2>2 DEF ArrivalInv, EmitsTimeline
  <2>4. Mirror[req[t].to] # "none"
    BY <2>2, MirrorValues
  <2>5. QED
    BY <2>1, <2>2, <2>3, <2>4
<1>2. ShownDelivered'
  BY DEF ArrivalInv, ShownDelivered
<1>3. DeliveredIsOnItsWay'
  <2> SUFFICES ASSUME NEW o \in Order, DeliveredRow(o)', Heard(o)', shown'[o] # "delivered"
               PROVE  \E t \in Slot : req'[t].pc \in Mirroring /\ req'[t].order = o
                                          /\ req'[t].to = "delivered"
    BY DEF DeliveredIsOnItsWay
  <2>1. DeliveredRow(o) /\ Heard(o) /\ shown[o] # "delivered"
    BY DEF Heard
  <2>2. PICK t \in Slot : req[t].pc \in Mirroring /\ req[t].order = o /\ req[t].to = "delivered"
    BY <2>1 DEF ArrivalInv, DeliveredIsOnItsWay
  <2>3. QED
    BY <2>2
<1>4. QED
  BY <1>1, <1>2, <1>3

(* Unless two updates of an order overlapped, a mirroring one is alone.    *)
LEMMA MirrorIsAlone ==
    ASSUME IInv, NEW s \in Slot, NEW t \in Slot,
           req[s].pc \in CourierUpdate, req[t].pc \in CourierUpdate,
           req[s].order = req[t].order, ~raced[req[s].order]
    PROVE  s = t
BY DEF IInv, AloneUpdating

(* What the actions outside the mirror do to the rows.                     *)
LEMMA QuietSteps ==
    ASSUME ArrivalInv,
           \/ \E s \in Slot, o \in Order :
                 \/ AcceptOrder(s, o) \/ RejectOrder(s, o) \/ AdvanceOrder(s, o)
                 \/ \E c \in Courier : ClaimReads(s, c, o) \/ DeliveryReads(s, c, o)
           \/ \E s \in Slot : MerchantWrites(s) \/ EnsureTracking(s) \/ RequestFails(s)
           \/ \E o \in Order : OpenTracking(o)
           \/ \E c \in Courier : DeleteCourier(c)
           \/ UNCHANGED vars
    PROVE  EmitsTimeline' /\ ShownDelivered' /\ DeliveredIsOnItsWay'
<1>0. TypeOK
  BY DEF ArrivalInv, IInv
<1>1. /\ shown' = shown /\ crashes' = crashes /\ dropped' = dropped /\ assigned' = assigned
      /\ \A o \in Order : raced[o] => raced'[o]
  <2>1. ASSUME NEW s \in Slot, NEW o \in Order, NEW c \in Courier, DeliveryReads(s, c, o)
        PROVE  /\ shown' = shown /\ crashes' = crashes /\ dropped' = dropped
               /\ assigned' = assigned /\ \A p \in Order : raced[p] => raced'[p]
    BY <1>0, <2>1 DEF TypeOK, DeliveryReads
  <2>2. QED
    BY <2>1
    DEF AcceptOrder, RejectOrder, AdvanceOrder, MerchantReads, ClaimReads, MerchantWrites,
        EnsureTracking, OpenTracking, RequestFails, DeleteCourier, vars, history
<1>2. \A o \in Order : tracking'[o] = tracking[o] \/ tracking[o] = "none"
  BY <1>0 DEF TypeOK, AcceptOrder, RejectOrder, AdvanceOrder, MerchantReads, ClaimReads,
     DeliveryReads, MerchantWrites, EnsureTracking, OpenTracking, Ensured, RequestFails, DeleteCourier, vars
<1>3. ASSUME NEW t \in Slot, req[t].pc \in Mirroring \/ req'[t].pc \in Mirroring
      PROVE  req'[t] = req[t]
  <2>1. ASSUME NEW s \in Slot, NEW q, req[s].pc \notin Mirroring, q.pc \notin Mirroring,
               req' = [req EXCEPT ![s] = q]
        PROVE  req'[t] = req[t]
    BY <1>0, <1>3, <2>1 DEF TypeOK
  <2>2. ASSUME NEW s \in Slot, NEW o \in Order, NEW to, MerchantReads(s, o, to)
        PROVE  req'[t] = req[t]
    BY <2>1, <2>2 DEF MerchantReads, Begin, Serving, Mirroring
  <2>3. ASSUME NEW s \in Slot, NEW o \in Order, NEW c \in Courier,
               ClaimReads(s, c, o) \/ DeliveryReads(s, c, o)
        PROVE  req'[t] = req[t]
    BY <2>1, <2>3 DEF ClaimReads, DeliveryReads, Begin, Serving, Mirroring
  <2>4. ASSUME NEW s \in Slot, MerchantWrites(s) \/ EnsureTracking(s) \/ RequestFails(s)
        PROVE  req'[t] = req[t]
    BY <2>1, <2>4 DEF MerchantWrites, EnsureTracking, RequestFails, Finish, Idle, Mirroring
  <2>5. CASE req' = req
    BY <2>5
  <2>6. QED
    BY <2>2, <2>3, <2>4, <2>5
    DEF AcceptOrder, RejectOrder, AdvanceOrder, OpenTracking, DeleteCourier, vars
<1>4. \A o \in Order : DeliveredRow(o)' => DeliveredRow(o)
  BY <1>1 DEF DeliveredRow
<1>5. \A o \in Order : Exists(o)' => Exists(o)
  <2>1. ASSUME NEW s \in Slot, MerchantWrites(s), NEW o \in Order, Exists(o)'
        PROVE  Exists(o)
    BY <1>0, <2>1 DEF TypeOK, MerchantWrites
  <2>2. CASE order' = order
    BY <2>2
  <2>3. QED
    BY <2>1, <2>2
    DEF AcceptOrder, RejectOrder, AdvanceOrder, MerchantReads, ClaimReads, DeliveryReads,
        EnsureTracking, OpenTracking, RequestFails, DeleteCourier, vars
<1>6. QED
  BY <1>1, <1>2, <1>3, <1>4, <1>5, ArrivalKept

(* A deleted order has no rows left to speak of.                           *)
LEMMA DeleteAccountKeepsArrival ==
    ASSUME ArrivalInv, NEW orders \in SUBSET Order, DeleteAccount(orders)
    PROVE  EmitsTimeline' /\ ShownDelivered' /\ DeliveredIsOnItsWay'
<1>1. /\ \A o \in orders : ~Exists(o)' /\ ~DeliveredRow(o)'
      /\ \A o \in Order \ orders : /\ order'[o] = order[o] /\ tracking'[o] = tracking[o]
                                   /\ DeliveredRow(o)' <=> DeliveredRow(o)
      /\ UNCHANGED <<req, shown, raced, dropped, crashes>>
  BY DEF DeleteAccount, DeliveredRow, history
<1>2. \A o \in Order : Exists(o)' => o \notin orders /\ Exists(o)
  BY <1>1
<1>3. QED
  <2>1. \A t \in Slot : req[t].pc = "emit" => req[t].order \in Order
    BY InFlightTyped DEF ArrivalInv, IInv
  <2>2. EmitsTimeline'
    BY <1>1, <1>2, <2>1 DEF ArrivalInv, EmitsTimeline
  <2>3. ShownDelivered'
    BY <1>1, <1>2 DEF ArrivalInv, ShownDelivered
  <2>4. DeliveredIsOnItsWay'
    BY <1>1 DEF ArrivalInv, DeliveredIsOnItsWay, Heard
  <2>5. QED
    BY <2>2, <2>3, <2>4


(* A claim adds a row that is not delivered.                               *)
LEMMA ClaimKeepsArrival ==
    ASSUME ArrivalInv, NEW s \in Slot, ClaimCommits(s)
    PROVE  EmitsTimeline' /\ ShownDelivered' /\ DeliveredIsOnItsWay'
<1>1. /\ req[s].pc = "claim" /\ req[s].order \in Order /\ req[s].by \in Courier
      /\ assigned[req[s].order] \in Seq(Assignment)
  BY InFlightTyped DEF ArrivalInv, IInv, RequestShape, ClaimCommits
<1>2. ASSUME NEW o \in Order, DeliveredRow(o)' PROVE DeliveredRow(o)
  <2>1. CASE o # req[s].order
    BY <1>1, <1>2, <2>1 DEF ArrivalInv, IInv, TypeOK, ClaimCommits, DeliveredRow
  <2>2. CASE o = req[s].order
    <3>1. assigned'[o] = Append(assigned[o], [courier |-> req[s].by, status |-> "assigned"])
      BY <1>1, <2>2 DEF ArrivalInv, IInv, TypeOK, ClaimCommits
    <3>2. PICK i \in DOMAIN assigned'[o] : assigned'[o][i].status = "delivered"
      BY <1>2 DEF DeliveredRow
    <3>3. i \in 1..Len(assigned[o]) + 1 /\ Len(assigned[o]) \in Nat
      BY <1>1, <2>2, <3>1
    <3>4. assigned'[o][Len(assigned[o]) + 1].status = "assigned"
      BY <1>1, <2>2, <3>1
    <3>5. i \in 1..Len(assigned[o])
      BY <3>2, <3>3, <3>4
    <3>6. assigned'[o][i] = assigned[o][i] /\ i \in DOMAIN assigned[o]
      BY <1>1, <2>2, <3>1, <3>5
    <3>7. QED
      BY <3>2, <3>6 DEF DeliveredRow
  <2>3. QED
    BY <2>1, <2>2
<1>7. \A o \in Order : Exists(o)' => Exists(o)
  BY <1>1 DEF ArrivalInv, IInv, TypeOK, ClaimCommits
<1>3. /\ \A t \in Slot : t # s => req'[t] = req[t]
      /\ req'[s] = Serving("ensure", req[s].order, req[s].by, req[s].row, req[s].to)
  <2>1. TypeOK /\ req[s].pc # "idle" /\ GoTo(s, "ensure")
    BY <1>1 DEF ArrivalInv, IInv, ClaimCommits
  <2>2. QED
    BY <2>1, GoToEffect
<1>4. req'[s].pc = "ensure"
  BY <1>3 DEF Serving
<1>5. \A t \in Slot : req[t].pc \in Mirroring \/ req'[t].pc \in Mirroring => req'[t] = req[t]
  BY <1>1, <1>3, <1>4 DEF Mirroring
<1>6. QED
  BY <1>2, <1>5, <1>7, ArrivalKept DEF ClaimCommits, history

(* The report of a delivery starts its mirror.                             *)
LEMMA DeliveryWritesKeepsArrival ==
    ASSUME ArrivalInv, NEW s \in Slot, DeliveryWrites(s)
    PROVE  EmitsTimeline' /\ ShownDelivered' /\ DeliveredIsOnItsWay'
<1> DEFINE q == req[s]
<1>0. TypeOK
  BY DEF ArrivalInv, IInv
<1>1. /\ q.pc = "update" /\ q.order \in Order /\ q.by \in Courier
      /\ q.row \in DOMAIN assigned[q.order]
      /\ q.to \in {"picked_up", "in_transit", "delivered", "failed"}
      /\ assigned[q.order] \in Seq(Assignment)
  BY InFlightTyped DEF ArrivalInv, IInv, RequestShape, DeliveryWrites, CourierUpdate
<1>2. UNCHANGED <<order, tracking, shown, contended, raced, dropped, crashes, gone>>
  BY DEF DeliveryWrites, history
<1>3. /\ \A t \in Slot : t # s => req'[t] = req[t]
      /\ IF q.to \in DOMAIN Mirror
         THEN req'[s] = Serving("mirror", q.order, q.by, q.row, q.to)
         ELSE req'[s] = Idle
  <2>1. CASE q.to \in DOMAIN Mirror
    <3>1. GoTo(s, "mirror") /\ req[s].pc # "idle"
      BY <1>1, <2>1 DEF DeliveryWrites
    <3>2. QED
      BY <1>0, <2>1, <3>1, GoToEffect
  <2>2. CASE q.to \notin DOMAIN Mirror
    BY <1>0, <2>2 DEF DeliveryWrites, Finish, TypeOK
  <2>3. QED
    BY <2>1, <2>2
<1>4. ASSUME NEW o \in Order, DeliveredRow(o)', ~DeliveredRow(o)
      PROVE  q.order = o /\ q.to = "delivered"
  <2>1. q.order = o
    BY <1>0, <1>1, <1>4 DEF TypeOK, DeliveryWrites, DeliveredRow
  <2>2. assigned'[o] = [assigned[o] EXCEPT ![q.row] = [courier |-> q.by, status |-> q.to]]
    BY <1>0, <1>1, <2>1 DEF TypeOK, DeliveryWrites
  <2>3. PICK i \in DOMAIN assigned'[o] : assigned'[o][i].status = "delivered"
    BY <1>4 DEF DeliveredRow
  <2>4. i \in DOMAIN assigned[o] /\ (i # q.row => assigned'[o][i] = assigned[o][i])
    BY <1>1, <2>1, <2>2
  <2>5. i = q.row
    BY <1>4, <2>3, <2>4 DEF DeliveredRow
  <2>6. assigned'[o][q.row].status = q.to
    BY <1>1, <2>1, <2>2
  <2>7. QED
    BY <2>1, <2>3, <2>5, <2>6
<1>5. EmitsTimeline'
  BY <1>2, <1>3 DEF ArrivalInv, EmitsTimeline, Serving, Idle
<1>6. ShownDelivered'
  BY <1>2 DEF ArrivalInv, ShownDelivered
<1>7. DeliveredIsOnItsWay'
  <2> SUFFICES ASSUME NEW o \in Order, DeliveredRow(o)', Heard(o)', shown'[o] # "delivered"
               PROVE  \E t \in Slot : req'[t].pc \in Mirroring /\ req'[t].order = o
                                          /\ req'[t].to = "delivered"
    BY DEF DeliveredIsOnItsWay
  <2>1. CASE DeliveredRow(o)
    <3>1. PICK t \in Slot : req[t].pc \in Mirroring /\ req[t].order = o
                              /\ req[t].to = "delivered"
      BY <1>2, <2>1 DEF ArrivalInv, DeliveredIsOnItsWay, Heard
    <3>2. t # s
      BY <1>1, <3>1 DEF Mirroring
    <3>3. QED
      BY <1>3, <3>1, <3>2
  <2>2. CASE ~DeliveredRow(o)
    <3>1. q.order = o /\ q.to = "delivered"
      BY <1>4, <2>2
    <3>2. req'[s] = Serving("mirror", q.order, q.by, q.row, q.to)
      BY <1>3, <3>1, MirrorValues
    <3>3. req'[s].pc \in Mirroring /\ req'[s].order = o /\ req'[s].to = "delivered"
      BY <3>1, <3>2 DEF Serving, Mirroring
    <3>4. QED
      BY <3>3
  <2>3. QED
    BY <2>1, <2>2
<1>8. QED
  BY <1>5, <1>6, <1>7

(* Each step of a mirror hands the report on, or drops it.                 *)
LEMMA MirrorStepKeepsArrival ==
    ASSUME ArrivalInv, NEW s \in Slot,
           MirrorReads(s) \/ MirrorDropped(s) \/ MirrorWrites(s) \/ EmitTracking(s)
    PROVE  EmitsTimeline' /\ ShownDelivered' /\ DeliveredIsOnItsWay'
<1> DEFINE q == req[s]
<1>0. TypeOK /\ IInv
  BY DEF ArrivalInv, IInv
<1>1. q.pc \in Mirroring
  BY DEF MirrorReads, MirrorDropped, MirrorWrites, EmitTracking, Mirroring
<1>2. q.pc # "idle" /\ q.order \in Order /\ q.to \in DOMAIN Mirror
  BY <1>0, <1>1, InFlightTyped DEF IInv, RequestShape, Mirroring
<1>3. UNCHANGED <<order, assigned, raced, crashes>>
  BY DEF MirrorReads, MirrorDropped, MirrorWrites, EmitTracking, history
<1>4. \A t \in Slot : t # s => req'[t] = req[t]
  <2>1. \A pc : GoTo(s, pc) => \A t \in Slot : t # s => req'[t] = req[t]
    BY <1>0, <1>2, GoToEffect
  <2>2. Finish(s) => \A t \in Slot : t # s => req'[t] = req[t]
    BY <1>0 DEF Finish, TypeOK
  <2>3. QED
    BY <2>1, <2>2 DEF MirrorReads, MirrorDropped, MirrorWrites, EmitTracking
(* Another mirroring request is on another order, unless they raced.       *)
<1>5. ASSUME NEW t \in Slot, t # s, req[t].pc \in Mirroring, ~raced[q.order]
      PROVE  req[t].order # q.order
  BY <1>0, <1>1, <1>5, MirrorIsAlone DEF Mirroring, CourierUpdate
(* What the customer hears of an order that is not the one served.         *)
<1>6. ASSUME NEW o \in Order, q.order # o \/ q.to # "delivered",
             DeliveredRow(o)', Heard(o)', Heard(o), shown[o] # "delivered"
      PROVE  \E t \in Slot : req'[t].pc \in Mirroring /\ req'[t].order = o
                                 /\ req'[t].to = "delivered"
  <2>1. PICK t \in Slot : req[t].pc \in Mirroring /\ req[t].order = o
                            /\ req[t].to = "delivered"
    BY <1>3, <1>6 DEF ArrivalInv, DeliveredIsOnItsWay, DeliveredRow
  <2>2. t # s
    BY <1>6, <2>1
  <2>3. QED
    BY <1>4, <2>1, <2>2
<1>7. ASSUME NEW pc \in {"mirrorWrite", "emit"}, GoTo(s, pc), shown' = shown,
             dropped' = dropped
      PROVE  DeliveredIsOnItsWay'
  <2>1. req'[s] = Serving(pc, q.order, q.by, q.row, q.to)
    BY <1>0, <1>2, <1>7, GoToEffect
  <2>2. req'[s].pc \in Mirroring /\ req'[s].order = q.order /\ req'[s].to = q.to
    BY <2>1 DEF Serving, Mirroring
  <2> HIDE DEF q
  <2> SUFFICES ASSUME NEW o \in Order, DeliveredRow(o)', Heard(o)', shown'[o] # "delivered"
               PROVE  \E t \in Slot : req'[t].pc \in Mirroring /\ req'[t].order = o
                                          /\ req'[t].to = "delivered"
    BY DEF DeliveredIsOnItsWay
  <2>3. CASE q.order = o /\ q.to = "delivered"
    BY <2>2, <2>3
  <2>4. CASE q.order # o \/ q.to # "delivered"
    <3>1. Heard(o) /\ shown[o] # "delivered"
      BY <1>3, <1>7 DEF Heard
    <3>2. QED
      BY <1>6, <2>4, <3>1
  <2>5. QED
    BY <2>3, <2>4
<1>8. CASE MirrorReads(s)
  <2>1. /\ GoTo(s, "mirrorWrite") /\ UNCHANGED <<tracking, shown, dropped>>
    BY <1>8 DEF MirrorReads, history
  <2>2. req'[s].pc = "mirrorWrite"
    <3>1. req'[s] = Serving("mirrorWrite", q.order, q.by, q.row, q.to)
      BY <1>0, <1>2, <2>1, GoToEffect
    <3>2. QED
      BY <3>1 DEF Serving
  <2>3. EmitsTimeline'
    BY <1>3, <1>4, <2>1, <2>2 DEF ArrivalInv, EmitsTimeline
  <2>4. ShownDelivered'
    BY <1>3, <2>1 DEF ArrivalInv, ShownDelivered
  <2>5. QED
    BY <1>7, <2>1, <2>3, <2>4
<1>9. CASE MirrorDropped(s)
  <2>1. /\ Finish(s) /\ UNCHANGED <<tracking, shown>>
        /\ dropped' = [dropped EXCEPT ![q.order] = TRUE]
    BY <1>9 DEF MirrorDropped
  <2>2. req'[s] = Idle
    BY <1>0, <2>1 DEF Finish, TypeOK
  <2>3. EmitsTimeline'
    BY <1>3, <1>4, <2>1, <2>2 DEF ArrivalInv, EmitsTimeline, Idle
  <2>4. ShownDelivered'
    BY <1>3, <2>1 DEF ArrivalInv, ShownDelivered
  <2>5. DeliveredIsOnItsWay'
    <3> SUFFICES ASSUME NEW o \in Order, DeliveredRow(o)', Heard(o)', shown'[o] # "delivered"
                 PROVE  \E t \in Slot : req'[t].pc \in Mirroring /\ req'[t].order = o
                                            /\ req'[t].to = "delivered"
      BY DEF DeliveredIsOnItsWay
    <3>1. dropped'[q.order] /\ \A p \in Order : dropped[p] => dropped'[p]
      BY <1>0, <1>2, <2>1 DEF TypeOK
    <3>2. q.order # o /\ Heard(o) /\ shown[o] # "delivered"
      BY <1>3, <2>1, <3>1 DEF Heard
    <3>3. QED
      BY <1>6, <3>2
  <2>6. QED
    BY <2>3, <2>4, <2>5
<1>10. CASE MirrorWrites(s)
  <2>1. /\ GoTo(s, "emit") /\ UNCHANGED <<shown, dropped>> /\ q.pc = "mirrorWrite"
        /\ tracking' = [tracking EXCEPT ![q.order] = Mirror[q.to]]
    BY <1>10 DEF MirrorWrites, history
  <2>2. req'[s] = Serving("emit", q.order, q.by, q.row, q.to)
    BY <1>0, <1>2, <2>1, GoToEffect
  <2>3. /\ tracking'[q.order] = Mirror[q.to]
        /\ \A o \in Order : o # q.order => tracking'[o] = tracking[o]
    BY <1>0, <1>2, <2>1 DEF TypeOK
  <2>4. EmitsTimeline'
    <3> SUFFICES ASSUME NEW t \in Slot, req'[t].pc = "emit", ~raced'[req'[t].order],
                        order'[req'[t].order] # "erased"
                 PROVE  tracking'[req'[t].order] = Mirror[req'[t].to]
      BY DEF EmitsTimeline
    <3>1. CASE t = s
      BY <2>2, <2>3, <3>1 DEF Serving
    <3>2. CASE t # s
      <4>1. /\ req'[t] = req[t] /\ req[t].pc = "emit" /\ ~raced[req[t].order]
            /\ Exists(req[t].order)
        BY <1>3, <1>4, <3>2
      <4>2. req[t].order # q.order
        BY <1>5, <3>2, <4>1 DEF Mirroring
      <4>3. req[t].order \in Order
        BY <1>0, <4>1, InFlightTyped
      <4>4. tracking'[req[t].order] = tracking[req[t].order]
        BY <2>3, <4>2, <4>3
      <4>5. QED
        BY <4>1, <4>4 DEF ArrivalInv, EmitsTimeline
    <3>3. QED
      BY <3>1, <3>2
  <2>5. ShownDelivered'
    <3> SUFFICES ASSUME NEW o \in Order, shown'[o] = "delivered", ~raced'[o], Exists(o)'
                 PROVE  tracking'[o] = "delivered"
      BY DEF ShownDelivered
    <3>1. tracking[o] = "delivered"
      BY <1>3, <2>1 DEF ArrivalInv, ShownDelivered
    <3>2. o # q.order
      <4>1. ASSUME q.order = o PROVE FALSE
        <5>1. Ahead(o, Mirror[q.to])
          BY <1>0, <1>3, <2>1, <4>1 DEF IInv, MirrorStillAhead
        <5>2. q.to \in {"picked_up", "in_transit", "delivered"}
          BY <1>2, MirrorValues
        <5>3. QED
          BY <3>1, <5>1, <5>2 DEF Ahead, Mirror, Rank
      <4>2. QED
        BY <4>1
    <3>3. QED
      BY <2>3, <3>1, <3>2
  <2>6. QED
    BY <1>7, <2>1, <2>4, <2>5
<1>11. CASE EmitTracking(s)
  <2>1. /\ Finish(s) /\ UNCHANGED <<tracking, dropped>> /\ q.pc = "emit"
        /\ shown' = [shown EXCEPT ![q.order] = Mirror[q.to]]
    BY <1>11 DEF EmitTracking, history
  <2>2. req'[s] = Idle
    BY <1>0, <2>1 DEF Finish, TypeOK
  <2>3. /\ shown'[q.order] = Mirror[q.to]
        /\ \A o \in Order : o # q.order => shown'[o] = shown[o]
    BY <1>0, <1>2, <2>1 DEF TypeOK
  <2>4. ~raced[q.order] /\ Exists(q.order) => tracking[q.order] = Mirror[q.to]
    BY <2>1 DEF ArrivalInv, EmitsTimeline
  <2>5. EmitsTimeline'
    BY <1>3, <1>4, <2>1, <2>2 DEF ArrivalInv, EmitsTimeline, Idle
  <2>6. ShownDelivered'
    BY <1>3, <2>1, <2>3, <2>4 DEF ArrivalInv, ShownDelivered
  <2>7. DeliveredIsOnItsWay'
    <3> SUFFICES ASSUME NEW o \in Order, DeliveredRow(o)', Heard(o)', shown'[o] # "delivered"
                 PROVE  \E t \in Slot : req'[t].pc \in Mirroring /\ req'[t].order = o
                                            /\ req'[t].to = "delivered"
      BY DEF DeliveredIsOnItsWay
    <3>1. Heard(o)
      BY <1>3, <2>1 DEF Heard
    <3>2. q.order = o => q.to # "delivered"
      BY <2>3 DEF Mirror
    <3>3. shown[o] # "delivered"
      <4>1. CASE q.order # o
        BY <2>3, <4>1
      <4>2. CASE q.order = o
        <5>0. Exists(o)
          BY <1>3 DEF ArrivalInv, IInv, NothingOfErased, DeliveredRow
        <5>1. tracking[o] = Mirror[q.to] /\ shown'[o] = Mirror[q.to]
          BY <2>3, <2>4, <3>1, <4>2, <5>0 DEF Heard
        <5>2. QED
          BY <3>1, <5>0, <5>1 DEF ArrivalInv, ShownDelivered, Heard
      <4>3. QED
        BY <4>1, <4>2
    <3>4. QED
      BY <1>6, <3>1, <3>2, <3>3
  <2>8. QED
    BY <2>5, <2>6, <2>7
<1>12. QED
  BY <1>8, <1>9, <1>10, <1>11

LEMMA ArrivalStep == ArrivalInv /\ [Next]_vars => ArrivalInv'
<1> SUFFICES ASSUME ArrivalInv, [Next]_vars PROVE ArrivalInv'
  OBVIOUS
<1>1. IInv'
  BY StepIInv DEF ArrivalInv
<1>2. CASE Crash
  <2>1. /\ \A t \in Slot : req'[t] = Idle
        /\ crashes' > 0 /\ UNCHANGED <<order, tracking, shown, raced>>
    BY <1>2 DEF ArrivalInv, IInv, TypeOK, Crash
  <2>2. EmitsTimeline' /\ ShownDelivered'
    BY <2>1 DEF ArrivalInv, EmitsTimeline, ShownDelivered, Idle
  <2>3. DeliveredIsOnItsWay'
    BY <2>1 DEF DeliveredIsOnItsWay, Heard
  <2>4. QED
    BY <1>1, <2>2, <2>3 DEF ArrivalInv
<1>3. ASSUME NEW s \in Slot, Continue(s) PROVE ArrivalInv'
  BY <1>1, <1>3, QuietSteps, ClaimKeepsArrival, DeliveryWritesKeepsArrival,
     MirrorStepKeepsArrival DEF Continue, ArrivalInv
<1>4. ASSUME NEW orders \in SUBSET Order, DeleteAccount(orders) PROVE ArrivalInv'
  BY <1>1, <1>4, DeleteAccountKeepsArrival DEF ArrivalInv
<1>5. QED
  BY <1>1, <1>2, <1>3, <1>4, QuietSteps DEF Next, ArrivalInv

(* No delivery is ever silent: once a courier reports it, the customer has *)
(* been told or the report is on its way, even on an order that two        *)
(* couriers claimed, unless updates overlapped, the mirror was dropped or  *)
(* the server died (DeliveriesService.updateStatus, the tracking mirror).  *)
THEOREM DeliveriesAreNeverSilent == Spec => []DeliveredIsOnItsWay
<1>1. Init => ArrivalInv
  BY InitIInv DEF Init, ArrivalInv, EmitsTimeline, ShownDelivered, DeliveredIsOnItsWay,
     DeliveredRow, Idle
<1>2. ArrivalInv => DeliveredIsOnItsWay
  BY DEF ArrivalInv
<1>3. QED
  BY <1>1, <1>2, ArrivalStep, PTL DEF Spec
=============================================================================
