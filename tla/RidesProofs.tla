---------------------------- MODULE RidesProofs ----------------------------
(***************************************************************************)
(* Proofs about Rides for any rides, drivers and slots.  IInv is the       *)
(* inductive invariant: TypeOK and the properties themselves, strengthened *)
(* by what is known of a request in flight.  One lemma per part shows that *)
(* every step keeps it; the theorems at the end follow.                    *)
(***************************************************************************)
EXTENDS Rides, TLAPS

USE DEF rooms, history

(* What a request in flight may be, by the handler that admitted it. *)
RequestShape ==
    \A s \in Slot :
        /\ req[s].pc \in {"write", "emit"} =>
              \/ req[s].op = "accept" /\ req[s].to = "accepted" /\ req[s].by \in Driver
              \/ /\ req[s].op = "status"
                 /\ req[s].to \in {"in_progress", "completed", "cancelled"}
              \/ req[s].op = "cancel" /\ req[s].to = "cancelled"
        /\ req[s].pc = "push" => req[s].by \in Driver

(* A driver-side update in flight was admitted on a matched ride. *)
MatchedWrites ==
    \A s \in Slot : req[s].pc = "write" /\ req[s].op = "status"
                        => matched[req[s].ride] # Nobody

(* A row that is there names the driver last matched, who else has deleted *)
(* the account; one nobody has accepted yet never had a driver.            *)
DriverIsMatched ==
    \A r \in Ride : ride[r].status # "absent" =>
        /\ \/ ride[r].driver = matched[r]
           \/ ride[r].driver = Nobody /\ matched[r] \in gone
        /\ ride[r].status = "requested" /\ ~overlapped[r] => matched[r] = Nobody

(* The stamps a status implies. *)
Trail(status) ==
    {stamp \in Stamp :
        \/ stamp = "acceptedAt" /\ status \in {"accepted", "in_progress", "completed"}
        \/ stamp = "startedAt" /\ status \in {"in_progress", "completed"}
        \/ stamp = "completedAt" /\ status = "completed"}

(* The row holds the stamps of its status, and a write in flight finds in  *)
(* the row all the stamps of the status it writes but its own.             *)
RowTrail == \A r \in Ride : Trail(ride[r].status) \subseteq ride[r].stamps

WriteTrail ==
    \A s \in Slot : req[s].pc = "write" /\ ride[req[s].ride].status # "absent" =>
        Trail(req[s].to) \subseteq ride[req[s].ride].stamps \cup StampsOf(req[s])

(* A request of slot s on r between its read and its last step. *)
InFlight(s, r) == req[s].pc \in {"write", "emit"} /\ req[s].ride = r

(* Without an overlap a ride has one status-changing request at a time,    *)
(* the row still is what that request was admitted on, if it is there, and *)
(* the room knows the status it is to change.                              *)
Alone ==
    \A r \in Ride : \A s, t \in Slot :
        ~overlapped[r] /\ InFlight(s, r) /\ InFlight(t, r) => s = t

GuardStillHolds ==
    \A r \in Ride : \A s \in Slot :
        ~overlapped[r] /\ req[s].pc = "write" /\ req[s].ride = r
                       /\ ride[r].status # "absent" =>
            /\ MayMove(ride[r].status, req[s].to)
            /\ req[s].op = "accept" => matched[r] = Nobody
            /\ shown[r] = ride[r].status \/ crashes > 0

EmitsRow ==
    \A r \in Ride : \A s \in Slot :
        ~overlapped[r] /\ req[s].pc = "emit" /\ req[s].ride = r =>
            ride[r].status \in {"absent", req[s].to}

(* A location report in flight comes from a driver of its ride. *)
PushMatched ==
    \A s \in Slot : req[s].pc = "push" =>
        /\ matched[req[s].ride] # Nobody
        /\ req[s].by = matched[req[s].ride] \/ overlapped[req[s].ride]

GeoMatched ==
    \A d \in geo : \E q \in Ride : matched[q] = d \/ overlapped[q]

(* A row that is not there has no driver, and is never there again once    *)
(* the customer has left; before, a ride that nobody asked for has had no  *)
(* request.                                                                *)
FreshRide ==
    \A r \in Ride :
        /\ Customer \in gone => ride[r].status = "absent"
        /\ ride[r].status = "absent" => ride[r].driver = Nobody
        /\ ride[r].status = "absent" /\ Customer \notin gone =>
              /\ shown[r] = "requested" /\ matched[r] = Nobody
              /\ \A s \in Slot : ~InFlight(s, r)

IInv ==
    /\ TypeOK
    /\ RequestShape
    /\ MatchedWrites
    /\ DriverIsMatched
    /\ ServedRideHasDriver
    /\ RowTrail
    /\ WriteTrail
    /\ Alone
    /\ GuardStillHolds
    /\ EmitsRow
    /\ PushMatched
    /\ PositionFromMatchedDriver
    /\ GeoMatched
    /\ OffersGoToMatchedDrivers
    /\ FreshRide
    /\ RoomShowsRow

-----------------------------------------------------------------------------

LEMMA InitIInv == Init => IInv
<1> SUFFICES ASSUME Init PROVE IInv
  OBVIOUS
<1> USE RidesAssumption DEF Init, Idle, NewRow
<1>1. TypeOK
  BY DEF TypeOK, RideRow, RideStatus
<1>2. RequestShape /\ MatchedWrites /\ PushMatched
  BY DEF RequestShape, MatchedWrites, PushMatched
<1>3. ServedRideHasDriver /\ RowTrail /\ WriteTrail
  BY DEF ServedRideHasDriver, RowTrail, WriteTrail, Trail
<1>4. Alone /\ GuardStillHolds /\ EmitsRow
  BY DEF Alone, GuardStillHolds, EmitsRow, InFlight
<1>5. PositionFromMatchedDriver /\ GeoMatched /\ OffersGoToMatchedDrivers
  BY DEF PositionFromMatchedDriver, GeoMatched, OffersGoToMatchedDrivers
<1>6. FreshRide /\ RoomShowsRow /\ DriverIsMatched
  BY DEF FreshRide, RoomShowsRow, DriverIsMatched, InFlight
<1>7. QED
  BY <1>1, <1>2, <1>3, <1>4, <1>5, <1>6 DEF IInv

(* A request found in flight is a Request record. *)
LEMMA InFlightTyped ==
    ASSUME TypeOK, NEW s \in Slot, req[s].pc # "idle"
    PROVE  /\ req[s] \in Request
           /\ req[s].ride \in Ride
           /\ req[s].to \in RideStatus
           /\ req[s].by \in Driver \cup {Customer}
BY DEF TypeOK, Request, Idle

(* Every handler keeps every row, request and history flag in its type. *)
LEMMA TypeStep == TypeOK /\ RequestShape /\ [Next]_vars => TypeOK'
<1> SUFFICES ASSUME TypeOK, RequestShape, [Next]_vars PROVE TypeOK'
  OBVIOUS
<1>1. ASSUME NEW s \in Slot, NEW r \in Ride, NEW op \in {"accept", "status", "cancel"},
             NEW by \in Driver \cup {Customer}, NEW to \in RideStatus,
             Admit(s, r, op, by, to)
      PROVE  TypeOK'
  <2>1. [pc |-> "write", op |-> op, ride |-> r, by |-> by, to |-> to] \in Request
    BY DEF Request
  <2>2. overlapped[r] \/ BusyOn(r) \in BOOLEAN
    BY DEF TypeOK, BusyOn
  <2>3. QED
    BY <1>1, <2>1, <2>2 DEF Admit, TypeOK
<1>2. ASSUME NEW s \in Slot, NEW r \in Ride, RequestRide(s, r)
      PROVE  TypeOK'
  <2>1. /\ NewRow("requested") \in RideRow
        /\ [pc |-> "offer", op |-> "request", ride |-> r,
            by |-> Customer, to |-> "requested"] \in Request
    BY DEF NewRow, RideRow, RideStatus, Request
  <2>2. QED
    BY <1>2, <2>1 DEF RequestRide, TypeOK
<1>3. ASSUME NEW s \in Slot, WriteRow(s)
      PROVE  TypeOK'
  <2>1. req[s] \in Request /\ req[s].ride \in Ride
    BY <1>3, InFlightTyped DEF WriteRow
  <2>2. ride[req[s].ride] \in RideRow
    BY <2>1 DEF TypeOK
  <2>3. req[s].op = "accept" => req[s].by \in Driver
    BY <1>3 DEF WriteRow, RequestShape
  <2>4. WrittenRow(ride[req[s].ride], req[s]) \in RideRow
    BY <2>1, <2>2, <2>3 DEF WrittenRow, StampsOf, RideRow, Request
  <2>5. Resumed(req[s]) \in Request
    BY <2>1 DEF Resumed, Request
  <2>6. matched' \in [Ride -> Driver \cup {Nobody}]
    BY <1>3, <2>1, <2>3 DEF WriteRow, Rematched, TypeOK
  <2>7. QED
    BY <1>3, <2>1, <2>4, <2>5, <2>6 DEF WriteRow, TypeOK
<1>4. ASSUME NEW s \in Slot, EmitStatus(s) \/ RequestFails(s)
      PROVE  TypeOK'
  BY <1>4, InFlightTyped DEF EmitStatus, RequestFails, TypeOK
<1>5. ASSUME NEW s \in Slot, OfferRide(s) \/ OfferFails(s)
      PROVE  TypeOK'
  BY <1>5, InFlightTyped DEF OfferRide, OfferFails, TypeOK
<1>6. ASSUME NEW s \in Slot, NEW r \in Ride, NEW d \in Driver, ReportLocation(s, d, r)
      PROVE  TypeOK'
  <2>1. [pc |-> "push", op |-> "location", ride |-> r,
         by |-> d, to |-> "requested"] \in Request
    BY DEF Request, RideStatus
  <2>2. QED
    BY <1>6, <2>1 DEF ReportLocation, TypeOK
<1>7. ASSUME NEW s \in Slot, PushLocation(s)
      PROVE  TypeOK'
  <2>1. req[s].ride \in Ride /\ req[s].by \in Driver
    BY <1>7, InFlightTyped DEF PushLocation, RequestShape
  <2>2. QED
    BY <1>7, <2>1 DEF PushLocation, TypeOK
<1>8. CASE Crash
  BY <1>8, RidesAssumption DEF Crash, TypeOK
<1>9. CASE UNCHANGED vars
  BY <1>9 DEF vars, TypeOK
<1>10. ASSUME NEW u \in Driver \cup {Customer}, DeleteAccount(u)
       PROVE  TypeOK'
  <2>1. \A row \in RideRow : RowWithout(row, u) \in RideRow
    BY DEF RowWithout, NewRow, RideRow
  <2>2. QED
    BY <1>10, <2>1 DEF DeleteAccount, TypeOK
<1>11. QED
  <2>1. "accepted" \in RideStatus /\ "cancelled" \in RideStatus
          /\ {"in_progress", "completed", "cancelled"} \subseteq RideStatus
    BY DEF RideStatus
  <2>2. QED
    BY <1>1, <1>2, <1>3, <1>4, <1>5, <1>6, <1>7, <1>8, <1>9, <1>10, <2>1
    DEF Next, AcceptRide, UpdateStatus, Cancel, TypeOK, RideRow

-----------------------------------------------------------------------------
(* One lemma per action: the action keeps IInv.  Each starts from the      *)
(* pointwise effect of the action on `req` and `ride`.                     *)

(* Reading the row and checking it: nothing but the slot changes, and a    *)
(* second request on the ride is recorded as an overlap.                   *)
LEMMA AdmitKeepsIInv ==
    ASSUME IInv, TypeOK', NEW s \in Slot, NEW r \in Ride,
           NEW op \in {"accept", "status", "cancel"}, NEW by \in Driver \cup {Customer},
           NEW to \in RideStatus, Admit(s, r, op, by, to),
           op = "accept" => to = "accepted" /\ by \in Driver /\ ride[r].driver = Nobody,
           op = "status" => /\ to \in {"in_progress", "completed", "cancelled"}
                            /\ ride[r].driver # Nobody,
           op = "cancel" => to = "cancelled"
    PROVE  IInv'
<1>1. /\ req[s].pc = "idle" /\ MayMove(ride[r].status, to)
      /\ req'[s] = [pc |-> "write", op |-> op, ride |-> r, by |-> by, to |-> to]
      /\ \A t \in Slot : t # s => req'[t] = req[t]
      /\ overlapped'[r] = (overlapped[r] \/ BusyOn(r))
      /\ \A q \in Ride : q # r => overlapped'[q] = overlapped[q]
      /\ UNCHANGED <<gone, ride, shown, position, geo, offered, announced, matched, crashes>>
      /\ ride[r].status # "absent"
  BY DEF IInv, TypeOK, Admit, MayMove
<1>2. \A q \in Ride : overlapped[q] => overlapped'[q]
  BY <1>1
<1>3. \A t \in Slot : t # s /\ InFlight(t, r) => overlapped'[r]
  BY <1>1 DEF BusyOn, InFlight
<1>4. RequestShape' /\ MatchedWrites'
  BY <1>1 DEF IInv, RequestShape, MatchedWrites, DriverIsMatched
<1>5. ServedRideHasDriver' /\ RowTrail' /\ DriverIsMatched'
  BY <1>1, <1>2 DEF IInv, ServedRideHasDriver, RowTrail, DriverIsMatched
<1>6. WriteTrail'
  <2>1. Trail(to) \subseteq ride[r].stamps \cup StampsOf(req'[s])
    BY <1>1 DEF IInv, RowTrail, Trail, MayMove, StampsOf, Stamp
  <2>2. QED
    BY <1>1, <2>1 DEF IInv, WriteTrail, Trail, StampsOf
<1>7. Alone'
  BY <1>1, <1>2, <1>3 DEF IInv, Alone, InFlight
<1>8. GuardStillHolds'
  <2>1. ~overlapped'[r] => shown[r] = ride[r].status \/ crashes > 0
    BY <1>1 DEF IInv, RoomShowsRow
  <2>2. op = "accept" /\ ~overlapped'[r] => matched[r] = Nobody
    BY <1>1 DEF IInv, DriverIsMatched, MayMove
  <2>3. QED
    BY <1>1, <1>2, <2>1, <2>2 DEF IInv, GuardStillHolds
<1>9. EmitsRow'
  BY <1>1, <1>2 DEF IInv, EmitsRow
<1>10. PushMatched' /\ PositionFromMatchedDriver'
  BY <1>1, <1>2 DEF IInv, PushMatched, PositionFromMatchedDriver, TypeOK, Request, Idle
<1>11. GeoMatched' /\ OffersGoToMatchedDrivers'
  BY <1>1, <1>2 DEF IInv, GeoMatched, OffersGoToMatchedDrivers
<1>12. FreshRide'
  BY <1>1 DEF IInv, FreshRide, InFlight
<1>13. RoomShowsRow'
  <2>1. \A q \in Ride : BusyOn(q) => BusyOn(q)'
    BY <1>1 DEF BusyOn
  <2>2. QED
    BY <1>1, <1>2, <2>1 DEF IInv, RoomShowsRow
<1>14. QED
  BY <1>4, <1>5, <1>6, <1>7, <1>8, <1>9, <1>10, <1>11, <1>12, <1>13 DEF IInv

(* The unconditional UPDATE: the row takes the state the request was       *)
(* admitted for, which is a legal step as long as nothing overlapped.      *)
LEMMA WriteKeepsIInv ==
    ASSUME IInv, TypeOK', NEW s \in Slot, WriteRow(s)
    PROVE  IInv'
<1> DEFINE r == req[s].ride
<1>1. /\ req[s].pc = "write" /\ r \in Ride
      /\ req'[s] = Resumed(req[s])
      /\ \A t \in Slot : t # s => req'[t] = req[t]
      /\ ride'[r] = WrittenRow(ride[r], req[s])
      /\ \A q \in Ride : q # r => ride'[q] = ride[q]
      /\ ride[r].status # "absent"
      /\ req[s].op = "accept" => matched'[r] = req[s].by
      /\ req[s].op # "accept" => matched'[r] = matched[r]
      /\ \A q \in Ride : q # r => matched'[q] = matched[q]
      /\ UNCHANGED <<gone, shown, position, geo, offered, announced, overlapped, crashes>>
  BY InFlightTyped DEF IInv, TypeOK, WriteRow, Writable, Rematched
<1>2. /\ ride'[r].status = req[s].to
      /\ ride'[r].driver = IF req[s].op = "accept" THEN req[s].by ELSE ride[r].driver
      /\ ride'[r].stamps = ride[r].stamps \cup StampsOf(req[s])
      /\ req'[s].pc = "emit" /\ req'[s].op = req[s].op /\ req'[s].ride = r
      /\ req'[s].by = req[s].by /\ req'[s].to = req[s].to
  BY <1>1 DEF WrittenRow, Resumed
<1>3. \/ req[s].op = "accept" /\ req[s].to = "accepted" /\ req[s].by \in Driver
      \/ /\ req[s].op = "status" /\ matched[r] # Nobody
         /\ req[s].to \in {"in_progress", "completed", "cancelled"}
      \/ req[s].op = "cancel" /\ req[s].to = "cancelled"
  BY <1>1 DEF IInv, RequestShape, MatchedWrites
<1>4. \A q \in Ride : matched[q] # Nobody => matched'[q] # Nobody
  BY <1>1, <1>3, RidesAssumption
<1>5. \A q \in Ride : ~overlapped[q] /\ matched[q] # Nobody => matched'[q] = matched[q]
  BY <1>1 DEF IInv, GuardStillHolds
<1>6. RequestShape'
  BY <1>1, <1>2 DEF IInv, RequestShape
<1>7. MatchedWrites'
  BY <1>1, <1>2, <1>4, InFlightTyped DEF IInv, MatchedWrites
<1>8. DriverIsMatched' /\ ServedRideHasDriver'
  <2>1. DriverIsMatched'
    BY <1>1, <1>2, <1>3 DEF IInv, DriverIsMatched
  <2>2. ride'[r].status # "cancelled" => matched'[r] \in Driver
    BY <1>1, <1>2, <1>3, <1>4 DEF IInv, TypeOK
  <2>3. QED
    BY <1>1, <1>2, <1>3, <2>1, <2>2 DEF IInv, ServedRideHasDriver, DriverIsMatched
<1>9. RowTrail'
  BY <1>1, <1>2 DEF IInv, RowTrail, WriteTrail
<1>10. WriteTrail'
  <2>1. \A q \in Ride : ride[q].stamps \subseteq ride'[q].stamps
    BY <1>1, <1>2
  <2>2. \A t \in Slot : t # s /\ req[t].pc = "write" => req[t].ride \in Ride
    BY InFlightTyped DEF IInv
  <2>3. ASSUME NEW t \in Slot, req'[t].pc = "write", ride'[req'[t].ride].status # "absent"
        PROVE  Trail(req'[t].to) \subseteq ride'[req'[t].ride].stamps \cup StampsOf(req'[t])
    <3>1. t # s /\ req'[t] = req[t]
      BY <1>1, <1>2, <2>3
    <3>2. Trail(req[t].to) \subseteq ride[req[t].ride].stamps \cup StampsOf(req[t])
      BY <1>1, <2>2, <2>3, <3>1 DEF IInv, WriteTrail
    <3>3. QED
      BY <2>1, <2>2, <2>3, <3>1, <3>2
  <2>4. QED
    BY <2>3 DEF WriteTrail, Trail, StampsOf
<1>11. Alone'
  BY <1>1, <1>2 DEF IInv, Alone, InFlight
<1>12. GuardStillHolds'
  BY <1>1, <1>2 DEF IInv, GuardStillHolds, Alone, InFlight
<1>13. EmitsRow'
  BY <1>1, <1>2 DEF IInv, EmitsRow, Alone, InFlight
<1>14. PushMatched'
  BY <1>1, <1>2, <1>4, <1>5, InFlightTyped DEF IInv, PushMatched
<1>15. PositionFromMatchedDriver'
  BY <1>1, <1>4, <1>5 DEF IInv, PositionFromMatchedDriver
<1>16. GeoMatched' /\ OffersGoToMatchedDrivers'
  <2>1. \A d \in Driver, q \in Ride :
            matched[q] = d \/ overlapped[q] => matched'[q] = d \/ overlapped'[q]
    BY <1>1, <1>5, RidesAssumption
  <2>2. QED
    BY <1>1, <2>1 DEF IInv, TypeOK, GeoMatched, OffersGoToMatchedDrivers
<1>17. FreshRide'
  BY <1>1, <1>2, <1>3 DEF IInv, FreshRide, InFlight
<1>18. RoomShowsRow'
  <2>1. \A q \in Ride : q = r \/ BusyOn(q) => BusyOn(q)'
    BY <1>1, <1>2 DEF BusyOn
  <2>2. QED
    BY <1>1, <2>1 DEF IInv, RoomShowsRow
<1>19. QED
  BY <1>6, <1>7, <1>8, <1>9, <1>10, <1>11, <1>12, <1>13, <1>14, <1>15, <1>16,
     <1>17, <1>18 DEF IInv

(* The broadcast: the slot is free again and the room has seen the write.  *)
LEMMA EmitKeepsIInv ==
    ASSUME IInv, TypeOK', NEW s \in Slot, EmitStatus(s)
    PROVE  IInv'
<1> DEFINE r == req[s].ride
<1>1. /\ req[s].pc = "emit" /\ r \in Ride
      /\ req'[s] = Idle
      /\ \A t \in Slot : t # s => req'[t] = req[t]
      /\ shown'[r] = req[s].to
      /\ \A q \in Ride : q # r => shown'[q] = shown[q]
      /\ UNCHANGED <<gone, ride, position, geo, offered, announced, matched, overlapped, crashes>>
  BY InFlightTyped DEF IInv, TypeOK, EmitStatus
<1>2. req'[s].pc = "idle"
  BY <1>1 DEF Idle
<1>3. RequestShape' /\ MatchedWrites' /\ PushMatched'
  BY <1>1, <1>2 DEF IInv, RequestShape, MatchedWrites, PushMatched
<1>4. ServedRideHasDriver' /\ RowTrail' /\ DriverIsMatched'
  BY <1>1 DEF IInv, ServedRideHasDriver, RowTrail, DriverIsMatched
<1>5. WriteTrail'
  BY <1>1, <1>2 DEF IInv, WriteTrail, Trail, StampsOf
<1>6. Alone' /\ GuardStillHolds' /\ EmitsRow'
  BY <1>1, <1>2 DEF IInv, Alone, GuardStillHolds, EmitsRow, InFlight
<1>7. PositionFromMatchedDriver' /\ GeoMatched' /\ OffersGoToMatchedDrivers'
  BY <1>1 DEF IInv, PositionFromMatchedDriver, GeoMatched, OffersGoToMatchedDrivers
<1>8. FreshRide'
  BY <1>1, <1>2 DEF IInv, FreshRide, InFlight
<1>9. RoomShowsRow'
  <2>1. overlapped[r] \/ ride[r].status \in {"absent", shown'[r]}
    BY <1>1 DEF IInv, EmitsRow
  <2>2. \A q \in Ride : q # r /\ BusyOn(q) => BusyOn(q)'
    BY <1>1, <1>2 DEF BusyOn
  <2>3. QED
    BY <1>1, <2>1, <2>2 DEF IInv, RoomShowsRow
<1>10. QED
  BY <1>3, <1>4, <1>5, <1>6, <1>7, <1>8, <1>9 DEF IInv

(* The steps that leave every ride row and every status change in flight   *)
(* as they are: an offer, a failed lookup, a location report being pushed. *)
LEMMA SideStepKeepsIInv ==
    ASSUME IInv, TypeOK', NEW s \in Slot,
           \/ OfferRide(s) \/ OfferFails(s) \/ PushLocation(s)
           \/ \E d \in Driver, r \in Ride : ReportLocation(s, d, r)
    PROVE  IInv'
<1>1. /\ req[s].pc \notin {"write", "emit"} /\ req'[s].pc \notin {"write", "emit"}
      /\ \A t \in Slot : t # s => req'[t] = req[t]
      /\ UNCHANGED <<gone, ride, shown, matched, overlapped, crashes>>
  BY DEF IInv, TypeOK, OfferRide, OfferFails, PushLocation, ReportLocation, Idle
<1>2. RequestShape'
  <2>1. req'[s].pc = "push" => req'[s].by \in Driver
    BY DEF IInv, TypeOK, OfferRide, OfferFails, PushLocation, ReportLocation, Idle
  <2>2. QED
    BY <1>1, <2>1 DEF IInv, RequestShape
<1>3. MatchedWrites' /\ ServedRideHasDriver' /\ RowTrail' /\ DriverIsMatched'
  BY <1>1 DEF IInv, MatchedWrites, ServedRideHasDriver, RowTrail, DriverIsMatched
<1>4. WriteTrail'
  BY <1>1 DEF IInv, WriteTrail, Trail, StampsOf
<1>5. Alone' /\ GuardStillHolds' /\ EmitsRow'
  BY <1>1 DEF IInv, Alone, GuardStillHolds, EmitsRow, InFlight
<1>6. PushMatched'
  <2>1. req'[s].pc = "push" => /\ req'[s].by = ride[req'[s].ride].driver
                               /\ req'[s].by \in Driver /\ req'[s].ride \in Ride
    BY DEF IInv, TypeOK, OfferRide, OfferFails, PushLocation, ReportLocation, Idle
  <2>2. req'[s].pc = "push" => req'[s].by = matched[req'[s].ride]
    BY <2>1, RidesAssumption DEF IInv, DriverIsMatched, FreshRide
  <2>3. QED
    BY <1>1, <2>1, <2>2, RidesAssumption DEF IInv, PushMatched
<1>7. PositionFromMatchedDriver'
  <2>1. CASE PushLocation(s)
    <3>1. req[s].ride \in Ride /\ req[s].pc = "push"
      BY <2>1, InFlightTyped DEF IInv, PushLocation
    <3>2. QED
      BY <1>1, <2>1, <3>1 DEF IInv, TypeOK, PushLocation, PushMatched, PositionFromMatchedDriver
  <2>2. CASE ~PushLocation(s)
    BY <1>1, <2>2 DEF IInv, OfferRide, OfferFails, ReportLocation, PositionFromMatchedDriver
  <2>3. QED
    BY <2>1, <2>2
<1>8. GeoMatched'
  <2>1. CASE PushLocation(s)
    <3>1. req[s].ride \in Ride /\ req[s].pc = "push"
      BY <2>1, InFlightTyped DEF IInv, PushLocation
    <3>2. QED
      BY <1>1, <2>1, <3>1 DEF IInv, PushLocation, PushMatched, GeoMatched
  <2>2. CASE ~PushLocation(s)
    BY <1>1, <2>2 DEF IInv, OfferRide, OfferFails, ReportLocation, GeoMatched
  <2>3. QED
    BY <2>1, <2>2
<1>9. OffersGoToMatchedDrivers'
  <2>1. CASE OfferRide(s)
    BY <1>1, <2>1 DEF IInv, TypeOK, OfferRide, GeoMatched, OffersGoToMatchedDrivers
  <2>2. CASE ~OfferRide(s)
    BY <1>1, <2>2 DEF IInv, OfferFails, PushLocation, ReportLocation, OffersGoToMatchedDrivers
  <2>3. QED
    BY <2>1, <2>2
<1>10. FreshRide'
  BY <1>1 DEF IInv, FreshRide, InFlight
<1>11. RoomShowsRow'
  <2>1. \A q \in Ride : BusyOn(q) => BusyOn(q)'
    BY <1>1 DEF BusyOn
  <2>2. QED
    BY <1>1, <2>1 DEF IInv, RoomShowsRow
<1>12. QED
  BY <1>2, <1>3, <1>4, <1>5, <1>6, <1>7, <1>8, <1>9, <1>10, <1>11 DEF IInv

(* The INSERT of a new ride, on which no request can be in flight yet. *)
LEMMA RequestKeepsIInv ==
    ASSUME IInv, TypeOK', NEW s \in Slot, NEW r \in Ride, RequestRide(s, r)
    PROVE  IInv'
<1>1. /\ req[s].pc = "idle" /\ ride[r].status = "absent" /\ ride[r].driver = Nobody
      /\ req'[s].pc = "offer"
      /\ \A t \in Slot : t # s => req'[t] = req[t]
      /\ ride'[r].status = "requested" /\ ride'[r].driver = Nobody
      /\ \A q \in Ride : q # r => ride'[q] = ride[q]
      /\ matched[r] = Nobody /\ shown[r] = "requested" /\ Customer \notin gone
      /\ UNCHANGED <<gone, shown, position, geo, offered, announced, matched, overlapped, crashes>>
  BY DEF IInv, TypeOK, FreshRide, RequestRide, NewRow
<1>2. \A q \in Ride : ride'[q].driver = ride[q].driver
  BY <1>1
<1>3. RequestShape'
  BY <1>1 DEF IInv, RequestShape
<1>4. \A t \in Slot : req'[t].pc \in {"write", "emit", "push"} =>
          t # s /\ req'[t] = req[t] /\ req[t].ride \in Ride
  BY <1>1, InFlightTyped DEF IInv
<1>5. MatchedWrites' /\ PushMatched'
  BY <1>1, <1>2, <1>4 DEF IInv, MatchedWrites, PushMatched
<1>6. ServedRideHasDriver' /\ RowTrail' /\ DriverIsMatched'
  BY <1>1, <1>2 DEF IInv, ServedRideHasDriver, RowTrail, Trail, DriverIsMatched
<1>7. \A t \in Slot : req'[t].pc \in {"write", "emit"} => req[t].ride # r
  BY <1>1, <1>4 DEF IInv, FreshRide, InFlight
<1>8. WriteTrail'
  BY <1>1, <1>4, <1>7 DEF IInv, WriteTrail, Trail, StampsOf
<1>9. Alone' /\ GuardStillHolds' /\ EmitsRow'
  BY <1>1, <1>4, <1>7 DEF IInv, Alone, GuardStillHolds, EmitsRow, InFlight
<1>10. PositionFromMatchedDriver' /\ GeoMatched' /\ OffersGoToMatchedDrivers'
  BY <1>1, <1>2 DEF IInv, PositionFromMatchedDriver, GeoMatched, OffersGoToMatchedDrivers
<1>11. FreshRide'
  BY <1>1, <1>4, <1>7 DEF IInv, FreshRide, InFlight
<1>12. RoomShowsRow'
  <2>1. \A q \in Ride : BusyOn(q) => BusyOn(q)'
    BY <1>1 DEF BusyOn
  <2>2. QED
    BY <1>1, <2>1 DEF IInv, FreshRide, RoomShowsRow
<1>13. QED
  BY <1>3, <1>5, <1>6, <1>8, <1>9, <1>10, <1>11, <1>12 DEF IInv

(* A restart drops the requests in flight and leaves the rows. *)
LEMMA CrashKeepsIInv ==
    ASSUME IInv, TypeOK', Crash
    PROVE  IInv'
<1>1. /\ \A s \in Slot : req'[s].pc = "idle"
      /\ crashes' > 0
      /\ UNCHANGED <<gone, ride, shown, position, geo, offered, announced, matched, overlapped>>
  BY DEF IInv, TypeOK, Crash, Idle
<1>2. RequestShape' /\ MatchedWrites' /\ WriteTrail' /\ PushMatched'
  BY <1>1 DEF RequestShape, MatchedWrites, WriteTrail, PushMatched
<1>3. Alone' /\ GuardStillHolds' /\ EmitsRow'
  BY <1>1 DEF Alone, GuardStillHolds, EmitsRow, InFlight
<1>4. ServedRideHasDriver' /\ RowTrail' /\ FreshRide' /\ DriverIsMatched'
  BY <1>1 DEF IInv, ServedRideHasDriver, RowTrail, FreshRide, DriverIsMatched, InFlight
<1>5. PositionFromMatchedDriver' /\ GeoMatched' /\ OffersGoToMatchedDrivers'
  BY <1>1 DEF IInv, PositionFromMatchedDriver, GeoMatched, OffersGoToMatchedDrivers
<1>6. RoomShowsRow'
  BY <1>1 DEF RoomShowsRow
<1>7. QED
  BY <1>2, <1>3, <1>4, <1>5, <1>6 DEF IInv

(* A request that throws leaves the row and the room as they were. *)
LEMMA FailureKeepsIInv ==
    ASSUME IInv, TypeOK', NEW s \in Slot, RequestFails(s)
    PROVE  IInv'
<1>1. /\ req[s].pc \in {"write", "push"} /\ req'[s].pc = "idle"
      /\ \A t \in Slot : t # s => req'[t] = req[t]
      /\ UNCHANGED <<gone, ride, shown, position, geo, offered, announced,
                     matched, overlapped, crashes>>
  BY DEF IInv, TypeOK, RequestFails, Idle
<1>2. RequestShape' /\ MatchedWrites' /\ PushMatched'
  BY <1>1 DEF IInv, RequestShape, MatchedWrites, PushMatched
<1>3. ServedRideHasDriver' /\ RowTrail' /\ DriverIsMatched'
  BY <1>1 DEF IInv, ServedRideHasDriver, RowTrail, DriverIsMatched
<1>4. WriteTrail'
  BY <1>1 DEF IInv, WriteTrail, Trail, StampsOf
<1>5. Alone' /\ GuardStillHolds' /\ EmitsRow'
  BY <1>1 DEF IInv, Alone, GuardStillHolds, EmitsRow, InFlight
<1>6. PositionFromMatchedDriver' /\ GeoMatched' /\ OffersGoToMatchedDrivers'
  BY <1>1 DEF IInv, PositionFromMatchedDriver, GeoMatched, OffersGoToMatchedDrivers
<1>7. FreshRide'
  BY <1>1 DEF IInv, FreshRide, InFlight
<1>8. RoomShowsRow'
  <2>1. ASSUME NEW q \in Ride, req[s].pc = "write", req[s].ride = q
        PROVE  ride[q].status \in {"absent", shown[q]} \/ overlapped[q] \/ crashes > 0
    BY <2>1 DEF IInv, GuardStillHolds
  <2>2. ASSUME NEW q \in Ride, ~(req[s].pc = "write" /\ req[s].ride = q), BusyOn(q)
        PROVE  BusyOn(q)'
    BY <1>1, <2>2 DEF BusyOn
  <2>3. QED
    BY <1>1, <2>1, <2>2 DEF IInv, RoomShowsRow
<1>9. QED
  BY <1>2, <1>3, <1>4, <1>5, <1>6, <1>7, <1>8 DEF IInv

(* A deleted account takes rows away or a driver out of them, and leaves   *)
(* every request in flight to find that out.                               *)
LEMMA DeletionKeepsIInv ==
    ASSUME IInv, TypeOK', NEW u \in Driver \cup {Customer}, DeleteAccount(u)
    PROVE  IInv'
<1>1. /\ gone' = gone \cup {u}
      /\ UNCHANGED <<req, shown, position, geo, offered, announced,
                     matched, overlapped, crashes>>
      /\ \A r \in Ride : ride'[r] = RowWithout(ride[r], u)
  BY DEF DeleteAccount
<1>2. ASSUME NEW r \in Ride
      PROVE  /\ ride'[r].status \in {"absent", ride[r].status}
             /\ ride'[r].status # "absent" =>
                   /\ u # Customer /\ ride'[r].stamps = ride[r].stamps
                   /\ \/ ride'[r].driver = ride[r].driver
                      \/ ride[r].driver = u /\ ride'[r].driver = Nobody
             /\ ride'[r].status = "absent" =>
                   /\ u = Customer \/ ride[r].status = "absent"
                   /\ ride[r].driver = Nobody \/ u = Customer => ride'[r].driver = Nobody
             /\ u = Customer => ride'[r].status = "absent"
             /\ Trail(ride'[r].status) \subseteq ride'[r].stamps
  <2>1. ride[r] \in RideRow /\ Trail(ride[r].status) \subseteq ride[r].stamps
    BY DEF IInv, TypeOK, RowTrail
  <2>2. CASE u = Customer
    BY <1>1, <2>1, <2>2 DEF RowWithout, NewRow, Trail
  <2>3. CASE u # Customer
    BY <1>1, <2>1, <2>3 DEF RowWithout, RideRow, Trail
  <2>4. QED
    BY <2>2, <2>3
<1>3. \A s \in Slot : req[s].pc \in {"write", "emit", "push"} => req[s].ride \in Ride
  BY InFlightTyped DEF IInv
<1>4. RequestShape' /\ MatchedWrites' /\ PushMatched'
  BY <1>1 DEF IInv, RequestShape, MatchedWrites, PushMatched
<1>5. DriverIsMatched' /\ RowTrail'
  BY <1>1, <1>2, RidesAssumption DEF IInv, DriverIsMatched, RowTrail
<1>6. ServedRideHasDriver'
  BY <1>1, <1>2 DEF IInv, ServedRideHasDriver
<1>7. WriteTrail'
  BY <1>1, <1>2, <1>3 DEF IInv, WriteTrail, Trail, StampsOf
<1>8. Alone' /\ GuardStillHolds' /\ EmitsRow'
  BY <1>1, <1>2, <1>3 DEF IInv, Alone, GuardStillHolds, EmitsRow, InFlight
<1>9. PositionFromMatchedDriver' /\ GeoMatched' /\ OffersGoToMatchedDrivers'
  BY <1>1 DEF IInv, PositionFromMatchedDriver, GeoMatched, OffersGoToMatchedDrivers
<1>10. FreshRide'
  BY <1>1, <1>2 DEF IInv, FreshRide, InFlight
<1>11. RoomShowsRow'
  BY <1>1, <1>2 DEF IInv, RoomShowsRow, BusyOn
<1>12. QED
  BY <1>4, <1>5, <1>6, <1>7, <1>8, <1>9, <1>10, <1>11 DEF IInv

LEMMA StutterKeepsIInv == IInv /\ UNCHANGED vars => IInv'
<1> SUFFICES ASSUME IInv, UNCHANGED vars PROVE IInv'
  OBVIOUS
<1> USE DEF vars
<1>1. TypeOK' /\ RequestShape' /\ MatchedWrites' /\ PushMatched'
  BY DEF IInv, TypeOK, RequestShape, MatchedWrites, PushMatched
<1>2. ServedRideHasDriver' /\ RowTrail' /\ FreshRide' /\ DriverIsMatched'
  BY DEF IInv, ServedRideHasDriver, RowTrail, FreshRide, DriverIsMatched, InFlight
<1>3. WriteTrail'
  BY DEF IInv, WriteTrail, Trail, StampsOf
<1>4. Alone' /\ GuardStillHolds' /\ EmitsRow'
  BY DEF IInv, Alone, GuardStillHolds, EmitsRow, InFlight
<1>5. PositionFromMatchedDriver' /\ GeoMatched' /\ OffersGoToMatchedDrivers'
  BY DEF IInv, PositionFromMatchedDriver, GeoMatched, OffersGoToMatchedDrivers
<1>6. RoomShowsRow'
  BY DEF IInv, RoomShowsRow, BusyOn
<1>7. QED
  BY <1>1, <1>2, <1>3, <1>4, <1>5, <1>6 DEF IInv

LEMMA StepIInv == IInv /\ [Next]_vars => IInv'
<1> SUFFICES ASSUME IInv, [Next]_vars PROVE IInv'
  OBVIOUS
<1>1. TypeOK'
  BY TypeStep DEF IInv
<1>2. ASSUME NEW s \in Slot, NEW r \in Ride, NEW d \in Driver, AcceptRide(s, d, r)
      PROVE  IInv'
  BY <1>1, <1>2, AdmitKeepsIInv DEF AcceptRide, RideStatus
<1>3. ASSUME NEW s \in Slot, NEW r \in Ride, NEW d \in Driver, UpdateStatus(s, d, r)
      PROVE  IInv'
  <2>1. PICK to \in {"in_progress", "completed", "cancelled"} : Admit(s, r, "status", d, to)
    BY <1>3 DEF UpdateStatus
  <2>2. ride[r].driver # Nobody
    BY <1>3, RidesAssumption DEF UpdateStatus
  <2>3. QED
    BY <1>1, <2>1, <2>2, AdmitKeepsIInv DEF RideStatus
<1>4. ASSUME NEW s \in Slot, NEW r \in Ride, NEW u \in Driver \cup {Customer}, Cancel(s, u, r)
      PROVE  IInv'
  BY <1>1, <1>4, AdmitKeepsIInv DEF Cancel, RideStatus
<1>5. QED
  BY <1>1, <1>2, <1>3, <1>4, RequestKeepsIInv, WriteKeepsIInv, EmitKeepsIInv,
     SideStepKeepsIInv, FailureKeepsIInv, DeletionKeepsIInv, CrashKeepsIInv,
     StutterKeepsIInv DEF Next

-----------------------------------------------------------------------------

(* IInv holds in every reachable state, whatever the rides, the drivers    *)
(* and the number of requests in flight.                                   *)
THEOREM Invariance == Spec => []IInv
  BY InitIInv, StepIInv, PTL DEF Spec

(* Rows, requests, rooms and the GEO set keep their types. *)
THEOREM TypeCorrect == Spec => []TypeOK
<1>1. IInv => TypeOK
  BY DEF IInv
<1>2. QED
  BY <1>1, Invariance, PTL

(* A ride that is accepted, under way or completed has the driver it was   *)
(* last matched with, unless that driver deleted the account.              *)
THEOREM ServedRidesAreMatched == Spec => []ServedRideHasDriver
<1>1. IInv => ServedRideHasDriver
  BY DEF IInv
<1>2. QED
  BY <1>1, Invariance, PTL

(* A completed ride has every time stamp of its trip, through any number   *)
(* of stale writes: the trail a status needs is only ever added to.        *)
THEOREM CompletedRidesWereDriven == Spec => []CompletedRideWasDriven
<1>1. IInv => CompletedRideWasDriven
  BY DEF IInv, RowTrail, Trail, Stamp, CompletedRideWasDriven
<1>2. QED
  BY <1>1, Invariance, PTL

(* At rest, a room shows the status of its ride, unless requests           *)
(* overlapped on it or the server died.                                    *)
THEOREM RoomsShowTheirRide == Spec => []RoomShowsRow
<1>1. IInv => RoomShowsRow
  BY DEF IInv
<1>2. QED
  BY <1>1, Invariance, PTL

(* The positions a room is sent come from a driver its ride was matched to. *)
THEOREM PositionsComeFromTheDriver == Spec => []PositionFromMatchedDriver
<1>1. IInv => PositionFromMatchedDriver
  BY DEF IInv
<1>2. QED
  BY <1>1, Invariance, PTL

(* ride_requested only ever goes to drivers who have been matched before. *)
THEOREM OffersGoToKnownDrivers == Spec => []OffersGoToMatchedDrivers
<1>1. IInv => OffersGoToMatchedDrivers
  BY DEF IInv
<1>2. QED
  BY <1>1, Invariance, PTL

(* Where no two status-changing requests overlapped, the stored ride only  *)
(* takes the steps of ALLOWED_TRANSITIONS and is matched at most once.     *)
THEOREM LifecycleIsLegalUnlessOverlapped == Spec => LifecycleUnlessOverlapped
<1>1. IInv /\ [Next]_vars =>
        [\A r \in Ride : \/ overlapped'[r]
                         \/ LegalStep(ride[r], ride'[r])
                         \/ StepOfDeletion(ride[r], ride'[r])]_vars
  <2> SUFFICES ASSUME IInv, Next, NEW r \in Ride, ~overlapped'[r]
               PROVE  LegalStep(ride[r], ride'[r]) \/ StepOfDeletion(ride[r], ride'[r])
    OBVIOUS
  <2>1. ASSUME NEW s \in Slot, WriteRow(s)
        PROVE  LegalStep(ride[r], ride'[r])
    <3>1. /\ overlapped' = overlapped /\ req[s].pc = "write" /\ req[s].ride \in Ride
          /\ ride' = [ride EXCEPT ![req[s].ride] = WrittenRow(@, req[s])]
      BY <2>1, InFlightTyped DEF IInv, WriteRow
    <3> ride[req[s].ride].status # "absent"
      BY <2>1 DEF WriteRow, Writable
    <3>2. CASE req[s].ride # r
      BY <3>1, <3>2 DEF IInv, TypeOK, LegalStep
    <3>3. CASE req[s].ride = r
      <4>1. /\ MayMove(ride[r].status, req[s].to)
            /\ req[s].op = "accept" => ride[r].driver = Nobody /\ req[s].to = "accepted"
        BY <3>1, <3>3 DEF IInv, GuardStillHolds, RequestShape, DriverIsMatched
      <4>2. /\ ride'[r].status = req[s].to
            /\ req[s].op # "accept" => ride'[r].driver = ride[r].driver
        BY <3>1, <3>3 DEF IInv, TypeOK, WrittenRow
      <4>3. QED
        BY <4>1, <4>2 DEF MayMove, LegalStep
    <3>4. QED
      BY <3>2, <3>3
  <2>2. ASSUME NEW s \in Slot, NEW q \in Ride, RequestRide(s, q)
        PROVE  LegalStep(ride[r], ride'[r])
    <3>1. q = r => /\ ride[r].status = "absent" /\ ride[r].driver = Nobody
                   /\ ride'[r].status = "requested" /\ ride'[r].driver = Nobody
      BY <2>2 DEF IInv, TypeOK, FreshRide, RequestRide, NewRow
    <3>2. q # r => ride'[r] = ride[r]
      BY <2>2 DEF IInv, TypeOK, RequestRide
    <3>3. QED
      BY <3>1, <3>2 DEF LegalStep
  <2>3. CASE ride' = ride
    BY <2>3 DEF LegalStep
  <2>4. ASSUME NEW u \in Driver \cup {Customer}, DeleteAccount(u)
        PROVE  LegalStep(ride[r], ride'[r]) \/ StepOfDeletion(ride[r], ride'[r])
    BY <2>4 DEF DeleteAccount, RowWithout, LegalStep, StepOfDeletion
  <2>5. QED
    BY <2>1, <2>2, <2>3, <2>4
    DEF Next, AcceptRide, UpdateStatus, Cancel, Admit, EmitStatus, OfferRide,
        OfferFails, RequestFails, ReportLocation, PushLocation, Crash
<1>2. QED
  BY <1>1, Invariance, PTL DEF Spec, LifecycleUnlessOverlapped

(* What fairness needs for CancelReachesRoom: as long as the room does not *)
(* know of a cancellation, the request that made it has still to emit.     *)
CancelIsOnItsWay ==
    \A r \in Ride : ride[r].status = "cancelled" =>
        \/ shown[r] = "cancelled" \/ overlapped[r] \/ crashes > 0
        \/ \E s \in Slot :
              req[s].pc = "emit" /\ req[s].ride = r /\ req[s].to = "cancelled"

(* The safety half of CancelReachesRoom: no cancellation is ever silent,   *)
(* that is, neither told nor about to be told (cancel, updateStatus).      *)
THEOREM CancellationsAreNeverSilent == Spec => []CancelIsOnItsWay
<1>1. IInv => CancelIsOnItsWay
  <2> SUFFICES ASSUME IInv, NEW r \in Ride, ride[r].status = "cancelled",
                      shown[r] # "cancelled", ~overlapped[r], ~(crashes > 0)
               PROVE  \E s \in Slot :
                        req[s].pc = "emit" /\ req[s].ride = r /\ req[s].to = "cancelled"
    BY DEF CancelIsOnItsWay
  <2>1. PICK s \in Slot : req[s].pc \in {"write", "emit"} /\ req[s].ride = r
    BY DEF IInv, RoomShowsRow, BusyOn
  <2>2. req[s].pc # "write"
    BY <2>1 DEF IInv, GuardStillHolds, MayMove
  <2>3. QED
    BY <2>1, <2>2 DEF IInv, EmitsRow
<1>2. QED
  BY <1>1, Invariance, PTL
=============================================================================
