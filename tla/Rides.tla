------------------------------- MODULE Rides -------------------------------
(***************************************************************************)
(* The ride-hailing component: RidesService, RidesRepository and the ride  *)
(* half of RealtimeGateway.                                                *)
(*                                                                         *)
(* A handler is a sequence of awaited statements, each atomic in the       *)
(* database, and other handlers run at every await.  A request in flight   *)
(* therefore occupies a slot and moves through `pc`:                       *)
(*    idle -> write -> emit -> idle   cancel, acceptRide, updateStatus     *)
(*    idle -> offer -> idle           requestRide                          *)
(*    idle -> push  -> idle           updateDriverLocation                 *)
(* The guard is evaluated on the row read in the first step; the later     *)
(* UPDATE is `WHERE id`, so it applies whatever the row holds by then.     *)
(* Accounts may be deleted at any time (AuthService.deleteAccount asks for *)
(* no ride to be over): the schema takes a customer's rides along and sets *)
(* the driverId of a driver's rides to null.                               *)
(***************************************************************************)
EXTENDS Naturals

CONSTANTS
    Ride,        \* ids of the rides that can be requested
    Driver,      \* users with a DriverProfile and the driver active role
    Slot,        \* requests the server can have in flight at once
    Customer,    \* the customer of every ride
    Nobody,      \* driverId = null
    MaxCrashes   \* bound on server restarts

ASSUME RidesAssumption ==
    /\ Nobody \notin Driver \cup {Customer}
    /\ MaxCrashes \in Nat

VARIABLES
    gone,        \* users who deleted their account
    ride,        \* the Ride rows
    req,         \* the request each slot is serving
    shown,       \* last ride_status_updated sent to the ride's room
    position,    \* driver of the last driver_location_updated sent to it
    geo,         \* members of the Redis GEO set drivers:geo
    offered,     \* drivers whose room got ride_requested for the ride
    announced,   \* rides whose nearby-driver lookup returned
    matched,     \* history: the driver last written to the ride
    overlapped,  \* history: two status-changing requests overlapped on it
    crashes      \* restarts so far

rooms == <<shown, position, offered>>
history == <<matched, overlapped, crashes>>
vars == <<gone, ride, req, rooms, geo, announced, history>>

RideStatus == {"requested", "accepted", "in_progress", "completed", "cancelled"}
Stamp == {"acceptedAt", "startedAt", "completedAt", "cancelledAt"}

RideRow == [status : RideStatus \cup {"absent"},
            driver : Driver \cup {Nobody},
            stamps : SUBSET Stamp]

(* A slot that serves no request. *)
Idle == [pc |-> "idle"]

Request == [pc : {"write", "emit", "offer", "push"},
            op : {"accept", "status", "cancel", "request", "location"},
            ride : Ride,
            by : Driver \cup {Customer},
            to : RideStatus]

TypeOK ==
    /\ gone \subseteq Driver \cup {Customer}
    /\ ride \in [Ride -> RideRow]
    /\ req \in [Slot -> Request \cup {Idle}]
    /\ shown \in [Ride -> RideStatus]
    /\ position \in [Ride -> Driver \cup {Nobody}]
    /\ geo \in SUBSET Driver
    /\ offered \in [Ride -> SUBSET Driver]
    /\ announced \in SUBSET Ride
    /\ matched \in [Ride -> Driver \cup {Nobody}]
    /\ overlapped \in [Ride -> BOOLEAN]
    /\ crashes \in 0..MaxCrashes

NewRow(status) == [status |-> status, driver |-> Nobody, stamps |-> {}]

Init ==
    /\ gone = {}
    /\ ride = [r \in Ride |-> NewRow("absent")]
    /\ req = [s \in Slot |-> Idle]
    /\ shown = [r \in Ride |-> "requested"]
    /\ position = [r \in Ride |-> Nobody]
    /\ geo = {}
    /\ offered = [r \in Ride |-> {}]
    /\ announced = {}
    /\ matched = [r \in Ride |-> Nobody]
    /\ overlapped = [r \in Ride |-> FALSE]
    /\ crashes = 0

-----------------------------------------------------------------------------
(* ALLOWED_TRANSITIONS, as _assertTransition consults it. *)

MayMove_CompleteEarly(from, to) ==
    \/ from = "requested" /\ to \in {"accepted", "cancelled"}
    \/ from = "accepted" /\ to \in {"in_progress", "completed", "cancelled"}
    \/ from = "in_progress" /\ to \in {"completed", "cancelled"}

MayMove_CancelCompleted(from, to) ==
    \/ from = "requested" /\ to \in {"accepted", "cancelled"}
    \/ from = "accepted" /\ to \in {"in_progress", "cancelled"}
    \/ from \in {"in_progress", "completed"} /\ to \in {"completed", "cancelled"}

MayMove(from, to) ==
    \/ from = "requested" /\ to \in {"accepted", "cancelled"}
    \/ from = "accepted" /\ to \in {"in_progress", "cancelled"}
    \/ from = "in_progress" /\ to \in {"completed", "cancelled"}

(* A status-changing request on r has read the row and has not finished. *)
BusyOn(r) == \E s \in Slot : req[s].pc \in {"write", "emit"} /\ req[s].ride = r

(* The first await of a status-changing handler has returned the row and   *)
(* its checks have passed.                                                 *)
Admit(s, r, op, by, to) ==
    /\ req[s].pc = "idle"
    /\ MayMove(ride[r].status, to)
    /\ req' = [req EXCEPT ![s] = [pc |-> "write", op |-> op, ride |-> r,
                                  by |-> by, to |-> to]]
    /\ overlapped' = [overlapped EXCEPT ![r] = @ \/ BusyOn(r)]
    /\ UNCHANGED <<gone, ride, rooms, geo, announced, matched, crashes>>

(* acceptRide: a driver with a profile, and only an unmatched ride. *)
AcceptRide(s, d, r) ==
    /\ d \notin gone
    /\ ride[r].driver = Nobody
    /\ Admit(s, r, "accept", d, "accepted")

(* updateStatus: only the matched driver, and only the statuses            *)
(* DriverRideStatusDto lets through.                                       *)
UpdateStatus(s, d, r) ==
    /\ ride[r].driver = d
    /\ \E to \in {"in_progress", "completed", "cancelled"} :
            Admit(s, r, "status", d, to)

(* cancel: the customer, or the matched driver over REST (_findOwnedRide). *)
Cancel(s, u, r) ==
    /\ u = Customer \/ u = ride[r].driver
    /\ Admit(s, r, "cancel", u, "cancelled")

(* The column values assignDriver and updateStatus put in the row.  Only   *)
(* cancel stamps cancelledAt: updateStatus passes {} for a cancellation.   *)
StampsOf(q) ==
    {stamp \in Stamp : \/ stamp = "acceptedAt" /\ q.to = "accepted"
                       \/ stamp = "startedAt" /\ q.to = "in_progress"
                       \/ stamp = "completedAt" /\ q.to = "completed"
                       \/ stamp = "cancelledAt" /\ q.op = "cancel"}

WrittenRow_KeepDriver(row, q) ==
    [status |-> q.to, driver |-> row.driver, stamps |-> row.stamps \cup StampsOf(q)]

WrittenRow_ActorAsDriver(row, q) ==
    [status |-> q.to, driver |-> q.by, stamps |-> row.stamps \cup StampsOf(q)]

WrittenRow(row, q) ==
    [status |-> q.to,
     driver |-> IF q.op = "accept" THEN q.by ELSE row.driver,
     stamps |-> row.stamps \cup StampsOf(q)]

(* The request once its UPDATE has returned. *)
Resumed(q) == [pc |-> "emit", op |-> q.op, ride |-> q.ride, by |-> q.by, to |-> q.to]

(* The UPDATE ... WHERE id, whatever the row's status.  It fails without a *)
(* row, and the foreign key refuses a driver who has no profile any more.  *)
Writable(q) ==
    /\ ride[q.ride].status # "absent"
    /\ q.op = "accept" => q.by \notin gone

Rematched(q) ==
    IF q.op = "accept" THEN [matched EXCEPT ![q.ride] = q.by] ELSE matched

WriteRow_NoBroadcastOnCancel(s) ==
    /\ req[s].pc = "write"
    /\ Writable(req[s])
    /\ ride' = [ride EXCEPT ![req[s].ride] = WrittenRow(@, req[s])]
    /\ matched' = Rematched(req[s])
    /\ req' = [req EXCEPT ![s] = IF @.to = "cancelled" THEN Idle ELSE Resumed(@)]
    /\ UNCHANGED <<gone, rooms, geo, announced, overlapped, crashes>>

WriteRow(s) ==
    /\ req[s].pc = "write"
    /\ Writable(req[s])
    /\ ride' = [ride EXCEPT ![req[s].ride] = WrittenRow(@, req[s])]
    /\ matched' = Rematched(req[s])
    /\ req' = [req EXCEPT ![s] = Resumed(@)]
    /\ UNCHANGED <<gone, rooms, geo, announced, overlapped, crashes>>

(* The UPDATE failed, for one of these reasons or another, or the Redis    *)
(* command did: the handler throws.                                        *)
RequestFails(s) ==
    /\ req[s].pc \in {"write", "push"}
    /\ req' = [req EXCEPT ![s] = Idle]
    /\ UNCHANGED <<gone, ride, rooms, geo, announced, history>>

(* The handler resumes with the updated row and emits ride.status_updated; *)
(* onRideStatusUpdated sends it to the ride's room.  Results of different  *)
(* statements may resume in either order.                                  *)
EmitStatus_NotOnCompletion(s) ==
    /\ req[s].pc = "emit"
    /\ shown' = [shown EXCEPT ![req[s].ride] = IF req[s].to = "completed" THEN @ ELSE req[s].to]
    /\ req' = [req EXCEPT ![s] = Idle]
    /\ UNCHANGED <<gone, ride, position, geo, offered, announced, history>>

EmitStatus(s) ==
    /\ req[s].pc = "emit"
    /\ shown' = [shown EXCEPT ![req[s].ride] = req[s].to]
    /\ req' = [req EXCEPT ![s] = Idle]
    /\ UNCHANGED <<gone, ride, position, geo, offered, announced, history>>

-----------------------------------------------------------------------------
(* requestRide: the INSERT, then the GEO lookup and ride.requested. *)
RequestRide(s, r) ==
    /\ req[s].pc = "idle"
    /\ Customer \notin gone
    /\ ride[r].status = "absent"
    /\ ride' = [ride EXCEPT ![r] = NewRow("requested")]
    /\ req' = [req EXCEPT ![s] = [pc |-> "offer", op |-> "request", ride |-> r,
                                  by |-> Customer, to |-> "requested"]]
    /\ UNCHANGED <<gone, rooms, geo, announced, history>>

(* Every driver is within the 5 km and the 10 results, so the lookup       *)
(* returns the whole GEO set; onRideRequested sends to each driver room.   *)
OfferRide_AllDrivers(s) ==
    /\ req[s].pc = "offer"
    /\ offered' = [offered EXCEPT ![req[s].ride] = Driver]
    /\ announced' = announced \cup {req[s].ride}
    /\ req' = [req EXCEPT ![s] = Idle]
    /\ UNCHANGED <<gone, ride, shown, position, geo, history>>

OfferRide(s) ==
    /\ req[s].pc = "offer"
    /\ offered' = [offered EXCEPT ![req[s].ride] = geo]
    /\ announced' = announced \cup {req[s].ride}
    /\ req' = [req EXCEPT ![s] = Idle]
    /\ UNCHANGED <<gone, ride, shown, position, geo, history>>

(* The lookup failed: requestRide logs it and offers the ride to nobody.   *)
OfferFails(s) ==
    /\ req[s].pc = "offer"
    /\ req' = [req EXCEPT ![s] = Idle]
    /\ UNCHANGED <<gone, ride, rooms, geo, announced, history>>

-----------------------------------------------------------------------------
(* updateDriverLocation: the matched driver, whatever the ride's status.   *)
ReportLocation_AnyDriver(s, d, r) ==
    /\ req[s].pc = "idle"
    /\ ride[r].status # "absent"
    /\ req' = [req EXCEPT ![s] = [pc |-> "push", op |-> "location", ride |-> r,
                                  by |-> d, to |-> "requested"]]
    /\ UNCHANGED <<gone, ride, rooms, geo, announced, history>>

ReportLocation(s, d, r) ==
    /\ req[s].pc = "idle"
    /\ ride[r].driver = d
    /\ req' = [req EXCEPT ![s] = [pc |-> "push", op |-> "location", ride |-> r,
                                  by |-> d, to |-> "requested"]]
    /\ UNCHANGED <<gone, ride, rooms, geo, announced, history>>

(* setDriverLocation (GEOADD never expires), then ride.location_updated.   *)
PushLocation(s) ==
    /\ req[s].pc = "push"
    /\ geo' = geo \cup {req[s].by}
    /\ position' = [position EXCEPT ![req[s].ride] = req[s].by]
    /\ req' = [req EXCEPT ![s] = Idle]
    /\ UNCHANGED <<gone, ride, shown, offered, announced, history>>

(* The process dies: every request in flight is lost where it stands; the  *)
(* database and Redis keep what was written.                               *)
Crash ==
    /\ crashes < MaxCrashes
    /\ crashes' = crashes + 1
    /\ req' = [s \in Slot |-> Idle]
    /\ UNCHANGED <<gone, ride, rooms, geo, announced, matched, overlapped>>

-----------------------------------------------------------------------------
(* deleteAccount.  A customer's rides go with the account (Ride.customer,  *)
(* onDelete: Cascade); a driver's profile goes and the rides stay without  *)
(* driver (Ride.driver, onDelete: SetNull), whatever their status.         *)
RowWithout(row, u) ==
    IF u = Customer THEN NewRow("absent")
    ELSE IF row.driver = u THEN [row EXCEPT !.driver = Nobody]
    ELSE row

DeleteAccount(u) ==
    /\ u \notin gone
    /\ gone' = gone \cup {u}
    /\ ride' = [r \in Ride |-> RowWithout(ride[r], u)]
    /\ UNCHANGED <<req, rooms, geo, announced, history>>

Next ==
    \/ \E s \in Slot, r \in Ride :
          \/ RequestRide(s, r)
          \/ \E d \in Driver : AcceptRide(s, d, r)
          \/ \E d \in Driver : UpdateStatus(s, d, r)
          \/ \E u \in Driver \cup {Customer} : Cancel(s, u, r)
          \/ \E d \in Driver : ReportLocation(s, d, r)
    \/ \E s \in Slot : WriteRow(s) \/ EmitStatus(s) \/ RequestFails(s)
    \/ \E s \in Slot : OfferRide(s) \/ OfferFails(s)
    \/ \E s \in Slot : PushLocation(s)
    \/ \E u \in Driver \cup {Customer} : DeleteAccount(u)
    \/ Crash

Spec == Init /\ [][Next]_vars

(* Nobody has to send a request, but a request in flight is carried on:    *)
(* the event loop resumes every handler whose statement has returned.      *)
Fairness == \A s \in Slot : WF_vars(WriteRow(s)) /\ WF_vars(EmitStatus(s))

FairSpec == Spec /\ Fairness

-----------------------------------------------------------------------------
(* Properties *)

(* However requests interleave and wherever the server dies, a ride that   *)
(* is accepted, under way or completed has the driver it was last matched  *)
(* with, or that driver has deleted the account: driverId is written       *)
(* together with `accepted`, and only the foreign key ever clears it.      *)
ServedRideHasDriver ==
    \A r \in Ride : ride[r].status \in {"accepted", "in_progress", "completed"}
        => /\ matched[r] \in Driver
           /\ ride[r].driver = matched[r] \/ matched[r] \in gone

(* A completed ride carries the whole record of having been driven, even   *)
(* when stale writes rewound its status in between: the fare and the trip  *)
(* times shown in the history are never missing.                           *)
CompletedRideWasDriven ==
    \A r \in Ride : ride[r].status = "completed"
        => {"acceptedAt", "startedAt", "completedAt"} \subseteq ride[r].stamps

(* The edges of a ride's life, and the only edge that sets the driver.     *)
LegalStep(old, new) ==
    \/ new = old
    \/ /\ <<old.status, new.status>> \in
              {<<"absent", "requested">>, <<"requested", "accepted">>,
               <<"requested", "cancelled">>, <<"accepted", "in_progress">>,
               <<"accepted", "cancelled">>, <<"in_progress", "completed">>,
               <<"in_progress", "cancelled">>}
       /\ old.driver # new.driver => /\ new.status = "accepted"
                                     /\ old.driver = Nobody

(* What the deletion of an account makes of a row, and no handler does. *)
StepOfDeletion(old, new) ==
    \/ new = NewRow("absent") /\ Customer \in gone' \ gone
    \/ new = [old EXCEPT !.driver = Nobody] /\ old.driver \in gone' \ gone

(* A ride on which no two status-changing requests ever overlapped only    *)
(* takes the steps of ALLOWED_TRANSITIONS and is matched at most once, but *)
(* for the deletion of an account: a resurrected or re-matched ride always *)
(* goes back to an overlap.                                                *)
LifecycleUnlessOverlapped ==
    [][\A r \in Ride : \/ overlapped'[r]
                       \/ LegalStep(ride[r], ride'[r])
                       \/ StepOfDeletion(ride[r], ride'[r])]_vars

(* The apps in the ride's room show the row's status once nothing is in    *)
(* flight on the ride, unless requests overlapped on it (their broadcasts  *)
(* may then be sent in the other order) or a crash lost a broadcast.       *)
RoomShowsRow ==
    \A r \in Ride :
        \/ ride[r].status \in {"absent", shown[r]}
        \/ overlapped[r] \/ BusyOn(r) \/ crashes > 0

(* A position sent to the ride's room is that of a driver the ride was     *)
(* matched to: the last one matched unless two accepts overlapped, even    *)
(* when the ride has lost its driver meanwhile.                            *)
PositionFromMatchedDriver ==
    \A r \in Ride : position[r] # Nobody =>
        /\ matched[r] # Nobody
        /\ position[r] = matched[r] \/ overlapped[r]

(* A cancellation reaches the room, unless requests overlapped on the ride *)
(* or the server died: the other party is not left waiting for a ride that *)
(* is off (cancel and updateStatus both end by emitting).                  *)
CancelReachesRoom ==
    \A r \in Ride :
        ride[r].status = "cancelled"
            ~> (shown[r] = "cancelled" \/ overlapped[r] \/ crashes > 0)

(* Only setDriverLocation feeds the GEO set and it runs for a matched      *)
(* driver only, so ride_requested goes to drivers who hold or held a ride. *)
(* The set keeps those who deleted their account.                          *)
OffersGoToMatchedDrivers ==
    \A r \in Ride, d \in Driver :
        d \in offered[r] => \E q \in Ride : matched[q] = d \/ overlapped[q]

(* "Ride status transitions this service allows - anything else is         *)
(* rejected" (rides.service.ts), read as a claim about the stored rides.   *)
OnlyAllowedTransitions ==
    [][\A r \in Ride : \/ LegalStep(ride[r], ride'[r])
                       \/ StepOfDeletion(ride[r], ride'[r])]_vars

(* "Nearby drivers are notified over WS" (rides.service.ts): a lookup that *)
(* succeeded, with every driver nearby, reached at least one of them.      *)
NearbyDriversAreNotified == \A r \in announced : offered[r] # {}
=============================================================================
