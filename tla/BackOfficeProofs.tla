-------------------------- MODULE BackOfficeProofs --------------------------
(***************************************************************************)
(* Proofs about AddressBook, Devices, Photos and Shops for any number of   *)
(* requests in flight and any number of addresses, tokens, objects and     *)
(* shops.  Each component has an inductive invariant of its own; none      *)
(* reads the state of another.  Then Reports, for any number of orders and *)
(* any calendar: its properties follow from the types of the rows, by      *)
(* arithmetic on dates and on sums over sets of orders.                    *)
(***************************************************************************)
EXTENDS AddressBook, Devices, Photos, Shops, Reports, SumTheorems,
        FiniteSetTheorems, TLAPS

-----------------------------------------------------------------------------
(* Devices.                                                                *)

DevicesTyped ==
    /\ deviceRow \in [Device -> [user : Holder \cup {Nobody}, id : Nat, arn : Nat]]
    /\ endpoint \in [Device -> [arn : Nat, enabled : BOOLEAN]]
    /\ made \in [Device -> [endpoints : Nat, rows : Nat]]
    /\ call \in [Call ->
         [pc : {"idle", "upsert", "push", "endpoint", "row"},
          user : Holder \cup {Nobody}, device : Device \cup {AnyDevice}, id : Nat,
          arn : Nat, byId : BOOLEAN, torn : BOOLEAN]]
    /\ expected \in [Device -> Holder \cup {Nobody}]

(* A registration that reached SNS names the endpoint of its token, unless *)
(* a removal deleted that endpoint since.                                  *)
UpsertNamesEndpoint ==
    \A c \in Call :
        /\ call[c].pc # "idle" => call[c].device \in Device
        /\ call[c].pc = "upsert" =>
              /\ call[c].arn # 0
              /\ call[c].torn \/ call[c].arn = endpoint[call[c].device].arn

(* A registration that was answered and not crossed has its row, its       *)
(* endpoint, and no removal that is still to reach either.                 *)
Registered(d) ==
    /\ deviceRow[d].user = expected[d]
    /\ deviceRow[d].arn = endpoint[d].arn
    /\ endpoint[d].arn # 0
    /\ ~Removing(d)

DevicesInv ==
    /\ DevicesTyped
    /\ UpsertNamesEndpoint
    /\ \A d \in Device : expected[d] # Nobody /\ d \notin crossed => Registered(d)

LEMMA DevicesInit_Inv == DevicesInit => DevicesInv
<1> SUFFICES ASSUME DevicesInit PROVE DevicesInv
  OBVIOUS
<1>1. DevicesTyped
  BY DEF DevicesInit, DevicesTyped, RowGone, EndpointGone, HungUp
<1>2. UpsertNamesEndpoint
  BY DEF DevicesInit, UpsertNamesEndpoint, HungUp
<1>3. QED
  BY <1>1, <1>2 DEF DevicesInit, DevicesInv

(* A request that ends leaves every other as it is.                        *)
LEMMA HangUpEffect ==
    ASSUME DevicesInv, NEW c \in Call, HangUp(c)
    PROVE  /\ call' \in [Call ->
                [pc : {"idle", "upsert", "push", "endpoint", "row"},
                 user : Holder \cup {Nobody}, device : Device \cup {AnyDevice}, id : Nat,
                 arn : Nat, byId : BOOLEAN, torn : BOOLEAN]]
           /\ call'[c].pc = "idle"
           /\ \A b \in Call : b # c => call'[b] = call[b]
           /\ \A d : Removing(d)' => Removing(d)
<1>1. HungUp(AnyDevice) \in
        [pc : {"idle", "upsert", "push", "endpoint", "row"},
         user : Holder \cup {Nobody}, device : Device \cup {AnyDevice}, id : Nat,
         arn : Nat, byId : BOOLEAN, torn : BOOLEAN]
      /\ HungUp(AnyDevice).pc = "idle"
  BY DEF HungUp
<1>2. /\ call'[c] = HungUp(AnyDevice) /\ \A b \in Call : b # c => call'[b] = call[b]
      /\ call' = [call EXCEPT ![c] = HungUp(AnyDevice)]
  BY DEF DevicesInv, DevicesTyped, HangUp
<1>3. \A d : Removing(d)' => Removing(d)
  BY <1>1, <1>2 DEF Removing
<1>4. QED
  BY <1>1, <1>2, <1>3 DEF DevicesInv, DevicesTyped

(* A new request, on a device, leaves every other as it is.                *)
LEMMA NewCallEffect ==
    ASSUME DevicesInv, NEW c \in Call, call[c].pc = "idle", NEW d \in Device,
           NEW new \in [pc : {"upsert", "push", "endpoint"},
                        user : Holder \cup {Nobody}, device : {d}, id : Nat,
                        arn : Nat, byId : BOOLEAN, torn : BOOLEAN],
           call' = [call EXCEPT ![c] = new]
    PROVE  /\ call' \in [Call ->
                [pc : {"idle", "upsert", "push", "endpoint", "row"},
                 user : Holder \cup {Nobody}, device : Device \cup {AnyDevice}, id : Nat,
                 arn : Nat, byId : BOOLEAN, torn : BOOLEAN]]
           /\ call'[c] = new
           /\ \A b \in Call : b # c => call'[b] = call[b]
           /\ \A e \in Device \ {d} : Removing(e)' => Removing(e)
           /\ new.pc # "endpoint" => \A e \in Device : Removing(e)' => Removing(e)
<1>1. /\ call'[c] = new /\ \A b \in Call : b # c => call'[b] = call[b]
  BY DEF DevicesInv, DevicesTyped
<1>2. /\ \A e \in Device \ {d} : Removing(e)' => Removing(e)
      /\ new.pc # "endpoint" => \A e \in Device : Removing(e)' => Removing(e)
  BY <1>1 DEF Removing
<1>3. QED
  BY <1>1, <1>2 DEF DevicesInv, DevicesTyped

LEMMA RegisterTokenKeepsInv ==
    ASSUME DevicesInv, NEW c \in Call, NEW u \in Holder, NEW d \in Device,
           RegisterToken(c, u, d)
    PROVE  DevicesInv'
<1> DEFINE new == [HungUp(d) EXCEPT !.pc = "upsert", !.user = u, !.arn = endpoint'[d].arn]
<1>1. /\ call[c].pc = "idle" /\ call' = [call EXCEPT ![c] = new]
      /\ UNCHANGED <<deviceRow, expected, crossed>>
  BY DEF RegisterToken
<1>2. /\ endpoint' \in [Device -> [arn : Nat, enabled : BOOLEAN]]
      /\ made' \in [Device -> [endpoints : Nat, rows : Nat]]
      /\ endpoint'[d].arn # 0
      /\ endpoint[d].arn # 0 => endpoint' = endpoint
      /\ \A e \in Device : e # d => endpoint'[e] = endpoint[e]
  <2>1. CASE endpoint[d].arn # 0
    <3>1. endpoint' = endpoint /\ made' = made
      BY <2>1 DEF RegisterToken
    <3>2. QED
      BY <2>1, <3>1 DEF DevicesInv, DevicesTyped
  <2>2. CASE endpoint[d].arn = 0
    <3>1. /\ made' = [made EXCEPT ![d].endpoints = @ + 1]
          /\ endpoint' = [endpoint EXCEPT ![d] =
                            [arn |-> made[d].endpoints + 1, enabled |-> TRUE]]
      BY <2>2 DEF RegisterToken
    <3>2. made[d] \in [endpoints : Nat, rows : Nat]
      BY DEF DevicesInv, DevicesTyped
    <3>3. /\ made[d].endpoints \in Nat /\ made[d].rows \in Nat
          /\ made[d].endpoints + 1 \in Nat /\ made[d].endpoints + 1 # 0
      BY <3>2
    <3>4. made' \in [Device -> [endpoints : Nat, rows : Nat]]
      <4>1. [made[d] EXCEPT !.endpoints = made[d].endpoints + 1] \in [endpoints : Nat, rows : Nat]
        BY <3>2, <3>3
      <4>2. made' = [made EXCEPT ![d] = [made[d] EXCEPT !.endpoints = made[d].endpoints + 1]]
        BY <3>1
      <4>3. QED
        BY <4>1, <4>2 DEF DevicesInv, DevicesTyped
    <3>5. [arn |-> made[d].endpoints + 1, enabled |-> TRUE] \in [arn : Nat, enabled : BOOLEAN]
      BY <3>3
    <3>6. /\ endpoint' \in [Device -> [arn : Nat, enabled : BOOLEAN]]
          /\ endpoint'[d] = [arn |-> made[d].endpoints + 1, enabled |-> TRUE]
          /\ \A e \in Device : e # d => endpoint'[e] = endpoint[e]
      BY <3>1, <3>5 DEF DevicesInv, DevicesTyped
    <3>7. endpoint'[d].arn # 0
      BY <3>3, <3>6
    <3>8. QED
      BY <2>2, <3>4, <3>6, <3>7
  <2>3. QED
    BY <2>1, <2>2
<1>3. /\ new \in [pc : {"upsert", "push", "endpoint"},
                  user : Holder \cup {Nobody}, device : {d}, id : Nat,
                  arn : Nat, byId : BOOLEAN, torn : BOOLEAN]
      /\ new.pc = "upsert" /\ new.device = d /\ new.arn = endpoint'[d].arn
  BY <1>2 DEF HungUp
<1> HIDE DEF new
<1>4. /\ call' \in [Call ->
           [pc : {"idle", "upsert", "push", "endpoint", "row"},
            user : Holder \cup {Nobody}, device : Device \cup {AnyDevice}, id : Nat,
            arn : Nat, byId : BOOLEAN, torn : BOOLEAN]]
      /\ call'[c] = new
      /\ \A b \in Call : b # c => call'[b] = call[b]
      /\ \A e \in Device : Removing(e)' => Removing(e)
  BY <1>1, <1>3, NewCallEffect
<1>5. DevicesTyped'
  BY <1>1, <1>2, <1>4 DEF DevicesInv, DevicesTyped
<1>6. UpsertNamesEndpoint'
  <2>1. ASSUME NEW b \in Call, b # c, call[b].pc = "upsert"
        PROVE  call[b].torn \/ call[b].arn = endpoint'[call[b].device].arn
    BY <1>2, <2>1 DEF DevicesInv, UpsertNamesEndpoint
  <2>2. QED
    BY <1>2, <1>3, <1>4, <2>1 DEF DevicesInv, UpsertNamesEndpoint
<1>7. ASSUME NEW e \in Device, expected'[e] # Nobody, e \notin crossed'
      PROVE  Registered(e)'
  <2>1. Registered(e)
    BY <1>1, <1>7 DEF DevicesInv
  <2>2. endpoint'[e] = endpoint[e]
    BY <1>2, <2>1 DEF Registered
  <2>3. QED
    BY <1>1, <1>4, <2>1, <2>2 DEF Registered
<1>8. QED
  BY <1>5, <1>6, <1>7 DEF DevicesInv

(* The row names the user and the endpoint of the request; a removal that  *)
(* has not ended crosses the registration, one that deleted the endpoint   *)
(* has torn the request.                                                   *)
LEMMA UpsertTokenKeepsInv ==
    ASSUME DevicesInv, NEW c \in Call, UpsertToken(c)
    PROVE  DevicesInv'
<1>1. PICK d \in Device : d = call[c].device
  BY DEF DevicesInv, UpsertNamesEndpoint, UpsertToken
<1>2. /\ call[c].pc = "upsert" /\ HangUp(c) /\ UNCHANGED endpoint
      /\ deviceRow' = [deviceRow EXCEPT ![d] = Upserted(c, @)]
      /\ made' = [made EXCEPT ![d].rows = IF deviceRow[d] = RowGone THEN @ + 1 ELSE @]
      /\ expected' = [expected EXCEPT ![d] = call[c].user]
      /\ crossed' = IF Removing(d) \/ call[c].torn THEN crossed \cup {d} ELSE crossed \ {d}
  BY <1>1 DEF UpsertToken
<1>3. /\ deviceRow[d] \in [user : Holder \cup {Nobody}, id : Nat, arn : Nat]
      /\ made[d] \in [endpoints : Nat, rows : Nat]
      /\ call[c].user \in Holder \cup {Nobody} /\ call[c].arn \in Nat
  BY DEF DevicesInv, DevicesTyped
<1>4. /\ call' \in [Call ->
           [pc : {"idle", "upsert", "push", "endpoint", "row"},
            user : Holder \cup {Nobody}, device : Device \cup {AnyDevice}, id : Nat,
            arn : Nat, byId : BOOLEAN, torn : BOOLEAN]]
      /\ call'[c].pc = "idle"
      /\ \A b \in Call : b # c => call'[b] = call[b]
      /\ \A e : Removing(e)' => Removing(e)
  BY <1>2, HangUpEffect
<1>5. /\ Upserted(c, deviceRow[d]) \in [user : Holder \cup {Nobody}, id : Nat, arn : Nat]
      /\ Upserted(c, deviceRow[d]).user = call[c].user
      /\ Upserted(c, deviceRow[d]).arn = call[c].arn
  BY <1>1, <1>3 DEF Upserted
<1>6. DevicesTyped'
  <2>1. made' \in [Device -> [endpoints : Nat, rows : Nat]]
    <3>1. PICK n \in Nat : n = IF deviceRow[d] = RowGone THEN made[d].rows + 1
                              ELSE made[d].rows
      BY <1>3
    <3>2. made' = [made EXCEPT ![d] = [made[d] EXCEPT !.rows = n]]
      BY <1>2, <3>1
    <3>3. [made[d] EXCEPT !.rows = n] \in [endpoints : Nat, rows : Nat]
      BY <1>3
    <3>4. QED
      BY <3>2, <3>3 DEF DevicesInv, DevicesTyped
  <2>2. deviceRow' \in [Device -> [user : Holder \cup {Nobody}, id : Nat, arn : Nat]]
    BY <1>2, <1>5 DEF DevicesInv, DevicesTyped
  <2>3. QED
    BY <1>2, <1>3, <1>4, <2>1, <2>2 DEF DevicesInv, DevicesTyped
<1>7. UpsertNamesEndpoint'
  BY <1>2, <1>4 DEF DevicesInv, UpsertNamesEndpoint
<1>8. ASSUME NEW e \in Device, expected'[e] # Nobody, e \notin crossed'
      PROVE  Registered(e)'
  <2>1. CASE e = d
    <3>1. ~Removing(d) /\ ~call[c].torn
      BY <1>2, <1>8, <2>1
    <3>2. call[c].arn # 0 /\ call[c].arn = endpoint[d].arn
      BY <1>1, <1>2, <3>1 DEF DevicesInv, UpsertNamesEndpoint
    <3>3. deviceRow'[d] = Upserted(c, deviceRow[d]) /\ expected'[d] = call[c].user
      BY <1>2 DEF DevicesInv, DevicesTyped
    <3>4. QED
      BY <1>2, <1>4, <1>5, <2>1, <3>1, <3>2, <3>3 DEF Registered
  <2>2. CASE e # d
    <3>1. deviceRow'[e] = deviceRow[e] /\ expected'[e] = expected[e] /\ e \notin crossed
      BY <1>2, <1>8, <2>2 DEF DevicesInv, DevicesTyped
    <3>2. Registered(e)
      BY <1>8, <3>1 DEF DevicesInv
    <3>3. QED
      BY <1>2, <1>4, <3>1, <3>2 DEF Registered
  <2>3. QED
    BY <2>1, <2>2
<1>9. QED
  BY <1>6, <1>7, <1>8 DEF DevicesInv

(* What no registration and no endpoint changes: a pair of a row and an    *)
(* endpoint stays registered as long as no removal of it begins.           *)
LEMMA RegisteredStays ==
    ASSUME DevicesInv, NEW e \in Device, expected'[e] # Nobody,
           expected'[e] = expected[e], crossed' = crossed, e \notin crossed,
           Registered(e) => deviceRow'[e] = deviceRow[e] /\ endpoint'[e].arn = endpoint[e].arn,
           Removing(e)' => Removing(e)
    PROVE  Registered(e)'
<1>1. Registered(e)
  BY DEF DevicesInv
<1>2. QED
  BY <1>1 DEF Registered

(* The removal begins, and with it nothing is expected of the token.       *)
LEMMA UnregisterTokenKeepsInv ==
    ASSUME DevicesInv, NEW c \in Call, NEW u \in Holder, NEW d \in Device,
           UnregisterToken(c, u, d)
    PROVE  DevicesInv'
<1> DEFINE new == [HungUp(d) EXCEPT !.pc = "endpoint", !.user = u, !.arn = deviceRow[d].arn]
<1>1. /\ call[c].pc = "idle" /\ call' = [call EXCEPT ![c] = new]
      /\ expected' = [expected EXCEPT ![d] = Nobody]
      /\ UNCHANGED <<deviceRow, endpoint, made, crossed>>
  BY DEF UnregisterToken
<1>2. deviceRow[d].arn \in Nat
  BY DEF DevicesInv, DevicesTyped
<1>3. /\ new \in [pc : {"upsert", "push", "endpoint"},
                  user : Holder \cup {Nobody}, device : {d}, id : Nat,
                  arn : Nat, byId : BOOLEAN, torn : BOOLEAN]
      /\ new.pc = "endpoint" /\ new.device = d
  BY <1>2 DEF HungUp
<1> HIDE DEF new
<1>4. /\ call' \in [Call ->
           [pc : {"idle", "upsert", "push", "endpoint", "row"},
            user : Holder \cup {Nobody}, device : Device \cup {AnyDevice}, id : Nat,
            arn : Nat, byId : BOOLEAN, torn : BOOLEAN]]
      /\ call'[c] = new
      /\ \A b \in Call : b # c => call'[b] = call[b]
      /\ \A e \in Device \ {d} : Removing(e)' => Removing(e)
  BY <1>1, <1>3, NewCallEffect
<1>5. DevicesTyped'
  BY <1>1, <1>4 DEF DevicesInv, DevicesTyped
<1>6. UpsertNamesEndpoint'
  BY <1>1, <1>3, <1>4 DEF DevicesInv, UpsertNamesEndpoint
<1>7. ASSUME NEW e \in Device, expected'[e] # Nobody, e \notin crossed'
      PROVE  Registered(e)'
  <2>1. e # d /\ expected'[e] = expected[e]
    BY <1>1, <1>7 DEF DevicesInv, DevicesTyped
  <2>2. QED
    BY <1>1, <1>4, <1>7, <2>1, RegisteredStays
<1>8. QED
  BY <1>5, <1>6, <1>7 DEF DevicesInv

LEMMA SendPushKeepsInv ==
    ASSUME DevicesInv, NEW c \in Call, NEW u \in Holder, NEW d \in Device,
           SendPush(c, u, d)
    PROVE  DevicesInv'
<1> DEFINE new == [HungUp(d) EXCEPT !.pc = "push", !.user = u, !.byId = TRUE,
                     !.id = deviceRow[d].id, !.arn = deviceRow[d].arn]
<1>1. /\ call[c].pc = "idle" /\ call' = [call EXCEPT ![c] = new]
      /\ UNCHANGED <<deviceRow, endpoint, made, expected, crossed>>
  BY DEF SendPush
<1>2. deviceRow[d].arn \in Nat /\ deviceRow[d].id \in Nat
  BY DEF DevicesInv, DevicesTyped
<1>3. /\ new \in [pc : {"upsert", "push", "endpoint"},
                  user : Holder \cup {Nobody}, device : {d}, id : Nat,
                  arn : Nat, byId : BOOLEAN, torn : BOOLEAN]
      /\ new.pc = "push" /\ new.device = d
  BY <1>2 DEF HungUp
<1> HIDE DEF new
<1>4. /\ call' \in [Call ->
           [pc : {"idle", "upsert", "push", "endpoint", "row"},
            user : Holder \cup {Nobody}, device : Device \cup {AnyDevice}, id : Nat,
            arn : Nat, byId : BOOLEAN, torn : BOOLEAN]]
      /\ call'[c] = new
      /\ \A b \in Call : b # c => call'[b] = call[b]
      /\ \A e \in Device : Removing(e)' => Removing(e)
  BY <1>1, <1>3, NewCallEffect
<1>5. DevicesTyped'
  BY <1>1, <1>4 DEF DevicesInv, DevicesTyped
<1>6. UpsertNamesEndpoint'
  BY <1>1, <1>3, <1>4 DEF DevicesInv, UpsertNamesEndpoint
<1>7. ASSUME NEW e \in Device, expected'[e] # Nobody, e \notin crossed'
      PROVE  Registered(e)'
  BY <1>1, <1>4, <1>7, RegisteredStays
<1>8. QED
  BY <1>5, <1>6, <1>7 DEF DevicesInv

(* A request that ends without touching what it was about.                 *)
LEMMA HangUpKeepsInv ==
    ASSUME DevicesInv, NEW c \in Call, HangUp(c),
           UNCHANGED <<deviceRow, endpoint, made, expected, crossed>>
    PROVE  DevicesInv'
<1>1. /\ call' \in [Call ->
           [pc : {"idle", "upsert", "push", "endpoint", "row"},
            user : Holder \cup {Nobody}, device : Device \cup {AnyDevice}, id : Nat,
            arn : Nat, byId : BOOLEAN, torn : BOOLEAN]]
      /\ call'[c].pc = "idle"
      /\ \A b \in Call : b # c => call'[b] = call[b]
      /\ \A e : Removing(e)' => Removing(e)
  BY HangUpEffect
<1>2. DevicesTyped'
  BY <1>1 DEF DevicesInv, DevicesTyped
<1>3. UpsertNamesEndpoint'
  BY <1>1 DEF DevicesInv, UpsertNamesEndpoint
<1>4. ASSUME NEW e \in Device, expected'[e] # Nobody, e \notin crossed'
      PROVE  Registered(e)'
  BY <1>1, <1>4, RegisteredStays
<1>5. QED
  BY <1>2, <1>3, <1>4 DEF DevicesInv

(* The clean-up of a disabled endpoint is a removal that begins.           *)
LEMMA PushToEndpointKeepsInv ==
    ASSUME DevicesInv, NEW c \in Call, PushToEndpoint(c)
    PROVE  DevicesInv'
<1>1. PICK d \in Device : d = call[c].device
  BY DEF DevicesInv, UpsertNamesEndpoint, PushToEndpoint
<1>2. call[c].pc = "push" /\ UNCHANGED <<deviceRow, endpoint, made, crossed>>
  BY DEF PushToEndpoint
<1>3. CASE HangUp(c) /\ UNCHANGED expected
  BY <1>2, <1>3, HangUpKeepsInv
<1>4. CASE /\ call' = [call EXCEPT ![c].pc = "endpoint"]
           /\ expected' = [expected EXCEPT ![d] = Nobody]
  <2>1. /\ call'[c].pc = "endpoint" /\ call'[c].device = d
        /\ \A b \in Call : b # c => call'[b] = call[b]
    BY <1>1, <1>4 DEF DevicesInv, DevicesTyped
  <2>2. DevicesTyped'
    <3>1. [call[c] EXCEPT !.pc = "endpoint"] \in
            [pc : {"idle", "upsert", "push", "endpoint", "row"},
             user : Holder \cup {Nobody}, device : Device \cup {AnyDevice},
             id : Nat, arn : Nat, byId : BOOLEAN, torn : BOOLEAN]
      BY DEF DevicesInv, DevicesTyped
    <3>2. expected' \in [Device -> Holder \cup {Nobody}]
      BY <1>4 DEF DevicesInv, DevicesTyped
    <3>3. QED
      BY <1>2, <1>4, <3>1, <3>2 DEF DevicesInv, DevicesTyped
  <2>3. UpsertNamesEndpoint'
    BY <1>2, <2>1 DEF DevicesInv, UpsertNamesEndpoint
  <2>4. \A e \in Device : e # d /\ Removing(e)' => Removing(e)
    BY <2>1 DEF Removing
  <2>5. ASSUME NEW e \in Device, expected'[e] # Nobody, e \notin crossed'
        PROVE  Registered(e)'
    <3>1. e # d /\ expected'[e] = expected[e]
      BY <1>4, <2>5 DEF DevicesInv, DevicesTyped
    <3>2. QED
      BY <1>2, <2>4, <2>5, <3>1, RegisteredStays
  <2>6. QED
    BY <2>2, <2>3, <2>5 DEF DevicesInv
<1>5. QED
  BY <1>1, <1>3, <1>4 DEF PushToEndpoint

(* Registrations that named the endpoint are torn.                         *)
LEMMA DeleteEndpointKeepsInv ==
    ASSUME DevicesInv, NEW c \in Call, DeleteEndpoint(c)
    PROVE  DevicesInv'
<1>1. PICK d \in Device : d = call[c].device
  BY DEF DevicesInv, UpsertNamesEndpoint, DeleteEndpoint
<1>2. /\ call[c].pc = "endpoint"
      /\ endpoint' = IF endpoint[d].arn = call[c].arn
                       THEN [endpoint EXCEPT ![d] = EndpointGone] ELSE endpoint
      /\ call' = [b \in Call |->
                    IF b = c THEN [call[c] EXCEPT !.pc = "row"]
                    ELSE IF call[b].device = d /\ call[b].pc = "upsert"
                      THEN [call[b] EXCEPT !.torn = TRUE]
                      ELSE call[b]]
      /\ UNCHANGED <<deviceRow, made, expected, crossed>>
  BY <1>1 DEF DeleteEndpoint
<1>3. ASSUME NEW b \in Call
      PROVE  /\ call'[b] \in [pc : {"idle", "upsert", "push", "endpoint", "row"},
                              user : Holder \cup {Nobody}, device : Device \cup {AnyDevice},
                              id : Nat, arn : Nat, byId : BOOLEAN, torn : BOOLEAN]
             /\ call'[b].device = call[b].device /\ call'[b].arn = call[b].arn
             /\ b # c => call'[b].pc = call[b].pc
             /\ call[b].torn /\ b # c => call'[b].torn
             /\ call[b].device = d /\ call[b].pc = "upsert" => call'[b].torn
  <2>1. call[b] \in [pc : {"idle", "upsert", "push", "endpoint", "row"},
                     user : Holder \cup {Nobody}, device : Device \cup {AnyDevice},
                     id : Nat, arn : Nat, byId : BOOLEAN, torn : BOOLEAN]
    BY DEF DevicesInv, DevicesTyped
  <2>2. QED
    BY <1>2, <2>1
<1>4. call'[c].pc = "row"
  <2>1. call[c] \in [pc : {"idle", "upsert", "push", "endpoint", "row"},
                     user : Holder \cup {Nobody}, device : Device \cup {AnyDevice},
                     id : Nat, arn : Nat, byId : BOOLEAN, torn : BOOLEAN]
    BY DEF DevicesInv, DevicesTyped
  <2>2. QED
    BY <1>2, <2>1
<1>5. /\ endpoint' \in [Device -> [arn : Nat, enabled : BOOLEAN]]
      /\ \A e \in Device : e # d => endpoint'[e] = endpoint[e]
  BY <1>2 DEF DevicesInv, DevicesTyped, EndpointGone
<1>6. DevicesTyped'
  <2>1. call' = [b \in Call |-> call'[b]]
    BY <1>2
  <2>2. QED
    BY <1>2, <1>3, <1>5, <2>1 DEF DevicesInv, DevicesTyped
<1>7. UpsertNamesEndpoint'
  <2>1. ASSUME NEW b \in Call, call'[b].pc = "upsert"
        PROVE  call'[b].torn \/ call'[b].arn = endpoint'[call'[b].device].arn
    <3>1. b # c /\ call[b].pc = "upsert" /\ call[b].device \in Device
      BY <1>3, <1>4, <2>1 DEF DevicesInv, UpsertNamesEndpoint
    <3>2. QED
      BY <1>3, <1>5, <3>1 DEF DevicesInv, UpsertNamesEndpoint
  <2>2. QED
    BY <1>1, <1>2, <1>3, <1>4, <2>1 DEF DevicesInv, UpsertNamesEndpoint
<1>8. ASSUME NEW e \in Device, expected'[e] # Nobody, e \notin crossed'
      PROVE  Registered(e)'
  <2>1. Removing(d)
    BY <1>1, <1>2 DEF Removing
  <2>2. \A b \in Call : call'[b].pc \in {"endpoint", "row"} => call[b].pc \in {"endpoint", "row"}
    BY <1>2, <1>3
  <2>3. Removing(e)' => Removing(e)
    BY <1>3, <2>2 DEF Removing
  <2>4. Registered(e) => e # d
    BY <2>1 DEF Registered
  <2>5. QED
    BY <1>2, <1>5, <1>8, <2>3, <2>4, RegisteredStays
<1>9. QED
  BY <1>6, <1>7, <1>8 DEF DevicesInv

LEMMA DeleteTokenKeepsInv ==
    ASSUME DevicesInv, NEW c \in Call, DeleteToken(c)
    PROVE  DevicesInv'
<1>1. PICK d \in Device : d = call[c].device
  BY DEF DevicesInv, UpsertNamesEndpoint, DeleteToken
<1>2. /\ call[c].pc = "row" /\ HangUp(c) /\ UNCHANGED <<endpoint, made, expected, crossed>>
      /\ deviceRow' = IF call[c].byId /\ deviceRow[d].id # call[c].id
                        THEN deviceRow ELSE [deviceRow EXCEPT ![d] = RowGone]
  BY <1>1 DEF DeleteToken
<1>3. /\ call' \in [Call ->
           [pc : {"idle", "upsert", "push", "endpoint", "row"},
            user : Holder \cup {Nobody}, device : Device \cup {AnyDevice}, id : Nat,
            arn : Nat, byId : BOOLEAN, torn : BOOLEAN]]
      /\ call'[c].pc = "idle"
      /\ \A b \in Call : b # c => call'[b] = call[b]
      /\ \A e : Removing(e)' => Removing(e)
  BY <1>2, HangUpEffect
<1>4. RowGone \in [user : Holder \cup {Nobody}, id : Nat, arn : Nat]
  BY DEF RowGone
<1>5. /\ deviceRow' \in [Device -> [user : Holder \cup {Nobody}, id : Nat, arn : Nat]]
      /\ \A e \in Device : e # d => deviceRow'[e] = deviceRow[e]
  BY <1>2, <1>4 DEF DevicesInv, DevicesTyped
<1>6. DevicesTyped'
  BY <1>2, <1>3, <1>5 DEF DevicesInv, DevicesTyped
<1>7. UpsertNamesEndpoint'
  BY <1>2, <1>3 DEF DevicesInv, UpsertNamesEndpoint
<1>8. ASSUME NEW e \in Device, expected'[e] # Nobody, e \notin crossed'
      PROVE  Registered(e)'
  <2>1. Registered(e) => e # d
    BY <1>1, <1>2 DEF Registered, Removing
  <2>2. QED
    BY <1>2, <1>3, <1>5, <1>8, <2>1, RegisteredStays
<1>9. QED
  BY <1>6, <1>7, <1>8 DEF DevicesInv

LEMMA DisableEndpointKeepsInv ==
    ASSUME DevicesInv, NEW d \in Device, DisableEndpoint(d)
    PROVE  DevicesInv'
<1>1. /\ endpoint' = [endpoint EXCEPT ![d].enabled = FALSE]
      /\ UNCHANGED <<deviceRow, made, call, expected, crossed>>
  BY DEF DisableEndpoint
<1>2. /\ endpoint' \in [Device -> [arn : Nat, enabled : BOOLEAN]]
      /\ \A e \in Device : endpoint'[e].arn = endpoint[e].arn
  <2>1. /\ endpoint \in [Device -> [arn : Nat, enabled : BOOLEAN]]
        /\ endpoint[d] \in [arn : Nat, enabled : BOOLEAN]
    BY DEF DevicesInv, DevicesTyped
  <2> DEFINE off == [endpoint[d] EXCEPT !.enabled = FALSE]
  <2>2. off \in [arn : Nat, enabled : BOOLEAN] /\ off.arn = endpoint[d].arn
    BY <2>1
  <2>3. endpoint' = [endpoint EXCEPT ![d] = off]
    BY <1>1
  <2> HIDE DEF off
  <2>4. QED
    BY <2>1, <2>2, <2>3
<1>3. DevicesTyped'
  BY <1>1, <1>2 DEF DevicesInv, DevicesTyped
<1>4. UpsertNamesEndpoint'
  BY <1>1, <1>2 DEF DevicesInv, UpsertNamesEndpoint
<1>5. ASSUME NEW e \in Device, expected'[e] # Nobody, e \notin crossed'
      PROVE  Registered(e)'
  <2>1. Removing(e)' => Removing(e)
    BY <1>1 DEF Removing
  <2>2. QED
    BY <1>1, <1>2, <1>5, <2>1, RegisteredStays
<1>6. QED
  BY <1>3, <1>4, <1>5 DEF DevicesInv

(* The account takes its rows along; the others keep theirs.               *)
LEMMA DeleteHolderKeepsInv ==
    ASSUME DevicesInv, NEW u \in Holder, DeleteHolder(u)
    PROVE  DevicesInv'
<1>1. /\ deviceRow' = [d \in Device |->
                         IF deviceRow[d].user = u THEN RowGone ELSE deviceRow[d]]
      /\ expected' = [d \in Device |-> IF expected[d] = u THEN Nobody ELSE expected[d]]
      /\ call' = [c \in Call |->
                    IF call[c].pc = "upsert" /\ call[c].user = u
                      THEN HungUp(AnyDevice) ELSE call[c]]
      /\ UNCHANGED <<endpoint, made, crossed>>
  BY DEF DeleteHolder
<1>2. \A c \in Call : call'[c].pc = "idle" \/ call'[c] = call[c]
  BY <1>1 DEF HungUp
<1>3. DevicesTyped'
  <2>1. RowGone \in [user : Holder \cup {Nobody}, id : Nat, arn : Nat]
    BY DEF RowGone
  <2>2. HungUp(AnyDevice) \in
          [pc : {"idle", "upsert", "push", "endpoint", "row"},
           user : Holder \cup {Nobody}, device : Device \cup {AnyDevice}, id : Nat,
           arn : Nat, byId : BOOLEAN, torn : BOOLEAN]
    BY DEF HungUp
  <2>3. call' \in [Call ->
          [pc : {"idle", "upsert", "push", "endpoint", "row"},
           user : Holder \cup {Nobody}, device : Device \cup {AnyDevice}, id : Nat,
           arn : Nat, byId : BOOLEAN, torn : BOOLEAN]]
    BY <1>1, <2>2 DEF DevicesInv, DevicesTyped
  <2>4. QED
    BY <1>1, <2>1, <2>3 DEF DevicesInv, DevicesTyped
<1>4. UpsertNamesEndpoint'
  BY <1>1, <1>2 DEF DevicesInv, UpsertNamesEndpoint
<1>5. ASSUME NEW e \in Device, expected'[e] # Nobody, e \notin crossed'
      PROVE  Registered(e)'
  <2>1. expected'[e] = expected[e] /\ expected[e] # u
    BY <1>1, <1>5
  <2>2. Registered(e) => deviceRow'[e] = deviceRow[e]
    BY <1>1, <2>1 DEF Registered
  <2>3. Removing(e)' => Removing(e)
    BY <1>2 DEF Removing
  <2>4. QED
    BY <1>1, <1>5, <2>1, <2>2, <2>3, RegisteredStays
<1>6. QED
  BY <1>3, <1>4, <1>5 DEF DevicesInv

LEMMA DevicesStep == DevicesInv /\ [DevicesNext]_deviceVars => DevicesInv'
<1> SUFFICES ASSUME DevicesInv, [DevicesNext]_deviceVars PROVE DevicesInv'
  OBVIOUS
<1>1. CASE UNCHANGED deviceVars
  BY <1>1 DEF deviceVars, DevicesInv, DevicesTyped, UpsertNamesEndpoint, Registered, Removing
<1>2. ASSUME NEW c \in Call, NEW u \in Holder, NEW d \in Device,
             RegisterToken(c, u, d) \/ UnregisterToken(c, u, d) \/ SendPush(c, u, d)
      PROVE  DevicesInv'
  BY <1>2, RegisterTokenKeepsInv, UnregisterTokenKeepsInv, SendPushKeepsInv
<1>3. ASSUME NEW c \in Call,
             \/ UpsertToken(c) \/ PushToEndpoint(c) \/ DeleteEndpoint(c)
             \/ DeleteToken(c) \/ DropCall(c)
      PROVE  DevicesInv'
  BY <1>3, UpsertTokenKeepsInv, PushToEndpointKeepsInv, DeleteEndpointKeepsInv,
     DeleteTokenKeepsInv, HangUpKeepsInv DEF DropCall
<1>4. ASSUME NEW d \in Device, DisableEndpoint(d)
      PROVE  DevicesInv'
  BY <1>4, DisableEndpointKeepsInv
<1>5. ASSUME NEW u \in Holder, DeleteHolder(u)
      PROVE  DevicesInv'
  BY <1>5, DeleteHolderKeepsInv
<1>6. QED
  BY <1>1, <1>2, <1>3, <1>4, <1>5 DEF DevicesNext

(* A registration that was answered stands (DeviceTokenService.register,   *)
(* unregister and the clean-up of NotificationService), for any number of  *)
(* requests, accounts and tokens, unless a removal crossed it.             *)
THEOREM RegistrationsStand == DevicesSpec => []RegistrationStands
<1>1. DevicesInv => RegistrationStands
  BY DEF DevicesInv, Registered, RegistrationStands
<1>2. QED
  BY <1>1, DevicesInit_Inv, DevicesStep, PTL DEF DevicesSpec

-----------------------------------------------------------------------------
(* Photos.                                                                 *)

(* What is left to do of a change; a deletion of the old object is due.    *)
Plan == {<<"drop", "upload", "write">>, <<"upload", "drop", "write">>,
         <<"upload", "write">>, <<"drop", "write">>, <<"write">>}
DropDue(c) ==
    change[c].todo \in {<<"drop", "upload", "write">>, <<"upload", "drop", "write">>,
                        <<"drop", "write">>}

(* A key is an upload that was made; the key of a change is stored, and    *)
(* nobody has seen it in a row.                                            *)
PhotosTyped ==
    /\ kind \in Kind /\ recent \in BOOLEAN /\ upset \in BOOLEAN
    /\ ~gone => orphans = {}
    /\ uploaded \in Nat
    /\ pictured \subseteq 1..uploaded /\ stored \subseteq 1..uploaded
    /\ change \in [Change -> [todo : Plan \cup {<<>>}, old : 0..uploaded, new : 0..uploaded]]
    /\ \A c \in Change : change[c].todo = <<>> => change[c] = NoChange

NewIsUnseen ==
    \A c \in Change :
        change[c].new # NoPhoto =>
            /\ change[c].todo \in {<<"drop", "write">>, <<"write">>}
            /\ change[c].new \in stored \ pictured
            /\ \A b \in Change : /\ change[b].old # change[c].new
                                 /\ b # c => change[b].new # change[c].new

ShownIsStored ==
    \A p \in pictured : \/ p \in stored \/ p \in torn
                        \/ \E c \in Change : change[c].old = p

(* Only a gallery has several pictures. *)
OnePicture == kind # "gallery" => \A p, q \in pictured : p = q

(* While nothing overlapped or failed one change runs at a time, and the   *)
(* bucket differs from the rows by its two objects.                        *)
Tidy ==
    ~upset =>
      /\ \A b, c \in Change : b = c \/ change[b] = NoChange \/ change[c] = NoChange
      /\ (\A c \in Change : change[c] = NoChange) => stored = pictured \cup orphans
      /\ \A c \in Change : change[c] # NoChange =>
           /\ ~gone
           /\ stored = (IF DropDue(c) THEN pictured ELSE pictured \ {change[c].old})
                         \cup ({change[c].new} \ {NoPhoto})
           /\ kind # "gallery" => pictured \subseteq {change[c].old}

PhotosInv == PhotosTyped /\ NewIsUnseen /\ ShownIsStored /\ OnePicture /\ Tidy

LEMMA PlanFacts ==
    ASSUME NEW todo \in Plan
    PROVE  /\ todo # <<>>
           /\ Head(todo) = "drop" => todo \in {<<"drop", "upload", "write">>, <<"drop", "write">>}
           /\ Head(todo) = "upload" =>
                 todo \in {<<"upload", "drop", "write">>, <<"upload", "write">>}
           /\ Head(todo) = "write" => todo = <<"write">>
           /\ todo = <<"drop", "upload", "write">> => Tail(todo) = <<"upload", "write">>
           /\ todo = <<"upload", "drop", "write">> => Tail(todo) = <<"drop", "write">>
           /\ todo = <<"upload", "write">> => Tail(todo) = <<"write">>
           /\ todo = <<"drop", "write">> => Tail(todo) = <<"write">>
           /\ todo \in {<<"upload", "write">>, <<"write">>} =>
                 todo \notin {<<"drop", "upload", "write">>, <<"upload", "drop", "write">>,
                             <<"drop", "write">>}
<1>1. /\ todo # <<>>
      /\ Head(todo) = "drop" => todo \in {<<"drop", "upload", "write">>, <<"drop", "write">>}
  BY DEF Plan
<1>2. Head(todo) = "upload" => todo \in {<<"upload", "drop", "write">>, <<"upload", "write">>}
  BY DEF Plan
<1>3. Head(todo) = "write" => todo = <<"write">>
  BY DEF Plan
<1>4. /\ Tail(<<"drop", "upload", "write">>) = <<"upload", "write">>
      /\ Tail(<<"upload", "drop", "write">>) = <<"drop", "write">>
  OBVIOUS
<1>5. Tail(<<"upload", "write">>) = <<"write">> /\ Tail(<<"drop", "write">>) = <<"write">>
  OBVIOUS
<1>6. todo \in {<<"upload", "write">>, <<"write">>} =>
        todo \notin {<<"drop", "upload", "write">>, <<"upload", "drop", "write">>,
                    <<"drop", "write">>}
  OBVIOUS
<1>7. QED
  BY <1>1, <1>2, <1>3, <1>4, <1>5, <1>6

LEMMA PhotosInit_Inv == PhotosInit => PhotosInv
<1> SUFFICES ASSUME PhotosInit PROVE PhotosInv
  OBVIOUS
<1>1. /\ pictured = {} /\ stored = {} /\ uploaded = 0 /\ \A c \in Change : change[c] = NoChange
      /\ kind \in Kind /\ recent = FALSE /\ upset = FALSE /\ orphans = {}
      /\ change = [c \in Change |-> NoChange]
  BY DEF PhotosInit
<1>2. PhotosTyped
  <2>1. NoChange \in [todo : Plan \cup {<<>>}, old : 0..0, new : 0..0]
    BY DEF NoChange, NoPhoto
  <2>2. QED
    BY <1>1, <2>1 DEF PhotosTyped
<1>3. QED
  BY <1>1, <1>2
  DEF PhotosInv, NewIsUnseen, ShownIsStored, OnePicture, Tidy, NoChange

(* A change begins: the old object it read is one that is shown, the only  *)
(* one unless it is of a gallery; a change that keeps the old has read     *)
(* none.                                                                   *)
LEMMA BegunKeepsInv ==
    ASSUME PhotosInv, NEW c \in Change, NEW old \in pictured \cup {NoPhoto},
           NEW todo \in Plan, Begun(c, old, todo),
           todo \in {<<"drop", "upload", "write">>, <<"upload", "drop", "write">>,
                     <<"drop", "write">>} \/ old = NoPhoto,
           kind # "gallery" => pictured \subseteq {old}
    PROVE  PhotosInv'
<1> DEFINE new == [todo |-> todo, old |-> old, new |-> NoPhoto]
<1>1. /\ ~gone /\ change[c] = NoChange /\ change' = [change EXCEPT ![c] = new]
      /\ upset' = (upset \/ \E b \in Change : change[b] # NoChange)
      /\ UNCHANGED <<kind, pictured, stored, uploaded, recent, torn, gone, orphans>>
  BY DEF Begun
<1>2. /\ new.todo = todo /\ new.old = old /\ new.new = NoPhoto /\ todo # <<>>
      /\ new # NoChange
  BY PlanFacts DEF NoChange
<1>3. /\ PhotosTyped /\ old \in 0..uploaded /\ 0 \notin pictured
  BY DEF PhotosInv, PhotosTyped, NoPhoto
<1> HIDE DEF new
<1>4. change'[c] = new /\ \A b \in Change : b # c => change'[b] = change[b]
  BY <1>1, <1>3 DEF PhotosTyped
<1>5. PhotosTyped'
  <2>1. new \in [todo : Plan \cup {<<>>}, old : 0..uploaded, new : 0..uploaded]
    BY <1>3 DEF new, PhotosTyped, NoPhoto
  <2>2. change' \in [Change -> [todo : Plan \cup {<<>>}, old : 0..uploaded, new : 0..uploaded]]
    BY <1>1, <1>3, <2>1 DEF PhotosTyped
  <2>3. upset' \in BOOLEAN
    BY <1>1
  <2>4. \A b \in Change : change'[b].todo = <<>> => change'[b] = NoChange
    BY <1>2, <1>3, <1>4 DEF PhotosTyped
  <2>5. QED
    BY <1>1, <1>3, <2>2, <2>3, <2>4 DEF PhotosTyped
<1>6. NewIsUnseen'
  BY <1>1, <1>2, <1>4 DEF PhotosInv, NewIsUnseen
<1>7. ShownIsStored'
  <2>1. change[c].old \notin pictured
    BY <1>1, <1>3 DEF NoChange, NoPhoto
  <2>2. QED
    BY <1>1, <1>4, <2>1 DEF PhotosInv, ShownIsStored
<1>8. OnePicture'
  BY <1>1 DEF PhotosInv, OnePicture
<1>9. Tidy'
  <2> SUFFICES ASSUME ~upset'
               PROVE  /\ \A b, d \in Change : b = d \/ change'[b] = NoChange \/ change'[d] = NoChange
                      /\ (\A d \in Change : change'[d] = NoChange) =>
                           stored' = pictured' \cup orphans'
                      /\ \A d \in Change : change'[d] # NoChange =>
                           /\ ~gone'
                           /\ stored' = (IF DropDue(d)' THEN pictured' ELSE pictured' \ {change'[d].old})
                                         \cup ({change'[d].new} \ {NoPhoto})
                           /\ kind' # "gallery" => pictured' \subseteq {change'[d].old}
    BY DEF Tidy
  <2>1. ~upset /\ \A b \in Change : change[b] = NoChange
    BY <1>1
  <2>2. stored = pictured
    BY <1>1, <1>3, <2>1 DEF PhotosInv, Tidy, PhotosTyped
  <2>3. \A b \in Change : b # c => change'[b] = NoChange
    BY <1>4, <2>1
  <2>4. stored' = (IF DropDue(c)' THEN pictured' ELSE pictured' \ {change'[c].old})
                    \cup ({change'[c].new} \ {NoPhoto})
    <3>1. {change'[c].new} \ {NoPhoto} = {} /\ change'[c].old = old /\ change'[c].todo = todo
      BY <1>2, <1>4
    <3>2. CASE DropDue(c)'
      BY <1>1, <2>2, <3>1, <3>2
    <3>3. CASE ~DropDue(c)'
      <4>1. old = NoPhoto
        BY <3>1, <3>3 DEF DropDue
      <4>2. QED
        BY <1>1, <1>3, <2>2, <3>1, <3>3, <4>1 DEF NoPhoto
    <3>4. QED
      BY <3>2, <3>3
  <2>5. QED
    BY <1>1, <1>2, <1>4, <2>3, <2>4
<1>10. QED
  BY <1>5, <1>6, <1>7, <1>8, <1>9 DEF PhotosInv

LEMMA ReplaceKeepsInv ==
    ASSUME PhotosInv, NEW c \in Change, ReplacePhoto(c) \/ ReplaceBanner(c)
    PROVE  PhotosInv'
<1>1. kind # "gallery" /\ OnePicture
  BY DEF PhotosInv, ReplacePhoto, ReplaceBanner
<1>2. Shown \in pictured \cup {NoPhoto} /\ pictured \subseteq {Shown}
  BY <1>1 DEF Shown, OnePicture
<1>3. /\ <<"drop", "upload", "write">> \in Plan /\ <<"upload", "drop", "write">> \in Plan
  BY DEF Plan
<1>4. Begun(c, Shown, <<"drop", "upload", "write">>) \/ Begun(c, Shown, <<"upload", "drop", "write">>)
  BY DEF ReplacePhoto, ReplaceBanner
<1>5. QED
  BY <1>2, <1>3, <1>4, BegunKeepsInv

LEMMA RemovePhotoKeepsInv ==
    ASSUME PhotosInv, NEW c \in Change, NEW p \in Photo, RemovePhoto(c, p)
    PROVE  PhotosInv'
<1>1. /\ p \in pictured /\ Begun(c, p, <<"drop", "write">>)
      /\ kind # "gallery" => pictured \subseteq {p}
  BY DEF PhotosInv, OnePicture, RemovePhoto
<1>2. <<"drop", "write">> \in Plan
  BY DEF Plan
<1>3. QED
  BY <1>1, <1>2, BegunKeepsInv

LEMMA AddProductImageKeepsInv ==
    ASSUME PhotosInv, NEW c \in Change, AddProductImage(c)
    PROVE  PhotosInv'
<1>1. kind = "gallery" /\ Begun(c, NoPhoto, <<"upload", "write">>)
  BY DEF AddProductImage
<1>2. <<"upload", "write">> \in Plan
  BY DEF Plan
<1>3. QED
  BY <1>1, <1>2, BegunKeepsInv

(* The request of c goes on as `next`; the others are left alone.          *)
Turned(c, next) ==
    /\ change'[c] = next
    /\ \A b \in Change : b # c => change'[b] = change[b]

LEMMA TurnedFacts ==
    ASSUME PhotosTyped, NEW c \in Change, NEW next,
           change' = [change EXCEPT ![c] = next],
           next \in [todo : Plan \cup {<<>>}, old : 0..uploaded', new : 0..uploaded'],
           uploaded' \in Nat, uploaded <= uploaded',
           next.todo = <<>> => next = NoChange
    PROVE  /\ Turned(c, next)
           /\ change' \in [Change -> [todo : Plan \cup {<<>>}, old : 0..uploaded',
                                      new : 0..uploaded']]
           /\ \A b \in Change : change'[b].todo = <<>> => change'[b] = NoChange
<1>1. Turned(c, next)
  BY DEF PhotosTyped, Turned
<1>2. ASSUME NEW b \in Change
      PROVE  change'[b] \in [todo : Plan \cup {<<>>}, old : 0..uploaded', new : 0..uploaded']
  <2>1. CASE b = c
    BY <1>1, <2>1 DEF Turned
  <2>2. CASE b # c
    <3>1. change[b] \in [todo : Plan \cup {<<>>}, old : 0..uploaded, new : 0..uploaded]
      BY DEF PhotosTyped
    <3>2. QED
      BY <1>1, <2>2, <3>1 DEF Turned, PhotosTyped
  <2>3. QED
    BY <2>1, <2>2
<1>3. change' = [b \in Change |-> change'[b]]
  BY DEF PhotosTyped
<1>4. QED
  BY <1>1, <1>2, <1>3 DEF Turned, PhotosTyped

(* The old object is deleted by a change that has seen it in the row.      *)
LEMMA DropObjectKeepsInv ==
    ASSUME PhotosInv, NEW c \in Change, DropObject(c)
    PROVE  PhotosInv'
<1> DEFINE next == [change[c] EXCEPT !.todo = Tail(@)]
<1>1. /\ change[c].todo # <<>> /\ Head(change[c].todo) = "drop"
      /\ \/ stored' = stored \ {change[c].old} /\ upset' = upset
         \/ upset' = TRUE /\ stored' = stored
      /\ change' = [change EXCEPT ![c] = next]
      /\ UNCHANGED <<kind, pictured, uploaded, recent, torn, gone, orphans>>
  BY DEF DropObject, Due, Doomed, Progress
<1>2. /\ PhotosTyped /\ 0 \notin pictured /\ 0 \notin stored
      /\ change[c] \in [todo : Plan \cup {<<>>}, old : 0..uploaded, new : 0..uploaded]
  BY DEF PhotosInv, PhotosTyped
<1>3. /\ change[c].todo \in {<<"drop", "upload", "write">>, <<"drop", "write">>}
      /\ Tail(change[c].todo) \in {<<"upload", "write">>, <<"write">>}
      /\ change[c].todo = <<"drop", "write">> => Tail(change[c].todo) = <<"write">>
      /\ Tail(change[c].todo) \in Plan /\ Tail(change[c].todo) # <<>>
  <2>1. change[c].todo \in Plan
    BY <1>1, <1>2
  <2>2. <<"upload", "write">> \in Plan /\ <<"write">> \in Plan
    BY DEF Plan
  <2>3. <<"upload", "write">> # <<>> /\ <<"write">> # <<>>
    BY <2>2, PlanFacts
  <2>4. QED
    BY <1>1, <2>1, <2>2, <2>3, PlanFacts
<1>4. /\ next.todo = Tail(change[c].todo) /\ next.old = change[c].old
      /\ next.new = change[c].new /\ next # NoChange /\ change[c] # NoChange
      /\ next \in [todo : Plan \cup {<<>>}, old : 0..uploaded, new : 0..uploaded]
  <2>1. PICK rest \in Plan : rest = Tail(change[c].todo) /\ rest # <<>>
    BY <1>3
  <2>2. next = [change[c] EXCEPT !.todo = rest]
    BY <2>1
  <2>3. /\ next.todo = rest /\ next.old = change[c].old /\ next.new = change[c].new
        /\ next \in [todo : Plan \cup {<<>>}, old : 0..uploaded, new : 0..uploaded]
    BY <1>2, <2>2
  <2>4. next # NoChange /\ change[c] # NoChange
    BY <1>1, <2>1, <2>3 DEF NoChange
  <2>5. QED
    BY <2>1, <2>3, <2>4
<1> HIDE DEF next
<1>5. /\ Turned(c, next)
      /\ change' \in [Change -> [todo : Plan \cup {<<>>}, old : 0..uploaded',
                                 new : 0..uploaded']]
      /\ \A b \in Change : change'[b].todo = <<>> => change'[b] = NoChange
  <2>1. uploaded' = uploaded /\ uploaded \in Nat /\ uploaded <= uploaded
    BY <1>1, <1>2 DEF PhotosTyped
  <2>2. /\ next \in [todo : Plan \cup {<<>>}, old : 0..uploaded', new : 0..uploaded']
        /\ next.todo = <<>> => next = NoChange
    BY <1>3, <1>4, <2>1
  <2>3. change' = [change EXCEPT ![c] = next]
    BY <1>1
  <2>4. QED
    BY <1>2, <2>1, <2>2, <2>3, TurnedFacts
<1>6. /\ stored' \subseteq stored
      /\ \A p \in stored : p \in stored' \/ p = change[c].old
  BY <1>1
<1>7. PhotosTyped'
  <2>1. upset' \in BOOLEAN /\ stored' \subseteq 1..uploaded
    BY <1>1, <1>2, <1>6 DEF PhotosTyped
  <2>2. QED
    BY <1>1, <1>2, <1>5, <2>1 DEF PhotosTyped
<1>8. NewIsUnseen'
  <2>1. ASSUME NEW b \in Change, change'[b].new # NoPhoto
        PROVE  /\ change'[b].todo \in {<<"drop", "write">>, <<"write">>}
               /\ change'[b].new \in stored' \ pictured'
               /\ \A a \in Change : /\ change'[a].old # change'[b].new
                                    /\ a # b => change'[a].new # change'[b].new
    <3>1. \A a \in Change : change'[a].old = change[a].old /\ change'[a].new = change[a].new
      BY <1>4, <1>5 DEF Turned
    <3>2. /\ change[b].todo \in {<<"drop", "write">>, <<"write">>}
          /\ change[b].new \in stored \ pictured
          /\ \A a \in Change : /\ change[a].old # change[b].new
                               /\ a # b => change[a].new # change[b].new
      BY <2>1, <3>1 DEF PhotosInv, NewIsUnseen
    <3>3. change'[b].todo \in {<<"drop", "write">>, <<"write">>}
      <4>1. CASE b = c
        <5>1. change[c].todo = <<"drop", "write">>
          <6>1. Head(<<"write">>) = "write"
            OBVIOUS
          <6>2. QED
            BY <1>1, <3>2, <4>1, <6>1
        <5>2. QED
          BY <1>3, <1>4, <1>5, <4>1, <5>1 DEF Turned
      <4>2. CASE b # c
        BY <1>5, <3>2, <4>2 DEF Turned
      <4>3. QED
        BY <4>1, <4>2
    <3>4. QED
      BY <1>1, <1>6, <3>1, <3>2, <3>3
  <2>2. QED
    BY <2>1 DEF NewIsUnseen
<1>9. ShownIsStored'
  BY <1>1, <1>4, <1>5, <1>6 DEF PhotosInv, ShownIsStored, Turned
<1>10. OnePicture'
  BY <1>1 DEF PhotosInv, OnePicture
<1>11. ASSUME ~upset'
       PROVE  /\ \A b \in Change : b # c => change'[b] = NoChange
              /\ ~gone'
              /\ stored' = (pictured' \ {change'[c].old}) \cup ({change'[c].new} \ {NoPhoto})
              /\ kind' # "gallery" => pictured' \subseteq {change'[c].old}
  <2>1. ~upset /\ stored' = stored \ {change[c].old}
    BY <1>1, <1>11
  <2>2. DropDue(c)
    BY <1>3 DEF DropDue
  <2>3. /\ ~gone /\ stored = pictured \cup ({change[c].new} \ {NoPhoto})
        /\ kind # "gallery" => pictured \subseteq {change[c].old}
        /\ \A b \in Change : b # c => change[b] = NoChange
    BY <1>4, <2>1, <2>2 DEF PhotosInv, Tidy
  <2>4. change[c].new # NoPhoto => change[c].new # change[c].old
    BY DEF PhotosInv, NewIsUnseen
  <2>5. change'[c].old = change[c].old /\ change'[c].new = change[c].new
    BY <1>4, <1>5 DEF Turned
  <2>6. stored' = (pictured \ {change[c].old}) \cup ({change[c].new} \ {NoPhoto})
    BY <2>1, <2>3, <2>4
  <2>7. QED
    BY <1>1, <1>5, <2>3, <2>5, <2>6 DEF Turned
<1>12. ~DropDue(c)'
  BY <1>3, <1>4, <1>5, PlanFacts DEF DropDue, Turned
<1>13. Tidy'
  <2>1. change'[c] # NoChange
    BY <1>4, <1>5 DEF Turned
  <2>2. QED
    BY <1>11, <1>12, <2>1 DEF Tidy
<1>14. QED
  BY <1>7, <1>8, <1>9, <1>10, <1>13 DEF PhotosInv

LEMMA UploadRecord ==
    ASSUME NEW n \in Nat, NEW r \in [todo : Plan \cup {<<>>}, old : 0..n, new : 0..n],
           NEW rest \in Plan, NEW key \in Nat, key > n
    PROVE  LET next == [[r EXCEPT !.todo = rest] EXCEPT !.new = key]
           IN  /\ next.todo = rest /\ next.old = r.old /\ next.new = key
               /\ next \in [todo : Plan \cup {<<>>}, old : 0..key, new : 0..key]
<1> DEFINE mid == [r EXCEPT !.todo = rest]
<1>1. /\ mid \in [todo : Plan \cup {<<>>}, old : 0..n, new : 0..n]
      /\ mid.todo = rest /\ mid.old = r.old
  OBVIOUS
<1> HIDE DEF mid
<1>2. LET next == [mid EXCEPT !.new = key]
      IN  /\ next.todo = mid.todo /\ next.old = mid.old /\ next.new = key
          /\ next \in [todo : Plan \cup {<<>>}, old : 0..key, new : 0..key]
  BY <1>1
<1>3. QED
  BY <1>1, <1>2 DEF mid

(* An upload makes a key that nobody has yet.                              *)
LEMMA UploadObjectKeepsInv ==
    ASSUME PhotosInv, NEW c \in Change, UploadObject(c)
    PROVE  PhotosInv'
<1>1. PICK key \in Nat : key = uploaded + 1
  BY DEF PhotosInv, PhotosTyped
<1> DEFINE next == [[change[c] EXCEPT !.todo = Tail(@)] EXCEPT !.new = key]
<1>2. /\ change[c].todo # <<>> /\ Head(change[c].todo) = "upload"
      /\ uploaded' = key /\ stored' = stored \cup {key}
      /\ change' = [change EXCEPT ![c] = next]
      /\ UNCHANGED <<kind, pictured, recent, torn, upset, gone, orphans>>
  BY <1>1 DEF UploadObject, Due, Progress
<1>3. /\ PhotosTyped /\ 0 \notin pictured /\ 0 \notin stored /\ uploaded \in Nat
      /\ change[c] \in [todo : Plan \cup {<<>>}, old : 0..uploaded, new : 0..uploaded]
      /\ key > uploaded /\ key \notin pictured /\ key \notin stored /\ key # NoPhoto
  BY <1>1 DEF PhotosInv, PhotosTyped, NoPhoto
<1>4. /\ change[c].todo \in {<<"upload", "drop", "write">>, <<"upload", "write">>}
      /\ Tail(change[c].todo) \in {<<"drop", "write">>, <<"write">>}
      /\ change[c].todo = <<"upload", "drop", "write">> =>
            Tail(change[c].todo) = <<"drop", "write">>
      /\ change[c].todo = <<"upload", "write">> => Tail(change[c].todo) = <<"write">>
      /\ Tail(change[c].todo) \in Plan /\ Tail(change[c].todo) # <<>>
  <2>1. change[c].todo \in Plan
    BY <1>2, <1>3
  <2>2. <<"drop", "write">> \in Plan /\ <<"write">> \in Plan
    BY DEF Plan
  <2>3. <<"drop", "write">> # <<>> /\ <<"write">> # <<>>
    BY <2>2, PlanFacts
  <2>4. QED
    BY <1>2, <2>1, <2>2, <2>3, PlanFacts
<1>5. /\ next.todo = Tail(change[c].todo) /\ next.old = change[c].old /\ next.new = key
      /\ next # NoChange /\ change[c] # NoChange
      /\ next \in [todo : Plan \cup {<<>>}, old : 0..key, new : 0..key]
  <2>1. PICK rest \in Plan : rest = Tail(change[c].todo) /\ rest # <<>>
    BY <1>4
  <2>2. next = [[change[c] EXCEPT !.todo = rest] EXCEPT !.new = key]
    BY <2>1
  <2> HIDE DEF next
  <2>3. /\ next.todo = rest /\ next.old = change[c].old /\ next.new = key
        /\ next \in [todo : Plan \cup {<<>>}, old : 0..key, new : 0..key]
    BY <1>3, <2>2, UploadRecord
  <2>4. next # NoChange /\ change[c] # NoChange
    BY <1>2, <2>1, <2>3 DEF NoChange
  <2>5. QED
    BY <2>1, <2>3, <2>4
<1>6. change[c].new = NoPhoto
  <2>1. Head(<<"drop", "write">>) = "drop" /\ Head(<<"write">>) = "write"
    OBVIOUS
  <2>2. QED
    BY <1>2, <2>1 DEF PhotosInv, NewIsUnseen
<1> HIDE DEF next
<1>7. /\ Turned(c, next)
      /\ change' \in [Change -> [todo : Plan \cup {<<>>}, old : 0..uploaded',
                                 new : 0..uploaded']]
      /\ \A b \in Change : change'[b].todo = <<>> => change'[b] = NoChange
  <2>1. /\ next \in [todo : Plan \cup {<<>>}, old : 0..uploaded', new : 0..uploaded']
        /\ next.todo = <<>> => next = NoChange
    BY <1>2, <1>4, <1>5
  <2>2. uploaded' \in Nat /\ uploaded <= uploaded' /\ change' = [change EXCEPT ![c] = next]
    BY <1>2, <1>3
  <2>3. QED
    BY <1>3, <2>1, <2>2, TurnedFacts
<1>8. PhotosTyped'
  <2>1. pictured' \subseteq 1..uploaded' /\ stored' \subseteq 1..uploaded'
    BY <1>2, <1>3 DEF PhotosTyped
  <2>2. QED
    BY <1>2, <1>3, <1>7, <2>1 DEF PhotosTyped
<1>9. \A b \in Change : change[b].old # key /\ change[b].new # key
  BY <1>3 DEF PhotosTyped
<1>10. NewIsUnseen'
  <2>1. ASSUME NEW b \in Change, change'[b].new # NoPhoto
        PROVE  /\ change'[b].todo \in {<<"drop", "write">>, <<"write">>}
               /\ change'[b].new \in stored' \ pictured'
               /\ \A a \in Change : /\ change'[a].old # change'[b].new
                                    /\ a # b => change'[a].new # change'[b].new
    <3>1. CASE b = c
      BY <1>2, <1>3, <1>4, <1>5, <1>7, <1>9, <3>1 DEF Turned
    <3>2. CASE b # c
      <4>1. change'[b] = change[b]
        BY <1>7, <3>2 DEF Turned
      <4>2. /\ change[b].todo \in {<<"drop", "write">>, <<"write">>}
            /\ change[b].new \in stored \ pictured
            /\ \A a \in Change : /\ change[a].old # change[b].new
                                 /\ a # b => change[a].new # change[b].new
        BY <2>1, <4>1 DEF PhotosInv, NewIsUnseen
      <4>3. \A a \in Change : /\ change'[a].old = change[a].old
                              /\ a # c => change'[a].new = change[a].new
        BY <1>5, <1>7 DEF Turned
      <4>4. change'[c].new # change[b].new
        BY <1>5, <1>7, <1>9 DEF Turned
      <4>5. QED
        BY <1>2, <4>1, <4>2, <4>3, <4>4
    <3>3. QED
      BY <3>1, <3>2
  <2>2. QED
    BY <2>1 DEF NewIsUnseen
<1>11. ShownIsStored'
  BY <1>2, <1>5, <1>7 DEF PhotosInv, ShownIsStored, Turned
<1>12. OnePicture'
  BY <1>2 DEF PhotosInv, OnePicture
<1>13. DropDue(c)' <=> DropDue(c)
  <2>1. change'[c].todo = Tail(change[c].todo)
    BY <1>5, <1>7 DEF Turned
  <2>2. QED
    BY <1>4, <2>1, PlanFacts DEF DropDue
<1>14. Tidy'
  <2>1. ASSUME ~upset'
        PROVE  /\ \A b \in Change : b # c => change'[b] = NoChange
               /\ ~gone'
               /\ stored' = (IF DropDue(c)' THEN pictured' ELSE pictured' \ {change'[c].old})
                              \cup ({change'[c].new} \ {NoPhoto})
               /\ kind' # "gallery" => pictured' \subseteq {change'[c].old}
    <3>1. /\ ~gone
          /\ stored = (IF DropDue(c) THEN pictured ELSE pictured \ {change[c].old})
                        \cup ({change[c].new} \ {NoPhoto})
          /\ kind # "gallery" => pictured \subseteq {change[c].old}
          /\ \A b \in Change : b # c => change[b] = NoChange
      BY <1>2, <1>5, <2>1 DEF PhotosInv, Tidy
    <3>2. change'[c].old = change[c].old /\ change'[c].new = key
      BY <1>5, <1>7 DEF Turned
    <3>3. stored' = (IF DropDue(c)' THEN pictured ELSE pictured \ {change[c].old}) \cup {key}
      BY <1>2, <1>6, <1>13, <3>1
    <3>4. {key} = {key} \ {NoPhoto}
      BY <1>3
    <3>5. QED
      BY <1>2, <1>7, <3>1, <3>2, <3>3, <3>4 DEF Turned
  <2>2. change'[c] # NoChange
    BY <1>5, <1>7 DEF Turned
  <2>3. QED
    BY <2>1, <2>2 DEF Tidy
<1>15. QED
  BY <1>8, <1>10, <1>11, <1>12, <1>14 DEF PhotosInv

(* The row shows the new picture: a gallery row of the old one is gone.    *)
LEMMA WritePhotoKeepsInv ==
    ASSUME PhotosInv, NEW c \in Change, WritePhoto(c)
    PROVE  PhotosInv'
<1> DEFINE new == {change[c].new} \ {NoPhoto}
<1>1. /\ change[c].todo # <<>> /\ Head(change[c].todo) = "write" /\ ~gone
      /\ pictured' = IF kind = "gallery" THEN (pictured \ {change[c].old}) \cup new ELSE new
      /\ recent' = (recent \/ (kind = "avatar" /\ new # {}))
      /\ change' = [change EXCEPT ![c] = NoChange]
      /\ UNCHANGED <<kind, stored, uploaded, torn, upset, gone, orphans>>
  BY DEF WritePhoto, Due
<1>2. /\ PhotosTyped /\ uploaded \in Nat
      /\ change[c] \in [todo : Plan \cup {<<>>}, old : 0..uploaded, new : 0..uploaded]
      /\ change[c] # NoChange
  BY <1>1 DEF PhotosInv, PhotosTyped, NoChange
<1>3. change[c].todo = <<"write">> /\ ~DropDue(c)
  BY <1>1, <1>2, PlanFacts DEF DropDue
<1>4. /\ Turned(c, NoChange)
      /\ change' \in [Change -> [todo : Plan \cup {<<>>}, old : 0..uploaded',
                                 new : 0..uploaded']]
      /\ \A b \in Change : change'[b].todo = <<>> => change'[b] = NoChange
  <2>1. NoChange \in [todo : Plan \cup {<<>>}, old : 0..uploaded', new : 0..uploaded']
    BY <1>1, <1>2 DEF NoChange, NoPhoto
  <2>2. uploaded' \in Nat /\ uploaded <= uploaded'
    BY <1>1, <1>2
  <2>3. QED
    BY <1>1, <1>2, <2>1, <2>2, TurnedFacts
<1>5. new \subseteq stored /\ pictured' \subseteq pictured \cup new
  BY <1>1 DEF PhotosInv, NewIsUnseen
<1>6. PhotosTyped'
  <2>1. recent' \in BOOLEAN
    BY <1>1, <1>2 DEF PhotosTyped
  <2>2. pictured' \subseteq 1..uploaded
    BY <1>2, <1>5 DEF PhotosTyped
  <2>3. QED
    BY <1>1, <1>2, <1>4, <2>1, <2>2 DEF PhotosTyped
<1>7. NewIsUnseen'
  <2>1. ASSUME NEW b \in Change, change'[b].new # NoPhoto
        PROVE  /\ change'[b].todo \in {<<"drop", "write">>, <<"write">>}
               /\ change'[b].new \in stored' \ pictured'
               /\ \A a \in Change : /\ change'[a].old # change'[b].new
                                    /\ a # b => change'[a].new # change'[b].new
    <3>1. b # c /\ change'[b] = change[b]
      BY <1>4, <2>1 DEF Turned, NoChange
    <3>2. /\ change[b].todo \in {<<"drop", "write">>, <<"write">>}
          /\ change[b].new \in stored \ pictured
          /\ \A a \in Change : /\ change[a].old # change[b].new
                               /\ a # b => change[a].new # change[b].new
      BY <2>1, <3>1 DEF PhotosInv, NewIsUnseen
    <3>3. change[b].new \notin new
      BY <3>1, <3>2
    <3>4. \A a \in Change : /\ change'[a].old \in {change[a].old, NoPhoto}
                            /\ change'[a].new \in {change[a].new, NoPhoto}
      BY <1>4 DEF Turned, NoChange
    <3>5. QED
      BY <1>1, <1>5, <2>1, <3>1, <3>2, <3>3, <3>4
  <2>2. QED
    BY <2>1 DEF NewIsUnseen
<1>8. ShownIsStored'
  <2>1. ASSUME NEW p \in pictured', p \notin new
        PROVE  p \in stored \/ p \in torn \/ \E b \in Change : change'[b].old = p
    <3>1. p \in pictured /\ p # change[c].old
      BY <1>1, <2>1
    <3>2. QED
      BY <1>4, <3>1 DEF PhotosInv, ShownIsStored, Turned
  <2>2. QED
    BY <1>1, <1>5, <2>1 DEF ShownIsStored
<1>9. OnePicture'
  BY <1>1 DEF OnePicture
<1>10. Tidy'
  <2>1. ASSUME ~upset'
        PROVE  (\A b \in Change : change'[b] = NoChange) /\ stored' = pictured' \cup orphans'
    <3>1. /\ stored = (pictured \ {change[c].old}) \cup new
          /\ kind # "gallery" => pictured \subseteq {change[c].old}
          /\ \A b \in Change : b # c => change[b] = NoChange
          /\ orphans' = {}
      BY <1>1, <1>2, <1>3, <2>1 DEF PhotosInv, Tidy, PhotosTyped
    <3>2. QED
      BY <1>1, <1>4, <3>1 DEF Turned
  <2>2. QED
    BY <2>1 DEF Tidy
<1>11. QED
  BY <1>6, <1>7, <1>8, <1>9, <1>10 DEF PhotosInv

(* A change that gives up may have deleted its old object: torn.           *)
LEMMA GiveUpKeepsInv ==
    ASSUME PhotosInv, NEW c \in Change, GiveUp(c)
    PROVE  PhotosInv'
<1>1. /\ change' = [change EXCEPT ![c] = NoChange]
      /\ torn' = torn \cup ({change[c].old} \ {NoPhoto}) /\ upset' = TRUE
      /\ UNCHANGED <<kind, pictured, stored, uploaded, recent, gone, orphans>>
  BY DEF GiveUp
<1>2. PhotosTyped /\ uploaded \in Nat /\ 0 \notin pictured
  BY DEF PhotosInv, PhotosTyped
<1>3. /\ Turned(c, NoChange)
      /\ change' \in [Change -> [todo : Plan \cup {<<>>}, old : 0..uploaded',
                                 new : 0..uploaded']]
      /\ \A b \in Change : change'[b].todo = <<>> => change'[b] = NoChange
  <2>1. NoChange \in [todo : Plan \cup {<<>>}, old : 0..uploaded', new : 0..uploaded']
    BY <1>1, <1>2 DEF NoChange, NoPhoto
  <2>2. uploaded' \in Nat /\ uploaded <= uploaded'
    BY <1>1, <1>2
  <2>3. QED
    BY <1>1, <1>2, <2>1, <2>2, TurnedFacts
<1>4. PhotosTyped'
  BY <1>1, <1>2, <1>3 DEF PhotosTyped
<1>5. NewIsUnseen'
  <2>1. \A a \in Change : /\ change'[a].old \in {change[a].old, NoPhoto}
                          /\ change'[a].new \in {change[a].new, NoPhoto}
    BY <1>3 DEF Turned, NoChange
  <2>2. \A a \in Change : change'[a].new # NoPhoto => change'[a] = change[a]
    BY <1>3 DEF Turned, NoChange
  <2>3. QED
    BY <1>1, <2>1, <2>2 DEF PhotosInv, NewIsUnseen
<1>6. ShownIsStored'
  BY <1>1, <1>2, <1>3 DEF PhotosInv, ShownIsStored, Turned, NoPhoto
<1>7. OnePicture' /\ Tidy'
  BY <1>1 DEF PhotosInv, OnePicture, Tidy
<1>8. QED
  BY <1>4, <1>5, <1>6, <1>7 DEF PhotosInv

(* The row is deleted: nothing is shown, and what was shown is an orphan.  *)
LEMMA DeleteRowKeepsInv ==
    ASSUME PhotosInv, DeleteRow
    PROVE  PhotosInv'
<1>1. /\ ~gone /\ gone' = TRUE /\ pictured' = {} /\ orphans' = pictured
      /\ upset' = (upset \/ \E c \in Change : change[c] # NoChange)
      /\ UNCHANGED <<kind, stored, uploaded, recent, change, torn>>
  BY DEF DeleteRow
<1>2. PhotosTyped'
  BY <1>1 DEF PhotosInv, PhotosTyped
<1>3. NewIsUnseen' /\ ShownIsStored' /\ OnePicture'
  BY <1>1 DEF PhotosInv, NewIsUnseen, ShownIsStored, OnePicture
<1>4. Tidy'
  <2> SUFFICES ASSUME ~upset'
               PROVE  (\A c \in Change : change'[c] = NoChange) /\ stored' = pictured' \cup orphans'
    BY DEF Tidy
  <2>1. ~upset /\ \A c \in Change : change[c] = NoChange
    BY <1>1
  <2>2. stored = pictured \cup orphans /\ orphans = {}
    BY <1>1, <2>1 DEF PhotosInv, Tidy, PhotosTyped
  <2>3. QED
    BY <1>1, <2>1, <2>2
<1>5. QED
  BY <1>2, <1>3, <1>4 DEF PhotosInv

LEMMA PhotosStep == PhotosInv /\ [PhotosNext]_photosVars => PhotosInv'
<1> SUFFICES ASSUME PhotosInv, [PhotosNext]_photosVars PROVE PhotosInv'
  OBVIOUS
<1>1. CASE UNCHANGED <<kind, pictured, stored, uploaded, change, torn, upset, gone, orphans>>
           /\ recent' \in BOOLEAN
  BY <1>1 DEF PhotosInv, PhotosTyped, NewIsUnseen, ShownIsStored, OnePicture, Tidy, DropDue
<1>2. CASE UNCHANGED photosVars \/ WaitForAvatar
  BY <1>1, <1>2 DEF photosVars, WaitForAvatar, PhotosInv, PhotosTyped
<1>3. ASSUME NEW c \in Change,
             \/ ReplacePhoto(c) \/ ReplaceBanner(c) \/ AddProductImage(c)
             \/ \E p \in Photo : RemovePhoto(c, p)
      PROVE  PhotosInv'
  BY <1>3, ReplaceKeepsInv, RemovePhotoKeepsInv, AddProductImageKeepsInv
<1>4. ASSUME NEW c \in Change,
             DropObject(c) \/ UploadObject(c) \/ WritePhoto(c) \/ GiveUp(c)
      PROVE  PhotosInv'
  BY <1>4, DropObjectKeepsInv, UploadObjectKeepsInv, WritePhotoKeepsInv, GiveUpKeepsInv
<1>5. CASE DeleteGallery \/ DeleteAccount
  BY <1>5, DeleteRowKeepsInv DEF DeleteGallery, DeleteAccount
<1>6. QED
  BY <1>2, <1>3, <1>4, <1>5 DEF PhotosNext

(* A picture that is shown is in the bucket (ProfileService.updateAvatar   *)
(* and removeAvatar, the photos of a shop and the images of a product),    *)
(* for any number of changes at once, but for one that is being replaced   *)
(* or was abandoned half-way; and nothing else is stored, unless changes   *)
(* overlapped or failed, but what the row showed when it was deleted with  *)
(* its product or its account (deleteProduct, deleteAccount).              *)
THEOREM PhotosAreStored == PhotosSpec => []PhotoIsStored
<1>1. PhotosInv => PhotoIsStored
  BY DEF PhotosInv, ShownIsStored, Tidy, PhotoIsStored
<1>2. QED
  BY <1>1, PhotosInit_Inv, PhotosStep, PTL DEF PhotosSpec

-----------------------------------------------------------------------------
(* AddressBook.                                                            *)

Writing == [pc : {"idle", "clear", "insert", "write", "delete", "list", "promote"},
            op : {"create", "update", "remove"},
            address : Address \cup {NoAddress}, asked : Asked]

BookTyped ==
    /\ book \in [Address -> {"unused", "plain", "default", "deleted"}]
    /\ writer \in [Writer -> Writing]
    /\ mishap \subseteq {"overlap", "failure", "declined"}

(* What a request r is about. *)
WellFormed(r) ==
    /\ r.pc = "idle" => r = AtEase
    /\ r.pc # "idle" => r.address \in Address
    /\ r.pc \in {"clear", "list", "promote"} => r.asked = "yes"
    /\ r.pc = "insert" => r.op = "create"
    /\ r.pc \in {"write", "delete", "list", "promote"} => r.op # "create"

(* A request about to make a default has found no other, or cleared it.    *)
FoundNoOther(r) ==
    r.pc \in {"insert", "write", "promote"} /\ r.asked = "yes" =>
        Defaults \subseteq {r.address}

(* A request that began with a default, or with no address at all, is      *)
(* about to make one, or keeps the one that is there.                      *)
LeavesDefault(r) ==
    /\ r.asked # "no"
    /\ r.op = "create" => book[r.address] = "unused"
    /\ r.pc \in {"clear", "write"} /\ r.op # "create" => r.address \in Saved
    /\ r.pc \in {"delete", "promote"} => r.address \in Saved
    /\ r.pc \in {"insert", "write"} /\ r.asked = "unset" => Defaults # {}
    /\ r.pc = "delete" /\ r.asked = "unset" => Defaults \ {r.address} # {}

(* Without an overlap one request runs at a time and there is one default  *)
(* at most.                                                                *)
OneDefault ==
    "overlap" \notin mishap =>
      /\ \A v, w \in Writer : v = w \/ writer[v] = AtEase \/ writer[w] = AtEase
      /\ \A a, b \in Defaults : a = b
      /\ \A w \in Writer : FoundNoOther(writer[w])

DefaultToCome ==
    mishap = {} =>
      /\ Quiet => Saved = {} \/ Defaults # {}
      /\ \A w \in Writer : writer[w] = AtEase \/ LeavesDefault(writer[w])

BookInv ==
    /\ BookTyped
    /\ \A w \in Writer : WellFormed(writer[w])
    /\ OneDefault
    /\ DefaultToCome

LEMMA AddressSets ==
    ASSUME BookTyped
    PROVE  /\ Defaults \subseteq Saved /\ Saved \subseteq Address
           /\ IsFiniteSet(Defaults)
           /\ (\A a, b \in Defaults : a = b) => Cardinality(Defaults) <= 1
           /\ InOrder => \A a, b \in Defaults : a = b
           /\ InOrder => Saved = {} \/ Defaults # {}
<1>1. Defaults \subseteq Saved /\ Saved \subseteq Address
  BY DEF Defaults, Saved
<1>2. IsFiniteSet(Defaults)
  BY <1>1, AddressBookAssumption, FS_Subset
<1>3. ASSUME \A a, b \in Defaults : a = b
      PROVE  Cardinality(Defaults) <= 1
  <2>1. CASE Defaults = {}
    BY <2>1, FS_EmptySet
  <2>2. CASE Defaults # {}
    <3>1. \E a \in Defaults : Defaults = {a}
      BY <1>3, <2>2
    <3>2. Cardinality(Defaults) = 1
      BY <1>2, <3>1, FS_Singleton
    <3>3. QED
      BY <3>2
  <2>3. QED
    BY <2>1, <2>2
<1>4. ASSUME InOrder
      PROVE  (\A a, b \in Defaults : a = b) /\ (Saved = {} \/ Defaults # {})
  <2>1. CASE Saved = {}
    BY <1>1, <2>1
  <2>2. CASE Cardinality(Defaults) = 1
    <3>1. PICK x : Defaults = {x}
      BY <1>2, <2>2, FS_Singleton
    <3>2. QED
      BY <3>1
  <2>3. QED
    BY <1>4, <2>1, <2>2 DEF InOrder
<1>5. QED
  BY <1>1, <1>2, <1>3, <1>4

LEMMA BookInit_Inv == BookInit => BookInv
<1> SUFFICES ASSUME BookInit PROVE BookInv
  OBVIOUS
<1>1. AtEase \in Writing /\ AtEase.pc = "idle" /\ AtEase.op = "create"
  BY DEF AtEase, Writing, Asked, NoAddress
<1>2. BookTyped
  BY <1>1 DEF BookInit, BookTyped
<1>3. Defaults = {} /\ Saved = {}
  BY DEF BookInit, Defaults, Saved
<1>4. \A w \in Writer : writer[w] = AtEase
  BY DEF BookInit
<1>5. QED
  BY <1>1, <1>2, <1>3, <1>4
  DEF BookInv, WellFormed, OneDefault, DefaultToCome, FoundNoOther

(* A request begins: one that overlaps no other finds the book in order or *)
(* as the last one left it.                                                *)
LEMMA ArriveKeepsInv ==
    ASSUME BookInv, NEW w \in Writer, NEW op \in {"create", "update", "remove"},
           NEW pc \in {"clear", "insert", "write", "delete"}, NEW a \in Address,
           NEW asked \in Asked, Arrive(w, op, pc, a, asked),
           pc = "clear" => asked = "yes",
           pc \in {"insert", "write"} => asked # "yes",
           pc = "insert" <=> op = "create" /\ pc # "clear",
           op = "create" => book[a] = "unused",
           op # "create" => a \in Saved,
           pc = "insert" /\ asked = "unset" => Saved # {},
           pc = "delete" /\ asked # "yes" => a \notin Defaults,
           pc = "delete" => op # "create"
    PROVE  BookInv'
<1> DEFINE new == [pc |-> pc, op |-> op, address |-> a, asked |-> asked]
<1>1. /\ writer[w] = AtEase /\ book' = book
      /\ writer' = [writer EXCEPT ![w] = new]
      /\ mishap' = (IF Quiet /\ InOrder THEN {} ELSE mishap)
                     \cup (IF Quiet THEN {} ELSE {"overlap"})
                     \cup (IF asked = "no" THEN {"declined"} ELSE {})
  BY DEF Arrive
<1>2. /\ new \in Writing /\ new.pc = pc /\ new.op = op /\ new.address = a
      /\ new.asked = asked /\ new # AtEase
  BY DEF Writing, AtEase
<1> HIDE DEF new
<1>3. BookTyped /\ Defaults' = Defaults /\ Saved' = Saved
  BY <1>1 DEF BookInv, Defaults, Saved
<1>4. writer'[w] = new /\ \A v \in Writer : v # w => writer'[v] = writer[v]
  BY <1>1, <1>3 DEF BookTyped
<1>5. BookTyped'
  BY <1>1, <1>2, <1>3 DEF BookTyped
<1>6. \A v \in Writer : WellFormed(writer'[v])
  <2>1. WellFormed(new)
    BY <1>2 DEF WellFormed
  <2>2. QED
    BY <1>4, <2>1 DEF BookInv
<1>7. OneDefault'
  <2> SUFFICES ASSUME "overlap" \notin mishap'
               PROVE  /\ \A u, v \in Writer : u = v \/ writer'[u] = AtEase \/ writer'[v] = AtEase
                      /\ \A b, c \in Defaults : b = c
                      /\ \A v \in Writer : FoundNoOther(writer[v])'
    BY <1>3 DEF OneDefault
  <2>1. Quiet /\ (InOrder \/ "overlap" \notin mishap)
    BY <1>1
  <2>2. \A v \in Writer : v # w => writer'[v] = AtEase
    BY <1>4, <2>1 DEF Quiet
  <2>3. \A b, c \in Defaults : b = c
    BY <1>3, <2>1, AddressSets DEF BookInv, OneDefault
  <2>4. \A v \in Writer : FoundNoOther(writer[v])'
    BY <1>2, <1>4, <2>2 DEF FoundNoOther, AtEase
  <2>5. QED
    BY <2>2, <2>3, <2>4
<1>8. DefaultToCome'
  <2> SUFFICES ASSUME mishap' = {}
               PROVE  /\ Quiet' => Saved' = {} \/ Defaults' # {}
                      /\ \A v \in Writer : writer'[v] = AtEase \/ LeavesDefault(writer[v])'
    BY DEF DefaultToCome
  <2>1. Quiet /\ (InOrder \/ mishap = {}) /\ asked # "no"
    BY <1>1
  <2>2. Saved = {} \/ Defaults # {}
    BY <1>3, <2>1, AddressSets DEF BookInv, DefaultToCome
  <2>3. \A v \in Writer : v # w => writer'[v] = AtEase
    BY <1>4, <2>1 DEF Quiet
  <2>4. LeavesDefault(writer[w])'
    BY <1>1, <1>2, <1>3, <1>4, <2>1, <2>2 DEF LeavesDefault
  <2>5. QED
    BY <1>2, <1>4, <2>3, <2>4 DEF Quiet
<1>9. QED
  BY <1>5, <1>6, <1>7, <1>8 DEF BookInv

LEMMA CreateAddressKeepsInv ==
    ASSUME BookInv, NEW w \in Writer, NEW a \in Address, NEW asked \in Asked,
           CreateAddress(w, a, asked)
    PROVE  BookInv'
<1>1. book[a] = "unused"
  BY DEF CreateAddress
<1>2. CASE asked = "yes" \/ (asked = "unset" /\ Saved = {})
  <2>1. Arrive(w, "create", "clear", a, "yes")
    BY <1>2 DEF CreateAddress
  <2>2. QED
    BY <1>1, <2>1, ArriveKeepsInv DEF Asked
<1>3. CASE ~(asked = "yes" \/ (asked = "unset" /\ Saved = {}))
  <2>1. Arrive(w, "create", "insert", a, asked)
    BY <1>3 DEF CreateAddress
  <2>2. QED
    BY <1>1, <1>3, <2>1, ArriveKeepsInv
<1>4. QED
  BY <1>2, <1>3

LEMMA UpdateAddressKeepsInv ==
    ASSUME BookInv, NEW w \in Writer, NEW a \in Address, NEW asked \in Asked,
           UpdateAddress(w, a, asked)
    PROVE  BookInv'
<1>1. a \in Saved /\ Arrive(w, "update", IF asked = "yes" THEN "clear" ELSE "write", a, asked)
  BY DEF UpdateAddress
<1>2. CASE asked = "yes"
  BY <1>1, <1>2, ArriveKeepsInv
<1>3. CASE asked # "yes"
  BY <1>1, <1>3, ArriveKeepsInv
<1>4. QED
  BY <1>2, <1>3

LEMMA RemoveAddressKeepsInv ==
    ASSUME BookInv, NEW w \in Writer, NEW a \in Address, RemoveAddress(w, a)
    PROVE  BookInv'
<1>1. a \in Saved /\ Arrive(w, "remove", "delete", a, IF a \in Defaults THEN "yes" ELSE "unset")
  BY DEF RemoveAddress
<1>2. CASE a \in Defaults
  BY <1>1, <1>2, ArriveKeepsInv DEF Asked
<1>3. CASE a \notin Defaults
  BY <1>1, <1>3, ArriveKeepsInv DEF Asked
<1>4. QED
  BY <1>2, <1>3

(* What a request in flight can rely on.                                   *)
LEMMA InFlight ==
    ASSUME BookInv, NEW w \in Writer, writer[w].pc # "idle"
    PROVE  /\ writer[w] \in Writing /\ writer[w].address \in Address
           /\ "overlap" \notin mishap =>
                /\ \A v \in Writer : v # w => writer[v] = AtEase
                /\ \A a, b \in Defaults : a = b
                /\ FoundNoOther(writer[w])
           /\ mishap = {} => LeavesDefault(writer[w])
<1>1. writer[w] # AtEase
  BY DEF AtEase
<1>2. QED
  BY <1>1 DEF BookInv, BookTyped, WellFormed, OneDefault, DefaultToCome

(* One request goes on or ends: what it owes the invariant.                *)
LEMMA WriterMoves ==
    ASSUME BookInv, NEW w \in Writer, writer[w].pc # "idle",
           NEW r \in Writing, writer' = [writer EXCEPT ![w] = r], WellFormed(r),
           book' \in [Address -> {"unused", "plain", "default", "deleted"}],
           mishap' \in {mishap, mishap \cup {"failure"}},
           "overlap" \notin mishap =>
               /\ \A a, b \in Defaults' : a = b
               /\ FoundNoOther(r)',
           mishap' = {} /\ r = AtEase => Saved' = {} \/ Defaults' # {},
           mishap' = {} /\ r # AtEase => LeavesDefault(r)'
    PROVE  BookInv'
<1>1. writer'[w] = r /\ \A v \in Writer : v # w => writer'[v] = writer[v]
  BY DEF BookInv, BookTyped
<1>2. BookTyped'
  BY DEF BookInv, BookTyped
<1>3. \A v \in Writer : WellFormed(writer'[v])
  BY <1>1 DEF BookInv
<1>4. OneDefault'
  <2> SUFFICES ASSUME "overlap" \notin mishap'
               PROVE  /\ \A u, v \in Writer : u = v \/ writer'[u] = AtEase \/ writer'[v] = AtEase
                      /\ \A b, c \in Defaults' : b = c
                      /\ \A v \in Writer : FoundNoOther(writer[v])'
    BY DEF OneDefault
  <2>1. "overlap" \notin mishap
    OBVIOUS
  <2>2. \A v \in Writer : v # w => writer'[v] = AtEase
    BY <1>1, <2>1, InFlight
  <2>3. FoundNoOther(writer[w])'
    BY <1>1, <2>1 DEF FoundNoOther
  <2>4. \A v \in Writer : v # w => FoundNoOther(writer[v])'
    BY <2>2 DEF FoundNoOther, AtEase
  <2>5. QED
    BY <2>1, <2>2, <2>3, <2>4
<1>5. DefaultToCome'
  <2> SUFFICES ASSUME mishap' = {}
               PROVE  /\ Quiet' => Saved' = {} \/ Defaults' # {}
                      /\ \A v \in Writer : writer'[v] = AtEase \/ LeavesDefault(writer[v])'
    BY DEF DefaultToCome
  <2>1. "overlap" \notin mishap
    OBVIOUS
  <2>2. \A v \in Writer : v # w => writer'[v] = AtEase
    BY <1>1, <2>1, InFlight
  <2>3. r # AtEase => LeavesDefault(writer[w])'
    BY <1>1 DEF LeavesDefault
  <2>4. QED
    BY <1>1, <2>2, <2>3 DEF Quiet
<1>6. QED
  BY <1>2, <1>3, <1>4, <1>5 DEF BookInv

(* The others lose the flag; which addresses are saved does not change.    *)
LEMMA ClearDefaultKeepsInv ==
    ASSUME BookInv, NEW w \in Writer, ClearDefault(w)
    PROVE  BookInv'
<1>1. /\ writer[w].pc = "clear" /\ mishap' = mishap
      /\ book' = Cleared(writer[w].address)
  BY DEF ClearDefault
<1>2. PICK a \in Address : a = writer[w].address
  BY <1>1, InFlight
<1>3. PICK r : r = [writer[w] EXCEPT !.pc = IF writer[w].op = "create" THEN "insert" ELSE "write"]
  OBVIOUS
<1>4. writer' = [writer EXCEPT ![w] = r]
  BY <1>3 DEF ClearDefault, Onward
<1>5. /\ r \in Writing /\ r.address = a /\ r.op = writer[w].op /\ r.asked = "yes"
      /\ r.pc = IF r.op = "create" THEN "insert" ELSE "write"
  <2>1. writer[w] \in Writing /\ writer[w].asked = "yes"
    BY <1>1, InFlight DEF BookInv, WellFormed
  <2>2. QED
    BY <1>2, <1>3, <2>1 DEF Writing
<1>6. /\ book' \in [Address -> {"unused", "plain", "default", "deleted"}]
      /\ Saved' = Saved /\ Defaults' = Defaults \cap {a}
      /\ book[a] = "unused" => book'[a] = "unused"
  BY <1>1, <1>2 DEF Cleared, BookInv, BookTyped, Saved, Defaults
<1>7. WellFormed(r) /\ r # AtEase
  BY <1>2, <1>5 DEF WellFormed, AtEase
<1>8. FoundNoOther(r)'
  BY <1>5, <1>6 DEF FoundNoOther
<1>9. mishap = {} => LeavesDefault(r)'
  <2>1. mishap = {} => LeavesDefault(writer[w])
    BY <1>1, InFlight
  <2>2. QED
    BY <1>1, <1>2, <1>5, <1>6, <2>1 DEF LeavesDefault
<1>10. QED
  BY <1>1, <1>4, <1>5, <1>6, <1>7, <1>8, <1>9, WriterMoves

(* A request that ends: what it leaves in the book.                        *)
LEMMA WriterLeaves ==
    ASSUME BookInv, NEW w \in Writer, writer[w].pc # "idle", Leave(w),
           book' \in [Address -> {"unused", "plain", "default", "deleted"}],
           mishap' \in {mishap, mishap \cup {"failure"}},
           "overlap" \notin mishap => \A a, b \in Defaults' : a = b,
           mishap' = {} => Saved' = {} \/ Defaults' # {}
    PROVE  BookInv'
<1>1. PICK r : r = AtEase
  OBVIOUS
<1>2. r \in Writing /\ WellFormed(r) /\ FoundNoOther(r)'
  BY <1>1 DEF AtEase, Writing, Asked, WellFormed, FoundNoOther
<1>3. writer' = [writer EXCEPT ![w] = r]
  BY <1>1 DEF Leave
<1>4. QED
  BY <1>1, <1>2, <1>3, WriterMoves

LEMMA InsertAddressKeepsInv ==
    ASSUME BookInv, NEW w \in Writer, InsertAddress(w)
    PROVE  BookInv'
<1>1. PICK a \in Address : a = writer[w].address
  BY InFlight DEF InsertAddress
<1>2. /\ writer[w].pc = "insert" /\ Leave(w) /\ mishap' = mishap
      /\ book' = [book EXCEPT ![a] = IF writer[w].asked = "yes" THEN "default" ELSE "plain"]
  BY <1>1 DEF InsertAddress
<1>3. /\ book' \in [Address -> {"unused", "plain", "default", "deleted"}]
      /\ writer[w].asked = "yes" => Defaults' = Defaults \cup {a}
      /\ writer[w].asked # "yes" => Defaults' = Defaults \ {a}
  BY <1>2 DEF BookInv, BookTyped, Defaults
<1>4. "overlap" \notin mishap => \A b, c \in Defaults' : b = c
  BY <1>1, <1>2, <1>3, InFlight DEF FoundNoOther
<1>5. ASSUME mishap = {}
      PROVE  Defaults' # {}
  <2>1. CASE writer[w].asked = "yes"
    BY <1>3, <2>1
  <2>2. CASE writer[w].asked # "yes"
    <3>1. LeavesDefault(writer[w]) /\ writer[w].op = "create" /\ writer[w].asked \in Asked
      BY <1>2, <1>5, InFlight DEF BookInv, WellFormed, Writing
    <3>2. book[a] = "unused" /\ Defaults # {}
      BY <1>1, <1>2, <2>2, <3>1 DEF LeavesDefault, Asked
    <3>3. QED
      BY <1>3, <2>2, <3>2 DEF Defaults
  <2>3. QED
    BY <2>1, <2>2
<1>6. QED
  BY <1>2, <1>3, <1>4, <1>5, WriterLeaves

(* The row that is written is there unless the requests overlapped.        *)
LEMMA WriteAddressKeepsInv ==
    ASSUME BookInv, NEW w \in Writer, WriteAddress(w)
    PROVE  BookInv'
<1>1. PICK a \in Address : a = writer[w].address
  BY InFlight DEF WriteAddress
<1>2. /\ writer[w].pc \in {"write", "promote"} /\ Leave(w) /\ mishap' = mishap
      /\ book' = IF a \in Saved
                   THEN [book EXCEPT ![a] =
                           [unset |-> book[a], yes |-> "default", no |-> "plain"][writer[w].asked]]
                   ELSE book
  BY <1>1 DEF WriteAddress
<1>3. mishap = {} => a \in Saved /\ LeavesDefault(writer[w])
  BY <1>1, <1>2, InFlight DEF BookInv, WellFormed, LeavesDefault
<1>4. book \in [Address -> {"unused", "plain", "default", "deleted"}]
  BY DEF BookInv, BookTyped
<1>5. /\ book' \in [Address -> {"unused", "plain", "default", "deleted"}]
      /\ "overlap" \notin mishap => \A b, c \in Defaults' : b = c
      /\ mishap = {} => Defaults' # {}
  <2>1. CASE a \notin Saved
    <3>1. book' = book
      BY <1>2, <2>1
    <3>2. QED
      BY <1>2, <1>3, <1>4, <2>1, <3>1, InFlight DEF Defaults
  <2>2. CASE a \in Saved /\ writer[w].asked = "unset"
    <3>1. book' = book
      BY <1>2, <1>4, <2>2
    <3>2. Defaults' = Defaults
      BY <3>1 DEF Defaults
    <3>3. mishap = {} => Defaults # {}
      <4>1. writer[w].pc = "write"
        BY <1>2, <2>2 DEF BookInv, WellFormed
      <4>2. QED
        BY <1>3, <2>2, <4>1 DEF LeavesDefault
    <3>4. QED
      BY <1>2, <1>4, <3>1, <3>2, <3>3, InFlight
  <2>3. CASE a \in Saved /\ writer[w].asked = "yes"
    <3>1. book' = [book EXCEPT ![a] = "default"]
      BY <1>2, <2>3
    <3>2. Defaults' = Defaults \cup {a}
      BY <1>4, <3>1 DEF Defaults
    <3>3. "overlap" \notin mishap => Defaults \subseteq {a}
      BY <1>1, <1>2, <2>3, InFlight DEF FoundNoOther
    <3>4. QED
      BY <1>4, <3>1, <3>2, <3>3
  <2>4. CASE a \in Saved /\ writer[w].asked = "no"
    <3>1. book' = [book EXCEPT ![a] = "plain"]
      BY <1>2, <2>4
    <3>2. Defaults' = Defaults \ {a}
      BY <1>4, <3>1 DEF Defaults
    <3>3. mishap # {}
      BY <1>3, <2>4 DEF LeavesDefault
    <3>4. QED
      BY <1>2, <1>4, <3>1, <3>2, <3>3, InFlight
  <2>5. writer[w].asked \in Asked
    BY <1>2, InFlight DEF Writing
  <2>6. QED
    BY <2>1, <2>2, <2>3, <2>4, <2>5 DEF Asked
<1>6. QED
  BY <1>2, <1>5, WriterLeaves

(* The default goes with its row: the request goes on to promote another.  *)
LEMMA DeleteAddressKeepsInv ==
    ASSUME BookInv, NEW w \in Writer, DeleteAddress(w)
    PROVE  BookInv'
<1>1. PICK a \in Address : a = writer[w].address
  BY InFlight DEF DeleteAddress
<1>2. /\ writer[w].pc = "delete" /\ mishap' = mishap
      /\ book' = [book EXCEPT ![a] = "deleted"]
      /\ IF a \in Saved /\ writer[w].asked = "yes" THEN Onward(w, "list") ELSE Leave(w)
  BY <1>1 DEF DeleteAddress
<1>3. /\ book' \in [Address -> {"unused", "plain", "default", "deleted"}]
      /\ Defaults' = Defaults \ {a}
  BY <1>2 DEF BookInv, BookTyped, Defaults
<1>4. "overlap" \notin mishap => \A b, c \in Defaults' : b = c
  BY <1>2, <1>3, InFlight
<1>5. writer[w] \in Writing /\ writer[w].op # "create" /\ (mishap = {} => LeavesDefault(writer[w]))
  BY <1>2, InFlight DEF BookInv, WellFormed
<1>6. CASE a \in Saved /\ writer[w].asked = "yes"
  <2>1. PICK r : r = [writer[w] EXCEPT !.pc = "list"]
    OBVIOUS
  <2>2. writer' = [writer EXCEPT ![w] = r]
    BY <1>2, <1>6, <2>1 DEF Onward
  <2>3. /\ r \in Writing /\ r.pc = "list" /\ r.op # "create" /\ r.asked = "yes"
        /\ r.address = a
    BY <1>1, <1>5, <1>6, <2>1 DEF Writing
  <2>4. WellFormed(r) /\ r # AtEase /\ FoundNoOther(r)' /\ LeavesDefault(r)'
    BY <2>3 DEF WellFormed, AtEase, FoundNoOther, LeavesDefault
  <2>5. QED
    BY <1>2, <1>3, <1>4, <2>2, <2>3, <2>4, WriterMoves
<1>7. CASE ~(a \in Saved /\ writer[w].asked = "yes")
  <2>1. Leave(w)
    BY <1>2, <1>7
  <2>2. mishap = {} => Defaults' # {}
    <3>1. mishap = {} => a \in Saved /\ writer[w].asked = "unset"
      BY <1>1, <1>2, <1>5, <1>7 DEF LeavesDefault, Writing, Asked
    <3>2. QED
      BY <1>1, <1>2, <1>3, <1>5, <3>1 DEF LeavesDefault
  <2>3. QED
    BY <1>2, <1>3, <1>4, <2>1, <2>2, WriterLeaves
<1>8. QED
  BY <1>6, <1>7

(* The address to promote is the default that is left, if one is.          *)
LEMMA ListRemainingKeepsInv ==
    ASSUME BookInv, NEW w \in Writer, ListRemaining(w)
    PROVE  BookInv'
<1>1. writer[w].pc = "list" /\ mishap' = mishap /\ book' = book
  BY DEF ListRemaining
<1>2. /\ book' \in [Address -> {"unused", "plain", "default", "deleted"}]
      /\ Defaults' = Defaults /\ Saved' = Saved
  BY <1>1 DEF BookInv, BookTyped, Defaults, Saved
<1>3. "overlap" \notin mishap => \A b, c \in Defaults : b = c
  BY <1>1, InFlight
<1>4. CASE Saved = {}
  <2>1. Leave(w)
    BY <1>4 DEF ListRemaining
  <2>2. QED
    BY <1>1, <1>2, <1>3, <1>4, <2>1, WriterLeaves
<1>5. CASE Saved # {}
  <2>1. PICK a \in Address : First(a) /\ writer' = [writer EXCEPT ![w].pc = "promote", ![w].address = a]
    BY <1>5 DEF ListRemaining
  <2>2. PICK r : r = [writer[w] EXCEPT !.pc = "promote", !.address = a]
    OBVIOUS
  <2>3. /\ writer[w] \in Writing /\ writer[w].op # "create" /\ writer[w].asked = "yes"
        /\ writer \in [Writer -> Writing]
    BY <1>1, InFlight DEF BookInv, BookTyped, WellFormed
  <2>4. writer' = [writer EXCEPT ![w] = r]
    BY <2>1, <2>2, <2>3
  <2>5. /\ r \in Writing /\ r.pc = "promote" /\ r.op # "create" /\ r.asked = "yes"
        /\ r.address = a
    BY <2>2, <2>3 DEF Writing
  <2>6. WellFormed(r) /\ r # AtEase
    BY <2>5 DEF WellFormed, AtEase
  <2>7. a \in Saved /\ ("overlap" \notin mishap => Defaults \subseteq {a})
    BY <1>3, <2>1 DEF First
  <2>8. /\ "overlap" \notin mishap => FoundNoOther(r)'
        /\ LeavesDefault(r)'
    BY <1>2, <2>5, <2>7 DEF FoundNoOther, LeavesDefault
  <2>9. QED
    BY <1>1, <1>2, <1>3, <2>4, <2>5, <2>6, <2>8, WriterMoves
<1>6. QED
  BY <1>4, <1>5

LEMMA LoseRequestKeepsInv ==
    ASSUME BookInv, NEW w \in Writer, LoseRequest(w)
    PROVE  BookInv'
<1>1. /\ writer[w].pc # "idle" /\ Leave(w) /\ book' = book
      /\ mishap' = mishap \cup {"failure"}
  BY DEF LoseRequest
<1>2. /\ book' \in [Address -> {"unused", "plain", "default", "deleted"}]
      /\ Defaults' = Defaults
  BY <1>1 DEF BookInv, BookTyped, Defaults
<1>3. QED
  BY <1>1, <1>2, InFlight, WriterLeaves

LEMMA BookStep == BookInv /\ [BookNext]_bookVars => BookInv'
<1> SUFFICES ASSUME BookInv, [BookNext]_bookVars PROVE BookInv'
  OBVIOUS
<1>1. CASE UNCHANGED bookVars
  BY <1>1 DEF bookVars, BookInv, BookTyped, WellFormed, OneDefault, DefaultToCome,
     FoundNoOther, LeavesDefault, Quiet, Saved, Defaults
<1>2. ASSUME NEW w \in Writer, NEW a \in Address, NEW asked \in Asked,
             CreateAddress(w, a, asked) \/ UpdateAddress(w, a, asked) \/ RemoveAddress(w, a)
      PROVE  BookInv'
  BY <1>2, CreateAddressKeepsInv, UpdateAddressKeepsInv, RemoveAddressKeepsInv
<1>3. ASSUME NEW w \in Writer,
             \/ ClearDefault(w) \/ InsertAddress(w) \/ WriteAddress(w)
             \/ DeleteAddress(w) \/ ListRemaining(w) \/ LoseRequest(w)
      PROVE  BookInv'
  BY <1>3, ClearDefaultKeepsInv, InsertAddressKeepsInv, WriteAddressKeepsInv,
     DeleteAddressKeepsInv, ListRemainingKeepsInv, LoseRequestKeepsInv
<1>4. "unset" \in Asked
  BY DEF Asked
<1>5. QED
  BY <1>1, <1>2, <1>3, <1>4 DEF BookNext

(* A customer never has two default addresses unless requests overlapped,  *)
(* and has one between requests unless one overlapped, failed half-way or  *)
(* declined it (AddressesService: the default moves in two statements and  *)
(* no transaction), for any number of addresses and requests.              *)
THEOREM DefaultIsReady == BookSpec => []DeliverToIsReady
<1>1. BookInv => DeliverToIsReady
  <2> SUFFICES ASSUME BookInv PROVE DeliverToIsReady
    OBVIOUS
  <2>1. Cardinality(Defaults) <= 1 \/ "overlap" \in mishap
    BY AddressSets DEF BookInv, OneDefault
  <2>2. Quiet /\ Saved # {} => Defaults # {} \/ mishap # {}
    BY DEF BookInv, DefaultToCome
  <2>3. QED
    BY <2>1, <2>2 DEF DeliverToIsReady
<1>2. QED
  BY <1>1, BookInit_Inv, BookStep, PTL DEF BookSpec

-----------------------------------------------------------------------------
(* Shops.                                                                  *)

Errand == [pc : {"idle", "create", "hours", "count", "activate", "hide", "set",
                 "clear", "stock", "discard"},
           shop : Nat, day : Day \cup {0}, product : Product \cup {0}]

Proper(q) ==
    /\ q.pc \notin {"idle", "create"} => q.shop \in Shop
    /\ q.pc = "set" => q.day \in Day
    /\ q.pc \in {"stock", "discard"} => q.product \in Product

Lapses == [twice : BOOLEAN, shut : SUBSET Shop, emptied : SUBSET Shop,
           unseen : SUBSET Shop]

ShopsTyped ==
    /\ shops \in 0..MaxShops
    /\ active \subseteq Shop
    /\ hours \in [Shop -> SUBSET Day]
    /\ shelf \in [Product -> Nat]
    /\ merchant \in [Merchant -> Errand]
    /\ lapse \in Lapses
    /\ \A m \in Merchant : Proper(merchant[m])

(* Registrations that did not look at once: the second finds the first's.  *)
OneShop ==
    ~lapse.twice =>
        /\ shops <= 1
        /\ \A m \in Waiting("create") : shops = 0 /\ Waiting("create") = {m}

HoursKnown ==
    \A s \in 1..shops :
        hours[s] = Day \/ s \in lapse.shut \/ \E m \in Waiting("hours") : merchant[m].shop = s

(* A product is on its way to the shelf once, and off the one it is on.    *)
OnItsWay ==
    /\ \A m \in Waiting("stock") :
         /\ shelf[merchant[m].product] = 0 /\ merchant[m].product # 0
         /\ \A n \in Merchant : n # m => merchant[n].product # merchant[m].product
    /\ \A m \in Waiting("discard") : shelf[merchant[m].product] \in {0, merchant[m].shop}

(* A shop that was counted offers something, or it is known why not.       *)
Excused(s) == s \in lapse.emptied \/ s \in lapse.unseen
ApprovedHasGoods == \A s \in Approved : Offered(s) # {} \/ Excused(s)

ShopsInv == ShopsTyped /\ OneShop /\ HoursKnown /\ OnItsWay /\ ApprovedHasGoods

LEMMA ShopsInit_Inv == ShopsInit => ShopsInv
<1> SUFFICES ASSUME ShopsInit PROVE ShopsInv
  OBVIOUS
<1>1. NotAsked \in Errand /\ NotAsked.pc = "idle"
  BY DEF NotAsked, Errand
<1>2. ShopsTyped
  BY <1>1, ShopsAssumption DEF ShopsInit, ShopsTyped, Proper, Shop, Lapses
<1>3. \A m \in Merchant : merchant[m].pc = "idle"
  BY <1>1 DEF ShopsInit
<1>4. \A pc : pc # "idle" => Waiting(pc) = {}
  BY <1>3 DEF Waiting
<1>5. QED
  BY <1>2, <1>4
  DEF ShopsInit, ShopsInv, OneShop, HoursKnown, OnItsWay, ApprovedHasGoods, Approved

(* One request changes: what it is about, and who waits for what.          *)
LEMMA ErrandChanges ==
    ASSUME ShopsInv, NEW m \in Merchant, NEW q \in Errand, Proper(q),
           merchant' = [merchant EXCEPT ![m] = q]
    PROVE  /\ merchant' \in [Merchant -> Errand]
           /\ \A n \in Merchant : Proper(merchant'[n])
           /\ merchant'[m] = q /\ \A n \in Merchant : n # m => merchant'[n] = merchant[n]
           /\ \A pc : Waiting(pc)' = IF q.pc = pc THEN Waiting(pc) \cup {m}
                                                  ELSE Waiting(pc) \ {m}
<1>1. merchant'[m] = q /\ \A n \in Merchant : n # m => merchant'[n] = merchant[n]
  BY DEF ShopsInv, ShopsTyped
<1>2. merchant' \in [Merchant -> Errand] /\ \A n \in Merchant : Proper(merchant'[n])
  BY <1>1 DEF ShopsInv, ShopsTyped
<1>3. \A pc : Waiting(pc)' = IF q.pc = pc THEN Waiting(pc) \cup {m} ELSE Waiting(pc) \ {m}
  BY <1>1 DEF Waiting
<1>4. QED
  BY <1>1, <1>2, <1>3

LEMMA OneShopStays ==
    ASSUME OneShop, shops' = shops, lapse'.twice = lapse.twice,
           Waiting("create")' \subseteq Waiting("create")
    PROVE  OneShop'
BY DEF OneShop

(* A request that moves no product leaves those on their way.              *)
LEMMA WayStays ==
    ASSUME ShopsInv, NEW m \in Merchant, NEW q \in Errand, Proper(q),
           merchant' = [merchant EXCEPT ![m] = q], shelf' = shelf,
           q.pc \notin {"stock", "discard"}, q.product \in {0, merchant[m].product}
    PROVE  OnItsWay'
<1>1. /\ merchant'[m] = q /\ \A n \in Merchant : n # m => merchant'[n] = merchant[n]
      /\ Waiting("stock")' = Waiting("stock") \ {m}
      /\ Waiting("discard")' = Waiting("discard") \ {m}
  BY ErrandChanges
<1>2. Waiting("stock") \subseteq Merchant /\ Waiting("discard") \subseteq Merchant
  BY DEF Waiting
<1>3. QED
  BY <1>1, <1>2 DEF ShopsInv, OnItsWay

LEMMA GoodsStay ==
    ASSUME ApprovedHasGoods, shelf' = shelf, lapse'.emptied = lapse.emptied,
           lapse'.unseen = lapse.unseen, Approved' \subseteq Approved
    PROVE  ApprovedHasGoods'
<1>1. \A s : Offered(s)' = Offered(s)
  BY DEF Offered, Goods
<1>2. QED
  BY <1>1 DEF ApprovedHasGoods, Excused

(* The hours of every shop stay known unless its own request ends.         *)
LEMMA HoursStay ==
    ASSUME HoursKnown, shops' = shops, NEW m,
           \A s \in 1..shops : hours[s] = Day => hours'[s] = Day \/ s \in lapse'.shut,
           lapse.shut \subseteq lapse'.shut,
           Waiting("hours") \ {m} \subseteq Waiting("hours")',
           \A n \in Waiting("hours") \ {m} : merchant'[n] = merchant[n],
           m \in Waiting("hours") =>
               merchant[m].shop \in lapse'.shut \/ hours'[merchant[m].shop] = Day
    PROVE  HoursKnown'
<1>1. ASSUME NEW s \in 1..shops
      PROVE  hours'[s] = Day \/ s \in lapse'.shut \/ \E n \in Waiting("hours")' : merchant'[n].shop = s
  BY DEF HoursKnown
<1>2. QED
  BY <1>1 DEF HoursKnown

(* A request ends: everything it waited for and was about is let go.       *)
LEMMA AnswerEffect ==
    ASSUME ShopsInv, NEW m \in Merchant, Answers(m)
    PROVE  /\ merchant' \in [Merchant -> Errand]
           /\ \A n \in Merchant : Proper(merchant'[n])
           /\ \A n \in Merchant : n # m => merchant'[n] = merchant[n]
           /\ merchant'[m].product = 0
           /\ \A pc : pc # "idle" => Waiting(pc)' = Waiting(pc) \ {m}
           /\ shelf' = shelf => OnItsWay'
           /\ active' \subseteq active => Approved' \subseteq Approved
<1>1. PICK q : q = NotAsked
  OBVIOUS
<1>2. q \in Errand /\ Proper(q) /\ q.pc = "idle" /\ q.product = 0
  BY <1>1 DEF NotAsked, Errand, Proper
<1>3. merchant' = [merchant EXCEPT ![m] = q]
  BY <1>1 DEF Answers
<1>4. /\ merchant' \in [Merchant -> Errand]
      /\ \A n \in Merchant : Proper(merchant'[n])
      /\ merchant'[m] = q /\ \A n \in Merchant : n # m => merchant'[n] = merchant[n]
      /\ \A pc : pc # "idle" => Waiting(pc)' = Waiting(pc) \ {m}
  BY <1>2, <1>3, ErrandChanges
<1>5. shelf' = shelf => OnItsWay'
  BY <1>2, <1>3, WayStays
<1>6. active' \subseteq active => Approved' \subseteq Approved
  <2>1. Waiting("activate")' = Waiting("activate") \ {m} /\ Waiting("activate") \subseteq Merchant
    BY <1>4 DEF Waiting
  <2>2. QED
    BY <1>4, <2>1 DEF Approved
<1>7. QED
  BY <1>2, <1>4, <1>5, <1>6

LEMMA ApprovedAreShops == ASSUME ShopsInv PROVE Approved \subseteq Shop
BY DEF ShopsInv, ShopsTyped, Approved, Waiting, Proper

(* A request begins that will change the active flag, the hours or a shelf.*)
LEMMA AskKeepsInv ==
    ASSUME ShopsInv, NEW m \in Merchant, NEW q \in Errand, Proper(q), Asks(m, q),
           q.pc \in {"count", "hide", "set", "clear", "stock", "discard"},
           q.pc = "stock" => /\ shelf[q.product] = 0 /\ q.product # 0
                             /\ \A n \in Merchant : merchant[n].product # q.product,
           q.pc = "discard" => shelf[q.product] = q.shop,
           q.pc \notin {"stock", "discard"} => q.product = 0,
           UNCHANGED <<shops, active, hours, shelf, lapse>>
    PROVE  ShopsInv'
<1>1. merchant[m].pc = "idle" /\ merchant' = [merchant EXCEPT ![m] = q]
  BY DEF Asks, NotAsked
<1>2. /\ merchant' \in [Merchant -> Errand]
      /\ \A n \in Merchant : Proper(merchant'[n])
      /\ merchant'[m] = q /\ \A n \in Merchant : n # m => merchant'[n] = merchant[n]
      /\ \A pc : Waiting(pc)' = IF q.pc = pc THEN Waiting(pc) \cup {m} ELSE Waiting(pc) \ {m}
  BY <1>1, ErrandChanges
<1>3. /\ \A pc \in {"create", "hours", "activate"} : Waiting(pc)' = Waiting(pc)
      /\ \A pc : Waiting(pc) \subseteq Merchant
      /\ \A pc : pc # "idle" => m \notin Waiting(pc)
  BY <1>1, <1>2 DEF Waiting
<1>4. ShopsTyped'
  BY <1>2 DEF ShopsInv, ShopsTyped
<1>5. OneShop'
  BY <1>3, OneShopStays DEF ShopsInv
<1>6. HoursKnown'
  BY <1>2, <1>3 DEF ShopsInv, HoursKnown
<1>7. OnItsWay'
  <2>1. q.pc = "discard" => q.shop # 0
    BY DEF Proper, Shop
  <2>2. ASSUME NEW n \in Waiting("stock")'
        PROVE  /\ shelf[merchant'[n].product] = 0 /\ merchant'[n].product # 0
               /\ \A k \in Merchant : k # n => merchant'[k].product # merchant'[n].product
    <3>1. CASE n = m
      BY <1>2, <1>3, <3>1 DEF Waiting
    <3>2. CASE n # m
      <4>1. n \in Waiting("stock") /\ n \in Merchant /\ merchant'[n] = merchant[n]
        BY <1>2, <1>3, <3>2
      <4>2. /\ shelf[merchant[n].product] = 0 /\ merchant[n].product # 0
            /\ \A k \in Merchant : k # n => merchant[k].product # merchant[n].product
        BY <4>1 DEF ShopsInv, OnItsWay
      <4>3. q.product # merchant[n].product
        BY <2>1, <4>1, <4>2
      <4>4. QED
        BY <1>2, <4>1, <4>2, <4>3
    <3>3. QED
      BY <3>1, <3>2
  <2>3. ASSUME NEW n \in Waiting("discard")'
        PROVE  shelf[merchant'[n].product] \in {0, merchant'[n].shop}
    <3>1. CASE n = m
      BY <1>2, <1>3, <3>1
    <3>2. CASE n # m
      BY <1>2, <1>3, <3>2 DEF ShopsInv, OnItsWay
    <3>3. QED
      BY <3>1, <3>2
  <2>4. QED
    BY <2>2, <2>3 DEF OnItsWay
<1>8. ApprovedHasGoods'
  <2>1. Approved' = Approved
    BY <1>2, <1>3 DEF Approved
  <2>2. QED
    BY <2>1, GoodsStay DEF ShopsInv
<1>9. QED
  BY <1>4, <1>5, <1>6, <1>7, <1>8 DEF ShopsInv

LEMMA PublishKeepsInv ==
    ASSUME ShopsInv, NEW m \in Merchant, NEW s \in Shop, Publish(m, s) \/ Unpublish(m, s)
    PROVE  ShopsInv'
<1>1. PICK q : q = [NotAsked EXCEPT !.pc = "count", !.shop = s]
  OBVIOUS
<1>2. PICK r : r = [NotAsked EXCEPT !.pc = "hide", !.shop = s]
  OBVIOUS
<1>3. /\ q \in Errand /\ q.pc = "count" /\ q.product = 0 /\ Proper(q)
      /\ r \in Errand /\ r.pc = "hide" /\ r.product = 0 /\ Proper(r)
  <2>1. q = [pc |-> "count", shop |-> s, day |-> 0, product |-> 0]
    BY <1>1 DEF NotAsked
  <2>2. r = [pc |-> "hide", shop |-> s, day |-> 0, product |-> 0]
    BY <1>2 DEF NotAsked
  <2>3. q \in Errand /\ r \in Errand
    BY <2>1, <2>2, ShopsAssumption DEF Errand, Shop
  <2>4. QED
    BY <2>1, <2>2, <2>3 DEF Proper
<1>4. (Asks(m, q) \/ Asks(m, r)) /\ UNCHANGED <<shops, active, hours, shelf, lapse>>
  BY <1>1, <1>2 DEF Publish, Unpublish
<1>5. QED
  BY <1>3, <1>4, AskKeepsInv

LEMMA PrimaryIsShop == ASSUME ShopsInv, HasShop PROVE PrimaryShop \in Shop
BY ShopsAssumption DEF ShopsInv, ShopsTyped, HasShop, PrimaryShop, Shop

LEMMA HoursRequestKeepsInv ==
    ASSUME ShopsInv, NEW m \in Merchant, NEW d \in Day, SetHours(m, d) \/ DeleteHours(m, d)
    PROVE  ShopsInv'
<1>1. PICK q : q = [NotAsked EXCEPT !.pc = "set", !.shop = PrimaryShop, !.day = d]
  OBVIOUS
<1>2. PICK r : r = [NotAsked EXCEPT !.pc = "clear", !.shop = PrimaryShop, !.day = d]
  OBVIOUS
<1>3. PrimaryShop \in Shop
  BY PrimaryIsShop DEF SetHours, DeleteHours
<1>4. /\ q \in Errand /\ q.pc = "set" /\ q.product = 0 /\ Proper(q)
      /\ r \in Errand /\ r.pc = "clear" /\ r.product = 0 /\ Proper(r)
  <2>1. q = [pc |-> "set", shop |-> PrimaryShop, day |-> d, product |-> 0]
    BY <1>1 DEF NotAsked
  <2>2. r = [pc |-> "clear", shop |-> PrimaryShop, day |-> d, product |-> 0]
    BY <1>2 DEF NotAsked
  <2>3. q \in Errand /\ r \in Errand
    BY <2>1, <2>2, <1>3, ShopsAssumption DEF Errand, Shop
  <2>4. QED
    BY <2>1, <2>2, <2>3, <1>3 DEF Proper
<1>5. (Asks(m, q) \/ Asks(m, r)) /\ UNCHANGED <<shops, active, hours, shelf, lapse>>
  BY <1>1, <1>2 DEF SetHours, DeleteHours
<1>6. QED
  BY <1>4, <1>5, AskKeepsInv

(* The product is new: no request is about it, not even this one.          *)
LEMMA ProductRequestKeepsInv ==
    ASSUME ShopsInv, NEW m \in Merchant, NEW p \in Product,
           CreateProduct(m, p) \/ DeleteProduct(m, p)
    PROVE  ShopsInv'
<1>1. PICK q : q = [NotAsked EXCEPT !.pc = "stock", !.shop = PrimaryShop, !.product = p]
  OBVIOUS
<1>2. PICK r : r = [NotAsked EXCEPT !.pc = "discard", !.shop = PrimaryShop, !.product = p]
  OBVIOUS
<1>3. PrimaryShop \in Shop
  BY PrimaryIsShop DEF CreateProduct, DeleteProduct
<1>4. /\ q \in Errand /\ q.pc = "stock" /\ q.product = p /\ Proper(q)
      /\ r \in Errand /\ r.pc = "discard" /\ r.product = p /\ Proper(r) /\ r.shop = PrimaryShop
  <2>1. q = [pc |-> "stock", shop |-> PrimaryShop, day |-> 0, product |-> p]
    BY <1>1 DEF NotAsked
  <2>2. r = [pc |-> "discard", shop |-> PrimaryShop, day |-> 0, product |-> p]
    BY <1>2 DEF NotAsked
  <2>3. q \in Errand /\ r \in Errand
    BY <2>1, <2>2, <1>3, ShopsAssumption DEF Errand, Shop
  <2>4. QED
    BY <2>1, <2>2, <2>3, <1>3 DEF Proper
<1>5. UNCHANGED <<shops, active, hours, shelf, lapse>>
  BY DEF CreateProduct, DeleteProduct
<1>6. CASE CreateProduct(m, p)
  <2>1. Asks(m, q) /\ shelf[p] = 0 /\ \A n \in Merchant : merchant[n].product # p
    BY <1>1, <1>6 DEF CreateProduct
  <2>2. p # 0
    BY <2>1 DEF Asks, NotAsked
  <2>3. QED
    BY <1>4, <1>5, <2>1, <2>2, AskKeepsInv
<1>7. CASE DeleteProduct(m, p)
  <2>1. Asks(m, r) /\ shelf[p] = PrimaryShop
    BY <1>2, <1>7 DEF DeleteProduct
  <2>2. QED
    BY <1>4, <1>5, <2>1, AskKeepsInv
<1>8. QED
  BY <1>6, <1>7

(* The registration that looks while another waits is marked.              *)
LEMMA RegisterKeepsInv ==
    ASSUME ShopsInv, NEW m \in Merchant, Register(m)
    PROVE  ShopsInv'
<1>1. PICK q : q = [NotAsked EXCEPT !.pc = "create"]
  OBVIOUS
<1>2. q \in Errand /\ q.pc = "create" /\ q.product = 0 /\ Proper(q)
  BY <1>1 DEF NotAsked, Errand, Proper
<1>3. PICK t \in BOOLEAN : t = (lapse.twice \/ Waiting("create") # {})
  BY DEF ShopsInv, ShopsTyped
<1>4. /\ ~HasShop /\ merchant[m].pc = "idle" /\ merchant' = [merchant EXCEPT ![m] = q]
      /\ lapse' = [lapse EXCEPT !.twice = t]
      /\ UNCHANGED <<shops, active, hours, shelf>>
  BY <1>1, <1>3 DEF Register, Asks, NotAsked
<1>5. /\ merchant' \in [Merchant -> Errand]
      /\ \A n \in Merchant : Proper(merchant'[n])
      /\ merchant'[m] = q /\ \A n \in Merchant : n # m => merchant'[n] = merchant[n]
      /\ \A pc : Waiting(pc)' = IF q.pc = pc THEN Waiting(pc) \cup {m} ELSE Waiting(pc) \ {m}
  BY <1>2, <1>4, ErrandChanges
<1>6. /\ \A pc \in {"hours", "activate"} : Waiting(pc)' = Waiting(pc)
      /\ Waiting("create")' = Waiting("create") \cup {m}
      /\ \A pc : Waiting(pc) \subseteq Merchant
      /\ \A pc : pc # "idle" => m \notin Waiting(pc)
  BY <1>2, <1>4, <1>5 DEF Waiting
<1>7. /\ lapse' \in Lapses
      /\ lapse'.twice = t /\ lapse'.shut = lapse.shut
      /\ lapse'.emptied = lapse.emptied /\ lapse'.unseen = lapse.unseen
  BY <1>3, <1>4 DEF ShopsInv, ShopsTyped, Lapses
<1>8. ShopsTyped'
  BY <1>4, <1>5, <1>7 DEF ShopsInv, ShopsTyped
<1>9. OneShop'
  <2>1. shops = 0
    BY <1>4 DEF ShopsInv, ShopsTyped, HasShop, PrimaryShop
  <2>2. shops' = 0
    BY <1>4, <2>1
  <2>3. ASSUME ~lapse'.twice PROVE Waiting("create")' = {m}
    BY <1>3, <1>6, <1>7, <2>3
  <2>4. QED
    BY <2>2, <2>3 DEF OneShop
<1>10. HoursKnown'
  BY <1>4, <1>5, <1>6, <1>7 DEF ShopsInv, HoursKnown
<1>11. OnItsWay'
  BY <1>2, <1>4, WayStays
<1>12. ApprovedHasGoods'
  <2>1. Approved' = Approved
    BY <1>4, <1>5, <1>6 DEF Approved
  <2>2. QED
    BY <1>4, <1>7, <2>1, GoodsStay DEF ShopsInv
<1>13. QED
  BY <1>8, <1>9, <1>10, <1>11, <1>12 DEF ShopsInv

(* The shop waits for its hours.                                           *)
LEMMA CreateShopKeepsInv ==
    ASSUME ShopsInv, NEW m \in Merchant, CreateShop(m)
    PROVE  ShopsInv'
<1>1. PICK q : q = [merchant[m] EXCEPT !.pc = "hours", !.shop = shops + 1]
  OBVIOUS
<1>2. merchant \in [Merchant -> Errand] /\ shops \in 0..MaxShops
  BY DEF ShopsInv, ShopsTyped
<1>3. /\ merchant[m].pc = "create" /\ shops < MaxShops /\ shops' = shops + 1
      /\ merchant' = [merchant EXCEPT ![m] = q]
      /\ UNCHANGED <<active, hours, shelf, lapse>>
  BY <1>1, <1>2 DEF CreateShop
<1>4. /\ q \in Errand /\ q.pc = "hours" /\ q.shop = shops + 1 /\ Proper(q)
      /\ q.product = merchant[m].product /\ shops + 1 \in 0..MaxShops
  <2>1. merchant[m] \in Errand /\ shops + 1 \in 1..MaxShops /\ shops + 1 \in Nat
    BY <1>2, <1>3, ShopsAssumption
  <2>2. /\ q \in Errand /\ q.pc = "hours" /\ q.shop = shops + 1
        /\ q.product = merchant[m].product
    BY <1>1, <2>1 DEF Errand
  <2>3. QED
    BY <2>1, <2>2 DEF Proper, Shop
<1>5. /\ merchant' \in [Merchant -> Errand]
      /\ \A n \in Merchant : Proper(merchant'[n])
      /\ merchant'[m] = q /\ \A n \in Merchant : n # m => merchant'[n] = merchant[n]
      /\ \A pc : Waiting(pc)' = IF q.pc = pc THEN Waiting(pc) \cup {m} ELSE Waiting(pc) \ {m}
  BY <1>3, <1>4, ErrandChanges
<1>6. /\ Waiting("hours")' = Waiting("hours") \cup {m} /\ m \notin Waiting("hours")
      /\ Waiting("activate")' = Waiting("activate") /\ m \notin Waiting("activate")
      /\ Waiting("create")' = Waiting("create") \ {m} /\ m \in Waiting("create")
      /\ \A pc : Waiting(pc) \subseteq Merchant
  BY <1>3, <1>4, <1>5 DEF Waiting
<1>7. ShopsTyped'
  BY <1>3, <1>4, <1>5 DEF ShopsInv, ShopsTyped
<1>8. OneShop'
  <2>1. ~lapse.twice => shops = 0 /\ Waiting("create") = {m}
    BY <1>6 DEF ShopsInv, OneShop
  <2>2. QED
    BY <1>3, <1>6, <2>1 DEF OneShop
<1>9. HoursKnown'
  <2>1. ASSUME NEW s \in 1..shops'
        PROVE  hours[s] = Day \/ s \in lapse.shut \/ \E n \in Waiting("hours")' : merchant'[n].shop = s
    <3>1. CASE s = shops + 1
      BY <1>4, <1>5, <1>6, <3>1
    <3>2. CASE s # shops + 1
      <4>1. s \in 1..shops
        BY <1>2, <1>3, <3>2
      <4>2. hours[s] = Day \/ s \in lapse.shut \/ \E n \in Waiting("hours") : merchant[n].shop = s
        BY <4>1 DEF ShopsInv, HoursKnown
      <4>3. QED
        BY <1>5, <1>6, <4>2
    <3>3. QED
      BY <3>1, <3>2
  <2>2. QED
    BY <1>3, <2>1 DEF HoursKnown
<1>10. OnItsWay'
  BY <1>3, <1>4, WayStays
<1>11. ApprovedHasGoods'
  <2>1. Approved' = Approved
    BY <1>3, <1>5, <1>6 DEF Approved
  <2>2. QED
    BY <1>3, <2>1, GoodsStay DEF ShopsInv
<1>12. QED
  BY <1>7, <1>8, <1>9, <1>10, <1>11 DEF ShopsInv

(* A request ends, and with it whatever it changed of the hours, the flag  *)
(* or the history of a shop; the shelves are as they were.                 *)
LEMMA EndKeepsInv ==
    ASSUME ShopsInv, NEW m \in Merchant, Answers(m),
           shops' = shops, shelf' = shelf,
           hours' \in [Shop -> SUBSET Day], active' \subseteq Approved,
           lapse' \in Lapses,
           lapse'.twice = lapse.twice, lapse'.emptied = lapse.emptied,
           lapse'.unseen = lapse.unseen,
           lapse.shut \subseteq lapse'.shut,
           \A s \in 1..shops : hours[s] = Day => hours'[s] = Day \/ s \in lapse'.shut,
           m \in Waiting("hours") =>
               merchant[m].shop \in lapse'.shut \/ hours'[merchant[m].shop] = Day
    PROVE  ShopsInv'
<1>1. /\ merchant' \in [Merchant -> Errand]
      /\ \A n \in Merchant : Proper(merchant'[n])
      /\ \A n \in Merchant : n # m => merchant'[n] = merchant[n]
      /\ \A pc : pc # "idle" => Waiting(pc)' = Waiting(pc) \ {m}
      /\ OnItsWay'
  BY AnswerEffect
<1>2. Waiting("hours") \subseteq Merchant /\ Waiting("activate") \subseteq Merchant
  BY DEF Waiting
<1>3. ShopsTyped'
  BY <1>1, ApprovedAreShops DEF ShopsInv, ShopsTyped
<1>4. OneShop'
  BY <1>1, OneShopStays DEF ShopsInv
<1>5. HoursKnown'
  <2>1. /\ Waiting("hours") \ {m} \subseteq Waiting("hours")'
        /\ \A n \in Waiting("hours") \ {m} : merchant'[n] = merchant[n]
    BY <1>1, <1>2
  <2>2. HoursKnown
    BY DEF ShopsInv
  <2>3. QED
    BY <2>1, <2>2, HoursStay
<1>6. ApprovedHasGoods'
  <2>1. Approved' \subseteq Approved
    BY <1>1, <1>2 DEF Approved
  <2>2. QED
    BY <2>1, GoodsStay DEF ShopsInv
<1>7. QED
  BY <1>1, <1>3, <1>4, <1>5, <1>6 DEF ShopsInv

LEMMA CreateHoursKeepsInv ==
    ASSUME ShopsInv, NEW m \in Merchant, CreateHours(m)
    PROVE  ShopsInv'
<1>1. PICK s \in Shop : s = merchant[m].shop
  BY DEF ShopsInv, ShopsTyped, Proper, CreateHours
<1>2. /\ Answers(m) /\ hours' = [hours EXCEPT ![s] = Day]
      /\ UNCHANGED <<shops, active, shelf, lapse>>
  BY <1>1 DEF CreateHours
<1>3. /\ hours' \in [Shop -> SUBSET Day] /\ hours'[s] = Day
      /\ \A t \in Shop : hours[t] = Day => hours'[t] = Day
  BY <1>2 DEF ShopsInv, ShopsTyped
<1>4. 1..shops \subseteq Shop
  BY ShopsAssumption DEF ShopsInv, ShopsTyped, Shop
<1>5. active' \subseteq Approved
  BY <1>2 DEF Approved
<1>6. QED
  BY <1>1, <1>2, <1>3, <1>4, <1>5, EndKeepsInv DEF ShopsInv, ShopsTyped

LEMMA ActiveKeepsInv ==
    ASSUME ShopsInv, NEW m \in Merchant, ActivateShop(m) \/ HideShop(m)
    PROVE  ShopsInv'
<1>1. /\ Answers(m) /\ UNCHANGED <<shops, hours, shelf, lapse>> /\ merchant[m].pc # "hours"
      /\ active' \subseteq Approved
  BY DEF ActivateShop, HideShop, Approved, Waiting
<1>2. m \notin Waiting("hours")
  BY <1>1 DEF Waiting
<1>3. QED
  BY <1>1, <1>2, EndKeepsInv DEF ShopsInv, ShopsTyped

(* A shop that was counted has goods on its shelf; when no customer sees   *)
(* them it is marked.                                                      *)
LEMMA CountProductsKeepsInv ==
    ASSUME ShopsInv, NEW m \in Merchant, CountProducts(m)
    PROVE  ShopsInv'
<1>1. merchant[m].pc = "count" /\ UNCHANGED <<shops, active, hours, shelf>>
  BY DEF CountProducts
<1>2. CASE Goods(merchant[m].shop) = {}
  <2>1. Answers(m) /\ UNCHANGED lapse
    BY <1>2 DEF CountProducts
  <2>2. active' \subseteq Approved /\ m \notin Waiting("hours")
    BY <1>1 DEF Approved, Waiting
  <2>3. QED
    BY <1>1, <2>1, <2>2, EndKeepsInv DEF ShopsInv, ShopsTyped
<1>3. CASE Goods(merchant[m].shop) # {}
  <2>1. PICK q : q = [merchant[m] EXCEPT !.pc = "activate"]
    OBVIOUS
  <2>2. merchant' = [merchant EXCEPT ![m] = q]
    BY <1>3, <2>1 DEF CountProducts, Awaits
  <2>3. merchant[m] \in Errand /\ merchant[m].shop \in Shop
    BY <1>1 DEF ShopsInv, ShopsTyped, Proper
  <2>4. /\ q \in Errand /\ q.pc = "activate" /\ q.shop = merchant[m].shop
        /\ q.product = merchant[m].product
    BY <2>1, <2>3 DEF Errand
  <2>5. Proper(q)
    BY <2>3, <2>4 DEF Proper
  <2>6. /\ merchant' \in [Merchant -> Errand]
        /\ \A n \in Merchant : Proper(merchant'[n])
        /\ merchant'[m] = q /\ \A n \in Merchant : n # m => merchant'[n] = merchant[n]
        /\ \A pc : Waiting(pc)' = IF q.pc = pc THEN Waiting(pc) \cup {m} ELSE Waiting(pc) \ {m}
    BY <2>2, <2>4, <2>5, ErrandChanges
  <2>7. /\ \A pc \in {"create", "hours"} : Waiting(pc)' = Waiting(pc) /\ m \notin Waiting(pc)
        /\ Waiting("activate")' = Waiting("activate") \cup {m}
        /\ \A pc : Waiting(pc) \subseteq Merchant
    BY <1>1, <2>4, <2>6 DEF Waiting
  <2>8. PICK s \in Shop : s = merchant[m].shop
    BY <2>3
  <2>9. PICK x \in SUBSET Shop : x = lapse.unseen \cup {t \in {s} : Offered(t) = {}}
    BY DEF ShopsInv, ShopsTyped, Lapses
  <2>10. lapse' = [lapse EXCEPT !.unseen = x]
    BY <1>3, <2>8, <2>9 DEF CountProducts
  <2>11. /\ lapse' \in Lapses /\ lapse'.unseen = x /\ lapse'.twice = lapse.twice
         /\ lapse'.shut = lapse.shut /\ lapse'.emptied = lapse.emptied
    BY <2>10 DEF ShopsInv, ShopsTyped, Lapses
  <2>12. ShopsTyped' /\ OneShop' /\ OnItsWay'
    BY <1>1, <2>2, <2>4, <2>5, <2>6, <2>7, <2>11, OneShopStays, WayStays
    DEF ShopsInv, ShopsTyped
  <2>13. HoursKnown'
    BY <1>1, <2>6, <2>7, <2>11 DEF ShopsInv, HoursKnown
  <2>14. ApprovedHasGoods'
    <3>1. Approved' \subseteq Approved \cup {s}
      BY <1>1, <2>4, <2>6, <2>7, <2>8 DEF Approved
    <3>2. \A t : Offered(t)' = Offered(t)
      BY <1>1 DEF Offered, Goods
    <3>3. Offered(s) # {} \/ s \in x
      BY <2>9
    <3>4. QED
      BY <2>9, <2>11, <3>1, <3>2, <3>3 DEF ShopsInv, ApprovedHasGoods, Excused
  <2>15. QED
    BY <2>12, <2>13, <2>14 DEF ShopsInv
<1>4. QED
  BY <1>2, <1>3

LEMMA UpsertDayKeepsInv ==
    ASSUME ShopsInv, NEW m \in Merchant, UpsertDay(m)
    PROVE  ShopsInv'
<1>1. /\ merchant[m].pc = "set" /\ merchant[m].shop \in Shop /\ merchant[m].day \in Day
      /\ hours \in [Shop -> SUBSET Day]
  BY DEF ShopsInv, ShopsTyped, Proper, UpsertDay
<1>2. PICK s \in Shop, d \in Day : s = merchant[m].shop /\ d = merchant[m].day
  BY <1>1
<1>3. /\ Answers(m) /\ hours' = [hours EXCEPT ![s] = hours[s] \cup {d}]
      /\ UNCHANGED <<shops, active, shelf, lapse>>
  BY <1>2 DEF UpsertDay
<1>4. /\ hours' \in [Shop -> SUBSET Day]
      /\ \A t \in Shop : hours[t] = Day => hours'[t] = Day
  BY <1>1, <1>3
<1>5. 1..shops \subseteq Shop
  BY ShopsAssumption DEF ShopsInv, ShopsTyped, Shop
<1>6. active' \subseteq Approved /\ m \notin Waiting("hours")
  BY <1>1, <1>3 DEF Approved, Waiting
<1>7. QED
  BY <1>3, <1>4, <1>5, <1>6, EndKeepsInv DEF ShopsInv, ShopsTyped

LEMMA ClearDayKeepsInv ==
    ASSUME ShopsInv, NEW m \in Merchant, ClearDay(m)
    PROVE  ShopsInv'
<1>1. /\ merchant[m].pc = "clear" /\ merchant[m].shop \in Shop
      /\ hours \in [Shop -> SUBSET Day]
      /\ lapse \in Lapses
  BY DEF ShopsInv, ShopsTyped, Proper, ClearDay
<1>2. PICK s \in Shop : s = merchant[m].shop
  BY <1>1
<1>3. PICK x : x = lapse.shut \cup {s}
  OBVIOUS
<1>4. /\ Answers(m) /\ hours' = [hours EXCEPT ![s] = hours[s] \ {merchant[m].day}]
      /\ lapse' = [lapse EXCEPT !.shut = x]
      /\ UNCHANGED <<shops, active, shelf>>
  BY <1>2, <1>3 DEF ClearDay
<1>5. /\ lapse' \in Lapses
      /\ lapse'.shut = lapse.shut \cup {s}
      /\ lapse'.twice = lapse.twice /\ lapse'.emptied = lapse.emptied
      /\ lapse'.unseen = lapse.unseen
  BY <1>1, <1>3, <1>4 DEF Lapses
<1>6. /\ hours' \in [Shop -> SUBSET Day]
      /\ \A t \in Shop : hours[t] = Day => hours'[t] = Day \/ t \in lapse'.shut
  BY <1>1, <1>4, <1>5
<1>7. 1..shops \subseteq Shop
  BY ShopsAssumption DEF ShopsInv, ShopsTyped, Shop
<1>8. active' \subseteq Approved /\ m \notin Waiting("hours")
  BY <1>1, <1>4 DEF Approved, Waiting
<1>9. QED
  BY <1>4, <1>5, <1>6, <1>7, <1>8, EndKeepsInv

(* The registration that stops half-way leaves a shop without its hours.   *)
LEMMA LoseMerchantKeepsInv ==
    ASSUME ShopsInv, NEW m \in Merchant, LoseMerchant(m)
    PROVE  ShopsInv'
<1>1. /\ Answers(m) /\ UNCHANGED <<shops, active, hours, shelf>>
      /\ active' \subseteq Approved
  BY DEF LoseMerchant, Approved
<1>2. CASE merchant[m].pc = "hours"
  <2>1. PICK s \in Shop : s = merchant[m].shop
    BY <1>2 DEF ShopsInv, ShopsTyped, Proper
  <2>2. PICK x : x = lapse.shut \cup {s}
    OBVIOUS
  <2>3. lapse' = [lapse EXCEPT !.shut = x]
    BY <1>2, <2>1, <2>2 DEF LoseMerchant
  <2>4. /\ lapse' \in Lapses
        /\ lapse'.shut = lapse.shut \cup {s}
        /\ lapse'.twice = lapse.twice /\ lapse'.emptied = lapse.emptied
        /\ lapse'.unseen = lapse.unseen
    BY <2>2, <2>3 DEF ShopsInv, ShopsTyped, Lapses
  <2>5. QED
    BY <1>1, <2>1, <2>4, EndKeepsInv DEF ShopsInv, ShopsTyped
<1>3. CASE merchant[m].pc # "hours"
  <2>1. lapse' = lapse /\ m \notin Waiting("hours")
    BY <1>3 DEF LoseMerchant, Waiting
  <2>2. QED
    BY <1>1, <2>1, EndKeepsInv DEF ShopsInv, ShopsTyped
<1>4. QED
  BY <1>2, <1>3

(* A request that changed one shelf ends: what does not depend on shelves. *)
LEMMA ShelfKeepsRest ==
    ASSUME ShopsInv, NEW m \in Merchant, Answers(m), merchant[m].pc \in {"stock", "discard"},
           NEW x \in SUBSET Shop, NEW y \in SUBSET Shop,
           lapse' = [lapse EXCEPT !.emptied = x, !.unseen = y],
           NEW p \in Product, NEW s \in Nat, shelf' = [shelf EXCEPT ![p] = s],
           UNCHANGED <<shops, active, hours>>
    PROVE  /\ ShopsTyped' /\ OneShop' /\ HoursKnown'
           /\ Approved' = Approved /\ lapse'.emptied = x /\ lapse'.unseen = y
           /\ \A n \in Merchant : n # m => merchant'[n] = merchant[n]
           /\ Waiting("stock")' = Waiting("stock") \ {m}
           /\ Waiting("discard")' = Waiting("discard") \ {m}
<1>1. /\ merchant' \in [Merchant -> Errand]
      /\ \A n \in Merchant : Proper(merchant'[n])
      /\ \A n \in Merchant : n # m => merchant'[n] = merchant[n]
      /\ \A pc : pc # "idle" => Waiting(pc)' = Waiting(pc) \ {m}
  BY AnswerEffect
<1>2. /\ lapse' \in Lapses
      /\ lapse'.twice = lapse.twice /\ lapse'.shut = lapse.shut
      /\ lapse'.emptied = x /\ lapse'.unseen = y
  BY DEF ShopsInv, ShopsTyped, Lapses
<1>3. /\ \A pc \in {"create", "hours", "activate"} : Waiting(pc)' = Waiting(pc) /\ m \notin Waiting(pc)
      /\ \A pc : Waiting(pc) \subseteq Merchant
  BY <1>1 DEF Waiting
<1>4. ShopsTyped'
  BY <1>1, <1>2 DEF ShopsInv, ShopsTyped
<1>5. OneShop'
  BY <1>2, <1>3, OneShopStays DEF ShopsInv
<1>6. HoursKnown'
  BY <1>1, <1>2, <1>3 DEF ShopsInv, HoursKnown
<1>7. Approved' = Approved
  BY <1>1, <1>3 DEF Approved
<1>8. QED
  BY <1>1, <1>2, <1>4, <1>5, <1>6, <1>7

LEMMA StockProductKeepsInv ==
    ASSUME ShopsInv, NEW m \in Merchant, StockProduct(m)
    PROVE  ShopsInv'
<1>1. /\ merchant[m].pc = "stock" /\ merchant[m].shop \in Shop /\ merchant[m].product \in Product
      /\ shelf \in [Product -> Nat] /\ m \in Waiting("stock")
  BY DEF ShopsInv, ShopsTyped, Proper, StockProduct, Waiting
<1>2. PICK s \in Shop, p \in Product : s = merchant[m].shop /\ p = merchant[m].product
  BY <1>1
<1>3. PICK x \in SUBSET Shop, y \in SUBSET Shop :
        /\ x = lapse.emptied \ {t \in {s} : p \notin Inactive}
        /\ y = lapse.unseen \ {t \in {s} : p \notin Inactive}
  BY DEF ShopsInv, ShopsTyped, Lapses
<1>4. /\ Answers(m) /\ shelf' = [shelf EXCEPT ![p] = s]
      /\ lapse' = [lapse EXCEPT !.emptied = x, !.unseen = y]
      /\ UNCHANGED <<shops, active, hours>>
  BY <1>2, <1>3 DEF StockProduct
<1>5. s \in Nat /\ s # 0
  BY ShopsAssumption DEF Shop
<1>6. /\ ShopsTyped' /\ OneShop' /\ HoursKnown'
      /\ Approved' = Approved /\ lapse'.emptied = x /\ lapse'.unseen = y
      /\ \A n \in Merchant : n # m => merchant'[n] = merchant[n]
      /\ Waiting("stock")' = Waiting("stock") \ {m}
      /\ Waiting("discard")' = Waiting("discard") \ {m}
  BY <1>1, <1>4, <1>5, ShelfKeepsRest
<1>7. /\ shelf[p] = 0 /\ \A n \in Merchant : n # m => merchant[n].product # p
      /\ Waiting("stock") \subseteq Merchant /\ Waiting("discard") \subseteq Merchant
  BY <1>1, <1>2 DEF ShopsInv, OnItsWay, Waiting
<1>8. /\ shelf'[p] = s
      /\ \A n \in Merchant : n # m /\ merchant[n].product \in Product =>
             shelf'[merchant[n].product] = shelf[merchant[n].product]
  BY <1>1, <1>4, <1>7
<1>9. OnItsWay'
  <2>1. \A n \in Waiting("stock") \cup Waiting("discard") : merchant[n].product \in Product
    BY DEF ShopsInv, ShopsTyped, Proper, Waiting
  <2>2. ASSUME NEW n \in Waiting("stock")'
        PROVE  /\ shelf'[merchant'[n].product] = 0 /\ merchant'[n].product # 0
               /\ \A k \in Merchant : k # n => merchant'[k].product # merchant'[n].product
    <3>1. n \in Waiting("stock") /\ n # m /\ n \in Merchant /\ merchant'[n] = merchant[n]
      BY <1>6, <1>7
    <3>2. /\ shelf[merchant[n].product] = 0 /\ merchant[n].product # 0
          /\ \A k \in Merchant : k # n => merchant[k].product # merchant[n].product
      BY <3>1 DEF ShopsInv, OnItsWay
    <3>3. merchant'[m].product = 0
      BY <1>4, AnswerEffect
    <3>4. \A k \in Merchant : k # n => merchant'[k].product # merchant[n].product
      BY <1>6, <3>2, <3>3
    <3>5. QED
      BY <1>8, <2>1, <3>1, <3>2, <3>4
  <2>3. ASSUME NEW n \in Waiting("discard")'
        PROVE  shelf'[merchant'[n].product] \in {0, merchant'[n].shop}
    BY <1>6, <1>7, <1>8, <2>1 DEF ShopsInv, OnItsWay
  <2>4. QED
    BY <2>2, <2>3 DEF OnItsWay
<1>10. ApprovedHasGoods'
  <2>1. ASSUME NEW t \in Approved
        PROVE  Offered(t)' # {} \/ t \in x \/ t \in y
    <3>1. Offered(t) \subseteq Offered(t)'
      <4>1. t # 0
        BY ApprovedAreShops, ShopsAssumption DEF Shop
      <4>2. QED
        BY <1>1, <1>4, <1>7, <4>1 DEF Offered, Goods
    <3>2. Offered(t) # {} \/ Excused(t)
      BY DEF ShopsInv, ApprovedHasGoods
    <3>3. t = s /\ p \notin Inactive => p \in Offered(t)'
      BY <1>8 DEF Offered, Goods
    <3>4. QED
      BY <1>3, <3>1, <3>2, <3>3 DEF Excused
  <2>2. QED
    BY <1>6, <2>1 DEF ApprovedHasGoods, Excused
<1>11. QED
  BY <1>6, <1>9, <1>10 DEF ShopsInv

(* A shop that was counted is marked when the last it offers goes.         *)
LEMMA DiscardProductKeepsInv ==
    ASSUME ShopsInv, NEW m \in Merchant, DiscardProduct(m)
    PROVE  ShopsInv'
<1>1. /\ merchant[m].pc = "discard" /\ merchant[m].shop \in Shop /\ merchant[m].product \in Product
      /\ shelf \in [Product -> Nat] /\ m \in Waiting("discard")
  BY DEF ShopsInv, ShopsTyped, Proper, DiscardProduct, Waiting
<1>2. PICK s \in Shop, p \in Product : s = merchant[m].shop /\ p = merchant[m].product
  BY <1>1
<1>3. PICK x \in SUBSET Shop, y \in SUBSET Shop :
        /\ x = lapse.emptied \cup {t \in {s} \cap Approved : Offered(t) \subseteq {p}}
        /\ y = lapse.unseen
  BY DEF ShopsInv, ShopsTyped, Lapses
<1>4. /\ Answers(m) /\ shelf' = [shelf EXCEPT ![p] = 0]
      /\ lapse' = [lapse EXCEPT !.emptied = x, !.unseen = y]
      /\ UNCHANGED <<shops, active, hours>>
  <2>1. /\ Answers(m) /\ shelf' = [shelf EXCEPT ![p] = 0]
        /\ lapse' = [lapse EXCEPT !.emptied = x]
        /\ UNCHANGED <<shops, active, hours>>
    BY <1>2, <1>3 DEF DiscardProduct
  <2>2. lapse \in Lapses
    BY DEF ShopsInv, ShopsTyped
  <2>3. [lapse EXCEPT !.emptied = x] = [lapse EXCEPT !.emptied = x, !.unseen = y]
    BY <1>3, <2>2 DEF Lapses
  <2>4. QED
    BY <2>1, <2>3
<1>5. /\ ShopsTyped' /\ OneShop' /\ HoursKnown'
      /\ Approved' = Approved /\ lapse'.emptied = x /\ lapse'.unseen = y
      /\ \A n \in Merchant : n # m => merchant'[n] = merchant[n]
      /\ Waiting("stock")' = Waiting("stock") \ {m}
      /\ Waiting("discard")' = Waiting("discard") \ {m}
  BY <1>1, <1>4, ShelfKeepsRest
<1>6. /\ shelf[p] \in {0, s}
      /\ Waiting("stock") \subseteq Merchant /\ Waiting("discard") \subseteq Merchant
  BY <1>1, <1>2 DEF ShopsInv, OnItsWay, Waiting
<1>7. /\ \A q \in Product : shelf'[q] \in {0, shelf[q]}
      /\ \A q \in Product : q # p => shelf'[q] = shelf[q]
  BY <1>1, <1>4
<1>8. OnItsWay'
  <2>1. \A n \in Waiting("stock") \cup Waiting("discard") : merchant[n].product \in Product
    BY DEF ShopsInv, ShopsTyped, Proper, Waiting
  <2>2. ASSUME NEW n \in Waiting("stock")'
        PROVE  /\ shelf'[merchant'[n].product] = 0 /\ merchant'[n].product # 0
               /\ \A k \in Merchant : k # n => merchant'[k].product # merchant'[n].product
    <3>1. n \in Waiting("stock") /\ n # m /\ n \in Merchant /\ merchant'[n] = merchant[n]
      BY <1>5, <1>6
    <3>2. /\ shelf[merchant[n].product] = 0 /\ merchant[n].product # 0
          /\ \A k \in Merchant : k # n => merchant[k].product # merchant[n].product
      BY <3>1 DEF ShopsInv, OnItsWay
    <3>3. merchant'[m].product = 0
      BY <1>4, AnswerEffect
    <3>4. \A k \in Merchant : k # n => merchant'[k].product # merchant[n].product
      BY <1>5, <3>2, <3>3
    <3>5. shelf'[merchant[n].product] = 0
      BY <1>7, <2>1, <3>1, <3>2
    <3>6. QED
      BY <3>1, <3>2, <3>4, <3>5
  <2>3. ASSUME NEW n \in Waiting("discard")'
        PROVE  shelf'[merchant'[n].product] \in {0, merchant'[n].shop}
    BY <1>5, <1>6, <1>7, <2>1 DEF ShopsInv, OnItsWay
  <2>4. QED
    BY <2>2, <2>3 DEF OnItsWay
<1>9. ApprovedHasGoods'
  <2>1. ASSUME NEW t \in Approved
        PROVE  Offered(t)' # {} \/ t \in x \/ t \in y
    <3>1. CASE t = s
      <4>1. Offered(t) \ {p} \subseteq Offered(t)'
        BY <1>7 DEF Offered, Goods
      <4>2. Offered(t) \subseteq {p} => t \in x
        BY <1>3, <3>1
      <4>3. QED
        BY <4>1, <4>2
    <3>2. CASE t # s
      <4>1. t # 0
        BY ApprovedAreShops, ShopsAssumption DEF Shop
      <4>2. Offered(t) \subseteq Offered(t)'
        BY <1>6, <1>7, <3>2, <4>1 DEF Offered, Goods
      <4>3. QED
        BY <1>3, <4>2 DEF ShopsInv, ApprovedHasGoods, Excused
    <3>3. QED
      BY <3>1, <3>2
  <2>2. QED
    BY <1>5, <2>1 DEF ApprovedHasGoods, Excused
<1>10. QED
  BY <1>5, <1>8, <1>9 DEF ShopsInv

LEMMA ShopsStep == ShopsInv /\ [ShopsNext]_shopsVars => ShopsInv'
<1> SUFFICES ASSUME ShopsInv, [ShopsNext]_shopsVars PROVE ShopsInv'
  OBVIOUS
<1>1. CASE UNCHANGED shopsVars
  BY <1>1 DEF shopsVars, ShopsInv, ShopsTyped, OneShop, HoursKnown, OnItsWay,
     ApprovedHasGoods, Approved, Waiting, Goods, Offered, Excused
<1>2. ASSUME NEW m \in Merchant,
             \/ Register(m) \/ CreateShop(m) \/ CreateHours(m)
             \/ \E s \in Shop : Publish(m, s) \/ Unpublish(m, s)
      PROVE  ShopsInv'
  BY <1>2, RegisterKeepsInv, CreateShopKeepsInv, CreateHoursKeepsInv, PublishKeepsInv
<1>3. ASSUME NEW m \in Merchant,
             CountProducts(m) \/ ActivateShop(m) \/ HideShop(m) \/ LoseMerchant(m)
      PROVE  ShopsInv'
  BY <1>3, CountProductsKeepsInv, ActiveKeepsInv, LoseMerchantKeepsInv
<1>4. ASSUME NEW m \in Merchant,
             \/ \E d \in Day : SetHours(m, d) \/ DeleteHours(m, d)
             \/ UpsertDay(m) \/ ClearDay(m)
      PROVE  ShopsInv'
  BY <1>4, HoursRequestKeepsInv, UpsertDayKeepsInv, ClearDayKeepsInv
<1>5. ASSUME NEW m \in Merchant,
             \/ \E p \in Product : CreateProduct(m, p) \/ DeleteProduct(m, p)
             \/ StockProduct(m) \/ DiscardProduct(m)
      PROVE  ShopsInv'
  BY <1>5, ProductRequestKeepsInv, StockProductKeepsInv, DiscardProductKeepsInv
<1>6. QED
  BY <1>1, <1>2, <1>3, <1>4, <1>5 DEF ShopsNext

(* One owner has one shop unless two registrations looked at once, a shop  *)
(* has its opening hours unless one was taken away or its registration     *)
(* stopped half-way, and a published shop offers a customer something      *)
(* unless its last offer went after the count or the count found only      *)
(* inactive products (BusinessOnboardingService.register, publish;         *)
(* OperatingHoursService; BusinessProductsService; ShopsService), for any  *)
(* number of requests, days and products.                                  *)
THEOREM ShopsStayReady == ShopsSpec => []ShopsAreReady
<1>1. ShopsInv => ShopsAreReady
  BY DEF ShopsInv, OneShop, HoursKnown, ApprovedHasGoods, Approved, Excused, ShopsAreReady
<1>2. QED
  BY <1>1, ShopsInit_Inv, ShopsStep, PTL DEF ShopsSpec

-----------------------------------------------------------------------------
(* Reports.                                                                *)

(* The rows and the clock keep their types. *)
LEMMA ReportsHaveTypes == ReportsSpec => []ReportsTypeOK
<1>1. ReportsInit => ReportsTypeOK
  <2> SUFFICES ASSUME ReportsInit PROVE ReportsTypeOK
    OBVIOUS
  <2>1. Min(Moment) \in Moment
    BY ReportsAssumption, SmallestOfNats
  <2>2. sales = <<>> /\ hour \in Moment
    BY <2>1 DEF ReportsInit
  <2>3. Len(Total) \in Nat
    BY ReportsAssumption
  <2>4. QED
    BY <2>2, <2>3 DEF ReportsTypeOK
<1>2. ReportsTypeOK /\ [ReportsNext]_reportVars => ReportsTypeOK'
  <2> SUFFICES ASSUME ReportsTypeOK, [ReportsNext]_reportVars PROVE ReportsTypeOK'
    OBVIOUS
  <2>1. ASSUME NEW b \in Buyer, PlaceSale(b) PROVE ReportsTypeOK'
    <3>1. [buyer |-> b, status |-> "pending", at |-> hour] \in Sale
      BY DEF ReportsTypeOK, Sale, SaleStatus
    <3>2. Len(Total) \in Nat
      BY ReportsAssumption
    <3>3. QED
      BY <2>1, <3>1, <3>2 DEF PlaceSale, ReportsTypeOK
  <2>2. ASSUME NEW o \in DOMAIN sales, NEW to \in SaleStatus, MoveSale(o, to)
        PROVE  ReportsTypeOK'
    <3>0. sales[o] \in Sale
      BY DEF ReportsTypeOK
    <3>1. [sales[o] EXCEPT !.status = to] \in Sale
      BY <3>0 DEF Sale
    <3>2. sales' \in Seq(Sale) /\ Len(sales') = Len(sales)
      BY <2>2, <3>1 DEF MoveSale, ReportsTypeOK
    <3>3. QED
      BY <2>2, <3>2 DEF MoveSale, ReportsTypeOK
  <2>3. ASSUME NEW t \in Moment, Wait(t) PROVE ReportsTypeOK'
    BY <2>3 DEF Wait, ReportsTypeOK
  <2>4. CASE UNCHANGED reportVars
    BY <2>4 DEF reportVars, ReportsTypeOK
  <2>5. QED
    BY <2>1, <2>2, <2>3, <2>4 DEF ReportsNext
<1>3. QED
  BY <1>1, <1>2, PTL DEF ReportsSpec

(* The ranges of the two periods that have a fixed length. *)
LEMMA TodayRange ==
    ASSUME NEW t
    PROVE  DateRange("today", t) = [gte |-> 24 * DayOf(t), lte |-> 24 * DayOf(t) + 23]
BY DEF DateRange

LEMMA WeekRange ==
    ASSUME NEW t
    PROVE  DateRange("week", t) =
             [gte |-> 24 * Monday(DayOf(t)), lte |-> 24 * (Monday(DayOf(t)) + 6) + 23]
BY DEF DateRange

(* A Monday starts the week of each of its days. *)
LEMMA Mondays ==
    ASSUME NEW d \in Int
    PROVE  /\ Monday(d) \in Int /\ Monday(d) % 7 = 0 /\ Monday(d) <= d /\ d <= Monday(d) + 6
BY DEF Monday, SinceMonday, Weekday

(* What the queries add up is a sum of SumTheorems. *)
LEMMA SumIsSumOf ==
    ASSUME NEW S
    PROVE  Sum(S) = SumOf(Total, S)
BY DEF Sum, SumOf

(* Every time of day, of the week and of the month has its bar. *)
LEMMA BucketsHold ==
    ASSUME NEW t \in Nat, NEW p \in Period, MonthOf(DayOf(t)) \in Nat, MonthOf(DayOf(t)) <= DayOf(t)
    PROVE  BucketKey(t, p) \in Buckets[p]
<1>1. CASE p = "today"
  <2>1. BucketKey(t, p) = <<"6am", "9am", "12pm", "3pm", "6pm", "9pm">>[IF HourOf(t) < 9 THEN 1 ELSE HourOf(t) \div 3 - 1]
    BY <1>1 DEF BucketKey
  <2>2. (IF HourOf(t) < 9 THEN 1 ELSE HourOf(t) \div 3 - 1) \in 1..6
    BY DEF HourOf
  <2>3. Buckets[p] = {"6am", "9am", "12pm", "3pm", "6pm", "9pm", "Now"}
    BY <1>1 DEF Buckets
  <2>4. QED
    BY <2>1, <2>2, <2>3
<1>2. CASE p = "week"
  <2>1. BucketKey(t, p) = <<"Mon", "Tue", "Wed", "Thu", "Fri", "Sat", "Sun">>
                             [SinceMonday(DayOf(t)) + 1]
    BY <1>2 DEF BucketKey
  <2>2. SinceMonday(DayOf(t)) + 1 \in 1..7
    BY DEF SinceMonday, Weekday, DayOf
  <2>3. Buckets[p] = {"Mon", "Tue", "Wed", "Thu", "Fri", "Sat", "Sun"}
    BY <1>2 DEF Buckets
  <2>4. QED
    BY <2>1, <2>2, <2>3
<1>3. CASE p = "month"
  BY <1>3 DEF BucketKey, Buckets, Least, DayOf
<1>4. QED
  BY <1>1, <1>2, <1>3 DEF Period

(* What the type invariant says of a row. *)
LEMMA SalesTyped ==
    ASSUME ReportsTypeOK
    PROVE  /\ IsFiniteSet(DOMAIN sales) /\ DOMAIN sales = 1..Len(sales)
           /\ \A o \in DOMAIN sales :
                /\ Total[o] \in Nat /\ sales[o].at \in Nat
                /\ sales[o].buyer \in Buyer /\ sales[o].status \in SaleStatus
           /\ hour \in Nat
<1>1. DOMAIN sales = 1..Len(sales) /\ Len(sales) \in Nat
  BY DEF ReportsTypeOK
<1>2. IsFiniteSet(1..Len(sales))
  BY <1>1, FS_Interval
<1>3. \A o \in DOMAIN sales : Total[o] \in Nat
  BY <1>1, ReportsAssumption DEF ReportsTypeOK
<1>4. \A o \in DOMAIN sales : sales[o] \in Sale
  BY DEF ReportsTypeOK
<1>5. \A o \in DOMAIN sales : sales[o].at \in Moment /\ sales[o].buyer \in Buyer
                              /\ sales[o].status \in SaleStatus
  BY <1>4 DEF Sale
<1>6. hour \in Moment
  BY DEF ReportsTypeOK
<1>7. QED
  BY <1>1, <1>2, <1>3, <1>5, <1>6, ReportsAssumption

(* A day is not before the first of its month. *)
LEMMA MonthsHold ==
    ASSUME NEW d \in Nat
    PROVE  MonthOf(d) \in Nat /\ MonthOf(d) <= d
<1> DEFINE S == {m \in MonthStart : m <= d}
<1>1. S \subseteq 0..d /\ 0 \in S
  <2>1. MonthStart \subseteq Nat /\ 0 \in MonthStart
    BY ReportsAssumption
  <2>2. ASSUME NEW m \in MonthStart, m <= d PROVE m \in 0..d
    BY <2>1, <2>2
  <2>3. 0 \in S
    BY <2>1
  <2>4. QED
    BY <2>2, <2>3
<1>2. IsFiniteSet(S)
  <2>1. IsFiniteSet(0..d)
    BY FS_Interval
  <2> HIDE DEF S
  <2>2. QED
    BY <1>1, <2>1, FS_Subset
<1>3. S \in SUBSET Nat
  BY <1>1
<1>4. Max(S) \in S
  <2> HIDE DEF S
  <2>1. QED
    BY <1>1, <1>2, <1>3, LargestOfFinite
<1>5. QED
  BY <1>1, <1>4 DEF MonthOf

(* A sum over orders, sorted into labelled buckets. *)
LEMMA BucketsOfSales ==
    ASSUME ReportsTypeOK, NEW S \in SUBSET DOMAIN sales, NEW key, NEW F,
           IsFiniteSet(DOMAIN F), \A o \in S : key[o] \in DOMAIN F,
           \A l \in DOMAIN F : F[l] = Sum(Bucket(S, key, l))
    PROVE  Added(F) = Sum(S)
<1>1. IsFiniteSet(S) /\ \A o \in S : Total[o] \in Nat
  BY SalesTyped, FS_Subset
<1>2. \A l \in DOMAIN F : F[l] = SumOf(Total, Bucket(S, key, l))
  BY SumIsSumOf
<1>3. SumOf(F, DOMAIN F) = SumOf(Total, Labelled(S, key, DOMAIN F))
  BY <1>1, <1>2, SumOfBuckets
<1>4. Labelled(S, key, DOMAIN F) = S
  BY DEF Labelled
<1>5. Added(F) = SumOf(F, DOMAIN F)
  BY DEF Added, SumOf
<1>6. QED
  BY <1>3, <1>4, <1>5, SumIsSumOf

LEMMA FewAreFinite ==
    ASSUME NEW a, NEW b, NEW c, NEW d, NEW e, NEW f, NEW g
    PROVE  IsFiniteSet({a, b, c, d, e}) /\ IsFiniteSet({a, b, c, d, e, f, g})
<1>1. \A x, y, z : IsFiniteSet({x, y, z})
  <2>1. \A x, y : IsFiniteSet({x, y})
    <3> SUFFICES ASSUME NEW x, NEW y PROVE IsFiniteSet({x, y})
      OBVIOUS
    <3>1. IsFiniteSet({x}) /\ IsFiniteSet({y}) /\ {x, y} = {x} \cup {y}
      BY FS_Singleton
    <3>2. QED
      BY <3>1, FS_Union
  <2> SUFFICES ASSUME NEW x, NEW y, NEW z PROVE IsFiniteSet({x, y, z})
    OBVIOUS
  <2>2. IsFiniteSet({x, y}) /\ IsFiniteSet({z}) /\ {x, y, z} = {x, y} \cup {z}
    BY <2>1, FS_Singleton
  <2>3. QED
    BY <2>2, FS_Union
<1>2. IsFiniteSet({a, b, c}) /\ IsFiniteSet({c, d, e}) /\ IsFiniteSet({e, f, g})
  BY <1>1
<1>3. IsFiniteSet({a, b, c} \cup {c, d, e})
  BY <1>2, FS_Union
<1>4. IsFiniteSet(({a, b, c} \cup {c, d, e}) \cup {e, f, g})
  BY <1>2, <1>3, FS_Union
<1>5. /\ {a, b, c, d, e} = {a, b, c} \cup {c, d, e}
      /\ {a, b, c, d, e, f, g} = ({a, b, c} \cup {c, d, e}) \cup {e, f, g}
  OBVIOUS
<1>6. QED
  BY <1>3, <1>4, <1>5

(* The bars leave nothing out and count nothing twice. *)
LEMMA BarsAddUp == ReportsTypeOK => ChartAddsUp
<1> SUFFICES ASSUME ReportsTypeOK, NEW p \in Period
             PROVE  Added(Chart(p)) = Stats(DateRange(p, hour)).revenue
  BY DEF ChartAddsUp
<1> DEFINE S == Counted \cap In(DateRange(p, hour))
           key == [o \in DOMAIN sales |-> BucketKey(sales[o].at, p)]
<1>1. S \in SUBSET DOMAIN sales
  BY DEF Counted, With
<1>2. DOMAIN Chart(p) = Buckets[p] /\ IsFiniteSet(Buckets[p])
  <2>1. DOMAIN Chart(p) = Buckets[p]
    BY DEF Chart
  <2>2. CASE p = "today"
    BY <2>1, <2>2, FewAreFinite DEF Buckets
  <2>3. CASE p = "week"
    BY <2>1, <2>3, FewAreFinite DEF Buckets
  <2>4. CASE p = "month"
    BY <2>1, <2>4, FewAreFinite DEF Buckets
  <2>5. QED
    BY <2>2, <2>3, <2>4 DEF Period
<1>3. \A o \in DOMAIN sales : BucketKey(sales[o].at, p) \in Buckets[p]
  <2> SUFFICES ASSUME NEW o \in DOMAIN sales PROVE BucketKey(sales[o].at, p) \in Buckets[p]
    OBVIOUS
  <2>1. sales[o].at \in Nat
    BY SalesTyped
  <2>2. DayOf(sales[o].at) \in Nat
    BY <2>1 DEF DayOf
  <2>3. QED
    BY <2>1, <2>2, MonthsHold, BucketsHold
<1>4. \A l \in Buckets[p] : Chart(p)[l] = Sum(Bucket(S, key, l))
  <2> SUFFICES ASSUME NEW l \in Buckets[p] PROVE Chart(p)[l] = Sum(Bucket(S, key, l))
    OBVIOUS
  <2>1. Bucket(S, key, l) = {o \in S : BucketKey(sales[o].at, p) = l}
    BY <1>1 DEF Bucket
  <2>2. Chart(p)[l] = Sum({o \in S : BucketKey(sales[o].at, p) = l})
    BY DEF Chart
  <2>3. QED
    BY <2>1, <2>2
<1>5. Added(Chart(p)) = Sum(S)
  <2>1. \A o \in S : key[o] \in Buckets[p]
    BY <1>1, <1>3
  <2> HIDE DEF S, key
  <2>2. QED
    BY <1>1, <1>2, <1>4, <2>1, BucketsOfSales
<1>6. QED
  BY <1>5 DEF Stats

(* The ISO week of a time is that of its Monday. *)
LEMMA WeekOfMonday ==
    ASSUME NEW t \in Nat, NEW u \in Nat
    PROVE  IsoWeek(u) = IsoWeek(t) <=>
             u \in 24 * Monday(DayOf(t))..(24 * (Monday(DayOf(t)) + 6) + 23)
<1> DEFINE d == DayOf(t)
           e == DayOf(u)
<1>1. d \in Nat /\ e \in Nat /\ 24 * e <= u /\ u <= 24 * e + 23
  BY DEF DayOf
<1>2. IsoWeek(t) = Monday(d) + 3 /\ IsoWeek(u) = Monday(e) + 3
  <2>1. \A x \in Nat : SinceMonday(x) \in 0..6
    BY DEF SinceMonday, Weekday
  <2>2. SinceMonday(d) \in 0..6 /\ SinceMonday(e) \in 0..6
    BY <1>1, <2>1
  <2> HIDE DEF d, e
  <2>3. d + 3 - SinceMonday(d) = Monday(d) + 3 /\ e + 3 - SinceMonday(e) = Monday(e) + 3
    BY <1>1, <2>2 DEF Monday
  <2>4. QED
    BY <2>3 DEF IsoWeek, d, e
<1> HIDE DEF d, e
<1>3. /\ Monday(d) \in Int /\ Monday(d) % 7 = 0 /\ Monday(d) <= d /\ d <= Monday(d) + 6
      /\ Monday(e) \in Int /\ Monday(e) % 7 = 0 /\ Monday(e) <= e /\ e <= Monday(e) + 6
  BY <1>1, Mondays
<1>4. Monday(e) = Monday(d) <=> e \in Monday(d)..(Monday(d) + 6)
  <2>1. PICK a \in Int, b \in Int : a = Monday(d) /\ b = Monday(e)
    BY <1>3
  <2>2. a % 7 = 0 /\ b % 7 = 0 /\ a <= d /\ d <= a + 6 /\ b <= e /\ e <= b + 6
    BY <1>3, <2>1
  <2>3. b = a <=> e \in a..(a+6)
    BY <1>1, <2>2
  <2>4. QED
    BY <2>1, <2>3
<1>5. e \in Monday(d)..(Monday(d) + 6) <=>
        u \in 24 * Monday(d)..(24 * (Monday(d) + 6) + 23)
  BY <1>1, <1>3
<1>6. QED
  BY <1>2, <1>3, <1>4, <1>5 DEF d

(* Every week paid out holds the orders delivered in it. *)
LEMMA PayoutsAre ==
    ASSUME ReportsTypeOK
    PROVE  /\ IsFiniteSet(DOMAIN Payouts)
           /\ \A o \in With({"delivered"}) : IsoWeek(sales[o].at) \in DOMAIN Payouts
           /\ \A w \in DOMAIN Payouts :
                /\ Payouts[w].amount = Sum({o \in With({"delivered"}) : IsoWeek(sales[o].at) = w})
                /\ Payouts[w].status = "pending" <=> w = IsoWeek(hour)
<1> DEFINE S == With({"delivered"})
           W == {IsoWeek(sales[o].at) : o \in S}
<1>1. IsFiniteSet(S)
  BY SalesTyped, FS_Subset DEF With
<1>2. IsFiniteSet(W)
  <2> DEFINE week == [o \in S |-> IsoWeek(sales[o].at)]
  <2>1. IsFiniteSet(ImageOf(week, S))
    BY <1>1, ImageIsFinite
  <2>2. W = ImageOf(week, S)
    BY DEF ImageOf
  <2>3. QED
    BY <2>1, <2>2
<1>3. DOMAIN Payouts = W
  BY DEF Payouts
<1>4. ASSUME NEW w \in W
      PROVE  Payouts[w] = [amount |-> Sum({o \in S : IsoWeek(sales[o].at) = w}),
                           status |-> IF w = IsoWeek(hour) THEN "pending" ELSE "completed"]
  BY DEF Payouts
<1>5. ASSUME NEW w \in W
      PROVE  /\ Payouts[w].amount = Sum({o \in S : IsoWeek(sales[o].at) = w})
             /\ Payouts[w].status = "pending" <=> w = IsoWeek(hour)
  <2>1. PICK a : a = Sum({o \in S : IsoWeek(sales[o].at) = w})
    OBVIOUS
  <2>2. Payouts[w] = [amount |-> a,
                      status |-> IF w = IsoWeek(hour) THEN "pending" ELSE "completed"]
    BY <1>4, <2>1
  <2>3. Payouts[w].amount = a /\ (Payouts[w].status = "pending" <=> w = IsoWeek(hour))
    BY <2>2
  <2>4. QED
    BY <2>1, <2>3
<1>6. \A o \in S : IsoWeek(sales[o].at) \in DOMAIN Payouts
  BY <1>3
<1>7. QED
  BY <1>2, <1>3, <1>5, <1>6

(* What is paid out over some weeks was delivered in them. *)
LEMMA PaidOut ==
    ASSUME ReportsTypeOK, NEW D \in SUBSET DOMAIN Payouts
    PROVE  Added([w \in D |-> Payouts[w].amount]) =
             Sum({o \in With({"delivered"}) : IsoWeek(sales[o].at) \in D})
<1> DEFINE S == {o \in With({"delivered"}) : IsoWeek(sales[o].at) \in D}
           key == [o \in DOMAIN sales |-> IsoWeek(sales[o].at)]
           F == [w \in D |-> Payouts[w].amount]
<1>1. S \in SUBSET DOMAIN sales
  BY DEF With
<1>2. IsFiniteSet(DOMAIN F) /\ DOMAIN F = D
  BY PayoutsAre, FS_Subset
<1>3. \A o \in S : key[o] \in DOMAIN F
  BY <1>1
<1>4. ASSUME NEW w \in D PROVE F[w] = Sum(Bucket(S, key, w))
  <2>1. Bucket(S, key, w) = {o \in With({"delivered"}) : IsoWeek(sales[o].at) = w}
    BY <1>1 DEF Bucket
  <2>2. F[w] = Sum({o \in With({"delivered"}) : IsoWeek(sales[o].at) = w})
    BY PayoutsAre
  <2>3. QED
    BY <2>1, <2>2
<1>5. QED
  <2> HIDE DEF S, key, F
  <2>1. Added(F) = Sum(S)
    BY <1>1, <1>2, <1>3, <1>4, BucketsOfSales
  <2>2. QED
    BY <2>1 DEF F, S

LEMMA PagesShowTheSame == ReportsTypeOK => PagesAgree
<1> SUFFICES ASSUME ReportsTypeOK PROVE PagesAgree
  OBVIOUS
<1>1. Today.revenue = Stats(DateRange("today", hour)).revenue
      /\ Today.orders = Stats(DateRange("today", hour)).orders
  BY TodayRange DEF Today, Stats
<1> DEFINE week == DateRange("week", hour)
           due == {w \in DOMAIN Payouts : Payouts[w].status = "pending"}
<1>2. Added([w \in due |-> Payouts[w].amount]) =
        Sum({o \in With({"delivered"}) : IsoWeek(sales[o].at) \in due})
  BY PaidOut
<1>3. ASSUME NEW o \in With({"delivered"})
      PROVE  IsoWeek(sales[o].at) \in due <=> sales[o].at \in week.gte..week.lte
  <2>1. o \in DOMAIN sales
    BY DEF With
  <2>2. sales[o].at \in Nat /\ hour \in Nat
    BY <2>1, SalesTyped
  <2>3. IsoWeek(sales[o].at) \in due <=> IsoWeek(sales[o].at) = IsoWeek(hour)
    BY PayoutsAre
  <2>4. week.gte = 24 * Monday(DayOf(hour)) /\ week.lte = 24 * (Monday(DayOf(hour)) + 6) + 23
    BY WeekRange
  <2> HIDE DEF week, due
  <2>5. QED
    BY <2>2, <2>3, <2>4, WeekOfMonday
<1>4. With({"delivered"}) \cap In(week) =
        {o \in With({"delivered"}) : IsoWeek(sales[o].at) \in due}
  <2> HIDE DEF week, due
  <2>1. QED
    BY <1>3 DEF In, With
<1>5. QED
  BY <1>1, <1>2, <1>4 DEF PagesAgree

(* Two statuses, or two sets of them, share no order. *)
LEMMA TwoPools ==
    ASSUME ReportsTypeOK, NEW S \in SUBSET DOMAIN sales, NEW T \in SUBSET DOMAIN sales,
           S \cap T = {}
    PROVE  Sum(S \cup T) = Sum(S) + Sum(T) /\ Sum(S) \in Nat /\ Sum(T) \in Nat
<1>1. IsFiniteSet(S) /\ IsFiniteSet(T) /\ \A x \in S \cup T : Total[x] \in Nat
  BY SalesTyped, FS_Subset
<1>2. SumOf(Total, S \cup T) = SumOf(Total, S) + SumOf(Total, T)
  BY <1>1, SumOfDisjoint
<1>3. SumOf(Total, S) \in Nat /\ SumOf(Total, T) \in Nat
  BY <1>1, SumIsNat
<1>4. QED
  BY <1>2, <1>3, SumIsSumOf

LEMMA CustomersAreFinite ==
    ASSUME ReportsTypeOK
    PROVE  IsFiniteSet(Customers)
<1> DEFINE buyer == [o \in DOMAIN sales |-> sales[o].buyer]
<1>1. IsFiniteSet(ImageOf(buyer, DOMAIN sales))
  BY SalesTyped, ImageIsFinite
<1>2. Customers = ImageOf(buyer, DOMAIN sales)
  BY SalesTyped DEF Customers, OrdersOf, ImageOf
<1>3. QED
  BY <1>1, <1>2

(* Each order is pending, confirmed, delivered or cancelled, has one week  *)
(* and one buyer.                                                          *)
LEMMA MoneyIsAccountedFor == ReportsTypeOK => MoneyAddsUp
<1> SUFFICES ASSUME ReportsTypeOK PROVE MoneyAddsUp
  OBVIOUS
<1> DEFINE pending == With({"pending"})
           confirmed == With({"confirmed"})
           delivered == With({"delivered"})
           cancelled == With({"cancelled"})
<1>0. \A A : With(A) \in SUBSET DOMAIN sales
  BY DEF With
<1>1. Earned = Added([w \in DOMAIN Payouts |-> Payouts[w].amount])
  <2>1. {o \in delivered : IsoWeek(sales[o].at) \in DOMAIN Payouts} = delivered
    BY PayoutsAre
  <2>2. QED
    BY <2>1, PaidOut DEF Earned
<1>2. Sum(Counted) = Earned + PendingBalance + Sum(pending)
  <2>1. Counted = (delivered \cup confirmed) \cup pending
    BY SalesTyped DEF Counted, With, SaleStatus
  <2>2. delivered \cap confirmed = {} /\ (delivered \cup confirmed) \cap pending = {}
    BY DEF With
  <2>3. delivered \cup confirmed \in SUBSET DOMAIN sales
    BY <1>0
  <2> HIDE DEF pending, confirmed, delivered
  <2>4. Sum(Counted) = Sum(delivered \cup confirmed) + Sum(pending)
    BY <1>0, <2>1, <2>2, <2>3, TwoPools DEF pending
  <2>5. Sum(delivered \cup confirmed) = Sum(delivered) + Sum(confirmed)
    BY <1>0, <2>2, TwoPools DEF delivered, confirmed
  <2>6. Sum(Counted) = Sum(delivered) + Sum(confirmed) + Sum(pending)
    BY <2>4, <2>5
  <2>7. Earned = Sum(delivered) /\ PendingBalance = Sum(confirmed)
    BY DEF Earned, PendingBalance, delivered, confirmed
  <2>8. QED
    BY <2>6, <2>7
<1>3. Sum(Transactions) = Earned + Sum(cancelled)
  <2>1. Transactions = delivered \cup cancelled /\ delivered \cap cancelled = {}
    BY DEF Transactions, With
  <2>2. QED
    BY <1>0, <2>1, TwoPools DEF Earned
<1>4. Lifetime.revenue = Sum(Invoices) + Sum(cancelled)
  <2>1. DOMAIN sales = Invoices \cup cancelled /\ Invoices \cap cancelled = {}
    BY SalesTyped DEF Invoices, With
  <2>2. Invoices \in SUBSET DOMAIN sales /\ cancelled \in SUBSET DOMAIN sales
    BY <2>1
  <2>3. Sum(DOMAIN sales) = Sum(Invoices) + Sum(cancelled)
    BY <2>1, <2>2, TwoPools
  <2>4. QED
    BY <2>3 DEF Lifetime
<1>5. Lifetime.revenue = Added([b \in Customers |-> Spent(b)])
  <2> DEFINE key == [o \in DOMAIN sales |-> sales[o].buyer]
             F == [b \in Customers |-> Spent(b)]
  <2>1. IsFiniteSet(DOMAIN F)
    BY CustomersAreFinite
  <2>2. \A o \in DOMAIN sales : key[o] \in DOMAIN F
    BY SalesTyped DEF Customers, OrdersOf
  <2>3. ASSUME NEW b \in Customers PROVE F[b] = Sum(Bucket(DOMAIN sales, key, b))
    <3>1. Bucket(DOMAIN sales, key, b) = OrdersOf(b)
      BY DEF Bucket, OrdersOf
    <3>2. QED
      BY <3>1 DEF Spent
  <2>4. DOMAIN F = Customers
    OBVIOUS
  <2> HIDE DEF key, F
  <2>5. Added(F) = Sum(DOMAIN sales)
    BY <2>1, <2>2, <2>3, <2>4, BucketsOfSales
  <2>6. QED
    BY <2>5 DEF Lifetime, F
<1>6. QED
  BY <1>1, <1>2, <1>3, <1>4, <1>5 DEF MoneyAddsUp

(* The period before one that lasts from day a to day z starts on day c. *)
LEMMA PeriodBefore ==
    ASSUME NEW r, NEW a \in Int, NEW z \in Int, NEW c \in Int, a <= z, c = 2 * a - z - 1,
           r.gte = 24 * a, r.lte = 24 * z + 23
    PROVE  /\ NewCustomers(r) \cap NewCustomers(PreviousRange(r)) = {}
           /\ PreviousRange(r) = [gte |-> 24 * c, lte |-> 24 * a - 1]
<1>1. PreviousRange(r) = [gte |-> 24 * c, lte |-> 24 * a - 1]
  BY DEF PreviousRange
<1>2. \A b : ~(/\ FirstOrder(b) \in (24 * a)..(24 * z + 23)
               /\ FirstOrder(b) \in (24 * c)..(24 * a - 1))
  OBVIOUS
<1>3. QED
  BY <1>1, <1>2 DEF NewCustomers

(* A first order lies in one period, and is not after the last order. *)
LEMMA NewOnlyOnce == ReportsTypeOK => BuyersAreNewOnce
<1> SUFFICES ASSUME ReportsTypeOK PROVE BuyersAreNewOnce
  OBVIOUS
<1> DEFINE d == DayOf(hour)
<1>0. hour \in Nat /\ d \in Nat /\ 24 * d <= hour /\ hour <= 24 * d + 23
  BY SalesTyped DEF DayOf
<1>1. ASSUME NEW p \in {"today", "week"}
      PROVE  /\ NewCustomers(DateRange(p, hour)) \cap NewCustomers(PreviousRange(DateRange(p, hour))) = {}
             /\ PreviousRange(DateRange(p, hour)) = DateRange(p, DateRange(p, hour).gte - 1)
  <2> DEFINE r == DateRange(p, hour)
  <2>1. CASE p = "today"
    <3>1. r.gte = 24 * d /\ r.lte = 24 * d + 23
      BY <2>1, TodayRange
    <3>2. DayOf(24 * d - 1) = d - 1
      BY <1>0 DEF DayOf
    <3>3. DateRange(p, 24 * d - 1) = [gte |-> 24 * (d - 1), lte |-> 24 * d - 1]
      BY <1>0, <2>1, <3>2, TodayRange
    <3> HIDE DEF d, r
    <3>4. d \in Int /\ d - 1 \in Int /\ d <= d /\ d - 1 = 2 * d - d - 1
      BY <1>0
    <3>5. /\ NewCustomers(r) \cap NewCustomers(PreviousRange(r)) = {}
          /\ PreviousRange(r) = [gte |-> 24 * (d - 1), lte |-> 24 * d - 1]
      BY <3>1, <3>4, PeriodBefore
    <3>6. QED
      BY <3>1, <3>3, <3>5 DEF r
  <2>2. CASE p = "week"
    <3>1. PICK m \in Int : m = Monday(d) /\ m % 7 = 0
      BY <1>0, Mondays
    <3>2. r.gte = 24 * m /\ r.lte = 24 * (m + 6) + 23
      BY <2>2, <3>1, WeekRange
    <3>3. DayOf(24 * m - 1) = m - 1
      BY <3>1 DEF DayOf
    <3>4. Monday(m - 1) = m - 7
      BY <3>1 DEF Monday, SinceMonday, Weekday
    <3>5. DateRange(p, 24 * m - 1) = [gte |-> 24 * (m - 7), lte |-> 24 * m - 1]
      BY <2>2, <3>3, <3>4, WeekRange
    <3> HIDE DEF r
    <3>6. m + 6 \in Int /\ m - 7 \in Int /\ m <= m + 6 /\ m - 7 = 2 * m - (m + 6) - 1
      BY <3>1
    <3>7. /\ NewCustomers(r) \cap NewCustomers(PreviousRange(r)) = {}
          /\ PreviousRange(r) = [gte |-> 24 * (m - 7), lte |-> 24 * m - 1]
      BY <3>2, <3>6, PeriodBefore
    <3>8. QED
      BY <3>2, <3>5, <3>7 DEF r
  <2>3. QED
    BY <2>1, <2>2
<1>2. IsFiniteSet(Customers)
  BY CustomersAreFinite
<1>3. Stats(DateRange("today", hour)).new <= Summary.new
  <2> DEFINE today == NewCustomers(DateRange("today", hour))
             thisWeek == {b \in Customers : LastOrder(b) >= hour - 7 * 24}
  <2>1. ASSUME NEW b \in today PROVE b \in thisWeek
    <3> DEFINE T == {sales[o].at : o \in OrdersOf(b)}
    <3>1. b \in Customers /\ FirstOrder(b) \in (24 * d)..(24 * d + 23)
      BY TodayRange DEF NewCustomers
    <3>2. OrdersOf(b) # {} /\ OrdersOf(b) \in SUBSET DOMAIN sales
      BY <3>1 DEF Customers, OrdersOf
    <3>3. IsFiniteSet(T) /\ T # {} /\ T \in SUBSET Nat
      <4>1. IsFiniteSet(OrdersOf(b))
        BY <3>2, SalesTyped, FS_Subset
      <4> DEFINE at == [o \in OrdersOf(b) |-> sales[o].at]
      <4>2. IsFiniteSet(ImageOf(at, OrdersOf(b)))
        BY <4>1, ImageIsFinite
      <4>3. T = ImageOf(at, OrdersOf(b))
        BY DEF ImageOf
      <4>4. QED
        BY <3>2, <4>2, <4>3, SalesTyped
    <3>4. FirstOrder(b) = Min(T) /\ LastOrder(b) = Max(T)
      BY DEF FirstOrder, LastOrder
    <3> HIDE DEF T
    <3>5. FirstOrder(b) \in T /\ LastOrder(b) \in T /\ FirstOrder(b) <= LastOrder(b)
      <4>1. Max(T) \in T /\ \A x \in T : x <= Max(T)
        BY <3>3, LargestOfFinite
      <4>2. Min(T) \in T
        BY <3>3, SmallestOfNats
      <4>3. QED
        BY <3>4, <4>1, <4>2
    <3>6. LastOrder(b) \in Nat /\ FirstOrder(b) \in Nat
      BY <3>3, <3>5
    <3>7. LastOrder(b) >= hour - 7 * 24
      BY <1>0, <3>1, <3>5, <3>6
    <3>8. QED
      BY <3>1, <3>7
  <2>2. today \subseteq thisWeek
    BY <2>1
  <2>3. IsFiniteSet(thisWeek)
    BY <1>2, FS_Subset
  <2>4. Cardinality(today) <= Cardinality(thisWeek)
    <3> HIDE DEF today, thisWeek
    <3>1. QED
      BY <2>2, <2>3, FS_Subset
  <2>5. QED
    BY <2>4 DEF Stats, Summary
<1>4. Summary.regular <= Summary.total
  <2> DEFINE regular == {b \in Customers : Cardinality(OrdersOf(b)) >= Regular}
  <2>1. regular \subseteq Customers
    OBVIOUS
  <2>2. Cardinality(regular) <= Cardinality(Customers)
    <3> HIDE DEF regular
    <3>1. QED
      BY <1>2, <2>1, FS_Subset
  <2>3. QED
    BY <2>2 DEF Summary
<1>5. QED
  BY <1>1, <1>3, <1>4 DEF BuyersAreNewOnce

(* What the home page, analytics, payments, customers and the profile show *)
(* an owner agrees at every hour, for any number of orders, any totals and *)
(* any calendar of months.                                                 *)
THEOREM DashboardsAgree == ReportsSpec => []ReportsAgree
<1>1. ReportsTypeOK => ReportsAgree
  BY BarsAddUp, PagesShowTheSame, MoneyIsAccountedFor, NewOnlyOnce DEF ReportsAgree
<1>2. QED
  BY <1>1, ReportsHaveTypes, PTL

=============================================================================
