------------------------------- MODULE Devices -------------------------------
(***************************************************************************)
(* DeviceTokenService, and the clean-up of NotificationService: the        *)
(* DeviceToken row of a push token and the SNS endpoint it names.  Row and *)
(* endpoint change in separate awaits, and several accounts may use one    *)
(* device in turn.                                                         *)
(***************************************************************************)
EXTENDS Integers

CONSTANTS
    Holder,      \* users
    Device,      \* push tokens
    Call,        \* requests the server can have in flight at once
    MaxMade      \* bound: endpoints and rows ever made for a token

ASSUME DevicesAssumption == MaxMade \in Nat

VARIABLES
    deviceRow,   \* the DeviceToken row of each token
    endpoint,    \* the SNS endpoint of each token
    made,        \* how many endpoints and rows there were
    call,        \* per request: the await it waits for and what it read
    expected,    \* history: whose registration stands, none after a removal
    crossed      \* history: tokens whose registration a removal crossed

deviceVars == <<deviceRow, endpoint, made, call, expected, crossed>>

Nobody == "nobody"
Made == 0..MaxMade
RowGone == [user |-> Nobody, id |-> 0, arn |-> 0]
EndpointGone == [arn |-> 0, enabled |-> FALSE]
HungUp(d) == [pc |-> "idle", user |-> Nobody, device |-> d, id |-> 0, arn |-> 0,
              byId |-> FALSE, torn |-> FALSE]

DevicesTypeOK ==
    /\ deviceRow \in [Device -> [user : Holder \cup {Nobody}, id : Made, arn : Made]]
    /\ endpoint \in [Device -> [arn : Made, enabled : BOOLEAN]]
    /\ made \in [Device -> [endpoints : Made, rows : Made]]
    /\ call \in [Call ->
         [pc : {"idle", "upsert", "push", "endpoint", "row"},
          user : Holder \cup {Nobody}, device : Device, id : Made, arn : Made,
          byId : BOOLEAN, torn : BOOLEAN]]
    /\ expected \in [Device -> Holder \cup {Nobody}]
    /\ crossed \subseteq Device

AnyDevice == CHOOSE d \in Device : TRUE

DevicesInit ==
    /\ deviceRow = [d \in Device |-> RowGone]
    /\ endpoint = [d \in Device |-> EndpointGone]
    /\ made = [d \in Device |-> [endpoints |-> 0, rows |-> 0]]
    /\ call = [c \in Call |-> HungUp(AnyDevice)]
    /\ expected = [d \in Device |-> Nobody]
    /\ crossed = {}

HangUp(c) == call' = [call EXCEPT ![c] = HungUp(AnyDevice)]

-----------------------------------------------------------------------------
\* register, up to SNS: a token that has an endpoint keeps it, as it is.
RegisterToken(c, u, d) ==
    /\ call[c].pc = "idle"
    /\ IF endpoint[d].arn # 0 THEN UNCHANGED <<endpoint, made>>
       ELSE /\ made[d].endpoints < MaxMade
            /\ made' = [made EXCEPT ![d].endpoints = @ + 1]
            /\ endpoint' = [endpoint EXCEPT ![d] =
                              [arn |-> made[d].endpoints + 1, enabled |-> TRUE]]
    /\ call' = [call EXCEPT ![c] =
                  [HungUp(d) EXCEPT !.pc = "upsert", !.user = u,
                                    !.arn = endpoint'[d].arn]]
    /\ UNCHANGED <<deviceRow, expected, crossed>>

Upserted_KeepUser(c, row) ==
    IF row = RowGone
      THEN [user |-> call[c].user, id |-> made[call[c].device].rows + 1,
            arn |-> call[c].arn]
      ELSE [row EXCEPT !.arn = call[c].arn]

\* The upsert by token: a row that is there changes hands and keeps its id.
Upserted(c, row) ==
    [user |-> call[c].user, arn |-> call[c].arn,
     id |-> IF row = RowGone THEN made[call[c].device].rows + 1 ELSE row.id]

Removing(d) == \E c \in Call : call[c].device = d /\ call[c].pc \in {"endpoint", "row"}

UpsertToken(c) ==
    /\ call[c].pc = "upsert"
    /\ LET d == call[c].device
       IN  /\ deviceRow[d] = RowGone => made[d].rows < MaxMade
           /\ deviceRow' = [deviceRow EXCEPT ![d] = Upserted(c, @)]
           /\ made' = [made EXCEPT ![d].rows =
                         IF deviceRow[d] = RowGone THEN @ + 1 ELSE @]
           /\ expected' = [expected EXCEPT ![d] = call[c].user]
           /\ crossed' = IF Removing(d) \/ call[c].torn
                           THEN crossed \cup {d} ELSE crossed \ {d}
    /\ HangUp(c)
    /\ UNCHANGED endpoint

\* unregister, from its own route, logout and deleteAccount: another user's
\* token, or none, is left alone.
UnregisterToken(c, u, d) ==
    /\ call[c].pc = "idle"
    /\ deviceRow[d].user = u
    /\ call' = [call EXCEPT ![c] =
                  [HungUp(d) EXCEPT !.pc = "endpoint", !.user = u,
                                    !.arn = deviceRow[d].arn]]
    /\ expected' = [expected EXCEPT ![d] = Nobody]
    /\ UNCHANGED <<deviceRow, endpoint, made, crossed>>

\* send: the inbox row is always written (left out); the devices are read.
SendPush(c, u, d) ==
    /\ call[c].pc = "idle"
    /\ deviceRow[d].user = u
    /\ call' = [call EXCEPT ![c] =
                  [HungUp(d) EXCEPT !.pc = "push", !.user = u, !.byId = TRUE,
                                    !.id = deviceRow[d].id,
                                    !.arn = deviceRow[d].arn]]
    /\ UNCHANGED <<deviceRow, endpoint, made, expected, crossed>>

\* sendToEndpoint: only an endpoint that is disabled makes the token stale;
\* any other failure is ignored.
PushToEndpoint(c) ==
    /\ call[c].pc = "push"
    /\ LET d == call[c].device
       IN  IF endpoint[d].arn = call[c].arn /\ ~endpoint[d].enabled
             THEN /\ call' = [call EXCEPT ![c].pc = "endpoint"]
                  /\ expected' = [expected EXCEPT ![d] = Nobody]
             ELSE /\ HangUp(c)
                  /\ UNCHANGED expected
    /\ UNCHANGED <<deviceRow, endpoint, made, crossed>>

\* deleteEndpoint: nothing happens when the ARN no longer exists.
DeleteEndpoint(c) ==
    /\ call[c].pc = "endpoint"
    /\ LET d == call[c].device
       IN  /\ endpoint' = IF endpoint[d].arn = call[c].arn
                            THEN [endpoint EXCEPT ![d] = EndpointGone]
                            ELSE endpoint
           /\ call' = [b \in Call |->
                         IF b = c THEN [call[c] EXCEPT !.pc = "row"]
                         ELSE IF call[b].device = d /\ call[b].pc = "upsert"
                           THEN [call[b] EXCEPT !.torn = TRUE]
                           ELSE call[b]]
    /\ UNCHANGED <<deviceRow, made, expected, crossed>>

\* unregister deletes by token, the clean-up by id.
DeleteToken(c) ==
    /\ call[c].pc = "row"
    /\ LET d == call[c].device
       IN  deviceRow' = IF call[c].byId /\ deviceRow[d].id # call[c].id
                          THEN deviceRow
                          ELSE [deviceRow EXCEPT ![d] = RowGone]
    /\ HangUp(c)
    /\ UNCHANGED <<endpoint, made, expected, crossed>>

\* A call fails, or the process stops.
DropCall(c) ==
    /\ call[c].pc # "idle"
    /\ HangUp(c)
    /\ UNCHANGED <<deviceRow, endpoint, made, expected, crossed>>

\* The app was removed: SNS finds out and disables the endpoint.
DisableEndpoint(d) ==
    /\ endpoint[d].enabled
    /\ endpoint' = [endpoint EXCEPT ![d].enabled = FALSE]
    /\ UNCHANGED <<deviceRow, made, call, expected, crossed>>

\* deleteAccount, once it has unregistered the tokens that it found: the
\* cascade takes those registered since, and those whose removal failed, and
\* leaves their endpoints.  A registration still in flight then fails on the
\* foreign key.  The holder stands for another account from here on.
DeleteHolder(u) ==
    /\ deviceRow' = [d \in Device |->
                       IF deviceRow[d].user = u THEN RowGone ELSE deviceRow[d]]
    /\ expected' = [d \in Device |-> IF expected[d] = u THEN Nobody ELSE expected[d]]
    /\ call' = [c \in Call |->
                  IF call[c].pc = "upsert" /\ call[c].user = u
                    THEN HungUp(AnyDevice) ELSE call[c]]
    /\ UNCHANGED <<endpoint, made, crossed>>

DevicesNext ==
    \/ \E c \in Call, u \in Holder, d \in Device :
         RegisterToken(c, u, d) \/ UnregisterToken(c, u, d) \/ SendPush(c, u, d)
    \/ \E c \in Call :
         \/ UpsertToken(c)
         \/ PushToEndpoint(c)
         \/ DeleteEndpoint(c)
         \/ DeleteToken(c)
         \/ DropCall(c)
    \/ \E d \in Device : DisableEndpoint(d)
    \/ \E u \in Holder : DeleteHolder(u)

DevicesSpec == DevicesInit /\ [][DevicesNext]_deviceVars

-----------------------------------------------------------------------------
\* A registration that was answered stands until its user unregisters the
\* token, deletes the account, or the clean-up finds it stale: the row is the
\* user's and names the token's endpoint.  Only a removal whose look-up came before, and that was
\* not over when the registration was written, takes it away.
RegistrationStands ==
    \A d \in Device :
        expected[d] # Nobody =>
            \/ d \in crossed
            \/ /\ deviceRow[d].user = expected[d]
               /\ deviceRow[d].arn = endpoint[d].arn
=============================================================================
