------------------------------- MODULE SignIn -------------------------------
(***************************************************************************)
(* What happens to an account after its owner is known: finaliseAuth and   *)
(* switchRole of AuthService, RolesService.grantRole, and the onboarding   *)
(* services that gate a role (driver, delivery rider, shop).  One account; *)
(* its owner may have several requests in flight, and each await of theirs *)
(* is a step.  Requests fail or are lost at any await (Interrupt).         *)
(***************************************************************************)
EXTENDS Integers, FiniteSets

CONSTANTS
    Login,       \* requests the server can have in flight for the account
    Choices,     \* values of initialRole and Session.role that are tried
    Gated        \* the roles behind an application that are tried

BaseRoles == {"user", "business", "delivery", "driver"}
Role == BaseRoles \cup {"admin"}

\* What the DTOs let a client ask for.
RoleChoice == Role \cup {"personal"}

None == "none"

ASSUME SignInAssumption ==
    /\ Gated \subseteq {"driver", "delivery"}
    /\ Choices \subseteq RoleChoice \cup {None}
    /\ IsFiniteSet(Login)

VARIABLES
    user,        \* the User row, its UserRole rows, whether it has a profile
    applied,     \* DriverProfile and DeliveryProfile: none, pending, active
    shop,        \* whether the account owns a Business row
    signin,      \* per request: finaliseAuth's await and what it read
    review,      \* the application whose approval has yet to grant its role
    token,       \* the token the client holds
    gap,         \* history: the account predates or lost its sign-up
    skipped      \* history: approvals whose grant failed

signInVars ==
    <<user, applied, shop, signin, review, token, gap, skipped>>

Token == [active : RoleChoice \cup {None}, roles : SUBSET Role]
NoToken == [active |-> None, roles |-> {}]

SignInTypeOK ==
    /\ user \in [exists : BOOLEAN, profile : BOOLEAN, roles : SUBSET Role,
                 last : Role \cup {None}]
    /\ applied \in [Gated -> {None, "pending", "active"}]
    /\ shop \in BOOLEAN
    /\ signin \in [Login -> [pc : {"idle", "bootstrap", "initial", "profile",
                                   "session", "load", "fallback", "finish"},
                             isNew : BOOLEAN, initial : RoleChoice \cup {None},
                             todo : SUBSET Role, roles : SUBSET Role]]
    /\ review \in Gated \cup {None}
    /\ token \in Token
    /\ gap \in BOOLEAN
    /\ skipped \in SUBSET Gated

NoUser == [exists |-> FALSE, profile |-> FALSE, roles |-> {}, last |-> None]
Done == [pc |-> "idle", isNew |-> FALSE, initial |-> None,
         todo |-> {}, roles |-> {}]

\* No account yet, or one from before every account got the base roles.
SignInInit ==
    /\ \/ user = NoUser /\ gap = FALSE
       \/ user = [NoUser EXCEPT !.exists = TRUE, !.profile = TRUE,
                                !.roles = {"user"}] /\ gap = TRUE
    /\ applied = [k \in Gated |-> None]
    /\ shop = FALSE
    /\ signin = [l \in Login |-> Done]
    /\ review = None
    /\ token = NoToken
    /\ skipped = {}

gates == <<applied, shop, review, skipped>>

-----------------------------------------------------------------------------
(* RolesService                                                            *)

Normalised_Identity(r) == r

Normalised(r) == IF r = "personal" THEN "user" ELSE r

\* grantRole: an idempotent upsert.
GrantRole(r) == user' = [user EXCEPT !.roles = @ \cup {Normalised(r)}]

\* backfill-base-roles.ts: one upsert per account and base role.
Backfill ==
    /\ user.exists
    /\ \E r \in BaseRoles : GrantRole(r)
    /\ UNCHANGED <<gates, signin, token, gap>>

-----------------------------------------------------------------------------
(* finaliseAuth                                                            *)

Enter(l, isNew, initial, pc) ==
    /\ signin[l].pc = "idle"
    /\ signin' = [signin EXCEPT ![l] =
                    [pc |-> pc, isNew |-> isNew, initial |-> initial,
                     todo |-> IF isNew THEN BaseRoles ELSE {}, roles |-> {}]]

\* registerWithPassword, or verifyOtp for a new address, made the User row.
SignUp(l, initial) ==
    /\ ~user.exists
    /\ Enter(l, TRUE, initial, "bootstrap")
    /\ user' = [NoUser EXCEPT !.exists = TRUE]
    /\ UNCHANGED <<gates, token, gap>>

\* loginWithPassword, or verifyOtp for a known address, found the User row.
LogIn(l, initial) ==
    /\ user.exists
    /\ Enter(l, FALSE, initial, "initial")
    /\ UNCHANGED <<user, gates, token, gap>>

\* socialAuth: the account of the verified identity, made when there is none.
SocialAuth(l, initial) ==
    IF user.exists THEN LogIn(l, initial) ELSE SignUp(l, initial)

Goto(l, pc) == signin' = [signin EXCEPT ![l].pc = pc]

EnsureDefaultRole_NeverBase(l) ==
    /\ signin[l].pc \in {"bootstrap", "fallback"}
    /\ GrantRole("user")
    /\ Goto(l, IF signin[l].pc = "bootstrap" THEN "initial" ELSE "load")
    /\ UNCHANGED <<gates, token, gap>>

\* ensureDefaultRole: the four grants run in parallel.
EnsureDefaultRole(l) ==
    /\ signin[l].pc \in {"bootstrap", "fallback"}
    /\ \E r \in signin[l].todo :
         /\ GrantRole(r)
         /\ signin' = [signin EXCEPT ![l].todo = @ \ {r}, ![l].pc =
                         IF signin[l].todo # {r} THEN @
                         ELSE IF @ = "bootstrap" THEN "initial" ELSE "load"]
    /\ UNCHANGED <<gates, token, gap>>

\* The role chosen on this device is granted, to returning users too.
GrantInitial(l) ==
    /\ signin[l].pc = "initial"
    /\ IF signin[l].initial \in {None, "user"}
         THEN UNCHANGED user
         ELSE GrantRole(signin[l].initial)
    /\ Goto(l, IF signin[l].isNew THEN "profile" ELSE "session")
    /\ UNCHANGED <<gates, token, gap>>

\* ProfileService.createForUser.
CreateForUser(l) ==
    /\ signin[l].pc = "profile"
    /\ user' = [user EXCEPT !.profile = TRUE]
    /\ Goto(l, "session")
    /\ UNCHANGED <<gates, token, gap>>

\* attachSession: the guest session's role, if it has one, is granted too.
AttachSession(l, role) ==
    /\ signin[l].pc = "session"
    /\ IF role = None THEN UNCHANGED user ELSE GrantRole(role)
    /\ Goto(l, "load")
    /\ UNCHANGED <<gates, token, gap>>

\* getUserRoles; an account without any role gets the base roles first.
LoadRoles(l) ==
    /\ signin[l].pc = "load"
    /\ signin' = [signin EXCEPT
                    ![l].pc = IF user.roles = {} THEN "fallback" ELSE "finish",
                    ![l].todo = IF user.roles = {} THEN BaseRoles ELSE {},
                    ![l].roles = user.roles]
    /\ UNCHANGED <<user, gates, token, gap>>

ActiveRole_LastUnchecked(l) ==
    IF signin[l].initial \in signin[l].roles THEN signin[l].initial
    ELSE IF user.last # None THEN user.last ELSE "user"

\* The explicit choice, else the last active role, else a role it holds.
ActiveRole(l) ==
    LET held == signin[l].roles
    IN  IF signin[l].initial \in held THEN signin[l].initial
        ELSE IF user.last \in held THEN user.last
        ELSE IF "user" \in held THEN "user" ELSE CHOOSE r \in held : TRUE

\* The active role is stored; the token leaves only if there is a profile.
IssueToken(l) ==
    /\ signin[l].pc = "finish"
    /\ LET active == ActiveRole(l)
       IN  /\ user' = [user EXCEPT !.last = active]
           /\ token' = IF user.profile
                         THEN [active |-> active, roles |-> signin[l].roles]
                         ELSE token
    /\ signin' = [signin EXCEPT ![l] = Done]
    /\ UNCHANGED <<gates, gap>>

\* A statement fails or the process stops; nothing is undone.
Interrupt(l) ==
    /\ signin[l].pc # "idle"
    /\ signin' = [signin EXCEPT ![l] = Done]
    /\ gap' = (gap \/ signin[l].isNew)
    /\ UNCHANGED <<user, gates, token>>

\* deleteAccount: the cascade, and every request in flight fails after it.
RemoveAccount ==
    /\ user.exists
    /\ user' = NoUser
    /\ applied' = [k \in Gated |-> None]
    /\ shop' = FALSE
    /\ signin' = [l \in Login |-> Done]
    /\ review' = None
    /\ token' = NoToken
    /\ gap' = FALSE
    /\ skipped' = {}

-----------------------------------------------------------------------------
(* Switching the role and the onboarding behind it                         *)

\* JwtStrategy.validate: the token's user still exists.
Authenticated == token # NoToken /\ user.exists

IsRoleGateSatisfied(r) ==
    /\ r = "business" => shop
    /\ r \in Gated => applied[r] # None

\* switchRole reads the roles from the database, not from the token.
SwitchRole(r) ==
    /\ Authenticated
    /\ r \in user.roles
    /\ user' = IF IsRoleGateSatisfied(r) THEN [user EXCEPT !.last = r] ELSE user
    /\ token' = [active |-> r, roles |-> user.roles]
    /\ UNCHANGED <<gates, signin, gap>>

\* commitActiveRole is best effort.
CommitActiveRole(r) == user' \in {user, [user EXCEPT !.last = r]}

\* apply: a new or resubmitted application is pending.
Apply(k) ==
    /\ Authenticated
    /\ applied[k] # "active"
    /\ applied' = [applied EXCEPT ![k] = "pending"]
    /\ CommitActiveRole(k)
    /\ UNCHANGED <<shop, review, skipped, signin, token, gap>>

\* review, approving (a rejection changes nothing): the profile is active
\* first, in a transaction of its own.
Review(k) ==
    /\ review = None
    /\ applied[k] = "pending"
    /\ applied' = [applied EXCEPT ![k] = "active"]
    /\ review' = k
    /\ UNCHANGED <<user, shop, skipped, signin, token, gap>>

GrantApproved_Later ==
    /\ review # None
    /\ review' = None
    /\ UNCHANGED <<user, skipped, applied, shop, signin, token, gap>>

\* Then the role is granted; the delivery service swallows a failure, the
\* driver service passes it on, and neither undoes the approval.
GrantApproved ==
    /\ review # None
    /\ \/ GrantRole(review) /\ UNCHANGED skipped
       \/ skipped' = skipped \cup {review} /\ UNCHANGED user
    /\ review' = None
    /\ UNCHANGED <<applied, shop, signin, token, gap>>

\* BusinessOnboardingService.register commits the switch in the same way.
RegisterShop ==
    /\ Authenticated
    /\ shop' = TRUE
    /\ CommitActiveRole("business")
    /\ UNCHANGED <<applied, review, skipped, signin, token, gap>>

SignInNext ==
    \/ \E l \in Login, r \in Choices :
         SignUp(l, r) \/ LogIn(l, r) \/ SocialAuth(l, r)
    \/ \E l \in Login, r \in Choices \cup {None} : AttachSession(l, r)
    \/ \E l \in Login :
         \/ EnsureDefaultRole(l)
         \/ GrantInitial(l)
         \/ CreateForUser(l)
         \/ LoadRoles(l)
         \/ IssueToken(l)
         \/ Interrupt(l)
    \/ \E r \in Role : SwitchRole(r)
    \/ \E k \in Gated : Apply(k) \/ Review(k)
    \/ GrantApproved
    \/ RegisterShop
    \/ Backfill
    \/ RemoveAccount

SignInSpec == SignInInit /\ [][SignInNext]_signInVars

-----------------------------------------------------------------------------
\* The roles in the client's token are roles the account holds, and the
\* active one is among them, however sign-ins, switches, approvals and
\* interrupted requests interleave.  RolesGuard trusts the token alone.
TokenRolesAreHeld ==
    token # NoToken => /\ token.active \in token.roles
                    /\ token.roles \subseteq user.roles

\* An approved driver or rider holds the role, unless the grant that follows
\* the approval is still to come or failed; review answers "already
\* approved" from then on, so a failed grant is not repeated there.
ApprovedHasRole ==
    \A k \in Gated :
        applied[k] = "active" => \/ k \in user.roles
                                 \/ review = k
                                 \/ k \in skipped

\* Only an interrupted sign-up leaves an account without its base roles or
\* without the profile every later login needs.
SignUpIsComplete ==
    \/ ~user.exists \/ gap
    \/ BaseRoles \subseteq user.roles /\ user.profile
    \/ \E l \in Login : signin[l].isNew

=============================================================================
