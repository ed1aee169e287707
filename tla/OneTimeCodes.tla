---------------------------- MODULE OneTimeCodes ----------------------------
(***************************************************************************)
(* The OTPCode rows of one phone number or e-mail address and the account  *)
(* that may own it: AuthService.sendOtp, verifyOtp, forgotPassword,        *)
(* resetPassword, registerWithPassword, changePassword, deleteAccount.     *)
(*                                                                         *)
(* A request is a slot whose pc is the await it waits for.  PostgreSQL     *)
(* runs at READ COMMITTED: a DELETE removes the rows its own statement     *)
(* found, so a row another transaction commits later survives it.          *)
(***************************************************************************)
EXTENDS Integers, FiniteSets

CONSTANTS
    Request,     \* requests the server can have in flight at once
    MaxCodes,    \* bound: OTPCode rows ever created
    MaxLost,     \* bound: requests cut off over a code (see RequestLost)
    MaxAttempts  \* OTP_MAX_ATTEMPTS

ASSUME OneTimeCodesAssumption ==
    /\ MaxCodes \in Nat
    /\ MaxLost \in Nat
    /\ MaxAttempts \in Nat \ {0}
    /\ IsFiniteSet(Request)

VARIABLES
    code,        \* the OTPCode rows, numbered in the order of createdAt
    account,     \* the User row with the address: "none", or has it a password
    uses,        \* history: how often each code was accepted
    guesses,     \* history: how many wrong guesses each code was compared with
    lost,        \* history: requests cut off over a code (see RequestLost)
    job          \* per request: the await it waits for and what it read

codesVars == <<code, account, uses, guesses, lost, job>>

CodeId == 1..MaxCodes
Purpose == {"auth", "password_reset"}
Flow == {"signup", "login"}

\* fresh: inside the rate-limit window; live: past it; expired: past
\* expiresAt; none: not created yet; gone: deleted.
Age == {"none", "fresh", "live", "expired", "gone"}

CodeRow == [age : Age, purpose : Purpose, attempts : Nat]

Job == [pc : {"idle", "replace", "create", "compare", "void"},
        purpose : Purpose, flow : Flow, found : SUBSET CodeId]

\* Type invariant of the codes, the account and the requests in flight.
CodesTypeOK ==
    /\ code \in [CodeId -> CodeRow]
    /\ account \in {"none", "no_password", "password"}
    /\ uses \in [CodeId -> Nat]
    /\ guesses \in [CodeId -> Nat]
    /\ lost \in [CodeId -> Nat]
    /\ job \in [Request -> Job]

Idle == [pc |-> "idle", purpose |-> "auth", flow |-> "login",
         found |-> {}]

CodesInit ==
    /\ code = [c \in CodeId |->
                 [age |-> "none", purpose |-> "auth", attempts |-> 0]]
    /\ account = "none"
    /\ uses = [c \in CodeId |-> 0]
    /\ guesses = [c \in CodeId |-> 0]
    /\ lost = [c \in CodeId |-> 0]
    /\ job = [r \in Request |-> Idle]

HasAccount == account # "none"
Stored(c) == code[c].age \in {"fresh", "live", "expired"}
Unexpired(c) == code[c].age \in {"fresh", "live"}
Of(p) == {c \in CodeId : Stored(c) /\ code[c].purpose = p}

\* The row findFirst returns: the youngest unexpired one of the purpose.
Youngest(p, c) ==
    /\ c \in Of(p)
    /\ Unexpired(c)
    /\ \A d \in Of(p) : Unexpired(d) => d <= c

DeleteRows(found) ==
    code' = [c \in CodeId |-> IF c \in found THEN [code[c] EXCEPT !.age = "gone"]
                                             ELSE code[c]]

Step(r, pc) == job' = [job EXCEPT ![r].pc = pc]
Finish(r) == job' = [job EXCEPT ![r] = Idle]

-----------------------------------------------------------------------------
(* Issuing a code                                                          *)

\* enforceRateLimit: no code of the purpose inside the window.
EnforceRateLimit(p) == \A c \in Of(p) : code[c].age # "fresh"

\* sendOtp up to its transaction: the rate limit is read here.
SendOtp(r, flow) ==
    /\ job[r].pc = "idle"
    /\ EnforceRateLimit("auth")
    /\ job' = [job EXCEPT ![r] = [Idle EXCEPT !.pc = "replace", !.flow = flow]]
    /\ UNCHANGED <<code, account, uses, guesses, lost>>

\* forgotPassword up to its transaction; an unknown address gets the same
\* answer and no code.
ForgotPassword(r) ==
    /\ job[r].pc = "idle"
    /\ HasAccount
    /\ EnforceRateLimit("password_reset")
    /\ job' = [job EXCEPT ![r] = [Idle EXCEPT !.pc = "replace",
                                              !.purpose = "password_reset"]]
    /\ UNCHANGED <<code, account, uses, guesses, lost>>

\* enforceFlowGuard: sign-up needs a free address, login a taken one.
EnforceFlowGuard(flow) == HasAccount <=> flow = "login"

\* The transaction's deleteMany: the rows it finds will be gone at COMMIT.
ReplaceCodes(r) ==
    /\ job[r].pc = "replace"
    /\ IF job[r].purpose = "auth" /\ ~EnforceFlowGuard(job[r].flow)
         THEN Finish(r)
         ELSE job' = [job EXCEPT ![r].pc = "create",
                                 ![r].found = Of(job[r].purpose)]
    /\ UNCHANGED <<code, account, uses, guesses, lost>>

\* The new row and the COMMIT of the transaction; then the message is sent.
CreateCode(r) ==
    /\ job[r].pc = "create"
    /\ \E n \in CodeId :
         /\ code[n].age = "none"
         /\ \A c \in CodeId : c < n => code[c].age # "none"
         /\ code' = [c \in CodeId |->
                       IF c = n
                         THEN [age |-> "fresh", purpose |-> job[r].purpose,
                               attempts |-> 0]
                         ELSE IF c \in job[r].found
                                THEN [code[c] EXCEPT !.age = "gone"]
                                ELSE code[c]]
    /\ Finish(r)
    /\ UNCHANGED <<account, uses, guesses, lost>>

-----------------------------------------------------------------------------
(* Using a code                                                            *)

\* verifyOtp and resetPassword read the youngest row and compare the guess.
ReadCode(r, p, flow) ==
    /\ job[r].pc = "idle"
    /\ \E c \in CodeId :
         /\ Youngest(p, c)
         /\ job' = [job EXCEPT ![r] = [Idle EXCEPT !.pc = "compare",
                      !.purpose = p, !.flow = flow, !.found = {c}]]
    /\ UNCHANGED <<code, account, uses, guesses, lost>>

TooMany_OffByOne(attempts) == attempts > MaxAttempts

\* The row is deleted once its counter, as the UPDATE returned it, is full.
TooMany(attempts) == attempts >= MaxAttempts

\* The comparison failed: the counter is incremented in the database (an
\* UPDATE of a deleted row throws).
WrongGuess(r) ==
    /\ job[r].pc = "compare"
    /\ \A c \in job[r].found :
         /\ guesses' = [guesses EXCEPT ![c] = @ + 1]
         /\ IF Stored(c)
           THEN /\ code' = [code EXCEPT ![c].attempts = @ + 1]
                /\ IF TooMany(code[c].attempts + 1) THEN Step(r, "void")
                                                    ELSE Finish(r)
           ELSE /\ Finish(r)
                /\ UNCHANGED code
    /\ UNCHANGED <<account, uses, lost>>

\* Too many attempts: the row is deleted in a statement of its own.
VoidCode(r) ==
    /\ job[r].pc = "void"
    /\ DeleteRows(job[r].found)
    /\ Finish(r)
    /\ UNCHANGED <<account, uses, guesses, lost>>

Consumable_AnyRow(c) == c \in CodeId

\* tx.oTPCode.delete by id throws when the row is gone, and that rolls the
\* transaction back: the only thing that decides between two right guesses.
Consumable(c) == Stored(c)

Expired == {c \in CodeId : code[c].age = "expired"}

\* The comparison succeeded: verifyOtp's transaction with resolveUser.
VerifyOtp(r) ==
    /\ job[r].pc = "compare" /\ job[r].purpose = "auth"
    /\ \A c \in job[r].found :
         IF Consumable(c) /\ EnforceFlowGuard(job[r].flow)
           THEN /\ DeleteRows(Expired \cup {c})
                /\ uses' = [uses EXCEPT ![c] = @ + 1]
                /\ account' = IF HasAccount THEN account ELSE "no_password"
           ELSE UNCHANGED <<code, uses, account>>
    /\ Finish(r)
    /\ UNCHANGED <<guesses, lost>>

\* The comparison succeeded: resetPassword's user lookup and transaction.
ResetPassword(r) ==
    /\ job[r].pc = "compare" /\ job[r].purpose = "password_reset"
    /\ \A c \in job[r].found :
         IF Consumable(c) /\ HasAccount
           THEN /\ DeleteRows(Of("password_reset") \cup {c})
                /\ uses' = [uses EXCEPT ![c] = @ + 1]
                /\ account' = "password"
           ELSE UNCHANGED <<code, uses, account>>
    /\ Finish(r)
    /\ UNCHANGED <<guesses, lost>>

\* A statement of the request throws, or the process dies: the request is
\* over and an open transaction rolls back.  Two losses leave a trace: a
\* wrong guess that is compared and never counted, and a full counter whose
\* row is not deleted, so that the next request compares it again.
RequestLost(r) ==
    /\ job[r].pc # "idle"
    /\ \/ job[r].pc # "void" /\ UNCHANGED <<guesses, lost>>
       \/ /\ job[r].pc \in {"compare", "void"}
          /\ \A d \in CodeId : lost[d] < MaxLost
          /\ \E c \in job[r].found :
               /\ lost' = [lost EXCEPT ![c] = @ + 1]
               /\ guesses' = IF job[r].pc = "compare"
                               THEN [guesses EXCEPT ![c] = @ + 1] ELSE guesses
    /\ Finish(r)
    /\ UNCHANGED <<code, account, uses>>

-----------------------------------------------------------------------------
(* The account without a code                                              *)

\* registerWithPassword: the unique index on the address decides races.
RegisterWithPassword ==
    /\ ~HasAccount
    /\ account' = "password"
    /\ UNCHANGED <<code, uses, guesses, lost, job>>

\* changePassword, for whoever knows the current one (abstracted) or for an
\* account that has none.
ChangePassword ==
    /\ account = "no_password"
    /\ account' = "password"
    /\ UNCHANGED <<code, uses, guesses, lost, job>>

\* deleteAccount: the cascade has no OTPCode rows, they name no user.
DeleteAccount ==
    /\ HasAccount
    /\ account' = "none"
    /\ UNCHANGED <<code, uses, guesses, lost, job>>

\* Time passes: a row leaves the rate-limit window, then expires.
Aged(age) == IF age = "fresh" THEN "live" ELSE "expired"

TimePasses ==
    /\ \E c \in CodeId :
         /\ Unexpired(c)
         /\ code' = [code EXCEPT ![c].age = Aged(@)]
    /\ UNCHANGED <<account, uses, guesses, lost, job>>

CodesNext ==
    \/ \E r \in Request :
         \/ \E flow \in Flow : SendOtp(r, flow) \/ ReadCode(r, "auth", flow)
         \/ ForgotPassword(r)
         \/ ReadCode(r, "password_reset", "login")
         \/ ReplaceCodes(r)
         \/ CreateCode(r)
         \/ WrongGuess(r)
         \/ VoidCode(r)
         \/ VerifyOtp(r)
         \/ ResetPassword(r)
         \/ RequestLost(r)
    \/ RegisterWithPassword
    \/ ChangePassword
    \/ DeleteAccount
    \/ TimePasses

CodesSpec == CodesInit /\ [][CodesNext]_codesVars

-----------------------------------------------------------------------------
(* Every code behaves like a ticket: it is accepted at most once, by one   *)
(* sign-in or one password reset, even when several requests hold the      *)
(* right code at the same time or the row expires while it is compared.    *)
Tickets ==
    INSTANCE Ticket WITH
        Id <- CodeId,
        open <- {c \in CodeId : Stored(c)},
        issued <- {c \in CodeId : code[c].age # "none"},
        uses <- uses

CodesAreTickets == Tickets!Spec

\* Guessing is bounded: the counter is compared only after the increment, so
\* guesses in flight together go past OTP_MAX_ATTEMPTS, but by no more than
\* the other requests the server had in flight, and one for each request
\* that was cut off before its increment or before its DELETE.
GuessesBounded ==
    \A c \in CodeId :
        guesses[c] <= MaxAttempts + Cardinality(Request) - 1 + lost[c]

=============================================================================
