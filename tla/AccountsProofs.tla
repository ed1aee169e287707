---------------------------- MODULE AccountsProofs ----------------------------
(***************************************************************************)
(* Proofs about OneTimeCodes and SignIn.  For any number of codes and      *)
(* requests and any limit of attempts, every code is a ticket (the         *)
(* refinement), and wrong guesses are bounded although the counter is      *)
(* compared too late.  For any number of sign-ins of an account, any set   *)
(* of roles behind an application and any choices of the clients, no token *)
(* is ahead of the roles that are held, and sign-ups are completed.        *)
(***************************************************************************)
EXTENDS MCAccounts, FiniteSetTheorems, TLAPS

-----------------------------------------------------------------------------
(* One-time codes.                                                         *)

(* A request that compares a guess, or goes on to delete the row, has read *)
(* exactly one row.                                                        *)
OneRowRead ==
    \A r \in Request : job[r].pc \in {"compare", "void"} =>
        \E c \in CodeId : job[r].found = {c}

(* Whatever a request has read was created.                                *)
ReadWasIssued ==
    \A r \in Request : \A c \in job[r].found : code[c].age # "none"

(* The requests about to compare a guess with c, and those about to delete *)
(* it because its counter is full.                                         *)
Comparing(c) == {r \in Request : job[r].pc = "compare" /\ job[r].found = {c}}
Voiding(c) == {r \in Request : job[r].pc = "void" /\ job[r].found = {c}}

(* The counter of a row counts the guesses, but for those cut off before   *)
(* their increment.                                                        *)
CounterCounts ==
    \A c \in CodeId :
        /\ Stored(c) => guesses[c] <= code[c].attempts + lost[c]
        /\ code[c].age = "none" => guesses[c] = 0

(* Each guess past the limit comes with a request that will delete the row *)
(* or was cut off.                                                         *)
ExcessIsVoided ==
    \A c \in CodeId :
        Stored(c) => guesses[c] <= MaxAttempts - 1 + Cardinality(Voiding(c)) + lost[c]

(* A deleted row is only compared by those who had read it before.         *)
LastGuesses ==
    \A c \in CodeId :
        ~Stored(c) => guesses[c] + Cardinality(Comparing(c))
                        <= MaxAttempts - 1 + Cardinality(Request) + lost[c]

IInv ==
    /\ CodesTypeOK
    /\ OneRowRead
    /\ ReadWasIssued

GuessInv ==
    /\ CounterCounts
    /\ ExcessIsVoided
    /\ LastGuesses

-----------------------------------------------------------------------------
(* The steps, and what they mean for the tickets.                          *)

LEMMA InitIInv == CodesInit => IInv
BY DEF CodesInit, IInv, CodesTypeOK, OneRowRead, ReadWasIssued, CodeRow, Job,
       Idle, Age, Purpose, Flow, CodeId

(* Deleting rows keeps their type and creates none.                        *)
LEMMA DeletedRows ==
    ASSUME CodesTypeOK, NEW found, DeleteRows(found)
    PROVE  /\ code' \in [CodeId -> CodeRow]
           /\ \A c \in CodeId :
                /\ c \in found => code'[c].age = "gone"
                /\ c \notin found => code'[c] = code[c]
<1>1. code' = [c \in CodeId |-> IF c \in found
                                  THEN [code[c] EXCEPT !.age = "gone"]
                                  ELSE code[c]]
  BY DEF DeleteRows
<1>2. \A c \in CodeId : code[c] \in CodeRow
  BY DEF CodesTypeOK
<1>3. \A c \in CodeId : [code[c] EXCEPT !.age = "gone"] \in CodeRow
  BY <1>2 DEF CodeRow, Age
<1>4. \A c \in CodeId : [code[c] EXCEPT !.age = "gone"].age = "gone"
  BY <1>2 DEF CodeRow
<1>5. QED
  BY <1>1, <1>2, <1>3, <1>4

(* The end of a request, and a request that goes on.                       *)
LEMMA Finished ==
    ASSUME CodesTypeOK, NEW r \in Request, Finish(r)
    PROVE  /\ job' \in [Request -> Job]
           /\ job'[r] = Idle
           /\ \A t \in Request : t # r => job'[t] = job[t]
BY DEF CodesTypeOK, Finish, Idle, Job, Purpose, Flow, CodeId

(* The tickets of the refinement, and what a step may do to them.          *)
Open == {c \in CodeId : Stored(c)}
Issued == {c \in CodeId : code[c].age # "none"}
TicketStep == [Tickets!Next]_<<Open, Issued, uses>>

(* No row is created and no deleted row comes back.                        *)
OnlyWithdraws ==
    \A c \in CodeId :
        /\ code'[c].age = "none" <=> code[c].age = "none"
        /\ Stored(c)' => Stored(c)

LEMMA WithdrawStep ==
    ASSUME OnlyWithdraws, UNCHANGED uses
    PROVE  TicketStep
<1>1. Open' \subseteq Open /\ Issued' = Issued
  BY DEF OnlyWithdraws, Open, Issued
<1>2. Tickets!Withdraw
  BY <1>1 DEF Tickets!Withdraw, Open, Issued
<1>3. QED
  BY <1>2 DEF TicketStep, Tickets!Next

LEMMA SameRows ==
    ASSUME UNCHANGED <<code, uses>>
    PROVE  TicketStep
BY DEF TicketStep, Open, Issued, Stored

-----------------------------------------------------------------------------
(* One lemma per action, or per group of actions with the same effect.     *)

(* A request reads something and goes on, or gives up; no row changes.     *)
LEMMA RequestMoves ==
    ASSUME IInv, NEW r \in Request, NEW j \in Job,
           job' = [job EXCEPT ![r] = j],
           UNCHANGED <<code, account, uses, guesses, lost>>,
           j.pc \in {"compare", "void"} => \E c \in CodeId : j.found = {c},
           \A c \in j.found : code[c].age # "none"
    PROVE  IInv' /\ TicketStep
<1>1. job' \in [Request -> Job] /\ job'[r] = j
      /\ \A t \in Request : t # r => job'[t] = job[t]
  BY DEF IInv, CodesTypeOK
<1>2. CodesTypeOK'
  BY <1>1 DEF IInv, CodesTypeOK
<1>3. OneRowRead'
  BY <1>1 DEF IInv, OneRowRead
<1>4. ReadWasIssued'
  BY <1>1 DEF IInv, ReadWasIssued
<1>5. QED
  BY <1>2, <1>3, <1>4, SameRows DEF IInv

(* A request ends: whatever it had read is forgotten.                      *)
LEMMA RequestEnds ==
    ASSUME IInv, NEW r \in Request, Finish(r),
           code' \in [CodeId -> CodeRow],
           \A c \in CodeId : code[c].age # "none" => code'[c].age # "none",
           account' \in {"none", "no_password", "password"},
           uses' \in [CodeId -> Nat], guesses' \in [CodeId -> Nat],
           lost' \in [CodeId -> Nat]
    PROVE  IInv'
<1>1. /\ job' \in [Request -> Job]
      /\ job'[r] = Idle
      /\ \A t \in Request : t # r => job'[t] = job[t]
  BY Finished DEF IInv
<1>2. CodesTypeOK'
  BY <1>1 DEF CodesTypeOK
<1>3. OneRowRead'
  BY <1>1 DEF IInv, OneRowRead, Idle
<1>4. ReadWasIssued'
  <2> SUFFICES ASSUME NEW t \in Request, NEW c \in job'[t].found
               PROVE  code'[c].age # "none"
    BY DEF ReadWasIssued
  <2>1. t # r /\ c \in job[t].found
    BY <1>1 DEF Idle
  <2>2. c \in CodeId
    BY <2>1 DEF IInv, CodesTypeOK, Job
  <2>3. QED
    BY <2>1, <2>2 DEF IInv, ReadWasIssued
<1>5. QED
  BY <1>2, <1>3, <1>4 DEF IInv

LEMMA SendOtpStep ==
    ASSUME IInv, NEW r \in Request, NEW flow \in Flow, SendOtp(r, flow)
    PROVE  IInv' /\ TicketStep
<1> DEFINE j == [Idle EXCEPT !.pc = "replace", !.flow = flow]
<1>1. j \in Job /\ j.pc = "replace" /\ j.found = {}
  BY DEF Idle, Job, Purpose
<1>2. job' = [job EXCEPT ![r] = j] /\ UNCHANGED <<code, account, uses, guesses, lost>>
  BY DEF SendOtp
<1> HIDE DEF j
<1>3. QED
  BY <1>1, <1>2, RequestMoves

LEMMA ForgotPasswordStep ==
    ASSUME IInv, NEW r \in Request, ForgotPassword(r)
    PROVE  IInv' /\ TicketStep
<1> DEFINE j == [Idle EXCEPT !.pc = "replace", !.purpose = "password_reset"]
<1>1. j \in Job /\ j.pc = "replace" /\ j.found = {}
  BY DEF Idle, Job, Purpose, Flow
<1>2. job' = [job EXCEPT ![r] = j] /\ UNCHANGED <<code, account, uses, guesses, lost>>
  BY DEF ForgotPassword
<1> HIDE DEF j
<1>3. QED
  BY <1>1, <1>2, RequestMoves

LEMMA ReplaceCodesStep ==
    ASSUME IInv, NEW r \in Request, ReplaceCodes(r)
    PROVE  IInv' /\ TicketStep
<1> DEFINE j == [job[r] EXCEPT !.pc = "create", !.found = Of(job[r].purpose)]
<1>0. job \in [Request -> Job] /\ job[r] \in Job
  BY DEF IInv, CodesTypeOK
<1>1. Of(job[r].purpose) \subseteq CodeId
      /\ \A c \in Of(job[r].purpose) : code[c].age # "none"
  BY DEF Of, Stored
<1>2. j \in Job /\ j.pc = "create" /\ \A c \in j.found : code[c].age # "none"
  BY <1>0, <1>1 DEF Job
<1>3. Idle \in Job /\ Idle.pc = "idle" /\ Idle.found = {}
  BY DEF Idle, Job, Purpose, Flow
<1>4. UNCHANGED <<code, account, uses, guesses, lost>>
  BY DEF ReplaceCodes
<1>5. job' = [job EXCEPT ![r] = Idle] \/ job' = [job EXCEPT ![r] = j]
  BY <1>0 DEF ReplaceCodes, Finish
<1> HIDE DEF j
<1>6. ASSUME job' = [job EXCEPT ![r] = Idle] PROVE IInv' /\ TicketStep
  BY <1>3, <1>4, <1>6, RequestMoves
<1>7. ASSUME job' = [job EXCEPT ![r] = j] PROVE IInv' /\ TicketStep
  BY <1>2, <1>4, <1>7, RequestMoves
<1>8. QED
  BY <1>5, <1>6, <1>7

LEMMA ReadCodeStep ==
    ASSUME IInv, NEW r \in Request, NEW p \in Purpose, NEW flow \in Flow,
           ReadCode(r, p, flow)
    PROVE  IInv' /\ TicketStep
<1>1. PICK c \in CodeId :
        Youngest(p, c) /\ job' = [job EXCEPT ![r] = [Idle EXCEPT !.pc = "compare",
                            !.purpose = p, !.flow = flow, !.found = {c}]]
  BY DEF ReadCode
<1> DEFINE j == [Idle EXCEPT !.pc = "compare", !.purpose = p, !.flow = flow,
                             !.found = {c}]
<1>2. j \in Job /\ j.found = {c}
  BY DEF Idle, Job
<1>3. code[c].age # "none"
  BY <1>1 DEF Youngest, Of, Stored
<1>4. job' = [job EXCEPT ![r] = j] /\ UNCHANGED <<code, account, uses, guesses, lost>>
  BY <1>1 DEF ReadCode
<1> HIDE DEF j
<1>5. QED
  BY <1>2, <1>3, <1>4, RequestMoves

(* The new row is a ticket issued; the rows replaced are withdrawn.        *)
LEMMA CreateCodeStep ==
    ASSUME IInv, NEW r \in Request, CreateCode(r)
    PROVE  IInv' /\ TicketStep
<1>1. PICK n \in CodeId :
        /\ code[n].age = "none"
        /\ code' = [c \in CodeId |->
                      IF c = n
                        THEN [age |-> "fresh", purpose |-> job[r].purpose,
                              attempts |-> 0]
                        ELSE IF c \in job[r].found
                               THEN [code[c] EXCEPT !.age = "gone"]
                               ELSE code[c]]
  BY DEF CreateCode
<1>2. Finish(r) /\ UNCHANGED <<account, uses, guesses, lost>>
  BY DEF CreateCode
<1>3. job[r].purpose \in Purpose /\ \A c \in CodeId : code[c] \in CodeRow
  BY DEF IInv, CodesTypeOK, Job
<1>4. [age |-> "fresh", purpose |-> job[r].purpose, attempts |-> 0] \in CodeRow
  BY <1>3 DEF CodeRow, Age
<1>5. \A c \in CodeId : /\ [code[c] EXCEPT !.age = "gone"] \in CodeRow
                        /\ [code[c] EXCEPT !.age = "gone"].age = "gone"
  BY <1>3 DEF CodeRow, Age
<1>6. code' \in [CodeId -> CodeRow]
  BY <1>1, <1>3, <1>4, <1>5
<1>7. /\ code'[n].age = "fresh"
      /\ \A c \in CodeId : c # n => code'[c].age = "gone" \/ code'[c] = code[c]
      /\ \A c \in CodeId : code[c].age # "none" => code'[c].age # "none"
  BY <1>1, <1>5
<1>8. IInv'
  BY <1>2, <1>6, <1>7, RequestEnds DEF IInv, CodesTypeOK
<1>9. /\ n \notin Issued /\ n \in Open' /\ UNCHANGED uses
      /\ Issued' = Issued \cup {n}
      /\ Open' \subseteq Open \cup {n}
  <2>1. n \notin Issued /\ n \in Open' /\ UNCHANGED uses
    BY <1>1, <1>2, <1>7 DEF Issued, Open, Stored
  <2>2. Open' \subseteq Open \cup {n}
    BY <1>7 DEF Open, Stored
  <2>3. \A c \in CodeId : c # n => (code'[c].age = "none" <=> code[c].age = "none")
    <3> SUFFICES ASSUME NEW c \in CodeId, c # n
                 PROVE  code'[c].age = "none" <=> code[c].age = "none"
      OBVIOUS
    <3>1. c \in job[r].found => code[c].age # "none"
      BY DEF IInv, ReadWasIssued
    <3>2. QED
      BY <1>1, <1>5, <3>1
  <2>4. Issued' = Issued \cup {n}
    BY <1>7, <2>3 DEF Issued
  <2>5. QED
    BY <2>1, <2>2, <2>4
<1>10. Tickets!Issue(n)
  BY <1>9 DEF Tickets!Issue, Open, Issued
<1>11. TicketStep
  BY <1>10 DEF TicketStep, Tickets!Next
<1>12. QED
  BY <1>8, <1>11

(* A wrong guess counts; the row stays what it is for the tickets.         *)
LEMMA WrongGuessStep ==
    ASSUME IInv, NEW r \in Request, WrongGuess(r)
    PROVE  IInv' /\ TicketStep
<1>1. PICK c \in CodeId : job[r].found = {c}
  BY DEF IInv, OneRowRead, WrongGuess
<1>2. /\ job[r].pc = "compare"
      /\ guesses' = [guesses EXCEPT ![c] = @ + 1]
      /\ UNCHANGED <<account, uses, lost>>
      /\ \/ code' = [code EXCEPT ![c].attempts = @ + 1] /\ Step(r, "void")
         \/ code' = [code EXCEPT ![c].attempts = @ + 1] /\ Finish(r)
         \/ Finish(r) /\ UNCHANGED code
  BY <1>1 DEF WrongGuess
<1>3. guesses' \in [CodeId -> Nat]
  BY <1>2 DEF IInv, CodesTypeOK
<1>4. code \in [CodeId -> CodeRow] /\ code[c] \in CodeRow
  BY DEF IInv, CodesTypeOK
<1>5. code' \in [CodeId -> CodeRow] /\ \A d \in CodeId : code'[d].age = code[d].age
  <2>1. ASSUME code' = [code EXCEPT ![c].attempts = @ + 1]
        PROVE  code' \in [CodeId -> CodeRow]
               /\ \A d \in CodeId : code'[d].age = code[d].age
    BY <1>4, <2>1 DEF CodeRow
  <2>2. QED
    BY <1>2, <1>4, <2>1
<1>6. TicketStep
  BY <1>2, <1>5, WithdrawStep DEF OnlyWithdraws, Stored
<1>7. ASSUME Finish(r) PROVE IInv'
  BY <1>2, <1>3, <1>5, <1>7, RequestEnds DEF IInv, CodesTypeOK
<1>8. ASSUME Step(r, "void") PROVE IInv'
  <2>1. /\ job' \in [Request -> Job]
        /\ \A t \in Request : job'[t].found = job[t].found
        /\ \A t \in Request : t # r => job'[t] = job[t]
    BY <1>8 DEF Step, IInv, CodesTypeOK, Job
  <2>2. CodesTypeOK'
    BY <1>2, <1>3, <1>5, <2>1 DEF IInv, CodesTypeOK
  <2>3. OneRowRead'
    BY <1>1, <2>1 DEF IInv, OneRowRead
  <2>4. ReadWasIssued'
    <3> SUFFICES ASSUME NEW t \in Request, NEW d \in job[t].found
                 PROVE  code'[d].age # "none"
      BY <2>1 DEF ReadWasIssued
    <3>1. d \in CodeId
      BY DEF IInv, CodesTypeOK, Job
    <3>2. QED
      BY <1>5, <3>1 DEF IInv, ReadWasIssued
  <2>5. QED
    BY <2>2, <2>3, <2>4 DEF IInv
<1>9. QED
  BY <1>2, <1>6, <1>7, <1>8

LEMMA VoidCodeStep ==
    ASSUME IInv, NEW r \in Request, VoidCode(r)
    PROVE  IInv' /\ TicketStep
<1>1. Finish(r) /\ DeleteRows(job[r].found) /\ UNCHANGED <<account, uses, guesses, lost>>
  BY DEF VoidCode
<1>2. /\ code' \in [CodeId -> CodeRow]
      /\ \A c \in CodeId :
           /\ c \in job[r].found => code'[c].age = "gone"
           /\ c \notin job[r].found => code'[c] = code[c]
  BY <1>1, DeletedRows DEF IInv
<1>3. \A c \in job[r].found : code[c].age # "none"
  BY DEF IInv, ReadWasIssued
<1>4. OnlyWithdraws
  BY <1>2, <1>3 DEF OnlyWithdraws, Stored
<1>5. IInv'
  BY <1>1, <1>2, RequestEnds DEF IInv, CodesTypeOK
<1>6. QED
  BY <1>1, <1>4, <1>5, WithdrawStep

(* A code is accepted: its row and perhaps others go with it.              *)
LEMMA AcceptedCode ==
    ASSUME IInv, NEW r \in Request, Finish(r), NEW c \in CodeId, Stored(c),
           NEW others, DeleteRows(others \cup {c}),
           \A d \in others : d \in CodeId /\ Stored(d),
           uses' = [uses EXCEPT ![c] = @ + 1],
           account' \in {"none", "no_password", "password"},
           UNCHANGED <<guesses, lost>>
    PROVE  IInv' /\ TicketStep
<1>1. /\ code' \in [CodeId -> CodeRow]
      /\ \A d \in CodeId :
           /\ d \in others \cup {c} => code'[d].age = "gone"
           /\ d \notin others \cup {c} => code'[d] = code[d]
  BY DeletedRows DEF IInv
<1>2. uses' \in [CodeId -> Nat]
  BY DEF IInv, CodesTypeOK
<1>3. IInv'
  BY <1>1, <1>2, RequestEnds DEF IInv, CodesTypeOK
<1>4. /\ c \in Open
      /\ Issued' = Issued
      /\ Open' \subseteq Open \ {c}
  <2>1. \A d \in others \cup {c} : code[d].age # "none"
    BY DEF Stored
  <2>2. Issued' = Issued
    BY <1>1, <2>1 DEF Issued
  <2>3. Open' \subseteq Open \ {c}
    BY <1>1 DEF Open, Stored
  <2>4. QED
    BY <2>2, <2>3 DEF Open
<1>5. Tickets!Redeem(c)
  BY <1>4 DEF Tickets!Redeem, Open, Issued
<1>6. TicketStep
  BY <1>5 DEF TicketStep, Tickets!Next
<1>7. QED
  BY <1>3, <1>6

(* A right guess that comes too late changes nothing.                      *)
LEMMA RefusedCode ==
    ASSUME IInv, NEW r \in Request, Finish(r),
           UNCHANGED <<code, uses, account, guesses, lost>>
    PROVE  IInv' /\ TicketStep
<1>1. IInv'
  BY RequestEnds DEF IInv, CodesTypeOK
<1>2. QED
  BY <1>1, SameRows

LEMMA VerifyOtpStep ==
    ASSUME IInv, NEW r \in Request, VerifyOtp(r)
    PROVE  IInv' /\ TicketStep
<1>1. PICK c \in CodeId : job[r].found = {c}
  BY DEF IInv, OneRowRead, VerifyOtp
<1>2. /\ Finish(r) /\ UNCHANGED <<guesses, lost>>
      /\ \/ /\ Stored(c)
            /\ DeleteRows(Expired \cup {c})
            /\ uses' = [uses EXCEPT ![c] = @ + 1]
            /\ account' = IF HasAccount THEN account ELSE "no_password"
         \/ UNCHANGED <<code, uses, account>>
  BY <1>1 DEF VerifyOtp, Consumable
<1>3. \A d \in Expired : d \in CodeId /\ Stored(d)
  BY DEF Expired, Stored
<1>4. QED
  BY <1>2, <1>3, AcceptedCode, RefusedCode DEF IInv, CodesTypeOK

LEMMA ResetPasswordStep ==
    ASSUME IInv, NEW r \in Request, ResetPassword(r)
    PROVE  IInv' /\ TicketStep
<1>1. PICK c \in CodeId : job[r].found = {c}
  BY DEF IInv, OneRowRead, ResetPassword
<1>2. /\ Finish(r) /\ UNCHANGED <<guesses, lost>>
      /\ \/ /\ Stored(c)
            /\ DeleteRows(Of("password_reset") \cup {c})
            /\ uses' = [uses EXCEPT ![c] = @ + 1]
            /\ account' = "password"
         \/ UNCHANGED <<code, uses, account>>
  BY <1>1 DEF ResetPassword, Consumable
<1>3. \A d \in Of("password_reset") : d \in CodeId /\ Stored(d)
  BY DEF Of
<1>4. QED
  BY <1>2, <1>3, AcceptedCode, RefusedCode DEF IInv, CodesTypeOK

(* A request that is cut off leaves the rows as they are.                  *)
LEMMA RequestLostStep ==
    ASSUME IInv, NEW r \in Request, RequestLost(r)
    PROVE  IInv' /\ TicketStep
<1>1. Finish(r) /\ UNCHANGED <<code, account, uses>>
  BY DEF RequestLost
<1>2. guesses' \in [CodeId -> Nat] /\ lost' \in [CodeId -> Nat]
  <2>1. job[r].found \subseteq CodeId
        /\ guesses \in [CodeId -> Nat] /\ lost \in [CodeId -> Nat]
    BY DEF IInv, CodesTypeOK, Job
  <2>2. QED
    BY <2>1 DEF RequestLost
<1>3. IInv'
  BY <1>1, <1>2, RequestEnds DEF IInv, CodesTypeOK
<1>4. QED
  BY <1>1, <1>3, SameRows

(* The account changes and no code does.                                   *)
LEMMA AccountStep ==
    ASSUME IInv, RegisterWithPassword \/ ChangePassword \/ DeleteAccount
    PROVE  IInv' /\ TicketStep
<1>1. /\ UNCHANGED <<code, uses, guesses, lost, job>>
      /\ account' \in {"none", "no_password", "password"}
  BY DEF RegisterWithPassword, ChangePassword, DeleteAccount
<1>2. IInv'
  BY <1>1 DEF IInv, CodesTypeOK, OneRowRead, ReadWasIssued
<1>3. QED
  BY <1>1, <1>2, SameRows

LEMMA TimePassesStep ==
    ASSUME IInv, TimePasses
    PROVE  IInv' /\ TicketStep
<1>1. PICK c \in CodeId :
        Unexpired(c) /\ code' = [code EXCEPT ![c].age = Aged(@)]
  BY DEF TimePasses
<1>2. UNCHANGED <<account, uses, guesses, lost, job>>
  BY DEF TimePasses
<1>3. code \in [CodeId -> CodeRow] /\ code[c] \in CodeRow
  BY DEF IInv, CodesTypeOK
<1>4. Aged(code[c].age) \in {"live", "expired"}
  BY DEF Aged
<1>5. /\ code' \in [CodeId -> CodeRow]
      /\ code'[c].age \in {"live", "expired"}
      /\ \A d \in CodeId : d # c => code'[d] = code[d]
  BY <1>1, <1>3, <1>4 DEF CodeRow, Age
<1>6. OnlyWithdraws
  BY <1>1, <1>5 DEF OnlyWithdraws, Stored, Unexpired
<1>7. CodesTypeOK' /\ OneRowRead'
  BY <1>2, <1>5 DEF IInv, CodesTypeOK, OneRowRead
<1>8. ReadWasIssued'
  <2> SUFFICES ASSUME NEW t \in Request, NEW d \in job[t].found
               PROVE  code'[d].age # "none"
    BY <1>2 DEF ReadWasIssued
  <2>1. d \in CodeId
    BY DEF IInv, CodesTypeOK, Job
  <2>2. QED
    BY <1>6, <2>1 DEF IInv, ReadWasIssued, OnlyWithdraws
<1>9. QED
  BY <1>2, <1>6, <1>7, <1>8, WithdrawStep DEF IInv

-----------------------------------------------------------------------------
(* The rows as tickets                                                     *)

LEMMA StepIInv ==
    ASSUME IInv, [CodesNext]_codesVars
    PROVE  IInv' /\ TicketStep
<1>1. ASSUME NEW r \in Request, NEW flow \in Flow, SendOtp(r, flow)
      PROVE  IInv' /\ TicketStep
  BY <1>1, SendOtpStep
<1>2. ASSUME NEW r \in Request, NEW flow \in Flow, ReadCode(r, "auth", flow)
      PROVE  IInv' /\ TicketStep
  BY <1>2, ReadCodeStep DEF Purpose
<1>3. ASSUME NEW r \in Request, ReadCode(r, "password_reset", "login")
      PROVE  IInv' /\ TicketStep
  BY <1>3, ReadCodeStep DEF Purpose, Flow
<1>4. ASSUME UNCHANGED codesVars PROVE IInv' /\ TicketStep
  <2>1. IInv'
    BY <1>4 DEF codesVars, IInv, CodesTypeOK, OneRowRead, ReadWasIssued
  <2>2. QED
    BY <1>4, <2>1, SameRows DEF codesVars
<1>5. QED
  BY <1>1, <1>2, <1>3, <1>4, ForgotPasswordStep, ReplaceCodesStep,
     CreateCodeStep, WrongGuessStep, VoidCodeStep, VerifyOtpStep,
     ResetPasswordStep, RequestLostStep, AccountStep, TimePassesStep
     DEF CodesNext

LEMMA Invariance == CodesSpec => []IInv
<1>1. IInv /\ [CodesNext]_codesVars => IInv'
  BY StepIInv
<1>2. QED
  BY <1>1, InitIInv, PTL DEF CodesSpec

(* The rows, the account and the requests in flight always have their      *)
(* types: the await a handler continues after left it what it needs.       *)
THEOREM CodesHaveTypes == CodesSpec => []CodesTypeOK
BY Invariance, PTL DEF IInv

(* sendOtp, verifyOtp, forgotPassword and resetPassword implement tickets: *)
(* a code is created once and accepted at most once, whatever requests     *)
(* race for it, and a deleted code never comes back.                       *)
THEOREM CodesImplementTickets == CodesSpec => CodesAreTickets
<1>1. CodesInit => Tickets!Init
  <2> SUFFICES ASSUME CodesInit PROVE Tickets!Init
    OBVIOUS
  <2>1. \A c \in CodeId : code[c].age = "none"
    BY DEF CodesInit
  <2>2. QED
    BY <2>1 DEF CodesInit, Tickets!Init, Stored
<1>2. IInv /\ [CodesNext]_codesVars
        => [Tickets!Next]_<<{c \in CodeId : Stored(c)},
                            {c \in CodeId : code[c].age # "none"}, uses>>
  BY StepIInv DEF TicketStep, Open, Issued
<1>3. QED
  BY <1>1, <1>2, Invariance, PTL DEF CodesSpec, CodesAreTickets, Tickets!Spec

-----------------------------------------------------------------------------
(* Bounded guessing                                                        *)

(* Nobody compares with a row and is about to delete it at the same time.  *)
LEMMA TwoCrowds ==
    ASSUME NEW c
    PROVE  /\ IsFiniteSet(Comparing(c)) /\ Cardinality(Comparing(c)) \in Nat
           /\ IsFiniteSet(Voiding(c)) /\ Cardinality(Voiding(c)) \in Nat
           /\ Cardinality(Request) \in Nat
           /\ Cardinality(Comparing(c)) + Cardinality(Voiding(c))
                <= Cardinality(Request)
<1>1. /\ Comparing(c) \in SUBSET Request
      /\ Voiding(c) \in SUBSET Request
      /\ Comparing(c) \cap Voiding(c) = {}
      /\ Comparing(c) \cup Voiding(c) \in SUBSET Request
  BY DEF Comparing, Voiding
<1>2. IsFiniteSet(Request)
  BY OneTimeCodesAssumption
<1>3. IsFiniteSet(Comparing(c)) /\ IsFiniteSet(Voiding(c))
  BY <1>1, <1>2, FS_Subset
<1>4. /\ Cardinality(Comparing(c)) \in Nat /\ Cardinality(Voiding(c)) \in Nat
      /\ Cardinality(Request) \in Nat
  BY <1>2, <1>3, FS_CardinalityType
<1>5. Cardinality(Comparing(c) \cup Voiding(c)) <= Cardinality(Request)
  BY <1>1, <1>2, FS_Subset
<1>6. Cardinality(Comparing(c) \cup Voiding(c)) =
        Cardinality(Comparing(c)) + Cardinality(Voiding(c)) - Cardinality({})
  BY <1>1, <1>3, FS_Union
<1>7. Cardinality({}) = 0
  BY FS_EmptySet
<1>8. QED
  BY <1>3, <1>4, <1>5, <1>6, <1>7

LEMMA TwoCrowdsNext ==
    ASSUME NEW c
    PROVE  /\ IsFiniteSet(Comparing(c)') /\ Cardinality(Comparing(c)') \in Nat
           /\ IsFiniteSet(Voiding(c)') /\ Cardinality(Voiding(c)') \in Nat
<1>1. Comparing(c)' \in SUBSET Request /\ Voiding(c)' \in SUBSET Request
  BY DEF Comparing, Voiding
<1>2. IsFiniteSet(Request)
  BY OneTimeCodesAssumption
<1>3. IsFiniteSet(Comparing(c)') /\ IsFiniteSet(Voiding(c)')
  BY <1>1, <1>2, FS_Subset
<1>4. QED
  BY <1>3, FS_CardinalityType

(* A step without a guess: a row that stays keeps its counter and those    *)
(* who will delete it, a new row starts at zero, and nobody begins to      *)
(* compare with a row that is deleted.                                     *)
Guessless ==
    /\ UNCHANGED <<guesses, lost>>
    /\ \A c \in CodeId :
         /\ Stored(c)' => \/ /\ Stored(c)
                             /\ code'[c].attempts = code[c].attempts
                             /\ Voiding(c) \subseteq Voiding(c)'
                          \/ code[c].age = "none" /\ code'[c].attempts = 0
         /\ ~Stored(c)' => Comparing(c)' \subseteq Comparing(c)
         /\ code'[c].age = "none" => code[c].age = "none"

LEMMA GuesslessStep ==
    ASSUME CodesTypeOK, GuessInv, Guessless
    PROVE  GuessInv'
<1>1. /\ \A c \in CodeId : guesses[c] \in Nat /\ lost[c] \in Nat
      /\ guesses' = guesses /\ lost' = lost
  BY DEF CodesTypeOK, Guessless
<1>2. MaxAttempts \in Nat \ {0}
  BY OneTimeCodesAssumption
<1>3. CounterCounts'
  BY <1>1 DEF Guessless, GuessInv, CounterCounts
<1>4. ExcessIsVoided'
  <2> SUFFICES ASSUME NEW c \in CodeId, Stored(c)'
               PROVE  guesses[c] <= MaxAttempts - 1 + Cardinality(Voiding(c)') + lost[c]
    BY <1>1 DEF ExcessIsVoided
  <2>1. ASSUME Stored(c), Voiding(c) \subseteq Voiding(c)'
        PROVE  guesses[c] <= MaxAttempts - 1 + Cardinality(Voiding(c)') + lost[c]
    <3>1. Cardinality(Voiding(c)) <= Cardinality(Voiding(c)')
      BY <2>1, TwoCrowdsNext, FS_Subset
    <3>2. guesses[c] <= MaxAttempts - 1 + Cardinality(Voiding(c)) + lost[c]
      BY <2>1 DEF GuessInv, ExcessIsVoided
    <3>3. QED
      BY <1>1, <1>2, <3>1, <3>2, TwoCrowds, TwoCrowdsNext
  <2>2. ASSUME code[c].age = "none"
        PROVE  guesses[c] <= MaxAttempts - 1 + Cardinality(Voiding(c)') + lost[c]
    <3>1. guesses[c] = 0
      BY <2>2 DEF GuessInv, CounterCounts
    <3>2. QED
      BY <1>1, <1>2, <3>1, TwoCrowdsNext
  <2>3. QED
    BY <2>1, <2>2 DEF Guessless
<1>5. LastGuesses'
  <2> SUFFICES ASSUME NEW c \in CodeId, ~Stored(c)'
               PROVE  guesses[c] + Cardinality(Comparing(c)')
                        <= MaxAttempts - 1 + Cardinality(Request) + lost[c]
    BY <1>1 DEF LastGuesses
  <2>1. Cardinality(Comparing(c)') <= Cardinality(Comparing(c))
    BY TwoCrowds, FS_Subset DEF Guessless
  <2>2. ASSUME ~Stored(c)
        PROVE  guesses[c] + Cardinality(Comparing(c))
                 <= MaxAttempts - 1 + Cardinality(Request) + lost[c]
    BY <2>2 DEF GuessInv, LastGuesses
  <2>3. ASSUME Stored(c)
        PROVE  guesses[c] <= MaxAttempts - 1 + Cardinality(Voiding(c)) + lost[c]
    BY <2>3 DEF GuessInv, ExcessIsVoided
  <2>4. QED
    BY <1>1, <1>2, <2>1, <2>2, <2>3, TwoCrowds, TwoCrowdsNext
<1>6. QED
  BY <1>3, <1>4, <1>5 DEF GuessInv

(* What the end of a request does to the two crowds.                       *)
LEMMA CrowdsAtEnd ==
    ASSUME CodesTypeOK, NEW r \in Request, Finish(r), NEW c
    PROVE  /\ Comparing(c)' = Comparing(c) \ {r}
           /\ Voiding(c)' = Voiding(c) \ {r}
BY Finished DEF Comparing, Voiding, Idle

(* A request that neither compares nor deletes moves on to something else. *)
LEMMA CrowdsElsewhere ==
    ASSUME CodesTypeOK, NEW r \in Request, NEW j, job' = [job EXCEPT ![r] = j],
           job[r].pc \notin {"compare", "void"}, j.pc # "void", NEW c,
           j.pc = "compare" => j.found # {c}
    PROVE  Comparing(c)' = Comparing(c) /\ Voiding(c)' = Voiding(c)
<1>1. job'[r] = j /\ \A t \in Request : t # r => job'[t] = job[t]
  BY DEF CodesTypeOK
<1>2. QED
  BY <1>1 DEF Comparing, Voiding

(* Requests that read, give up or age the rows.                            *)
LEMMA ReadingGuesses ==
    ASSUME IInv, GuessInv, NEW r \in Request,
           \/ \E flow \in Flow : SendOtp(r, flow)
           \/ ForgotPassword(r)
           \/ ReplaceCodes(r)
           \/ \E p \in Purpose, flow \in Flow : ReadCode(r, p, flow)
    PROVE  GuessInv'
<1>0. CodesTypeOK /\ job[r] \in Job
  BY DEF IInv, CodesTypeOK
<1>1. UNCHANGED <<code, guesses, lost>>
  BY DEF SendOtp, ForgotPassword, ReplaceCodes, ReadCode
<1>2. PICK j :
        /\ job' = [job EXCEPT ![r] = j]
        /\ job[r].pc \notin {"compare", "void"} /\ j.pc # "void"
        /\ j.pc = "compare" => \E c \in CodeId : Stored(c) /\ j.found = {c}
  <2>1. ASSUME NEW flow \in Flow, SendOtp(r, flow)
        PROVE  \E j : /\ job' = [job EXCEPT ![r] = j]
                      /\ job[r].pc \notin {"compare", "void"} /\ j.pc = "replace"
    <3> DEFINE k == [Idle EXCEPT !.pc = "replace", !.flow = flow]
    <3>1. k.pc = "replace"
      BY DEF Idle
    <3>2. job' = [job EXCEPT ![r] = k] /\ job[r].pc = "idle"
      BY <2>1 DEF SendOtp
    <3> HIDE DEF k
    <3>3. QED
      BY <3>1, <3>2
  <2>2. ASSUME ForgotPassword(r)
        PROVE  \E j : /\ job' = [job EXCEPT ![r] = j]
                      /\ job[r].pc \notin {"compare", "void"} /\ j.pc = "replace"
    <3> DEFINE k == [Idle EXCEPT !.pc = "replace", !.purpose = "password_reset"]
    <3>1. k.pc = "replace"
      BY DEF Idle
    <3>2. job' = [job EXCEPT ![r] = k] /\ job[r].pc = "idle"
      BY <2>2 DEF ForgotPassword
    <3> HIDE DEF k
    <3>3. QED
      BY <3>1, <3>2
  <2>3. ASSUME ReplaceCodes(r)
        PROVE  \E j : /\ job' = [job EXCEPT ![r] = j]
                      /\ job[r].pc \notin {"compare", "void"}
                      /\ j.pc \in {"create", "idle"}
    <3> DEFINE k == [job[r] EXCEPT !.pc = "create", !.found = Of(job[r].purpose)]
    <3>1. k.pc = "create" /\ Idle.pc = "idle"
      BY <1>0 DEF Idle, Job
    <3>2. job' = [job EXCEPT ![r] = Idle] \/ job' = [job EXCEPT ![r] = k]
      BY <1>0, <2>3 DEF ReplaceCodes, Finish, CodesTypeOK
    <3>3. job[r].pc = "replace"
      BY <2>3 DEF ReplaceCodes
    <3> HIDE DEF k
    <3>4. QED
      BY <3>1, <3>2, <3>3
  <2>4. ASSUME NEW p \in Purpose, NEW flow \in Flow, ReadCode(r, p, flow)
        PROVE  \E j : /\ job' = [job EXCEPT ![r] = j]
                      /\ job[r].pc \notin {"compare", "void"} /\ j.pc = "compare"
                      /\ \E c \in CodeId : Stored(c) /\ j.found = {c}
    <3>1. PICK c \in CodeId :
            Youngest(p, c) /\ job' = [job EXCEPT ![r] = [Idle EXCEPT !.pc = "compare",
                                !.purpose = p, !.flow = flow, !.found = {c}]]
      BY <2>4 DEF ReadCode
    <3> DEFINE k == [Idle EXCEPT !.pc = "compare", !.purpose = p, !.flow = flow,
                                 !.found = {c}]
    <3>2. k.pc = "compare" /\ k.found = {c}
      BY DEF Idle
    <3>3. job' = [job EXCEPT ![r] = k] /\ job[r].pc = "idle" /\ Stored(c)
      BY <2>4, <3>1 DEF ReadCode, Youngest, Of
    <3> HIDE DEF k
    <3>4. QED
      BY <3>2, <3>3
  <2>5. QED
    BY <2>1, <2>2, <2>3, <2>4
<1>3. \A c \in CodeId : Voiding(c) \subseteq Voiding(c)'
  <2>1. job'[r] = j /\ \A t \in Request : t # r => job'[t] = job[t]
    BY <1>0, <1>2 DEF CodesTypeOK
  <2>2. QED
    BY <1>2, <2>1 DEF Voiding
<1>4. \A c \in CodeId : ~Stored(c) => Comparing(c)' \subseteq Comparing(c)
  <2>1. job'[r] = j /\ \A t \in Request : t # r => job'[t] = job[t]
    BY <1>0, <1>2 DEF CodesTypeOK
  <2>2. SUFFICES ASSUME NEW c \in CodeId, ~Stored(c), NEW t \in Comparing(c)'
                 PROVE  t \in Comparing(c)
    OBVIOUS
  <2>3. t \in Request /\ job'[t].pc = "compare" /\ job'[t].found = {c}
    BY <2>2 DEF Comparing
  <2>4. t # r
    BY <1>2, <2>1, <2>2, <2>3
  <2>5. QED
    BY <2>1, <2>3, <2>4 DEF Comparing
<1>5. Guessless
  BY <1>1, <1>3, <1>4 DEF Guessless, Stored
<1>6. QED
  BY <1>0, <1>5, GuesslessStep

(* The end of a request that made no wrong guess; its rows, if it was to   *)
(* delete them, are gone.                                                  *)
LEMMA EndingGuesses ==
    ASSUME IInv, GuessInv, NEW r \in Request, Finish(r), UNCHANGED <<guesses, lost>>,
           \A c \in CodeId :
             /\ \/ code'[c] = code[c]
                \/ code'[c].age = "gone"
                \/ code[c].age = "none" /\ code'[c].attempts = 0
             /\ code'[c].age = "none" => code[c].age = "none",
           job[r].pc = "void" => \A c \in job[r].found : code'[c].age = "gone"
    PROVE  GuessInv'
<1>1. \A c \in CodeId : /\ Comparing(c)' = Comparing(c) \ {r}
                        /\ Voiding(c)' = Voiding(c) \ {r}
  BY CrowdsAtEnd DEF IInv
<1>2. \A c \in CodeId : Stored(c)' => r \notin Voiding(c)
  BY DEF Stored, Voiding
<1>3. \A c \in CodeId :
        Stored(c)' => \/ Stored(c) /\ code'[c].attempts = code[c].attempts
                      \/ code[c].age = "none" /\ code'[c].attempts = 0
  BY DEF Stored
<1>4. Guessless
  BY <1>1, <1>2, <1>3 DEF Guessless
<1>5. QED
  BY <1>4, GuesslessStep DEF IInv

LEMMA CreatingGuesses ==
    ASSUME IInv, GuessInv, NEW r \in Request, CreateCode(r)
    PROVE  GuessInv'
<1>1. PICK n \in CodeId :
        /\ code[n].age = "none"
        /\ code' = [c \in CodeId |->
                      IF c = n
                        THEN [age |-> "fresh", purpose |-> job[r].purpose,
                              attempts |-> 0]
                        ELSE IF c \in job[r].found
                               THEN [code[c] EXCEPT !.age = "gone"]
                               ELSE code[c]]
  BY DEF CreateCode
<1>2. Finish(r) /\ UNCHANGED <<guesses, lost>> /\ job[r].pc = "create"
  BY DEF CreateCode
<1>3. \A c \in CodeId : code[c] \in CodeRow
  BY DEF IInv, CodesTypeOK
<1>4. \A c \in CodeId : [code[c] EXCEPT !.age = "gone"].age = "gone"
  BY <1>3 DEF CodeRow
<1>5. /\ code'[n].age = "fresh" /\ code'[n].attempts = 0
      /\ \A c \in CodeId : c # n => code'[c].age = "gone" \/ code'[c] = code[c]
  BY <1>1, <1>4
<1>6. QED
  BY <1>1, <1>2, <1>5, EndingGuesses

LEMMA DeletingGuesses ==
    ASSUME IInv, GuessInv, NEW r \in Request,
           VoidCode(r) \/ VerifyOtp(r) \/ ResetPassword(r)
    PROVE  GuessInv'
<1>1. Finish(r) /\ UNCHANGED <<guesses, lost>>
  BY DEF VoidCode, VerifyOtp, ResetPassword
<1>2. ASSUME VoidCode(r)
      PROVE  /\ \A c \in CodeId : code'[c] = code[c] \/ code'[c].age = "gone"
             /\ \A c \in job[r].found : code'[c].age = "gone"
  <2>1. \A c \in job[r].found : c \in CodeId
    BY DEF IInv, CodesTypeOK, Job
  <2>2. QED
    BY <1>2, <2>1, DeletedRows DEF VoidCode, IInv
<1>3. ASSUME VerifyOtp(r) \/ ResetPassword(r)
      PROVE  /\ \A c \in CodeId : code'[c] = code[c] \/ code'[c].age = "gone"
             /\ job[r].pc # "void"
  <2>1. PICK c \in CodeId : job[r].found = {c}
    BY <1>3 DEF IInv, OneRowRead, VerifyOtp, ResetPassword
  <2>2. (\E found : DeleteRows(found)) \/ UNCHANGED code
    BY <1>3, <2>1 DEF VerifyOtp, ResetPassword
  <2>3. QED
    BY <1>3, <2>2, DeletedRows DEF IInv, VerifyOtp, ResetPassword
<1>4. QED
  BY <1>1, <1>2, <1>3, EndingGuesses

(* A wrong guess: a stored row counts it, and the one that fills the       *)
(* counter goes on to delete the row; a deleted row loses one of those who *)
(* still compare with it.                                                  *)
LEMMA WrongGuesses ==
    ASSUME IInv, GuessInv, NEW r \in Request, WrongGuess(r)
    PROVE  GuessInv'
<1>1. PICK c \in CodeId : job[r].found = {c}
  BY DEF IInv, OneRowRead, WrongGuess
<1>2. /\ job[r].pc = "compare"
      /\ guesses' = [guesses EXCEPT ![c] = @ + 1]
      /\ \/ /\ Stored(c)
            /\ code' = [code EXCEPT ![c].attempts = @ + 1]
            /\ IF TooMany(code[c].attempts + 1) THEN Step(r, "void") ELSE Finish(r)
         \/ ~Stored(c) /\ Finish(r) /\ UNCHANGED code
  BY <1>1 DEF WrongGuess
<1>3. /\ code \in [CodeId -> CodeRow] /\ code[c] \in CodeRow
      /\ guesses \in [CodeId -> Nat] /\ guesses[c] \in Nat
      /\ lost[c] \in Nat /\ CodesTypeOK
  BY DEF IInv, CodesTypeOK
<1>4. /\ guesses'[c] = guesses[c] + 1 /\ lost' = lost
      /\ \A d \in CodeId : d # c => guesses'[d] = guesses[d]
  BY <1>2, <1>3 DEF WrongGuess
<1>5. /\ \A d \in CodeId : code'[d].age = code[d].age
      /\ \A d \in CodeId : d # c => code'[d] = code[d]
  <2>1. ASSUME code' = [code EXCEPT ![c].attempts = @ + 1]
        PROVE  /\ \A d \in CodeId : code'[d].age = code[d].age
               /\ \A d \in CodeId : d # c => code'[d] = code[d]
    BY <1>3, <2>1 DEF CodeRow
  <2>2. QED
    BY <1>2, <2>1
<1>6. \A d \in CodeId : Stored(d)' <=> Stored(d)
  BY <1>5 DEF Stored
<1>7. /\ \A d \in CodeId : d # c => /\ Comparing(d)' = Comparing(d)
                                    /\ Voiding(d)' = Voiding(d)
      /\ r \in Comparing(c) /\ r \notin Voiding(c)
  <2>1. \A t \in Request : t # r => job'[t] = job[t]
    BY <1>2, <1>3 DEF Finish, Step, CodesTypeOK
  <2>2. \/ job'[r].pc = "idle"
        \/ job'[r].pc = "void" /\ job'[r].found = {c}
    <3>1. ASSUME Finish(r) PROVE job'[r].pc = "idle"
      BY <1>3, <3>1, Finished DEF Idle
    <3>2. ASSUME Step(r, "void") PROVE job'[r].pc = "void" /\ job'[r].found = {c}
      BY <1>1, <1>3, <3>2 DEF Step, CodesTypeOK, Job
    <3>3. Finish(r) \/ Step(r, "void")
      BY <1>2
    <3>4. QED
      BY <3>1, <3>2, <3>3
  <2>3. \A d \in CodeId : d # c => {d} # {c}
    OBVIOUS
  <2>4. \A d \in CodeId : d # c => Comparing(d)' = Comparing(d)
    BY <1>1, <2>1, <2>2, <2>3 DEF Comparing
  <2>5. \A d \in CodeId : d # c => Voiding(d)' = Voiding(d)
    BY <1>1, <1>2, <2>1, <2>2, <2>3 DEF Voiding
  <2>6. QED
    BY <1>1, <1>2, <2>4, <2>5 DEF Comparing, Voiding
<1>8. MaxAttempts \in Nat \ {0}
  BY OneTimeCodesAssumption
<1>9. ASSUME Stored(c)
      PROVE  /\ guesses'[c] <= code'[c].attempts + lost[c]
             /\ guesses'[c] <= MaxAttempts - 1 + Cardinality(Voiding(c)') + lost[c]
  <2>1. /\ guesses[c] <= code[c].attempts + lost[c] /\ code[c].attempts \in Nat
        /\ guesses[c] <= MaxAttempts - 1 + Cardinality(Voiding(c)) + lost[c]
    BY <1>3, <1>9 DEF GuessInv, CounterCounts, ExcessIsVoided, CodeRow
  <2>2. code'[c].attempts = code[c].attempts + 1
    BY <1>2, <1>3, <1>9 DEF CodeRow
  <2>3. ASSUME TooMany(code[c].attempts + 1)
        PROVE  Cardinality(Voiding(c)') = Cardinality(Voiding(c)) + 1
    <3>1. Step(r, "void")
      BY <1>2, <1>9, <2>3
    <3>2. /\ job'[r].pc = "void" /\ job'[r].found = {c}
          /\ \A t \in Request : t # r => job'[t] = job[t]
      BY <1>1, <1>3, <3>1 DEF Step, CodesTypeOK, Job
    <3>3. Voiding(c)' = Voiding(c) \cup {r}
      BY <3>2 DEF Voiding
    <3>4. QED
      BY <1>7, <3>3, TwoCrowds, FS_AddElement
  <2>4. ASSUME ~TooMany(code[c].attempts + 1)
        PROVE  guesses'[c] <= MaxAttempts - 1 + lost[c]
    BY <1>3, <1>4, <1>8, <2>1, <2>4 DEF TooMany
  <2>5. guesses'[c] <= MaxAttempts - 1 + Cardinality(Voiding(c)') + lost[c]
    BY <1>3, <1>4, <1>8, <2>1, <2>3, <2>4, TwoCrowds, TwoCrowdsNext
  <2>6. QED
    BY <1>3, <1>4, <2>1, <2>2, <2>5
<1>10. ASSUME ~Stored(c)
       PROVE  guesses'[c] + Cardinality(Comparing(c)')
                <= MaxAttempts - 1 + Cardinality(Request) + lost[c]
  <2>1. Finish(r)
    BY <1>2, <1>10
  <2>2. Comparing(c)' = Comparing(c) \ {r}
    BY <1>3, <2>1, CrowdsAtEnd
  <2>3. Cardinality(Comparing(c)') = Cardinality(Comparing(c)) - 1
    BY <1>7, <2>2, TwoCrowds, FS_RemoveElement
  <2>4. guesses[c] + Cardinality(Comparing(c))
          <= MaxAttempts - 1 + Cardinality(Request) + lost[c]
    BY <1>10 DEF GuessInv, LastGuesses
  <2>5. QED
    BY <1>3, <1>4, <1>8, <2>3, <2>4, TwoCrowds
<1>11. code[c].age # "none"
  BY <1>1 DEF IInv, ReadWasIssued
<1>12. CounterCounts'
  BY <1>4, <1>5, <1>6, <1>9, <1>11 DEF GuessInv, CounterCounts
<1>13. ExcessIsVoided'
  BY <1>4, <1>6, <1>7, <1>9 DEF GuessInv, ExcessIsVoided
<1>14. LastGuesses'
  BY <1>4, <1>6, <1>7, <1>10 DEF GuessInv, LastGuesses
<1>15. QED
  BY <1>12, <1>13, <1>14 DEF GuessInv

(* A request that is cut off: what it leaves behind is on record.          *)
LEMMA LosingGuesses ==
    ASSUME IInv, GuessInv, NEW r \in Request, RequestLost(r)
    PROVE  GuessInv'
<1>1. CASE job[r].pc # "void" /\ UNCHANGED <<guesses, lost>>
  BY <1>1, EndingGuesses DEF RequestLost
<1>2. CASE job[r].pc \in {"compare", "void"} /\ ~UNCHANGED <<guesses, lost>>
  <2>1. PICK c \in CodeId : job[r].found = {c}
    BY <1>2 DEF IInv, OneRowRead
  <2>2. /\ Finish(r) /\ UNCHANGED code
        /\ lost' = [lost EXCEPT ![c] = @ + 1]
        /\ guesses' = IF job[r].pc = "compare"
                        THEN [guesses EXCEPT ![c] = @ + 1] ELSE guesses
    BY <1>2, <2>1 DEF RequestLost
  <2>3. /\ \A d \in CodeId : guesses[d] \in Nat /\ lost[d] \in Nat
        /\ guesses \in [CodeId -> Nat] /\ lost \in [CodeId -> Nat]
        /\ \A d \in CodeId : code[d].attempts \in Nat
        /\ MaxAttempts \in Nat \ {0}
    BY OneTimeCodesAssumption DEF IInv, CodesTypeOK, CodeRow
  <2>4. /\ lost'[c] = lost[c] + 1
        /\ \/ job[r].pc = "compare" /\ guesses'[c] = guesses[c] + 1
           \/ job[r].pc = "void" /\ guesses'[c] = guesses[c]
        /\ \A d \in CodeId : d # c => guesses'[d] = guesses[d] /\ lost'[d] = lost[d]
    BY <1>2, <2>2, <2>3
  <2>5. \A d \in CodeId : Stored(d)' <=> Stored(d)
    BY <2>2 DEF Stored
  <2>6. \A d \in CodeId : /\ Comparing(d)' = Comparing(d) \ {r}
                          /\ Voiding(d)' = Voiding(d) \ {r}
    BY <2>2, CrowdsAtEnd DEF IInv
  <2>7. \A d \in CodeId : d # c => r \notin Comparing(d) /\ r \notin Voiding(d)
    BY <2>1 DEF Comparing, Voiding
  <2>8. \A d \in CodeId : d # c => Comparing(d)' = Comparing(d) /\ Voiding(d)' = Voiding(d)
    BY <2>6, <2>7
  <2>9. \/ /\ job[r].pc = "compare"
           /\ Cardinality(Comparing(c)') = Cardinality(Comparing(c)) - 1
           /\ Voiding(c)' = Voiding(c)
        \/ /\ job[r].pc = "void"
           /\ Cardinality(Voiding(c)') = Cardinality(Voiding(c)) - 1
           /\ Comparing(c)' = Comparing(c)
    <3>1. CASE job[r].pc = "compare"
      <4>1. r \in Comparing(c) /\ r \notin Voiding(c)
        BY <2>1, <3>1 DEF Comparing, Voiding
      <4>2. Cardinality(Comparing(c) \ {r}) = Cardinality(Comparing(c)) - 1
        BY <4>1, TwoCrowds, FS_RemoveElement
      <4>3. QED
        BY <2>6, <3>1, <4>1, <4>2
    <3>2. CASE job[r].pc = "void"
      <4>1. r \in Voiding(c) /\ r \notin Comparing(c)
        BY <2>1, <3>2 DEF Comparing, Voiding
      <4>2. Cardinality(Voiding(c) \ {r}) = Cardinality(Voiding(c)) - 1
        BY <4>1, TwoCrowds, FS_RemoveElement
      <4>3. QED
        BY <2>6, <3>2, <4>1, <4>2
    <3>3. QED
      BY <1>2, <3>1, <3>2
  <2>10. code[c].age # "none"
    BY <2>1 DEF IInv, ReadWasIssued
  <2>11. CounterCounts'
    <3>1. Stored(c) => guesses'[c] <= code[c].attempts + lost'[c]
      <4>1. Stored(c) => guesses[c] <= code[c].attempts + lost[c]
        BY DEF GuessInv, CounterCounts
      <4>2. QED
        BY <2>3, <2>4, <4>1
    <3>2. QED
      BY <2>2, <2>4, <2>5, <2>10, <3>1 DEF GuessInv, CounterCounts
  <2>12. ExcessIsVoided'
    <3>1. Stored(c) => guesses'[c] <= MaxAttempts - 1 + Cardinality(Voiding(c)') + lost'[c]
      <4>1. Stored(c) => guesses[c] <= MaxAttempts - 1 + Cardinality(Voiding(c)) + lost[c]
        BY DEF GuessInv, ExcessIsVoided
      <4>2. QED
        BY <2>3, <2>4, <2>9, <4>1, TwoCrowds, TwoCrowdsNext
    <3>2. QED
      BY <2>4, <2>5, <2>8, <3>1 DEF GuessInv, ExcessIsVoided
  <2>13. LastGuesses'
    <3>1. ~Stored(c) => guesses'[c] + Cardinality(Comparing(c)')
                          <= MaxAttempts - 1 + Cardinality(Request) + lost'[c]
      <4>1. ~Stored(c) => guesses[c] + Cardinality(Comparing(c))
                            <= MaxAttempts - 1 + Cardinality(Request) + lost[c]
        BY DEF GuessInv, LastGuesses
      <4>2. QED
        BY <2>3, <2>4, <2>9, <4>1, TwoCrowds, TwoCrowdsNext
    <3>2. QED
      BY <2>4, <2>5, <2>8, <3>1 DEF GuessInv, LastGuesses
  <2>14. QED
    BY <2>11, <2>12, <2>13 DEF GuessInv
<1>3. CASE job[r].pc = "void" /\ UNCHANGED <<guesses, lost>>
  <2>1. PICK c \in CodeId : lost' = [lost EXCEPT ![c] = @ + 1]
    BY <1>3 DEF RequestLost, IInv, CodesTypeOK, Job
  <2>2. lost[c] \in Nat /\ lost'[c] = lost[c] + 1
    BY <2>1 DEF IInv, CodesTypeOK
  <2>3. QED
    BY <1>3, <2>2
<1>4. QED
  BY <1>1, <1>2, <1>3 DEF RequestLost

LEMMA AgingGuesses ==
    ASSUME IInv, GuessInv,
           TimePasses \/ RegisterWithPassword \/ ChangePassword \/ DeleteAccount
    PROVE  GuessInv'
<1>1. UNCHANGED <<guesses, lost, job>>
  BY DEF TimePasses, RegisterWithPassword, ChangePassword, DeleteAccount
<1>2. \A c \in CodeId : Voiding(c)' = Voiding(c) /\ Comparing(c)' = Comparing(c)
  BY <1>1 DEF Voiding, Comparing
<1>3. ASSUME TimePasses
      PROVE  \A c \in CodeId :
               /\ Stored(c)' => Stored(c)
               /\ code'[c].attempts = code[c].attempts
               /\ code'[c].age = "none" => code[c].age = "none"
  <2>1. PICK d \in CodeId :
          Unexpired(d) /\ code' = [code EXCEPT ![d].age = Aged(@)]
    BY <1>3 DEF TimePasses
  <2>2. code \in [CodeId -> CodeRow] /\ code[d] \in CodeRow
    BY DEF IInv, CodesTypeOK
  <2>3. /\ code'[d].attempts = code[d].attempts
        /\ code'[d].age \in {"live", "expired"}
        /\ \A c \in CodeId : c # d => code'[c] = code[c]
    BY <2>1, <2>2 DEF CodeRow, Aged
  <2>4. QED
    BY <2>1, <2>3 DEF Stored, Unexpired
<1>4. ASSUME UNCHANGED code
      PROVE  \A c \in CodeId :
               /\ Stored(c)' => Stored(c)
               /\ code'[c].attempts = code[c].attempts
               /\ code'[c].age = "none" => code[c].age = "none"
  BY <1>4 DEF Stored
<1>5. TimePasses \/ UNCHANGED code
  BY DEF RegisterWithPassword, ChangePassword, DeleteAccount
<1>6. Guessless
  BY <1>1, <1>2, <1>3, <1>4, <1>5 DEF Guessless
<1>7. QED
  BY <1>6, GuesslessStep DEF IInv

LEMMA InitGuesses == CodesInit => GuessInv
<1> SUFFICES ASSUME CodesInit PROVE GuessInv
  OBVIOUS
<1>1. \A c \in CodeId : /\ guesses[c] = 0 /\ lost[c] = 0 /\ code[c].age = "none"
                        /\ ~Stored(c) /\ Comparing(c) = {}
  BY DEF CodesInit, Stored, Comparing, Idle
<1>2. Cardinality({}) = 0 /\ Cardinality(Request) \in Nat
  BY FS_EmptySet, FS_CardinalityType, OneTimeCodesAssumption
<1>3. MaxAttempts \in Nat \ {0}
  BY OneTimeCodesAssumption
<1>4. CounterCounts /\ ExcessIsVoided
  BY <1>1 DEF CounterCounts, ExcessIsVoided
<1>5. LastGuesses
  <2>1. \A c \in CodeId : Cardinality(Comparing(c)) = 0
    BY <1>1, <1>2, Zenon
  <2>2. QED
    BY <1>1, <1>2, <1>3, <2>1 DEF LastGuesses
<1>6. QED
  BY <1>4, <1>5 DEF GuessInv

LEMMA StepGuesses ==
    ASSUME IInv, GuessInv, [CodesNext]_codesVars
    PROVE  GuessInv'
<1>1. ASSUME NEW r \in Request,
             \/ \E flow \in Flow : SendOtp(r, flow) \/ ReadCode(r, "auth", flow)
             \/ ForgotPassword(r)
             \/ ReadCode(r, "password_reset", "login")
             \/ ReplaceCodes(r)
      PROVE  GuessInv'
  <2>1. "auth" \in Purpose /\ "password_reset" \in Purpose /\ "login" \in Flow
    BY DEF Purpose, Flow
  <2>2. QED
    BY <1>1, <2>1, ReadingGuesses
<1>2. ASSUME UNCHANGED codesVars PROVE GuessInv'
  BY <1>2 DEF codesVars, GuessInv, CounterCounts, ExcessIsVoided, LastGuesses,
              Stored, Comparing, Voiding
<1>3. QED
  BY <1>1, <1>2, CreatingGuesses, DeletingGuesses, WrongGuesses, LosingGuesses,
     AgingGuesses DEF CodesNext

(* Guessing stays bounded, for any limit and any number of requests: the   *)
(* comparison before the increment in verifyOtp and resetPassword lets     *)
(* guesses in flight together go past OTP_MAX_ATTEMPTS by at most the      *)
(* other requests in flight, and by those that were cut off.               *)
THEOREM GuessingIsBounded == CodesSpec => []GuessesBounded
<1>1. IInv /\ GuessInv /\ [CodesNext]_codesVars => GuessInv'
  BY StepGuesses
<1>2. IInv /\ GuessInv => GuessesBounded
  <2> SUFFICES ASSUME IInv, GuessInv, NEW c \in CodeId
               PROVE  guesses[c] <= MaxAttempts + Cardinality(Request) - 1 + lost[c]
    BY DEF GuessesBounded
  <2>1. guesses[c] \in Nat /\ lost[c] \in Nat /\ MaxAttempts \in Nat
    BY OneTimeCodesAssumption DEF IInv, CodesTypeOK
  <2>2. Stored(c) => guesses[c] <= MaxAttempts - 1 + Cardinality(Voiding(c)) + lost[c]
    BY DEF GuessInv, ExcessIsVoided
  <2>3. ~Stored(c) => guesses[c] + Cardinality(Comparing(c))
                        <= MaxAttempts - 1 + Cardinality(Request) + lost[c]
    BY DEF GuessInv, LastGuesses
  <2>4. QED
    BY <2>1, <2>2, <2>3, TwoCrowds
<1>3. QED
  BY <1>1, <1>2, InitGuesses, Invariance, PTL DEF CodesSpec

-----------------------------------------------------------------------------
(* Sign-ins.                                                               *)

(* A request of finaliseAuth.                                              *)
Signing == [pc : {"idle", "bootstrap", "initial", "profile", "session",
                  "load", "fallback", "finish"},
            isNew : BOOLEAN, initial : RoleChoice \cup {None},
            todo : SUBSET Role, roles : SUBSET Role]
UserRow == [exists : BOOLEAN, profile : BOOLEAN, roles : SUBSET Role,
            last : Role \cup {None}]

(* Without an account there are no rows, no requests and no token.         *)
NothingWithoutUser ==
    ~user.exists =>
        /\ user = NoUser /\ token = NoToken /\ review = None
        /\ \A l \in Login : signin[l] = Done
        /\ \A k \in Gated : applied[k] = None

(* The roles a request loaded are still held, and it never goes on to the  *)
(* token without one.                                                      *)
LoadedRolesAreHeld ==
    \A l \in Login :
        /\ signin[l].roles \subseteq user.roles
        /\ signin[l].pc = "finish" => signin[l].roles # {}

(* How far a sign-up has come: what is granted and what it will grant.     *)
Progress(s, u) ==
    \/ s.pc = "bootstrap" /\ BaseRoles \subseteq u.roles \cup s.todo
    \/ s.pc \in {"initial", "profile"} /\ BaseRoles \subseteq u.roles
    \/ /\ s.pc \in {"session", "load", "fallback", "finish"}
       /\ BaseRoles \subseteq u.roles /\ u.profile

SignUpsProgress == \A l \in Login : signin[l].isNew => Progress(signin[l], user)

SignInIInv ==
    /\ SignInTypeOK
    /\ NothingWithoutUser
    /\ LoadedRolesAreHeld
    /\ SignUpsProgress
    /\ TokenRolesAreHeld
    /\ ApprovedHasRole
    /\ SignUpIsComplete

-----------------------------------------------------------------------------

LEMMA RolesAreTyped ==
    /\ BaseRoles \subseteq Role /\ Gated \subseteq BaseRoles
    /\ \A r \in RoleChoice : Normalised(r) \in Role
    /\ \A r \in Role : Normalised(r) = r
BY SignInAssumption DEF BaseRoles, Role, RoleChoice, Normalised

LEMMA InitSignInIInv == SignInInit => SignInIInv
<1> SUFFICES ASSUME SignInInit PROVE SignInIInv
  OBVIOUS
<1>1. user \in UserRow /\ token = NoToken /\ review = None /\ gap \in BOOLEAN
  <2> DEFINE old == [NoUser EXCEPT !.exists = TRUE, !.profile = TRUE,
                                   !.roles = {"user"}]
  <2>1. NoUser \in UserRow
    <3>1. {} \in SUBSET Role /\ None \in Role \cup {None}
      OBVIOUS
    <3>2. QED
      BY <3>1 DEF NoUser, UserRow
  <2>2. {"user"} \in SUBSET Role
    BY DEF Role, BaseRoles
  <2>3. old \in UserRow
    BY <2>1, <2>2 DEF UserRow
  <2>4. /\ (user = NoUser /\ gap = FALSE) \/ (user = old /\ gap = TRUE)
        /\ token = NoToken /\ review = None
    BY DEF SignInInit
  <2> HIDE DEF old
  <2>5. QED
    BY <2>1, <2>3, <2>4
<1>2. /\ signin = [l \in Login |-> Done] /\ applied = [k \in Gated |-> None]
      /\ shop = FALSE /\ skipped = {}
  BY DEF SignInInit
<1>3. user = NoUser \/ (user.exists /\ gap)
  BY DEF SignInInit, NoUser
<1>4. SignInTypeOK
  BY <1>1, <1>2 DEF SignInTypeOK, UserRow, Done, Token, NoToken, None
<1>5. NothingWithoutUser
  BY <1>1, <1>2, <1>3 DEF NothingWithoutUser
<1>6. LoadedRolesAreHeld /\ SignUpsProgress
  BY <1>2 DEF LoadedRolesAreHeld, SignUpsProgress, Done
<1>7. TokenRolesAreHeld /\ ApprovedHasRole
  BY <1>1, <1>2 DEF TokenRolesAreHeld, ApprovedHasRole, None
<1>8. SignUpIsComplete
  BY <1>3 DEF SignUpIsComplete, NoUser
<1>9. QED
  BY <1>4, <1>5, <1>6, <1>7, <1>8 DEF SignInIInv

(* The row only grows: nothing takes a role or the profile away.           *)
Grows(u, v) ==
    /\ v.exists = u.exists
    /\ u.profile => v.profile
    /\ u.roles \subseteq v.roles

LEMMA GrantGrows ==
    ASSUME user \in UserRow, NEW r \in RoleChoice, GrantRole(r)
    PROVE  /\ user' \in UserRow /\ Grows(user, user')
           /\ user'.roles = user.roles \cup {Normalised(r)}
BY RolesAreTyped DEF GrantRole, UserRow, Grows

(* A request goes on and the row may grow; everything else stays.          *)
LEMMA SignInMoves ==
    ASSUME SignInIInv, NEW l \in Login, signin[l].pc # "idle",
           NEW s \in Signing, signin' = [signin EXCEPT ![l] = s],
           user' \in UserRow, Grows(user, user'), UNCHANGED <<gates, token, gap>>,
           s.isNew = signin[l].isNew,
           s.isNew => Progress(s, user'),
           s.roles \subseteq user'.roles, s.pc = "finish" => s.roles # {}
    PROVE  SignInIInv'
<1>1. user.exists /\ user'.exists
  BY DEF SignInIInv, NothingWithoutUser, Done, Grows
<1>2. /\ signin' \in [Login -> Signing] /\ signin'[l] = s
      /\ \A m \in Login : m # l => signin'[m] = signin[m]
  BY DEF SignInIInv, SignInTypeOK, Signing
<1>3. UNCHANGED <<applied, shop, review, skipped, token, gap>>
  BY DEF gates
<1>4. SignInTypeOK'
  BY <1>2, <1>3 DEF SignInIInv, SignInTypeOK, Signing, UserRow
<1>5. NothingWithoutUser'
  BY <1>1 DEF NothingWithoutUser
<1>6. LoadedRolesAreHeld'
  BY <1>2 DEF SignInIInv, LoadedRolesAreHeld, Grows
<1>7. SignUpsProgress'
  BY <1>2 DEF SignInIInv, SignUpsProgress, Progress, Grows
<1>8. TokenRolesAreHeld'
  BY <1>3 DEF SignInIInv, TokenRolesAreHeld, Grows
<1>9. ApprovedHasRole'
  BY <1>3 DEF SignInIInv, ApprovedHasRole, Grows
<1>10. SignUpIsComplete'
  BY <1>1, <1>2, <1>3 DEF SignInIInv, SignUpIsComplete, Grows
<1>11. QED
  BY <1>4, <1>5, <1>6, <1>7, <1>8, <1>9, <1>10 DEF SignInIInv

-----------------------------------------------------------------------------
(* One lemma per action, or per group of actions with the same effect.     *)

LEMMA EnsureDefaultRoleStep ==
    ASSUME SignInIInv, NEW l \in Login, EnsureDefaultRole(l)
    PROVE  SignInIInv'
<1>1. PICK r \in signin[l].todo :
        /\ GrantRole(r)
        /\ signin' = [signin EXCEPT ![l].todo = @ \ {r}, ![l].pc =
                         IF signin[l].todo # {r} THEN @
                         ELSE IF @ = "bootstrap" THEN "initial" ELSE "load"]
  BY DEF EnsureDefaultRole
<1>2. /\ signin[l].pc \in {"bootstrap", "fallback"}
      /\ UNCHANGED <<gates, token, gap>>
  BY DEF EnsureDefaultRole
<1>3. signin \in [Login -> Signing] /\ signin[l] \in Signing /\ user \in UserRow
  BY DEF SignInIInv, SignInTypeOK, Signing, UserRow
<1>4. r \in Role /\ r \in RoleChoice /\ Normalised(r) = r
  BY <1>3, RolesAreTyped DEF Signing, RoleChoice
<1>5. /\ user' \in UserRow /\ Grows(user, user')
      /\ user'.roles = user.roles \cup {r}
  BY <1>1, <1>3, <1>4, GrantGrows
<1> DEFINE pc == IF signin[l].todo # {r} THEN signin[l].pc
                 ELSE IF signin[l].pc = "bootstrap" THEN "initial" ELSE "load"
           s == [signin[l] EXCEPT !.todo = signin[l].todo \ {r}, !.pc = pc]
<1>6. pc \in {"bootstrap", "initial", "fallback", "load"}
  BY <1>2
<1>7. /\ s \in Signing /\ s.pc = pc /\ s.isNew = signin[l].isNew
      /\ s.todo = signin[l].todo \ {r} /\ s.roles = signin[l].roles
  BY <1>3, <1>6 DEF Signing
<1>8. signin' = [signin EXCEPT ![l] = s]
  BY <1>1, <1>3 DEF Signing
<1>9. s.isNew => Progress(s, user')
  <2> SUFFICES ASSUME signin[l].isNew PROVE Progress(s, user')
    BY <1>7
  <2>1. Progress(signin[l], user)
    BY DEF SignInIInv, SignUpsProgress
  <2>2. ASSUME signin[l].pc = "bootstrap" PROVE Progress(s, user')
    <3>1. BaseRoles \subseteq user.roles \cup signin[l].todo
      BY <2>1, <2>2 DEF Progress
    <3>2. BaseRoles \subseteq user'.roles \cup s.todo
      BY <1>5, <1>7, <3>1
    <3>3. \/ pc = "bootstrap"
          \/ pc = "initial" /\ s.todo = {}
      BY <1>7, <2>2
    <3>4. QED
      BY <1>7, <3>2, <3>3 DEF Progress
  <2>3. ASSUME signin[l].pc = "fallback" PROVE Progress(s, user')
    <3>1. BaseRoles \subseteq user.roles /\ user.profile
      BY <2>1, <2>3 DEF Progress
    <3>2. pc \in {"fallback", "load"}
      BY <2>3
    <3>3. QED
      BY <1>5, <1>7, <3>1, <3>2 DEF Progress, Grows
  <2>4. QED
    BY <1>2, <2>2, <2>3
<1>10. s.roles \subseteq user'.roles /\ s.pc # "finish" /\ signin[l].pc # "idle"
  BY <1>2, <1>5, <1>6, <1>7 DEF SignInIInv, LoadedRolesAreHeld
<1> HIDE DEF s, pc
<1>11. QED
  BY <1>2, <1>5, <1>7, <1>8, <1>9, <1>10, SignInMoves

(* The steps of finaliseAuth that follow: one more await, at most a grant  *)
(* or the profile.                                                         *)
LEMMA NextAwait ==
    ASSUME SignInIInv, NEW l \in Login, NEW pc, Goto(l, pc),
           UNCHANGED <<gates, token, gap>>,
           user' \in UserRow, Grows(user, user'),
           \/ signin[l].pc = "initial" /\ pc = "profile" /\ signin[l].isNew
           \/ signin[l].pc = "initial" /\ pc = "session" /\ ~signin[l].isNew
           \/ signin[l].pc = "profile" /\ pc = "session" /\ user'.profile
           \/ signin[l].pc = "session" /\ pc = "load"
    PROVE  SignInIInv'
<1> DEFINE s == [signin[l] EXCEPT !.pc = pc]
<1>1. signin \in [Login -> Signing] /\ signin[l] \in Signing
  BY DEF SignInIInv, SignInTypeOK, Signing
<1>2. /\ s \in Signing /\ s.pc = pc /\ s.isNew = signin[l].isNew
      /\ s.roles = signin[l].roles
  BY <1>1 DEF Signing
<1>3. signin' = [signin EXCEPT ![l] = s]
  BY <1>1 DEF Goto
<1>4. s.isNew => Progress(s, user')
  <2>1. signin[l].isNew => Progress(signin[l], user)
    BY DEF SignInIInv, SignUpsProgress
  <2> HIDE DEF s
  <2>2. QED
    BY <1>2, <2>1 DEF Progress, Grows
<1>5. s.roles \subseteq user'.roles /\ s.pc # "finish" /\ signin[l].pc # "idle"
  BY <1>2 DEF SignInIInv, LoadedRolesAreHeld, Grows
<1> HIDE DEF s
<1>6. QED
  BY <1>2, <1>3, <1>4, <1>5, SignInMoves

LEMMA FinaliseStep ==
    ASSUME SignInIInv, NEW l \in Login,
           GrantInitial(l) \/ CreateForUser(l)
             \/ \E r \in Choices \cup {None} : AttachSession(l, r)
    PROVE  SignInIInv'
<1>1. user \in UserRow /\ signin[l] \in Signing
  BY DEF SignInIInv, SignInTypeOK, UserRow, Signing
<1>2. ASSUME UNCHANGED user PROVE user' \in UserRow /\ Grows(user, user')
  BY <1>1, <1>2 DEF Grows
<1>3. ASSUME GrantInitial(l) PROVE SignInIInv'
  <2>1. /\ signin[l].pc = "initial"
        /\ Goto(l, IF signin[l].isNew THEN "profile" ELSE "session")
        /\ UNCHANGED <<gates, token, gap>>
        /\ UNCHANGED user \/ (GrantRole(signin[l].initial)
                                /\ signin[l].initial \notin {None, "user"})
    BY <1>3 DEF GrantInitial
  <2>2. signin[l].initial \in RoleChoice \cup {None}
    BY <1>1 DEF Signing
  <2>3. user' \in UserRow /\ Grows(user, user')
    BY <1>1, <1>2, <2>1, <2>2, GrantGrows
  <2>4. ASSUME signin[l].isNew PROVE SignInIInv'
    BY <2>1, <2>3, <2>4, NextAwait
  <2>5. ASSUME ~signin[l].isNew PROVE SignInIInv'
    BY <2>1, <2>3, <2>5, NextAwait
  <2>6. QED
    BY <2>4, <2>5
<1>4. ASSUME CreateForUser(l) PROVE SignInIInv'
  <2>1. /\ signin[l].pc = "profile" /\ Goto(l, "session")
        /\ user' = [user EXCEPT !.profile = TRUE]
        /\ UNCHANGED <<gates, token, gap>>
    BY <1>4 DEF CreateForUser
  <2>2. user' \in UserRow /\ Grows(user, user') /\ user'.profile
    BY <1>1, <2>1 DEF UserRow, Grows
  <2>3. QED
    BY <2>1, <2>2, NextAwait
<1>5. ASSUME NEW r \in Choices \cup {None}, AttachSession(l, r) PROVE SignInIInv'
  <2>1. /\ signin[l].pc = "session" /\ Goto(l, "load")
        /\ UNCHANGED user \/ (GrantRole(r) /\ r # None)
        /\ UNCHANGED <<gates, token, gap>>
    BY <1>5 DEF AttachSession
  <2>2. r # None => r \in RoleChoice
    BY SignInAssumption
  <2>3. user' \in UserRow /\ Grows(user, user')
    BY <1>1, <1>2, <2>1, <2>2, GrantGrows
  <2>4. QED
    BY <2>1, <2>3, NextAwait
<1>6. QED
  BY <1>3, <1>4, <1>5

LEMMA LoadRolesStep ==
    ASSUME SignInIInv, NEW l \in Login, LoadRoles(l)
    PROVE  SignInIInv'
<1> DEFINE pc == IF user.roles = {} THEN "fallback" ELSE "finish"
           todo == IF user.roles = {} THEN BaseRoles ELSE {}
           s == [signin[l] EXCEPT !.pc = pc, !.todo = todo, !.roles = user.roles]
<1>1. /\ signin \in [Login -> Signing] /\ signin[l] \in Signing
      /\ user \in UserRow /\ user.roles \subseteq Role
  BY DEF SignInIInv, SignInTypeOK, Signing, UserRow
<1>2. todo \in SUBSET Role /\ pc \in {"fallback", "finish"}
      /\ (pc = "finish" => user.roles # {})
  BY RolesAreTyped
<1>3. /\ s \in Signing /\ s.pc = pc /\ s.isNew = signin[l].isNew
      /\ s.roles = user.roles
  BY <1>1, <1>2 DEF Signing
<1>4. /\ signin[l].pc = "load" /\ UNCHANGED <<user, gates, token, gap>>
      /\ signin' = [signin EXCEPT ![l] = s]
  BY <1>1 DEF LoadRoles
<1>5. user' \in UserRow /\ Grows(user, user')
  BY <1>1, <1>4 DEF Grows
<1>6. s.isNew => Progress(s, user')
  <2>1. signin[l].isNew => Progress(signin[l], user)
    BY DEF SignInIInv, SignUpsProgress
  <2> HIDE DEF s, pc, todo
  <2>2. QED
    BY <1>2, <1>3, <1>4, <2>1 DEF Progress
<1> HIDE DEF s, pc, todo
<1>7. QED
  BY <1>2, <1>3, <1>4, <1>5, <1>6, SignInMoves

LEMMA SignUpStep ==
    ASSUME SignInIInv, NEW l \in Login, NEW r \in Choices, SignUp(l, r)
    PROVE  SignInIInv'
<1> DEFINE s == [pc |-> "bootstrap", isNew |-> TRUE, initial |-> r,
                 todo |-> BaseRoles, roles |-> {}]
           u == [NoUser EXCEPT !.exists = TRUE]
<1>1. /\ ~user.exists /\ user' = u /\ signin' = [signin EXCEPT ![l] = s]
      /\ UNCHANGED <<applied, shop, review, skipped, token, gap>>
  BY DEF SignUp, Enter, gates
<1>2. r \in RoleChoice \cup {None} /\ BaseRoles \in SUBSET Role
  BY SignInAssumption, RolesAreTyped
<1>3. s \in Signing /\ s.isNew /\ s.pc = "bootstrap" /\ s.todo = BaseRoles
      /\ s.roles = {}
  BY <1>2 DEF Signing
<1>4. u \in UserRow /\ u.exists
  BY DEF NoUser, UserRow
<1>5. /\ token = NoToken /\ review = None
      /\ \A m \in Login : signin[m] = Done
      /\ \A k \in Gated : applied[k] = None
  BY <1>1 DEF SignInIInv, NothingWithoutUser
<1> HIDE DEF s, u
<1>6. /\ signin' \in [Login -> Signing] /\ signin'[l] = s
      /\ \A m \in Login : m # l => signin'[m] = Done
  BY <1>1, <1>3, <1>5 DEF SignInIInv, SignInTypeOK, Signing
<1>7. SignInTypeOK'
  BY <1>1, <1>4, <1>6 DEF SignInIInv, SignInTypeOK, Signing, UserRow
<1>8. NothingWithoutUser'
  BY <1>1, <1>4 DEF NothingWithoutUser
<1>9. LoadedRolesAreHeld' /\ SignUpsProgress'
  BY <1>3, <1>6 DEF LoadedRolesAreHeld, SignUpsProgress, Progress, Done
<1>10. TokenRolesAreHeld' /\ ApprovedHasRole'
  BY <1>1, <1>5 DEF TokenRolesAreHeld, ApprovedHasRole, None
<1>11. SignUpIsComplete'
  BY <1>3, <1>6 DEF SignUpIsComplete
<1>12. QED
  BY <1>7, <1>8, <1>9, <1>10, <1>11 DEF SignInIInv

LEMMA LogInStep ==
    ASSUME SignInIInv, NEW l \in Login, NEW r \in Choices, LogIn(l, r)
    PROVE  SignInIInv'
<1> DEFINE s == [pc |-> "initial", isNew |-> FALSE, initial |-> r,
                 todo |-> {}, roles |-> {}]
<1>1. /\ user.exists /\ signin' = [signin EXCEPT ![l] = s]
      /\ signin[l].pc = "idle"
      /\ UNCHANGED <<user, applied, shop, review, skipped, token, gap>>
  BY DEF LogIn, Enter, gates
<1>2. r \in RoleChoice \cup {None}
  BY SignInAssumption
<1>3. s \in Signing /\ ~s.isNew /\ s.pc = "initial" /\ s.roles = {}
  BY <1>2 DEF Signing
<1> HIDE DEF s
<1>4. /\ signin' \in [Login -> Signing] /\ signin'[l] = s
      /\ \A m \in Login : m # l => signin'[m] = signin[m]
  BY <1>1, <1>3 DEF SignInIInv, SignInTypeOK, Signing
<1>5. ~signin[l].isNew
  BY <1>1 DEF SignInIInv, SignUpsProgress, Progress
<1>6. SignInTypeOK'
  BY <1>1, <1>4 DEF SignInIInv, SignInTypeOK, Signing, UserRow
<1>7. NothingWithoutUser'
  BY <1>1 DEF NothingWithoutUser
<1>8. LoadedRolesAreHeld' /\ SignUpsProgress'
  BY <1>1, <1>3, <1>4 DEF SignInIInv, LoadedRolesAreHeld, SignUpsProgress
<1>9. TokenRolesAreHeld' /\ ApprovedHasRole'
  BY <1>1 DEF SignInIInv, TokenRolesAreHeld, ApprovedHasRole
<1>10. SignUpIsComplete'
  BY <1>1, <1>4, <1>5 DEF SignInIInv, SignUpIsComplete
<1>11. QED
  BY <1>6, <1>7, <1>8, <1>9, <1>10 DEF SignInIInv

(* The active role is one of the roles the request loaded.                 *)
LEMMA ActiveRoleIsHeld ==
    ASSUME NEW l \in Login, signin[l].roles # {}
    PROVE  ActiveRole(l) \in signin[l].roles
BY DEF ActiveRole

LEMMA IssueTokenStep ==
    ASSUME SignInIInv, NEW l \in Login, IssueToken(l)
    PROVE  SignInIInv'
<1> DEFINE active == ActiveRole(l)
<1>1. signin[l].pc = "finish" /\ signin[l].roles # {}
      /\ signin[l].roles \subseteq user.roles
  BY DEF SignInIInv, LoadedRolesAreHeld, IssueToken
<1>2. active \in signin[l].roles
  BY <1>1, ActiveRoleIsHeld
<1>3. /\ user' = [user EXCEPT !.last = active]
      /\ token' = [active |-> active, roles |-> signin[l].roles] \/ token' = token
      /\ signin' = [signin EXCEPT ![l] = Done]
      /\ UNCHANGED <<applied, shop, review, skipped, gap>>
  BY DEF IssueToken, gates
<1> HIDE DEF active
<1>4. user \in UserRow /\ user.roles \subseteq Role
  BY DEF SignInIInv, SignInTypeOK, UserRow
<1>5. active \in Role /\ active \in RoleChoice
  BY <1>1, <1>2, <1>4 DEF RoleChoice
<1>6. /\ user' \in UserRow /\ user'.exists = user.exists
      /\ user'.roles = user.roles /\ user'.profile = user.profile
  BY <1>3, <1>4, <1>5 DEF UserRow
<1>7. /\ Done \in Signing /\ Done.pc = "idle" /\ ~Done.isNew /\ Done.roles = {}
  BY DEF Done, Signing
<1>8. /\ signin' \in [Login -> Signing] /\ signin'[l] = Done
      /\ \A m \in Login : m # l => signin'[m] = signin[m]
  BY <1>3, <1>7 DEF SignInIInv, SignInTypeOK, Signing
<1>9. /\ token' \in Token
      /\ token' # NoToken => /\ token'.active \in token'.roles
                             /\ token'.roles \subseteq user.roles
  <2>1. ASSUME token' = [active |-> active, roles |-> signin[l].roles]
        PROVE  /\ token' \in Token
               /\ token'.active \in token'.roles
               /\ token'.roles \subseteq user.roles
    <3>1. signin[l].roles \in SUBSET Role
      BY <1>1, <1>4
    <3>2. QED
      BY <1>1, <1>2, <1>5, <2>1, <3>1 DEF Token
  <2>2. ASSUME token' = token
        PROVE  /\ token' \in Token
               /\ token' # NoToken => /\ token'.active \in token'.roles
                                      /\ token'.roles \subseteq user.roles
    BY <2>2 DEF SignInIInv, SignInTypeOK, TokenRolesAreHeld
  <2>3. QED
    BY <1>3, <2>1, <2>2
<1>10. user.exists
  BY <1>1 DEF SignInIInv, NothingWithoutUser, Done
<1>11. SignInTypeOK'
  BY <1>3, <1>6, <1>8, <1>9 DEF SignInIInv, SignInTypeOK, Signing, UserRow
<1>12. NothingWithoutUser'
  BY <1>6, <1>10 DEF NothingWithoutUser
<1>13. LoadedRolesAreHeld' /\ SignUpsProgress'
  BY <1>6, <1>7, <1>8 DEF SignInIInv, LoadedRolesAreHeld, SignUpsProgress, Progress
<1>14. TokenRolesAreHeld' /\ ApprovedHasRole'
  BY <1>3, <1>6, <1>9 DEF SignInIInv, TokenRolesAreHeld, ApprovedHasRole
<1>15. SignUpIsComplete'
  <2>1. signin[l].isNew => BaseRoles \subseteq user.roles /\ user.profile
    BY <1>1 DEF SignInIInv, SignUpsProgress, Progress
  <2>2. QED
    BY <1>3, <1>6, <1>8, <2>1 DEF SignInIInv, SignUpIsComplete
<1>16. QED
  BY <1>11, <1>12, <1>13, <1>14, <1>15 DEF SignInIInv

LEMMA InterruptStep ==
    ASSUME SignInIInv, NEW l \in Login, Interrupt(l)
    PROVE  SignInIInv'
<1>1. /\ signin' = [signin EXCEPT ![l] = Done]
      /\ gap' = (gap \/ signin[l].isNew)
      /\ UNCHANGED <<user, token, applied, shop, review, skipped>>
  BY DEF Interrupt, gates
<1>2. /\ Done \in Signing /\ Done.pc = "idle" /\ ~Done.isNew /\ Done.roles = {}
  BY DEF Done, Signing
<1>3. /\ signin' \in [Login -> Signing] /\ signin'[l] = Done
      /\ \A m \in Login : m # l => signin'[m] = signin[m]
  BY <1>1, <1>2 DEF SignInIInv, SignInTypeOK, Signing
<1>4. gap' \in BOOLEAN
  BY <1>1, Zenon
<1>5. SignInTypeOK'
  BY <1>1, <1>3, <1>4 DEF SignInIInv, SignInTypeOK, Signing, UserRow
<1>6. NothingWithoutUser'
  BY <1>1, <1>3 DEF SignInIInv, NothingWithoutUser
<1>7. LoadedRolesAreHeld' /\ SignUpsProgress'
  BY <1>1, <1>2, <1>3 DEF SignInIInv, LoadedRolesAreHeld, SignUpsProgress
<1>8. TokenRolesAreHeld' /\ ApprovedHasRole'
  BY <1>1 DEF SignInIInv, TokenRolesAreHeld, ApprovedHasRole
<1>9. SignUpIsComplete'
  <2>1. gap' \/ (~gap /\ ~signin[l].isNew)
    BY <1>1
  <2>2. QED
    BY <1>1, <1>3, <2>1 DEF SignInIInv, SignUpIsComplete
<1>10. QED
  BY <1>5, <1>6, <1>7, <1>8, <1>9 DEF SignInIInv

LEMMA RemoveAccountStep ==
    ASSUME SignInIInv, RemoveAccount
    PROVE  SignInIInv'
<1>1. /\ user' = NoUser /\ applied' = [k \in Gated |-> None] /\ shop' = FALSE
      /\ signin' = [l \in Login |-> Done] /\ review' = None
      /\ token' = NoToken /\ gap' = FALSE /\ skipped' = {}
  BY DEF RemoveAccount
<1>2. /\ NoUser \in UserRow /\ ~NoUser.exists /\ NoUser.roles = {}
      /\ Done \in Signing /\ Done.pc = "idle" /\ ~Done.isNew /\ Done.roles = {}
      /\ NoToken \in Token
  BY DEF NoUser, UserRow, Done, Signing, NoToken, Token
<1>3. SignInTypeOK'
  BY <1>1, <1>2 DEF SignInTypeOK, Signing, UserRow
<1>4. NothingWithoutUser' /\ LoadedRolesAreHeld' /\ SignUpsProgress'
  BY <1>1, <1>2 DEF NothingWithoutUser, LoadedRolesAreHeld, SignUpsProgress
<1>5. TokenRolesAreHeld' /\ ApprovedHasRole' /\ SignUpIsComplete'
  BY <1>1, <1>2 DEF TokenRolesAreHeld, ApprovedHasRole, SignUpIsComplete, None
<1>6. QED
  BY <1>3, <1>4, <1>5 DEF SignInIInv

(* No request of finaliseAuth moves; the row may grow.                     *)
LEMMA OwnerMoves ==
    ASSUME SignInIInv, user.exists, user' \in UserRow, Grows(user, user'),
           UNCHANGED <<signin, gap>>,
           applied' \in [Gated -> {None, "pending", "active"}], shop' \in BOOLEAN,
           review' \in Gated \cup {None}, skipped' \in SUBSET Gated,
           token' \in Token, TokenRolesAreHeld', ApprovedHasRole'
    PROVE  SignInIInv'
<1>1. SignInTypeOK'
  BY DEF SignInIInv, SignInTypeOK, UserRow
<1>2. NothingWithoutUser' /\ LoadedRolesAreHeld'
  BY DEF SignInIInv, NothingWithoutUser, LoadedRolesAreHeld, Grows
<1>3. SignUpsProgress'
  BY DEF SignInIInv, SignUpsProgress, Progress, Grows
<1>4. SignUpIsComplete'
  BY DEF SignInIInv, SignUpIsComplete, Grows
<1>5. QED
  BY <1>1, <1>2, <1>3, <1>4 DEF SignInIInv

LEMMA LastMoves ==
    ASSUME user \in UserRow, NEW r \in Role,
           user' \in {user, [user EXCEPT !.last = r]}
    PROVE  user' \in UserRow /\ Grows(user, user')
BY DEF UserRow, Grows

LEMMA BackfillStep ==
    ASSUME SignInIInv, Backfill
    PROVE  SignInIInv'
<1>1. PICK r \in BaseRoles : GrantRole(r)
  BY DEF Backfill
<1>2. user \in UserRow /\ user.exists /\ r \in RoleChoice
  BY RolesAreTyped DEF SignInIInv, SignInTypeOK, UserRow, Backfill, RoleChoice
<1>3. user' \in UserRow /\ Grows(user, user')
  BY <1>1, <1>2, GrantGrows
<1>4. UNCHANGED <<applied, shop, review, skipped, signin, token, gap>>
  BY DEF Backfill, gates
<1>5. TokenRolesAreHeld' /\ ApprovedHasRole'
  BY <1>3, <1>4 DEF SignInIInv, TokenRolesAreHeld, ApprovedHasRole, Grows
<1>6. QED
  BY <1>2, <1>3, <1>4, <1>5, OwnerMoves DEF SignInIInv, SignInTypeOK

LEMMA SwitchRoleStep ==
    ASSUME SignInIInv, NEW r \in Role, SwitchRole(r)
    PROVE  SignInIInv'
<1>1. /\ user.exists /\ r \in user.roles
      /\ user' \in {user, [user EXCEPT !.last = r]}
      /\ token' = [active |-> r, roles |-> user.roles]
      /\ UNCHANGED <<applied, shop, review, skipped, signin, gap>>
  BY DEF SwitchRole, Authenticated, gates
<1>2. user \in UserRow /\ user.roles \in SUBSET Role
  BY DEF SignInIInv, SignInTypeOK, UserRow
<1>3. user' \in UserRow /\ Grows(user, user')
  BY <1>1, <1>2, LastMoves
<1>4. token' \in Token /\ token'.active = r /\ token'.roles = user.roles
  BY <1>1, <1>2 DEF Token, RoleChoice
<1>5. TokenRolesAreHeld' /\ ApprovedHasRole'
  BY <1>1, <1>3, <1>4 DEF SignInIInv, TokenRolesAreHeld, ApprovedHasRole, Grows
<1>6. QED
  BY <1>1, <1>3, <1>4, <1>5, OwnerMoves DEF SignInIInv, SignInTypeOK

LEMMA ApplyStep ==
    ASSUME SignInIInv, NEW k \in Gated, Apply(k)
    PROVE  SignInIInv'
<1>1. /\ user.exists /\ applied' = [applied EXCEPT ![k] = "pending"]
      /\ user' \in {user, [user EXCEPT !.last = k]}
      /\ UNCHANGED <<shop, review, skipped, signin, token, gap>>
  BY DEF Apply, Authenticated, CommitActiveRole
<1>2. user \in UserRow /\ k \in Role
  BY RolesAreTyped DEF SignInIInv, SignInTypeOK, UserRow
<1>3. user' \in UserRow /\ Grows(user, user')
  BY <1>1, <1>2, LastMoves
<1>4. /\ applied' \in [Gated -> {None, "pending", "active"}]
      /\ applied'[k] = "pending"
      /\ \A j \in Gated : j # k => applied'[j] = applied[j]
  BY <1>1 DEF SignInIInv, SignInTypeOK
<1>5. TokenRolesAreHeld' /\ ApprovedHasRole'
  BY <1>1, <1>3, <1>4 DEF SignInIInv, TokenRolesAreHeld, ApprovedHasRole, Grows
<1>6. QED
  BY <1>1, <1>3, <1>4, <1>5, OwnerMoves DEF SignInIInv, SignInTypeOK

(* From the approval on, the grant is owed: it is the review in hand.      *)
LEMMA ReviewStep ==
    ASSUME SignInIInv, NEW k \in Gated, Review(k)
    PROVE  SignInIInv'
<1>1. /\ applied[k] = "pending" /\ review = None /\ review' = k
      /\ applied' = [applied EXCEPT ![k] = "active"]
      /\ UNCHANGED <<user, shop, skipped, signin, token, gap>>
  BY DEF Review
<1>2. user.exists
  BY <1>1 DEF SignInIInv, NothingWithoutUser, None
<1>3. user' \in UserRow /\ Grows(user, user')
  BY <1>1 DEF SignInIInv, SignInTypeOK, UserRow, Grows
<1>4. /\ applied' \in [Gated -> {None, "pending", "active"}]
      /\ \A j \in Gated : j # k => applied'[j] = applied[j]
  BY <1>1 DEF SignInIInv, SignInTypeOK
<1>5. TokenRolesAreHeld'
  BY <1>1 DEF SignInIInv, TokenRolesAreHeld
<1>6. None \notin Gated
  BY SignInAssumption DEF None
<1>7. ApprovedHasRole'
  BY <1>1, <1>4, <1>6 DEF SignInIInv, ApprovedHasRole
<1>8. QED
  BY <1>1, <1>2, <1>3, <1>4, <1>5, <1>7, OwnerMoves DEF SignInIInv, SignInTypeOK

LEMMA GrantApprovedStep ==
    ASSUME SignInIInv, GrantApproved
    PROVE  SignInIInv'
<1>1. /\ review # None /\ review' = None
      /\ UNCHANGED <<applied, shop, signin, token, gap>>
      /\ \/ GrantRole(review) /\ UNCHANGED skipped
         \/ skipped' = skipped \cup {review} /\ UNCHANGED user
  BY DEF GrantApproved
<1>2. user.exists
  BY <1>1 DEF SignInIInv, NothingWithoutUser
<1>3. /\ user \in UserRow /\ review \in Gated
      /\ review \in RoleChoice /\ Normalised(review) = review
  BY <1>1, RolesAreTyped DEF SignInIInv, SignInTypeOK, UserRow, RoleChoice
<1>4. ASSUME GrantRole(review), UNCHANGED skipped PROVE SignInIInv'
  <2>1. /\ user' \in UserRow /\ Grows(user, user')
        /\ user'.roles = user.roles \cup {review}
    BY <1>3, <1>4, GrantGrows
  <2>2. TokenRolesAreHeld' /\ ApprovedHasRole'
    BY <1>1, <1>4, <2>1 DEF SignInIInv, TokenRolesAreHeld, ApprovedHasRole, Grows
  <2>3. QED
    BY <1>1, <1>2, <1>4, <2>1, <2>2, OwnerMoves DEF SignInIInv, SignInTypeOK
<1>5. ASSUME skipped' = skipped \cup {review}, UNCHANGED user PROVE SignInIInv'
  <2>1. user' \in UserRow /\ Grows(user, user') /\ skipped' \in SUBSET Gated
    BY <1>3, <1>5 DEF Grows, SignInIInv, SignInTypeOK
  <2>2. TokenRolesAreHeld' /\ ApprovedHasRole'
    BY <1>1, <1>5 DEF SignInIInv, TokenRolesAreHeld, ApprovedHasRole
  <2>3. QED
    BY <1>1, <1>2, <2>1, <2>2, OwnerMoves DEF SignInIInv, SignInTypeOK
<1>6. QED
  BY <1>1, <1>4, <1>5

LEMMA RegisterShopStep ==
    ASSUME SignInIInv, RegisterShop
    PROVE  SignInIInv'
<1>1. /\ user.exists /\ shop' = TRUE
      /\ user' \in {user, [user EXCEPT !.last = "business"]}
      /\ UNCHANGED <<applied, review, skipped, signin, token, gap>>
  BY DEF RegisterShop, Authenticated, CommitActiveRole
<1>2. user \in UserRow /\ "business" \in Role
  BY DEF SignInIInv, SignInTypeOK, UserRow, Role, BaseRoles
<1>3. user' \in UserRow /\ Grows(user, user')
  BY <1>1, <1>2, LastMoves
<1>4. TokenRolesAreHeld' /\ ApprovedHasRole'
  BY <1>1, <1>3 DEF SignInIInv, TokenRolesAreHeld, ApprovedHasRole, Grows
<1>5. QED
  BY <1>1, <1>3, <1>4, OwnerMoves DEF SignInIInv, SignInTypeOK

-----------------------------------------------------------------------------
(* The theorems                                                            *)

LEMMA SignInStep ==
    ASSUME SignInIInv, [SignInNext]_signInVars
    PROVE  SignInIInv'
<1>1. ASSUME NEW l \in Login, NEW r \in Choices, SocialAuth(l, r)
      PROVE  SignInIInv'
  BY <1>1, LogInStep, SignUpStep DEF SocialAuth
<1>2. ASSUME UNCHANGED signInVars PROVE SignInIInv'
  BY <1>2 DEF signInVars, SignInIInv, SignInTypeOK, NothingWithoutUser,
              LoadedRolesAreHeld, SignUpsProgress, Progress, TokenRolesAreHeld,
              ApprovedHasRole, SignUpIsComplete
<1>3. ASSUME SignInNext PROVE SignInIInv'
  BY <1>1, <1>3, SignUpStep, LogInStep, EnsureDefaultRoleStep, FinaliseStep,
     LoadRolesStep, IssueTokenStep, InterruptStep, SwitchRoleStep, ApplyStep,
     ReviewStep, GrantApprovedStep, RegisterShopStep, BackfillStep,
     RemoveAccountStep DEF SignInNext
<1>4. QED
  BY <1>2, <1>3

LEMMA SignInInvariance == SignInSpec => []SignInIInv
<1>1. SignInIInv /\ [SignInNext]_signInVars => SignInIInv'
  BY SignInStep
<1>2. QED
  BY <1>1, InitSignInIInv, PTL DEF SignInSpec

(* Rows, requests and token of an account always have their types.         *)
THEOREM SignInHasTypes == SignInSpec => []SignInTypeOK
BY SignInInvariance, PTL DEF SignInIInv

(* finaliseAuth and switchRole never put a role into a token, or make it   *)
(* the active one, that the account does not hold: whatever sign-ins,      *)
(* switches, approvals and deletions interleave with them.                 *)
THEOREM TokensCarryHeldRoles == SignInSpec => []TokenRolesAreHeld
BY SignInInvariance, PTL DEF SignInIInv

(* The review of a driver or a rider grants the role unless the grant that *)
(* follows the approval failed or is still to come.                        *)
THEOREM ApprovalsBecomeRoles == SignInSpec => []ApprovedHasRole
BY SignInInvariance, PTL DEF SignInIInv

(* finaliseAuth leaves a new account with its base roles and its profile   *)
(* unless the sign-up was interrupted or is still running.                 *)
THEOREM SignUpsComplete == SignInSpec => []SignUpIsComplete
BY SignInInvariance, PTL DEF SignInIInv

-----------------------------------------------------------------------------
(* The two together, as MCAccounts composes them.                          *)

LEMMA AccountsInit == Init => CodesInit /\ SignInInit
BY DEF Init

LEMMA AccountsStep ==
    [Next]_<<part, codesVars, signInVars>> =>
        [CodesNext]_codesVars /\ [SignInNext]_signInVars
BY DEF Next

(* The variables of both keep their types: the pair of TypeOKs that the    *)
(* run of the accounts checks.                                             *)
THEOREM AccountsHaveTypes == Spec => []AccountsTypeOK
<1>1. Spec => CodesSpec /\ SignInSpec
  BY AccountsInit, AccountsStep, PTL DEF Spec, CodesSpec, SignInSpec
<1>2. CodesTypeOK /\ SignInTypeOK => AccountsTypeOK
  BY DEF AccountsTypeOK
<1>3. QED
  BY <1>1, <1>2, CodesHaveTypes, SignInHasTypes, PTL

=============================================================================
