----------------------------- MODULE MCAccounts -----------------------------
(* The one-time codes of an address and the sign-ins of an account on small *)
(* instances.  The two share no state, so a behaviour shows one or the      *)
(* other: `part` is chosen in the initial state.                            *)
EXTENDS OneTimeCodes, SignIn

CONSTANTS r1, r2

VARIABLE part

Requests == {r1, r2}
Logins == {r1, r2}
ChoicesTried == {"personal", "driver"}
GatedTried == {"driver"}

Init == CodesInit /\ SignInInit /\ part \in {"codes", "signin"}

Next ==
    /\ UNCHANGED part
    /\ \/ part = "codes" /\ CodesNext /\ UNCHANGED signInVars
       \/ part = "signin" /\ SignInNext /\ UNCHANGED codesVars

Spec == Init /\ [][Next]_<<part, codesVars, signInVars>>

AccountsTypeOK == CodesTypeOK /\ SignInTypeOK
=============================================================================
