------------------------------- MODULE Ticket -------------------------------
(***************************************************************************)
(* What a one-time code promises, whatever tables and requests implement   *)
(* it: a ticket is issued once, an open ticket may be redeemed, and a      *)
(* ticket that was redeemed or withdrawn never opens or redeems again.     *)
(***************************************************************************)
EXTENDS Naturals

CONSTANT Id

VARIABLES
    open,        \* tickets that may still be redeemed
    issued,      \* tickets ever issued
    uses         \* how often each ticket was redeemed

Init ==
    /\ open = {}
    /\ issued = {}
    /\ uses = [t \in Id |-> 0]

\* Issuing a ticket may withdraw others.
Issue(t) ==
    /\ t \notin issued
    /\ issued' = issued \cup {t}
    /\ t \in open'
    /\ open' \subseteq open \cup {t}
    /\ UNCHANGED uses

Redeem(t) ==
    /\ t \in open
    /\ uses' = [uses EXCEPT ![t] = @ + 1]
    /\ open' \subseteq open \ {t}
    /\ UNCHANGED issued

Withdraw ==
    /\ open' \subseteq open
    /\ UNCHANGED <<issued, uses>>

Next ==
    \/ \E t \in Id : Issue(t) \/ Redeem(t)
    \/ Withdraw

Spec == Init /\ [][Next]_<<open, issued, uses>>
=============================================================================
