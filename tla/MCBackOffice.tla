---------------------------- MODULE MCBackOffice ----------------------------
(***************************************************************************)
(* Addresses, device tokens, pictures, shops and the reports of an owner   *)
(* share no state these modules model, so one run checks their disjoint    *)
(* sum: each behaviour is one of them, the others at rest.                 *)
(***************************************************************************)
EXTENDS AddressBook, Devices, Photos, Shops, Reports, TLC

VARIABLE part
backOfficeVars == <<bookVars, deviceVars, photosVars, shopsVars, reportVars, part>>

BackOfficeInit ==
    /\ part \in {"addresses", "devices", "photos", "shops", "reports"}
    /\ BookInit /\ DevicesInit /\ ShopsInit /\ ReportsInit
    /\ PhotosInit
    /\ part = "photos" \/ kind = "avatar"

BackOfficeNext ==
    /\ \/ /\ part = "addresses" /\ BookNext
          /\ UNCHANGED <<deviceVars, photosVars, shopsVars, reportVars>>
       \/ /\ part = "devices" /\ DevicesNext
          /\ UNCHANGED <<bookVars, photosVars, shopsVars, reportVars>>
       \/ /\ part = "photos" /\ PhotosNext
          /\ UNCHANGED <<bookVars, deviceVars, shopsVars, reportVars>>
       \/ /\ part = "shops" /\ ShopsNext
          /\ UNCHANGED <<bookVars, deviceVars, photosVars, reportVars>>
       \/ /\ part = "reports" /\ ReportsNext
          /\ UNCHANGED <<bookVars, deviceVars, photosVars, shopsVars>>
    /\ UNCHANGED part

BackOfficeSpec == BackOfficeInit /\ [][BackOfficeNext]_backOfficeVars

Totals == <<1, 2, 4>>

\* Sunday night, Monday before opening and in the evening, the last hour of a
\* month, the first of the next and its early afternoon.
Moments == {13 * 24 + 23, 14 * 24 + 5, 14 * 24 + 20,
            29 * 24 + 22, 30 * 24, 30 * 24 + 13}
Months == {0, 30, 61}

Symmetry == Permutations(Writer) \cup Permutations(Call)
              \cup Permutations(Change) \cup Permutations(Merchant)
=============================================================================
