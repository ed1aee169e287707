------------------------------- MODULE Photos -------------------------------
(***************************************************************************)
(* Pictures that a row shows and the bucket stores: the avatar of a        *)
(* profile, the photos of a shop and the gallery of a product.  A change   *)
(* deletes the old object, uploads the new one and writes the row, in      *)
(* separate awaits and in an order that depends on the picture.  The row   *)
(* itself may be deleted, with its product or with the account.            *)
(***************************************************************************)
EXTENDS Integers, Sequences

CONSTANTS
    Photos,      \* bound: how many objects are ever uploaded
    Change       \* requests the server can have in flight at once

ASSUME PhotosAssumption == Photos \in Nat

\* Object keys, in the order the uploads make them.
Photo == 1..Photos

VARIABLES
    kind,        \* which picture it is
    pictured,    \* the objects the row names; a gallery has a row for each
    stored,      \* the objects in the bucket
    uploaded,    \* how many uploads there were; each makes a new key
    gone,        \* the row, or the product of the gallery, was deleted
    recent,      \* lastAvatarChange is within AVATAR_LIMIT_MINS
    change,      \* per request: the awaits to come and what it read
    torn,        \* history: old objects of changes that gave up
    upset,       \* history: changes overlapped, failed or could not delete,
                 \* or the row was deleted under one
    orphans      \* history: what the row showed when it was deleted

photosVars == <<kind, pictured, stored, uploaded, gone, recent, change, torn,
                upset, orphans>>

NoPhoto == 0
NoChange == [todo |-> <<>>, old |-> NoPhoto, new |-> NoPhoto]
Kind == {"avatar", "shop photo", "banner", "gallery"}
Work == {"drop", "upload", "write"}

PhotosTypeOK ==
    /\ kind \in Kind
    /\ pictured \subseteq Photo /\ stored \subseteq Photo
    /\ uploaded \in 0..Photos
    /\ gone \in BOOLEAN /\ recent \in BOOLEAN
    /\ \A c \in Change :
         /\ change[c].todo \in Seq(Work)
         /\ {change[c].old, change[c].new} \subseteq Photo \cup {NoPhoto}
    /\ torn \subseteq Photo /\ upset \in BOOLEAN /\ orphans \subseteq Photo

PhotosInit ==
    /\ kind \in Kind
    /\ pictured = {} /\ stored = {} /\ uploaded = 0
    /\ gone = FALSE /\ recent = FALSE
    /\ change = [c \in Change |-> NoChange]
    /\ torn = {} /\ upset = FALSE /\ orphans = {}

Begun(c, old, todo) ==
    /\ ~gone
    /\ change[c] = NoChange
    /\ change' = [change EXCEPT ![c] = [todo |-> todo, old |-> old, new |-> NoPhoto]]
    /\ upset' = (upset \/ \E b \in Change : change[b] # NoChange)
    /\ UNCHANGED <<kind, pictured, stored, uploaded, recent, torn, gone, orphans>>

Shown == IF pictured = {} THEN NoPhoto ELSE CHOOSE p \in pictured : TRUE

\* updateAvatar, and uploadLogo of the onboarding: out with the old first.
ReplacePhoto(c) ==
    /\ \/ kind = "avatar" /\ ~recent
       \/ kind = "shop photo"
    /\ Begun(c, Shown, <<"drop", "upload", "write">>)

\* uploadBannerPhoto and uploadLogoPhoto of the shop's profile.
ReplaceBanner(c) ==
    /\ kind = "banner"
    /\ Begun(c, Shown, <<"upload", "drop", "write">>)

\* removeAvatar and deleteProductImage.
RemovePhoto(c, p) ==
    /\ kind \in {"avatar", "gallery"}
    /\ p \in pictured
    /\ Begun(c, p, <<"drop", "write">>)

AddProductImage(c) ==
    /\ kind = "gallery"
    /\ Begun(c, NoPhoto, <<"upload", "write">>)

-----------------------------------------------------------------------------
Due(c, step) == change[c].todo # <<>> /\ Head(change[c].todo) = step
Progress == [c \in Change |-> [change[c] EXCEPT !.todo = Tail(@)]]

Doomed_Shown(c) == Shown

\* The object of the row as it was read when the request began.
Doomed(c) == change[c].old

\* A failure to delete is only logged.
DropObject(c) ==
    /\ Due(c, "drop")
    /\ \/ stored' = stored \ {Doomed(c)} /\ UNCHANGED upset
       \/ Doomed(c) \in stored /\ upset' = TRUE /\ UNCHANGED stored
    /\ change' = [change EXCEPT ![c] = Progress[c]]
    /\ UNCHANGED <<kind, pictured, uploaded, recent, torn, gone, orphans>>

UploadObject(c) ==
    /\ Due(c, "upload")
    /\ uploaded < Photos
    /\ uploaded' = uploaded + 1
    /\ stored' = stored \cup {uploaded + 1}
    /\ change' = [change EXCEPT ![c] = [Progress[c] EXCEPT !.new = uploaded + 1]]
    /\ UNCHANGED <<kind, pictured, recent, torn, upset, gone, orphans>>

\* The UPDATE of the row; for a gallery, the INSERT or DELETE of one.  It
\* fails when the row, or the product, is no longer there.
WritePhoto(c) ==
    /\ Due(c, "write")
    /\ ~gone
    /\ LET new == {change[c].new} \ {NoPhoto}
       IN  /\ pictured' = IF kind = "gallery"
                            THEN (pictured \ {change[c].old}) \cup new
                            ELSE new
           /\ recent' = (recent \/ (kind = "avatar" /\ new # {}))
    /\ change' = [change EXCEPT ![c] = NoChange]
    /\ UNCHANGED <<kind, stored, uploaded, torn, upset, gone, orphans>>

\* The upload or the statement fails, or the process stops.
GiveUp(c) ==
    /\ change[c] # NoChange
    /\ change' = [change EXCEPT ![c] = NoChange]
    /\ torn' = torn \cup ({change[c].old} \ {NoPhoto})
    /\ upset' = TRUE
    /\ UNCHANGED <<kind, pictured, stored, uploaded, recent, gone, orphans>>

\* The rows go, by cascade; no object does.
DeleteRow ==
    /\ ~gone
    /\ gone' = TRUE
    /\ pictured' = {}
    /\ orphans' = pictured
    /\ upset' = (upset \/ \E c \in Change : change[c] # NoChange)
    /\ UNCHANGED <<kind, stored, uploaded, recent, change, torn>>

DeleteGallery == kind = "gallery" /\ DeleteRow

\* deleteAccount takes the profile, the shops and their products with it.
DeleteAccount == DeleteRow

WaitForAvatar ==
    /\ recent
    /\ recent' = FALSE
    /\ UNCHANGED <<kind, pictured, stored, uploaded, change, torn, upset, gone, orphans>>

PhotosNext ==
    \/ \E c \in Change :
         \/ ReplacePhoto(c)
         \/ ReplaceBanner(c)
         \/ \E p \in Photo : RemovePhoto(c, p)
         \/ AddProductImage(c)
         \/ DropObject(c)
         \/ UploadObject(c)
         \/ WritePhoto(c)
         \/ GiveUp(c)
    \/ DeleteGallery
    \/ DeleteAccount
    \/ WaitForAvatar

PhotosSpec == PhotosInit /\ [][PhotosNext]_photosVars

-----------------------------------------------------------------------------
\* A picture that is shown is in the bucket, whatever overlaps: only a change
\* that saw this very picture takes its object, and then replaces the picture
\* too unless it gives up between the two.  And when no change ever overlapped
\* or failed the bucket keeps nothing but what is shown, or was when the row
\* was deleted: those objects stay for good.
PhotoIsStored ==
    /\ \A p \in pictured : \/ p \in stored
                           \/ p \in torn
                           \/ \E c \in Change : change[c].old = p
    /\ ~upset /\ (\A c \in Change : change[c] = NoChange)
         => stored = pictured \cup orphans
=============================================================================
