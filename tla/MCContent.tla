----------------------------- MODULE MCContent -----------------------------
(***************************************************************************)
(* Posts, the sound library with stories, and paged lists share no state   *)
(* these modules model, so one run checks their disjoint sum: each         *)
(* behaviour is one of Posts, of Sounds or of Paging, the others at rest.  *)
(***************************************************************************)
EXTENDS Posts, Sounds, Paging, TLC

VARIABLE part
contentVars == <<postsVars, soundsVars, pagingVars, part>>

ContentInit ==
    /\ part \in {"posts", "sounds", "paging"}
    /\ PostsInit
    /\ IF part = "sounds" THEN SoundsInit
       ELSE /\ SoundsInit
            /\ track = [m \in Track |->
                         [status |-> "unused", uses |-> 0, favorites |-> 0]]
    /\ IF part = "paging" THEN PagingInit
       ELSE /\ PagingInit /\ walk.list = "feed"
            /\ source = [r \in Row |-> "post"]

\* Bounds: repeated attempts may count without end in the code.
MaxUses == 2
MaxDrift == 1
WithinBounds ==
    /\ \A m \in Track : track[m].uses <= MaxUses /\ ledger.uncounted[m] <= MaxDrift
    /\ \A p \in Post : drift[p]["comment"] \in -MaxDrift..MaxDrift

ContentNext ==
    /\ \/ part = "posts" /\ PostsNext /\ UNCHANGED <<soundsVars, pagingVars>>
       \/ part = "sounds" /\ SoundsNext /\ UNCHANGED <<postsVars, pagingVars>>
       \/ part = "paging" /\ PagingNext /\ UNCHANGED <<postsVars, soundsVars>>
    /\ UNCHANGED part
    /\ WithinBounds'

ContentSpec == ContentInit /\ [][ContentNext]_contentVars

ContentTypeOK == PostsTypeOK /\ SoundsTypeOK /\ PagingTypeOK

Symmetry == Permutations(Task) \cup Permutations(Making)
=============================================================================
