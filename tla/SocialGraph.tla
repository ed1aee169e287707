---------------------------- MODULE SocialGraph ----------------------------
(***************************************************************************)
(* Follows, friend requests and blocks: SocialService, FriendsService and  *)
(* BlocksService behind BlockGuard, over the Follow, Friend and Block      *)
(* tables.  None of these handlers opens a transaction, so every statement *)
(* is a step, and the guard's query is a step before the handler's first.  *)
(***************************************************************************)
EXTENDS Integers, FiniteSets

CONSTANTS
    User,
    Slot         \* requests the server can have in flight at once

VARIABLES
    follows,     \* Follow rows: <<followerId, followingId>>
    friend,      \* status of the Friend row <<userId, friendId>>, or "none"
    blocks,      \* Block rows: <<blockerId, blockedId>>
    job,         \* per request: operation, the await it waits for, what it read
    excused      \* history: pairs for which an overlapped request wrote or a
                 \* cleanup did not run

socialVars == <<follows, friend, blocks, job, excused>>

Pair == {p \in User \X User : p[1] # p[2]}
NoRow == <<>>
Opposite(p) == <<p[2], p[1]>>
Between(p) == {p, Opposite(p)}

Op == {"follow", "unfollow", "sendRequest", "cancelRequest", "acceptRequest",
       "rejectRequest", "unfriend", "block", "unblock"}

SocialTypeOK ==
    /\ follows \subseteq Pair
    /\ friend \in [Pair -> {"none", "pending", "accepted", "rejected"}]
    /\ blocks \subseteq Pair
    /\ job \in [Slot ->
         [pc : {"idle", "start", "friends", "existing", "create", "revive",
                "replace", "answer", "delete", "sever"},
          op : Op, pair : Pair, row : Pair \cup {NoRow},
          todo : SUBSET {"follows", "friends"}, overlapped : BOOLEAN]]
    /\ excused \subseteq {Between(p) : p \in Pair}

Idle == [pc |-> "idle", op |-> "follow", pair |-> CHOOSE p \in Pair : TRUE,
         row |-> NoRow, todo |-> {}, overlapped |-> FALSE]

SocialInit ==
    /\ follows = {}
    /\ friend = [p \in Pair |-> "none"]
    /\ blocks = {}
    /\ job = [s \in Slot |-> Idle]
    /\ excused = {}

-----------------------------------------------------------------------------
(* Guards and bookkeeping                                                  *)

\* isBlocked: a row in either direction.
IsBlocked(p) == Between(p) \cap blocks # {}

BlockGuard_NotOnFollow(op, p) ==
    op \in {"unfollow", "sendRequest", "unfriend"} => ~IsBlocked(p)

\* The routes BlockGuard finds its target on.  accept/:requesterId and
\* reject/:requesterId carry the guard too, but it reads targetUserId,
\* userId and body.targetId only, and passes when there is none.
BlockGuard(op, p) ==
    op \in {"follow", "unfollow", "sendRequest", "unfriend"} => ~IsBlocked(p)

At(s, op, pc) == job[s].op = op /\ job[s].pc = pc

\* Slot s goes on as `next`; every other request on the same pair now
\* overlaps a write, and loses the row it read if that row was deleted.
Went(s, next, deleted) ==
    job' = [t \in Slot |->
              IF t = s THEN next
              ELSE IF job[t].pc = "idle" \/ job[t].pair \notin Between(job[s].pair)
                THEN job[t]
                ELSE [job[t] EXCEPT !.overlapped = TRUE,
                        !.row = IF @ \in deleted THEN NoRow ELSE @]]

\* The same when slot s wrote nothing.
Moved(s, next) == job' = [job EXCEPT ![s] = next]

To(s, pc) == [job[s] EXCEPT !.pc = pc]

\* A row written on the strength of reads that another write overlapped.
Excuse(s) ==
    excused' = IF job[s].overlapped
                 THEN excused \cup {Between(job[s].pair)} ELSE excused

\* A statement fails: the rest of the handler does not run.
Abort(s) ==
    /\ job[s].pc # "idle"
    /\ Moved(s, Idle)
    /\ excused' = IF job[s].pc \in {"friends", "sever"}
                    THEN excused \cup {Between(job[s].pair)} ELSE excused
    /\ UNCHANGED <<follows, friend, blocks>>

\* The guard of the route passes; the handler starts.
Begin(s, op, p) ==
    /\ job[s].pc = "idle"
    /\ BlockGuard(op, p)
    /\ Moved(s, [Idle EXCEPT !.pc = "start", !.op = op, !.pair = p])
    /\ UNCHANGED <<follows, friend, blocks, excused>>

-----------------------------------------------------------------------------
(* SocialService                                                           *)

Follow(s) ==
    /\ At(s, "follow", "start")
    /\ follows' = follows \cup {job[s].pair}
    /\ Went(s, Idle, {})
    /\ Excuse(s)
    /\ UNCHANGED <<friend, blocks>>

\* The Follow row goes first (404 when there is none) ...
Unfollow(s) ==
    /\ At(s, "unfollow", "start")
    /\ follows' = follows \ {job[s].pair}
    /\ IF job[s].pair \in follows
         THEN Went(s, To(s, "friends"), {})
         ELSE Moved(s, Idle)
    /\ UNCHANGED <<friend, blocks, excused>>

Without(rows) == [p \in Pair |-> IF p \in rows THEN "none" ELSE friend[p]]

DropFriends_OwnRow(s) ==
    /\ At(s, "unfollow", "friends")
    /\ friend' = Without({job[s].pair})
    /\ Went(s, Idle, {job[s].pair})
    /\ UNCHANGED <<follows, blocks, excused>>

\* ... then every Friend row of the pair, whatever its status.
DropFriends(s) ==
    /\ At(s, "unfollow", "friends")
    /\ friend' = Without(Between(job[s].pair))
    /\ Went(s, Idle, Between(job[s].pair))
    /\ UNCHANGED <<follows, blocks, excused>>

-----------------------------------------------------------------------------
(* FriendsService                                                          *)

\* sendRequest asks only users who follow each other.
ReadFollows(s) ==
    /\ At(s, "sendRequest", "start")
    /\ Moved(s, IF Between(job[s].pair) \subseteq follows
                  THEN To(s, "existing") ELSE Idle)
    /\ UNCHANGED <<follows, friend, blocks, excused>>

Rows(p) == {q \in Between(p) : friend[q] # "none"}

ExistingRows_OwnOnly(p) == Rows(p) \cap {p}

\* The rows findFirst may return: either direction.
ExistingRows(p) == Rows(p)

ReadExisting(s) ==
    /\ At(s, "sendRequest", "existing")
    /\ LET p == job[s].pair
           read(q) == [job[s] EXCEPT !.row = q,
                         !.pc = IF q = p THEN "revive" ELSE "replace"]
       IN  \/ ExistingRows(p) = {} /\ Moved(s, To(s, "create"))
           \/ \E q \in ExistingRows(p) :
                Moved(s, IF friend[q] = "rejected" THEN read(q) ELSE Idle)
    /\ UNCHANGED <<follows, friend, blocks, excused>>

\* An own rejected request is pending again; the row must still be there.
Revive(s) ==
    /\ At(s, "sendRequest", "revive")
    /\ IF job[s].row = NoRow
         THEN Moved(s, Idle) /\ UNCHANGED <<friend, excused>>
         ELSE /\ friend' = [friend EXCEPT ![job[s].row] = "pending"]
              /\ Went(s, Idle, {})
              /\ Excuse(s)
    /\ UNCHANGED <<follows, blocks>>

\* The other side's rejected request is deleted before the new one.
Replace(s) ==
    /\ At(s, "sendRequest", "replace")
    /\ friend' = Without({job[s].row})
    /\ IF job[s].row = NoRow THEN Moved(s, Idle)
                             ELSE Went(s, To(s, "create"), {job[s].row})
    /\ UNCHANGED <<follows, blocks, excused>>

\* The unique index stops a second row in the same direction only.
CreateRequest(s) ==
    /\ At(s, "sendRequest", "create")
    /\ IF friend[job[s].pair] # "none"
         THEN Moved(s, Idle) /\ UNCHANGED <<friend, excused>>
         ELSE /\ friend' = [friend EXCEPT ![job[s].pair] = "pending"]
              /\ Went(s, Idle, {})
              /\ Excuse(s)
    /\ UNCHANGED <<follows, blocks>>

Wanted_AnyStatus(op, p) ==
    IF op \in {"acceptRequest", "rejectRequest"}
      THEN {q \in {Opposite(p)} : friend[q] # "none"}
      ELSE {q \in Between(p) : friend[q] # "none"}

\* acceptRequest and rejectRequest look for the requester's pending row;
\* cancelRequest for the caller's own; unfriend for an accepted one.
Wanted(op, p) ==
    IF op \in {"acceptRequest", "rejectRequest"}
      THEN {q \in {Opposite(p)} : friend[q] = "pending"}
      ELSE IF op = "cancelRequest"
        THEN {q \in {p} : friend[q] = "pending"}
        ELSE {q \in Between(p) : friend[q] = "accepted"}

FindRow(s) ==
    /\ job[s].pc = "start"
    /\ job[s].op \in {"acceptRequest", "rejectRequest", "cancelRequest", "unfriend"}
    /\ LET found == Wanted(job[s].op, job[s].pair)
           next == IF job[s].op \in {"acceptRequest", "rejectRequest"}
                     THEN "answer" ELSE "delete"
       IN  \/ found = {} /\ Moved(s, Idle)
           \/ \E q \in found : Moved(s, [To(s, next) EXCEPT !.row = q])
    /\ UNCHANGED <<follows, friend, blocks, excused>>

Answered(op) == IF op = "acceptRequest" THEN "accepted" ELSE "rejected"

\* The row is updated by id, whatever its status is by now.
Answer(s) ==
    /\ job[s].pc = "answer"
    /\ IF job[s].row = NoRow
         THEN Moved(s, Idle) /\ UNCHANGED <<friend, excused>>
         ELSE /\ friend' = [friend EXCEPT ![job[s].row] = Answered(job[s].op)]
              /\ Went(s, Idle, {})
              /\ Excuse(s)
    /\ UNCHANGED <<follows, blocks>>

\* cancelRequest and unfriend delete the row by id.
DeleteRow(s) ==
    /\ job[s].pc = "delete"
    /\ friend' = Without({job[s].row})
    /\ Went(s, Idle, {job[s].row})
    /\ UNCHANGED <<follows, blocks, excused>>

-----------------------------------------------------------------------------
(* BlocksService                                                           *)

Block(s) ==
    /\ At(s, "block", "start")
    /\ blocks' = blocks \cup {job[s].pair}
    /\ Went(s, [To(s, "sever") EXCEPT !.todo = {"follows", "friends"}], {})
    /\ UNCHANGED <<follows, friend, excused>>

\* The two cleanups run in parallel and a failure of either is swallowed.
Sever(s) ==
    /\ At(s, "block", "sever")
    /\ \E part \in job[s].todo :
         LET rest == job[s].todo \ {part}
             next == IF rest = {} THEN Idle ELSE [job[s] EXCEPT !.todo = rest]
         IN  \/ /\ part = "follows"
                /\ follows' = follows \ Between(job[s].pair)
                /\ Went(s, next, {})
                /\ IF job[s].pair \in blocks THEN UNCHANGED excused ELSE Excuse(s)
                /\ UNCHANGED friend
             \/ /\ part = "friends"
                /\ friend' = Without(Between(job[s].pair))
                /\ Went(s, next, Between(job[s].pair))
                /\ UNCHANGED <<follows, excused>>
             \/ /\ Moved(s, next)
                /\ excused' = excused \cup {Between(job[s].pair)}
                /\ UNCHANGED <<follows, friend>>
    /\ UNCHANGED blocks

Unblock(s) ==
    /\ At(s, "unblock", "start")
    /\ blocks' = blocks \ {job[s].pair}
    /\ Went(s, Idle, {})
    /\ UNCHANGED <<follows, friend, excused>>

SocialNext ==
    \E s \in Slot :
      \/ \E op \in Op, p \in Pair : Begin(s, op, p)
      \/ Follow(s)
      \/ Unfollow(s)
      \/ DropFriends(s)
      \/ ReadFollows(s)
      \/ ReadExisting(s)
      \/ Revive(s)
      \/ Replace(s)
      \/ CreateRequest(s)
      \/ FindRow(s)
      \/ Answer(s)
      \/ DeleteRow(s)
      \/ Block(s)
      \/ Sever(s)
      \/ Unblock(s)
      \/ Abort(s)

SocialSpec == SocialInit /\ [][SocialNext]_socialVars

-----------------------------------------------------------------------------
Cleaning(p, pc) ==
    \E s \in Slot : job[s].pc \in pc /\ job[s].pair \in Between(p)

\* A block leaves no follow and no friend row between the two users once its
\* cleanup is over, unless the cleanup failed or a request that had passed
\* the guard before the block wrote after it.
BlockSevers ==
    \A p \in blocks :
        \/ Between(p) \in excused
        \/ Cleaning(p, {"sever"})
        \/ Between(p) \cap follows = {} /\ Rows(p) = {}

\* Friends, and users who asked to be, follow each other: sendRequest checks
\* it once, and unfollow and block undo the friendship they leave behind.
FriendsAreMutual ==
    \A p \in Pair :
        friend[p] \in {"pending", "accepted"} =>
            \/ Between(p) \in excused
            \/ Cleaning(p, {"friends", "sever"})
            \/ Between(p) \subseteq follows

\* Two users have one friend row between them, although the unique index is
\* per direction, unless both asked at the same time.
OneRowPerPair ==
    \A p \in Pair : Cardinality(Rows(p)) <= 1 \/ Between(p) \in excused

\* A request becomes a friendship only while it is pending: never after it
\* was rejected or withdrawn, unless the answers overlapped.
AcceptedWhilePending ==
    [][\A p \in Pair :
         friend[p] # "accepted" /\ friend'[p] = "accepted" =>
             friend[p] = "pending" \/ Between(p) \in excused']_socialVars

=============================================================================
