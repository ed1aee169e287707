------------------------- MODULE SocialGraphProofs -------------------------
(***************************************************************************)
(* Proofs about SocialGraph for any users and any number of requests.      *)
(* IInv has a part per pair of users and a part per request.  A request    *)
(* that no write on its pair has overlapped may rely on all it has read;   *)
(* one that was overlapped relies on nothing, and excuses what it writes.  *)
(***************************************************************************)
EXTENDS SocialGraph, FiniteSetTheorems, TLAPS

Excused(p) == Between(p) \in excused

(* A block of the pair still has to run one of its two cleanups, or an     *)
(* unfollow of the pair its one.                                           *)
Severing(p, part) ==
    \E u \in Slot : /\ job[u].pc = "sever" /\ job[u].pair \in Between(p)
                    /\ part \in job[u].todo

Dropping(p) == \E u \in Slot : job[u].pc = "friends" /\ job[u].pair \in Between(p)

-----------------------------------------------------------------------------
(* What holds of a pair of users.                                          *)

OneRow(p) == friend[p] = "none" \/ friend[Opposite(p)] = "none" \/ Excused(p)

(* What a blocked pair has left is left to a cleanup that still runs.      *)
Severed(p) ==
    p \in blocks =>
        \/ Excused(p)
        \/ /\ Severing(p, "follows") \/ Between(p) \cap follows = {}
           /\ Severing(p, "friends") \/ Rows(p) = {}

Mutual(p) ==
    friend[p] \in {"pending", "accepted"} =>
        Excused(p) \/ Severing(p, "friends") \/ Dropping(p) \/ Between(p) \subseteq follows

PairOK(p) == OneRow(p) /\ Severed(p) /\ Mutual(p)

-----------------------------------------------------------------------------
(* What holds of a request in flight.                                      *)

Job == [pc : {"idle", "start", "friends", "existing", "create", "revive",
              "replace", "answer", "delete", "sever"},
        op : Op, pair : Pair \cup {Idle.pair}, row : Pair \cup {NoRow},
        todo : SUBSET {"follows", "friends"}, overlapped : BOOLEAN]

(* The operation a statement belongs to, and the row it read: a row that   *)
(* was deleted meanwhile is NoRow, any other is still there.               *)
Shape(s) ==
    /\ job[s].pc # "idle" => job[s].pair \in Pair
    /\ job[s].pc \in {"existing", "create", "revive", "replace"} => job[s].op = "sendRequest"
    /\ job[s].pc \in {"revive", "replace", "answer", "delete"} =>
          \/ job[s].row = NoRow
          \/ job[s].row \in Between(job[s].pair) /\ friend[job[s].row] # "none"

(* BlockGuard still passes. *)
StillUnblocked(s) ==
    job[s].pc # "idle" /\ job[s].op \in {"follow", "sendRequest"} => ~IsBlocked(job[s].pair)

(* The two users still follow each other, and have no friend row when the  *)
(* request found none.                                                     *)
StillAskable(s) ==
    /\ job[s].pc \in {"existing", "create", "revive", "replace"} =>
          Between(job[s].pair) \subseteq follows
    /\ job[s].pc = "create" => Rows(job[s].pair) = {} \/ Excused(job[s].pair)

(* The request to accept is still pending. *)
StillPending(s) ==
    job[s].pc = "answer" /\ job[s].op = "acceptRequest" /\ job[s].row # NoRow =>
        friend[job[s].row] = "pending"

(* A block whose row is gone again was overlapped by the unblock.          *)
StillBlocked(s) == job[s].pc = "sever" => job[s].pair \in blocks

JobOK(s) ==
    /\ Shape(s)
    /\ job[s].overlapped \/ /\ StillUnblocked(s) /\ StillAskable(s)
                            /\ StillPending(s) /\ StillBlocked(s)

GraphTyped ==
    /\ follows \subseteq Pair /\ blocks \subseteq Pair
    /\ friend \in [Pair -> {"none", "pending", "accepted", "rejected"}]
    /\ job \in [Slot -> Job]

IInv ==
    /\ GraphTyped
    /\ \A p \in Pair : PairOK(p)
    /\ \A s \in Slot : JobOK(s)

-----------------------------------------------------------------------------
(* Pairs and their opposites.                                              *)

LEMMA PairFacts ==
    ASSUME NEW p \in Pair
    PROVE  /\ p \in Between(p) /\ Opposite(p) \in Between(p) /\ Opposite(p) # p
           /\ Between(p) \subseteq Pair /\ Opposite(p) \in Pair
           /\ Opposite(Opposite(p)) = p
           /\ \A q \in Between(p) : q = p \/ q = Opposite(p)
           /\ p # NoRow
<1>1. PICK u \in User, v \in User : p = <<u, v>> /\ u # v
  BY DEF Pair
<1>2. Opposite(p) = <<v, u>>
  BY <1>1 DEF Opposite
<1>3. QED
  BY <1>1, <1>2 DEF Between, Opposite, Pair, NoRow

LEMMA SamePair ==
    ASSUME NEW p \in Pair, NEW q \in Between(p)
    PROVE  Between(q) = Between(p) /\ p \in Between(q) /\ q \in Pair
<1>1. CASE q = p
  BY <1>1, PairFacts
<1>2. CASE q = Opposite(p)
  BY <1>2, PairFacts DEF Between
<1>3. QED
  BY <1>1, <1>2, PairFacts

LEMMA RowsOfPair ==
    ASSUME NEW p \in Pair
    PROVE  /\ Rows(p) = {q \in {p, Opposite(p)} : friend[q] # "none"}
           /\ Rows(p) = {} <=> friend[p] = "none" /\ friend[Opposite(p)] = "none"
           /\ \A q \in Between(p) : Rows(q) = Rows(p)
BY PairFacts, SamePair DEF Rows, Between

(* The records requests are made of.                                       *)
LEMMA JobFields ==
    ASSUME GraphTyped, NEW s \in Slot
    PROVE  /\ job[s] \in Job /\ Idle \in Job /\ Idle.pc = "idle"
           /\ \A pc \in {"start", "friends", "existing", "create", "revive", "replace",
                         "answer", "delete", "sever"} :
                 /\ To(s, pc) \in Job /\ To(s, pc).pc = pc
                 /\ To(s, pc).op = job[s].op /\ To(s, pc).pair = job[s].pair
                 /\ To(s, pc).row = job[s].row /\ To(s, pc).todo = job[s].todo
                 /\ To(s, pc).overlapped = job[s].overlapped
<1>1. job[s] \in Job
  BY DEF GraphTyped
<1>2. Idle \in Job /\ Idle.pc = "idle"
  BY DEF Idle, Job, Op, NoRow
<1>3. QED
  BY <1>1, <1>2 DEF To, Job

(* What Went and Moved do to the slots: a request on the pair c of a write *)
(* is overtaken by it, any other is left alone.                            *)
Overtaken(t, c, deleted) ==
    /\ job'[t].pc = job[t].pc /\ job'[t].op = job[t].op
    /\ job'[t].pair = job[t].pair /\ job'[t].todo = job[t].todo
    /\ job[t].pc = "idle" \/ job[t].pair \notin Between(c) => job'[t] = job[t]
    /\ job[t].pc # "idle" /\ job[t].pair \in Between(c) =>
          /\ job'[t].overlapped
          /\ job[t].row \in deleted => job'[t].row = NoRow
          /\ job[t].row \notin deleted => job'[t].row = job[t].row

LEMMA WentEffect ==
    ASSUME GraphTyped, NEW s \in Slot, NEW next \in Job, NEW deleted,
           Went(s, next, deleted)
    PROVE  /\ job'[s] = next /\ job' \in [Slot -> Job]
           /\ \A t \in Slot : t # s => Overtaken(t, job[s].pair, deleted)
<1>1. job'[s] = next
  BY DEF Went
<1>2. ASSUME NEW t \in Slot, t # s
      PROVE  job'[t] \in Job /\ Overtaken(t, job[s].pair, deleted)
  <2>1. job[t] \in Job
    BY DEF GraphTyped
  <2>2. QED
    BY <1>2, <2>1 DEF Went, Job, Overtaken
<1>3. job' \in [Slot -> Job]
  <2>1. \A t \in Slot : job'[t] \in Job
    BY <1>1, <1>2
  <2>2. job' = [t \in Slot |-> job'[t]]
    BY DEF Went
  <2>3. QED
    BY <2>1, <2>2
<1>4. QED
  BY <1>1, <1>2, <1>3

LEMMA MovedEffect ==
    ASSUME GraphTyped, NEW s \in Slot, NEW next \in Job, Moved(s, next)
    PROVE  /\ job'[s] = next /\ job' \in [Slot -> Job]
           /\ \A t \in Slot : t # s => job'[t] = job[t]
BY DEF GraphTyped, Moved

-----------------------------------------------------------------------------
(* What a step on one pair leaves of the rest.                             *)

(* A cleanup goes on unless it is the request that moves.                  *)
LEMMA CleanupsGoOn ==
    ASSUME NEW s \in Slot, NEW p,
           \A t \in Slot : t # s => /\ job'[t].pc = job[t].pc /\ job'[t].pair = job[t].pair
                                    /\ job'[t].todo = job[t].todo
    PROVE  /\ job[s].pc # "sever" \/ job[s].pair \notin Between(p) =>
                 \A part : Severing(p, part) => Severing(p, part)'
           /\ job[s].pc # "friends" \/ job[s].pair \notin Between(p) =>
                 (Dropping(p) => Dropping(p)')
BY DEF Severing, Dropping, Between, Opposite

(* Requests and pairs other than those of a write: the former are marked   *)
(* when they are on its pair, and rows it deleted are gone for them.       *)
LEMMA WriteKeepsOthers ==
    ASSUME IInv, NEW s \in Slot, NEW c \in Pair, job[s].pair = c,
           NEW next \in Job, NEW deleted, Went(s, next, deleted),
           excused \subseteq excused',
           \A q \in Pair : q \notin Between(c) =>
               /\ friend'[q] = friend[q]
               /\ q \in follows' <=> q \in follows
               /\ q \in blocks' <=> q \in blocks,
           \A q \in Pair : friend[q] # "none" /\ friend'[q] = "none" => q \in deleted
    PROVE  /\ \A t \in Slot : t # s => JobOK(t)'
           /\ \A p \in Pair : p \notin Between(c) => PairOK(p)'
<1>1. job'[s] = next /\ \A t \in Slot : t # s => Overtaken(t, c, deleted)
  BY WentEffect DEF IInv
<1>2. ASSUME NEW p \in Pair, p \notin Between(c)
      PROVE  /\ \A q \in Between(p) : /\ q \in Pair /\ friend'[q] = friend[q]
                                      /\ q \in follows' <=> q \in follows
                                      /\ q \in blocks' <=> q \in blocks
             /\ c \notin Between(p)
             /\ Rows(p)' = Rows(p) /\ IsBlocked(p)' = IsBlocked(p)
             /\ (Between(p) \cap follows)' = Between(p) \cap follows
  <2>1. \A q \in Between(p) : q \in Pair /\ q \notin Between(c)
    BY <1>2, SamePair, PairFacts
  <2>2. c \notin Between(p)
    BY <1>2, SamePair
  <2>3. QED
    BY <2>1, <2>2 DEF Rows, IsBlocked, Between
<1>3. ASSUME NEW t \in Slot, t # s
      PROVE  JobOK(t)'
  <2>1. CASE job[t].pc = "idle"
    <3>1. job'[t].pc = "idle"
      BY <1>1, <1>3, <2>1 DEF Overtaken
    <3>2. QED
      BY <3>1 DEF JobOK, Shape, StillUnblocked, StillAskable, StillPending, StillBlocked
  <2>2. CASE job[t].pc # "idle" /\ job[t].pair \in Between(c)
    <3>1. JobOK(t) /\ job[t].pair \in Pair
      BY <2>2 DEF IInv, JobOK, Shape
    <3>2. job'[t].overlapped
      BY <1>1, <1>3, <2>2 DEF Overtaken
    <3>3. Shape(t)'
      <4>1. job'[t].pc \in {"revive", "replace", "answer", "delete"} /\ job'[t].row # NoRow
              => job'[t].row \in Between(job'[t].pair) /\ friend'[job'[t].row] # "none"
        BY <1>1, <1>3, <2>2, <3>1, PairFacts DEF JobOK, Shape, Overtaken
      <4>2. QED
        BY <1>1, <1>3, <2>2, <3>1, <4>1 DEF JobOK, Shape, Overtaken
    <3>4. QED
      BY <3>2, <3>3 DEF JobOK
  <2>3. CASE job[t].pc # "idle" /\ job[t].pair \notin Between(c)
    <3>1. job'[t] = job[t]
      BY <1>1, <1>3, <2>3 DEF Overtaken
    <3>2. JobOK(t) /\ job[t].pair \in Pair
      BY <2>3 DEF IInv, JobOK, Shape
    <3> DEFINE p == job[t].pair
    <3>3. /\ \A q \in Between(p) : /\ q \in Pair /\ friend'[q] = friend[q]
                                   /\ q \in follows' <=> q \in follows
                                   /\ q \in blocks' <=> q \in blocks
          /\ p \in Between(p)
      BY <1>2, <2>3, <3>2, PairFacts
    <3>4. Shape(t)'
      BY <3>1, <3>2, <3>3 DEF JobOK, Shape
    <3>5. StillUnblocked(t) => StillUnblocked(t)'
      BY <3>1, <3>3 DEF StillUnblocked, IsBlocked
    <3>6. StillAskable(t) => StillAskable(t)'
      BY <3>1, <3>3 DEF StillAskable, Rows, Excused
    <3>7. StillPending(t) => StillPending(t)'
      BY <3>1, <3>2, <3>3 DEF StillPending, JobOK, Shape
    <3>8. StillBlocked(t) => StillBlocked(t)'
      BY <3>1, <3>3 DEF StillBlocked
    <3>9. QED
      BY <3>1, <3>2, <3>4, <3>5, <3>6, <3>7, <3>8 DEF JobOK
  <2>4. QED
    BY <2>1, <2>2, <2>3
<1>4. ASSUME NEW p \in Pair, p \notin Between(c)
      PROVE  PairOK(p)'
  <2>1. PairOK(p)
    BY DEF IInv
  <2>2. /\ friend'[p] = friend[p] /\ friend'[Opposite(p)] = friend[Opposite(p)]
        /\ p \in blocks' <=> p \in blocks
        /\ Rows(p)' = Rows(p) /\ (Between(p) \cap follows)' = Between(p) \cap follows
        /\ Between(p) \subseteq follows => (Between(p) \subseteq follows)'
    BY <1>2, <1>4, PairFacts DEF Between
  <2>3. /\ \A part : Severing(p, part) => Severing(p, part)'
        /\ Dropping(p) => Dropping(p)'
        /\ Excused(p) => Excused(p)'
    BY <1>1, <1>2, <1>4, CleanupsGoOn DEF Excused, Overtaken
  <2>4. QED
    BY <2>1, <2>2, <2>3 DEF PairOK, OneRow, Severed, Mutual
<1>5. QED
  BY <1>3, <1>4

(* A request that moves on without a write disturbs nobody; when it was a  *)
(* cleanup, its own pair is excused.                                       *)
LEMMA MoveKeepsOthers ==
    ASSUME IInv, NEW s \in Slot, NEW next \in Job, Moved(s, next),
           excused \subseteq excused', UNCHANGED <<follows, friend, blocks>>,
           job[s].pc \in {"friends", "sever"} => Between(job[s].pair) \in excused'
    PROVE  /\ \A t \in Slot : t # s => JobOK(t)'
           /\ \A p \in Pair : PairOK(p)'
<1>1. /\ job'[s] = next /\ job' \in [Slot -> Job]
      /\ \A t \in Slot : t # s => job'[t] = job[t]
  BY MovedEffect DEF IInv
<1>2. ASSUME NEW t \in Slot, t # s
      PROVE  JobOK(t)'
  <2>1. job'[t] = job[t] /\ JobOK(t)
    BY <1>1, <1>2 DEF IInv
  <2>2. QED
    BY <2>1 DEF JobOK, Shape, StillUnblocked, StillAskable, StillPending, StillBlocked,
                Excused, Rows, IsBlocked
<1>3. ASSUME NEW p \in Pair
      PROVE  PairOK(p)'
  <2>1. CASE job[s].pc \in {"friends", "sever"} /\ job[s].pair \in Between(p)
    <3>1. job[s].pair \in Pair /\ Between(job[s].pair) = Between(p)
      BY <2>1, SamePair
    <3>2. Excused(p)'
      BY <2>1, <3>1 DEF Excused, Between, Opposite
    <3>3. QED
      BY <3>2 DEF PairOK, OneRow, Severed, Mutual
  <2>2. CASE job[s].pc \notin {"friends", "sever"} \/ job[s].pair \notin Between(p)
    <3>1. /\ \A part : Severing(p, part) => Severing(p, part)'
          /\ Dropping(p) => Dropping(p)'
          /\ Excused(p) => Excused(p)'
      BY <1>1, <2>2, CleanupsGoOn DEF Excused
    <3>2. /\ friend' = friend /\ blocks' = blocks /\ Rows(p)' = Rows(p)
          /\ (Between(p) \cap follows)' = Between(p) \cap follows
          /\ (Between(p) \subseteq follows)' = (Between(p) \subseteq follows)
      BY DEF Rows, Between, Opposite
    <3>3. PairOK(p)
      BY DEF IInv
    <3>4. QED
      BY <3>1, <3>2, <3>3 DEF PairOK, OneRow, Severed, Mutual
  <2>3. QED
    BY <2>1, <2>2
<1>4. QED
  BY <1>2, <1>3

LEMMA IdleIsOK ==
    ASSUME NEW s \in Slot, job'[s] = Idle
    PROVE  JobOK(s)'
<1>1. job'[s].pc = "idle"
  BY DEF Idle
<1>2. QED
  BY <1>1 DEF JobOK, Shape, StillUnblocked, StillAskable, StillPending, StillBlocked

(* What is left to show of a write and of a move.                          *)
LEMMA WriteKeepsIInv ==
    ASSUME IInv, NEW s \in Slot, NEW c \in Pair, job[s].pair = c,
           NEW next \in Job, NEW deleted, Went(s, next, deleted),
           excused \subseteq excused',
           \A q \in Pair : q \notin Between(c) =>
               /\ friend'[q] = friend[q]
               /\ q \in follows' <=> q \in follows
               /\ q \in blocks' <=> q \in blocks,
           \A q \in Pair : friend[q] # "none" /\ friend'[q] = "none" => q \in deleted,
           GraphTyped', JobOK(s)', \A p \in Between(c) : PairOK(p)'
    PROVE  IInv'
BY WriteKeepsOthers DEF IInv

LEMMA MoveKeepsIInv ==
    ASSUME IInv, NEW s \in Slot, NEW next \in Job, Moved(s, next),
           excused \subseteq excused', UNCHANGED <<follows, friend, blocks>>,
           job[s].pc \in {"friends", "sever"} => Between(job[s].pair) \in excused',
           JobOK(s)'
    PROVE  IInv'
<1>1. GraphTyped'
  BY MovedEffect DEF IInv, GraphTyped
<1>2. QED
  BY <1>1, MoveKeepsOthers DEF IInv

LEMMA GiveUpKeepsIInv ==
    ASSUME IInv, NEW s \in Slot, Moved(s, Idle),
           excused \subseteq excused', UNCHANGED <<follows, friend, blocks>>,
           job[s].pc \in {"friends", "sever"} => Between(job[s].pair) \in excused'
    PROVE  IInv'
<1>1. GraphTyped /\ Idle \in Job
  BY JobFields DEF IInv
<1>2. job'[s] = Idle
  BY <1>1, MovedEffect
<1>3. QED
  BY <1>1, <1>2, IdleIsOK, MoveKeepsIInv

(* The slots after a write of s.                                           *)
LEMMA WriteFacts ==
    ASSUME IInv, NEW s \in Slot, job[s].pc # "idle",
           NEW next \in Job, NEW deleted, Went(s, next, deleted)
    PROVE  /\ job[s].pair \in Pair /\ JobOK(s) /\ GraphTyped
           /\ job'[s] = next /\ job' \in [Slot -> Job]
           /\ job[s].pc # "sever" =>
                 \A p, part : Severing(p, part) => Severing(p, part)'
           /\ job[s].pc # "friends" => \A p : Dropping(p) => Dropping(p)'
<1>1. job[s].pair \in Pair /\ JobOK(s) /\ GraphTyped
  BY DEF IInv, JobOK, Shape
<1>2. /\ job'[s] = next /\ job' \in [Slot -> Job]
      /\ \A t \in Slot : t # s => Overtaken(t, job[s].pair, deleted)
  BY <1>1, WentEffect
<1>3. QED
  BY <1>1, <1>2, CleanupsGoOn DEF Overtaken

(* An overlapped request excuses its pair when it writes.                  *)
LEMMA ExcuseFacts ==
    ASSUME NEW s \in Slot, job[s].pair \in Pair, Excuse(s)
    PROVE  /\ excused \subseteq excused'
           /\ job[s].overlapped => \A p \in Between(job[s].pair) : Excused(p)'
<1>1. excused \subseteq excused' /\ (job[s].overlapped => Between(job[s].pair) \in excused')
  BY DEF Excuse
<1>2. \A p \in Between(job[s].pair) : Between(p) = Between(job[s].pair)
  BY SamePair
<1>3. QED
  BY <1>1, <1>2 DEF Excused, Between, Opposite

LEMMA InitIInv == SocialInit => IInv
<1> SUFFICES ASSUME SocialInit PROVE IInv
  OBVIOUS
<1>1. Idle \in Job /\ Idle.pc = "idle"
  BY DEF Idle, Job, Op, NoRow
<1>2. GraphTyped
  BY <1>1 DEF SocialInit, GraphTyped
<1>3. \A p \in Pair : PairOK(p)
  BY DEF SocialInit, PairOK, OneRow, Severed, Mutual
<1>4. \A s \in Slot : JobOK(s)
  BY <1>1 DEF SocialInit, JobOK, Shape, StillUnblocked, StillAskable, StillPending,
              StillBlocked
<1>5. QED
  BY <1>2, <1>3, <1>4 DEF IInv

-----------------------------------------------------------------------------
(* One lemma per action.                                                   *)

(* BlockGuard passes and the handler starts.                               *)
LEMMA BeginKeepsIInv ==
    ASSUME IInv, NEW s \in Slot, NEW op \in Op, NEW p \in Pair, Begin(s, op, p)
    PROVE  IInv'
<1> DEFINE next == [Idle EXCEPT !.pc = "start", !.op = op, !.pair = p]
<1>1. /\ next \in Job /\ next.pc = "start" /\ next.op = op /\ next.pair = p
      /\ job[s].pc = "idle" /\ Moved(s, next) /\ BlockGuard(op, p)
      /\ UNCHANGED <<follows, friend, blocks, excused>>
  BY DEF Begin, Idle, Job, Op, NoRow
<1> HIDE DEF next
<1>2. job'[s] = next
  BY <1>1, MovedEffect DEF IInv
<1>3. JobOK(s)'
  <2>1. Shape(s)'
    BY <1>1, <1>2 DEF Shape
  <2>2. StillUnblocked(s)'
    BY <1>1, <1>2 DEF StillUnblocked, BlockGuard, IsBlocked, Between, Opposite
  <2>3. StillAskable(s)' /\ StillPending(s)' /\ StillBlocked(s)'
    BY <1>1, <1>2 DEF StillAskable, StillPending, StillBlocked
  <2>4. QED
    BY <2>1, <2>2, <2>3 DEF JobOK
<1>4. QED
  BY <1>1, <1>3, MoveKeepsIInv

LEMMA FollowKeepsIInv ==
    ASSUME IInv, NEW s \in Slot, Follow(s)
    PROVE  IInv'
<1>1. PICK c \in Pair : c = job[s].pair
  BY DEF IInv, JobOK, Shape, Follow, At
<1>2. /\ job[s].pc = "start" /\ job[s].op = "follow"
      /\ follows' = follows \cup {c} /\ friend' = friend /\ blocks' = blocks
      /\ Went(s, Idle, {}) /\ Excuse(s) /\ Idle \in Job
  BY <1>1, JobFields DEF IInv, Follow, At
<1>3. /\ JobOK(s) /\ GraphTyped /\ job'[s] = Idle /\ job' \in [Slot -> Job]
      /\ \A p, part : Severing(p, part) => Severing(p, part)'
      /\ \A p : Dropping(p) => Dropping(p)'
  BY <1>2, WriteFacts
<1>4. /\ excused \subseteq excused'
      /\ job[s].overlapped => \A p \in Between(c) : Excused(p)'
  BY <1>1, <1>2, ExcuseFacts
<1>5. ~job[s].overlapped => \A p \in Between(c) : p \notin blocks
  BY <1>1, <1>2, <1>3 DEF JobOK, StillUnblocked, IsBlocked
<1>6. ASSUME NEW p \in Between(c)
      PROVE  PairOK(p)'
  <2>1. p \in Pair /\ PairOK(p)
    BY SamePair DEF IInv
  <2>2. Excused(p) => Excused(p)'
    BY <1>4 DEF Excused
  <2>3. OneRow(p)'
    BY <1>2, <2>1, <2>2 DEF PairOK, OneRow
  <2>4. Severed(p)'
    BY <1>2, <1>4, <1>5 DEF Severed
  <2>5. Mutual(p)'
    BY <1>2, <1>3, <2>1, <2>2 DEF PairOK, Mutual
  <2>6. QED
    BY <2>3, <2>4, <2>5 DEF PairOK
<1>7. GraphTyped'
  BY <1>2, <1>3 DEF GraphTyped
<1>8. QED
  BY <1>1, <1>2, <1>3, <1>4, <1>6, <1>7, PairFacts, IdleIsOK, WriteKeepsIInv

(* The Follow row goes first; the cleanup that follows is `Dropping`.      *)
LEMMA UnfollowKeepsIInv ==
    ASSUME IInv, NEW s \in Slot, Unfollow(s)
    PROVE  IInv'
<1>1. PICK c \in Pair : c = job[s].pair
  BY DEF IInv, JobOK, Shape, Unfollow, At
<1>2. /\ job[s].pc = "start" /\ job[s].op = "unfollow"
      /\ follows' = follows \ {c} /\ friend' = friend /\ blocks' = blocks
      /\ excused' = excused
  BY <1>1 DEF Unfollow, At
<1>3. CASE c \notin follows
  <2>1. follows' = follows /\ Moved(s, Idle)
    BY <1>1, <1>2, <1>3 DEF Unfollow
  <2>2. QED
    BY <1>2, <2>1, GiveUpKeepsIInv
<1>4. CASE c \in follows
  <2> DEFINE next == To(s, "friends")
  <2>1. Went(s, next, {})
    BY <1>1, <1>4 DEF Unfollow
  <2>2. next \in Job /\ next.pc = "friends" /\ next.op = "unfollow" /\ next.pair = c
    BY <1>1, <1>2, JobFields DEF IInv
  <2> HIDE DEF next
  <2>3. /\ JobOK(s) /\ GraphTyped /\ job'[s] = next /\ job' \in [Slot -> Job]
        /\ \A p, part : Severing(p, part) => Severing(p, part)'
    BY <1>2, <2>1, <2>2, WriteFacts
  <2>4. JobOK(s)'
    BY <2>2, <2>3 DEF JobOK, Shape, StillUnblocked, StillAskable, StillPending, StillBlocked
  <2>5. ASSUME NEW p \in Between(c)
        PROVE  PairOK(p)'
    <3>1. p \in Pair /\ PairOK(p) /\ c \in Between(p)
      BY SamePair DEF IInv
    <3>2. Excused(p)' = Excused(p) /\ Rows(p)' = Rows(p)
      BY <1>2 DEF Excused, Rows
    <3>3. OneRow(p)'
      BY <1>2, <3>1, <3>2 DEF PairOK, OneRow
    <3>4. Severed(p)'
      BY <1>2, <2>3, <3>1, <3>2 DEF PairOK, Severed
    <3>5. Dropping(p)'
      BY <2>2, <2>3, <3>1 DEF Dropping, Between, Opposite
    <3>6. QED
      BY <3>3, <3>4, <3>5 DEF PairOK, Mutual
  <2>6. GraphTyped'
    BY <1>2, <2>3 DEF GraphTyped
  <2>7. QED
    BY <1>1, <1>2, <2>1, <2>2, <2>4, <2>5, <2>6, PairFacts, WriteKeepsIInv
<1>5. QED
  BY <1>3, <1>4

(* Rows deleted from the friend table.                                     *)
LEMMA WithoutEffect ==
    ASSUME GraphTyped, NEW rows, friend' = Without(rows)
    PROVE  /\ friend' \in [Pair -> {"none", "pending", "accepted", "rejected"}]
           /\ \A q \in Pair : friend'[q] = IF q \in rows THEN "none" ELSE friend[q]
           /\ \A q \in Pair : friend[q] # "none" /\ friend'[q] = "none" => q \in rows
BY DEF GraphTyped, Without

(* A deletion of rows of its pair by a request that is then idle, or goes  *)
(* on as `next`.                                                           *)
LEMMA DeletionKeepsIInv ==
    ASSUME IInv, NEW s \in Slot, job[s].pc \notin {"idle", "sever"},
           NEW rows \in SUBSET Between(job[s].pair),
           rows = Between(job[s].pair) \/ job[s].pc # "friends",
           NEW next \in Job, Went(s, next, rows), friend' = Without(rows),
           UNCHANGED <<follows, blocks, excused>>, JobOK(s)'
    PROVE  IInv'
<1>1. PICK c \in Pair : c = job[s].pair
  BY DEF IInv, JobOK, Shape
<1>2. /\ GraphTyped /\ job'[s] = next /\ job' \in [Slot -> Job]
      /\ \A p, part : Severing(p, part) => Severing(p, part)'
      /\ job[s].pc # "friends" => \A p : Dropping(p) => Dropping(p)'
  BY WriteFacts
<1>3. /\ friend' \in [Pair -> {"none", "pending", "accepted", "rejected"}]
      /\ \A q \in Pair : friend'[q] = IF q \in rows THEN "none" ELSE friend[q]
      /\ \A q \in Pair : friend[q] # "none" /\ friend'[q] = "none" => q \in rows
  BY <1>2, WithoutEffect
<1>4. ASSUME NEW p \in Between(c)
      PROVE  PairOK(p)'
  <2>1. p \in Pair /\ Opposite(p) \in Pair /\ PairOK(p) /\ Between(p) = Between(c)
        /\ p \in Between(c) /\ Opposite(p) \in Between(c)
    BY SamePair, PairFacts DEF IInv
  <2>2. Excused(p)' = Excused(p)
    BY DEF Excused, Between, Opposite
  <2>3. Rows(p) = {} => Rows(p)' = {}
    BY <1>3, <2>1, PairFacts DEF Rows, Between, Opposite
  <2>4. OneRow(p)'
    BY <1>3, <2>1, <2>2 DEF PairOK, OneRow
  <2>5. Severed(p)'
    BY <1>2, <2>1, <2>2, <2>3 DEF PairOK, Severed
  <2>6. Mutual(p)'
    BY <1>1, <1>2, <1>3, <2>1, <2>2 DEF PairOK, Mutual
  <2>7. QED
    BY <2>4, <2>5, <2>6 DEF PairOK
<1>5. GraphTyped'
  BY <1>2, <1>3 DEF GraphTyped
<1>6. \A q \in Pair : q \notin Between(c) => friend'[q] = friend[q]
  BY <1>1, <1>3
<1>7. QED
  BY <1>1, <1>3, <1>4, <1>5, <1>6, WriteKeepsIInv

LEMMA DropFriendsKeepsIInv ==
    ASSUME IInv, NEW s \in Slot, DropFriends(s)
    PROVE  IInv'
<1> DEFINE rows == Between(job[s].pair)
<1>1. /\ job[s].pc = "friends" /\ Went(s, Idle, rows) /\ friend' = Without(rows)
      /\ UNCHANGED <<follows, blocks, excused>> /\ Idle \in Job
  BY JobFields DEF IInv, DropFriends, At
<1>2. JobOK(s)'
  BY <1>1, WriteFacts, IdleIsOK
<1>3. QED
  BY <1>1, <1>2, DeletionKeepsIInv

(* sendRequest finds that the two follow each other, or gives up.          *)
LEMMA ReadFollowsKeepsIInv ==
    ASSUME IInv, NEW s \in Slot, ReadFollows(s)
    PROVE  IInv'
<1>1. /\ job[s].pc = "start" /\ job[s].op = "sendRequest"
      /\ UNCHANGED <<follows, friend, blocks, excused>>
  BY DEF ReadFollows, At
<1>2. CASE ~(Between(job[s].pair) \subseteq follows)
  BY <1>1, <1>2, GiveUpKeepsIInv DEF ReadFollows
<1>3. CASE Between(job[s].pair) \subseteq follows
  <2> DEFINE next == To(s, "existing")
  <2>1. /\ Moved(s, next) /\ next \in Job /\ next.pc = "existing"
        /\ next.op = "sendRequest" /\ next.pair = job[s].pair
        /\ next.overlapped = job[s].overlapped /\ JobOK(s)
    BY <1>1, <1>3, JobFields DEF IInv, ReadFollows
  <2> HIDE DEF next
  <2>2. job'[s] = next
    BY <2>1, MovedEffect DEF IInv
  <2>3. JobOK(s)'
    <3>1. Shape(s)'
      BY <1>1, <2>1, <2>2 DEF JobOK, Shape
    <3>2. StillUnblocked(s) => StillUnblocked(s)'
      BY <1>1, <2>1, <2>2 DEF StillUnblocked, IsBlocked, Between, Opposite
    <3>3. StillAskable(s)'
      BY <1>1, <1>3, <2>1, <2>2 DEF StillAskable, Between, Opposite
    <3>4. StillPending(s)' /\ StillBlocked(s)'
      BY <2>1, <2>2 DEF StillPending, StillBlocked
    <3>5. QED
      BY <2>1, <2>2, <3>1, <3>2, <3>3, <3>4 DEF JobOK
  <2>4. QED
    BY <1>1, <2>1, <2>3, MoveKeepsIInv
<1>4. QED
  BY <1>2, <1>3

(* Each row sendRequest may find decides how it goes on.                   *)
LEMMA ReadExistingKeepsIInv ==
    ASSUME IInv, NEW s \in Slot, ReadExisting(s)
    PROVE  IInv'
<1>1. PICK c \in Pair : c = job[s].pair
  BY DEF IInv, JobOK, Shape, ReadExisting, At
<1>2. /\ job[s].pc = "existing" /\ job[s].op = "sendRequest" /\ JobOK(s) /\ GraphTyped
      /\ UNCHANGED <<follows, friend, blocks, excused>>
  BY DEF IInv, ReadExisting, At
<1>3. ASSUME NEW next \in Job, Moved(s, next), next.pc \in {"create", "revive", "replace"},
             next.op = "sendRequest", next.pair = c, next.overlapped = job[s].overlapped,
             next.pc = "create" => Rows(c) = {},
             next.pc # "create" => next.row \in Between(c) /\ friend[next.row] # "none"
      PROVE  IInv'
  <2>1. job'[s] = next
    BY <1>2, <1>3, MovedEffect
  <2>2. Shape(s)'
    BY <1>2, <1>3, <2>1 DEF Shape, Between, Opposite
  <2>3. StillUnblocked(s) => StillUnblocked(s)'
    BY <1>1, <1>2, <1>3, <2>1 DEF StillUnblocked, IsBlocked, Between, Opposite
  <2>4. StillAskable(s) => StillAskable(s)'
    <3>1. Rows(c)' = Rows(c) /\ Excused(c)' = Excused(c)
      BY <1>2 DEF Rows, Excused
    <3>2. QED
      BY <1>1, <1>2, <1>3, <2>1, <3>1
      DEF StillAskable, Rows, Excused, Between, Opposite
  <2>5. StillPending(s)' /\ StillBlocked(s)'
    BY <1>3, <2>1 DEF StillPending, StillBlocked
  <2>6. JobOK(s)'
    BY <1>2, <1>3, <2>1, <2>2, <2>3, <2>4, <2>5 DEF JobOK
  <2>7. QED
    BY <1>2, <1>3, <2>6, MoveKeepsIInv
<1>4. CASE ExistingRows(c) = {} /\ Moved(s, To(s, "create"))
  BY <1>1, <1>2, <1>3, <1>4, JobFields DEF ExistingRows
<1>5. ASSUME NEW q \in ExistingRows(c), friend[q] = "rejected",
             Moved(s, [job[s] EXCEPT !.row = q,
                         !.pc = IF q = c THEN "revive" ELSE "replace"])
      PROVE  IInv'
  <2> DEFINE next == [job[s] EXCEPT !.row = q,
                        !.pc = IF q = c THEN "revive" ELSE "replace"]
  <2>1. q \in Between(c) /\ q \in Pair /\ friend[q] # "none"
    BY SamePair DEF ExistingRows, Rows
  <2>2. job[s] \in Job
    BY <1>2, JobFields
  <2>3. /\ next \in Job /\ next.pc \in {"revive", "replace"} /\ next.op = job[s].op
        /\ next.pair = job[s].pair /\ next.overlapped = job[s].overlapped
        /\ next.row = q
    BY <2>1, <2>2 DEF Job
  <2> HIDE DEF next
  <2>4. Moved(s, next)
    BY <1>5 DEF next
  <2>5. QED
    BY <1>1, <1>2, <1>3, <2>1, <2>3, <2>4
<1>6. CASE Moved(s, Idle)
  BY <1>2, <1>6, GiveUpKeepsIInv
<1>7. QED
  BY <1>1, <1>4, <1>5, <1>6 DEF ReadExisting

(* A friend row of the pair is written and the request is done: a new row  *)
(* needs that nothing overlapped since none was found, a pending one that  *)
(* the two follow each other.                                              *)
LEMMA RowWriteKeepsIInv ==
    ASSUME IInv, NEW s \in Slot, job[s].pc \notin {"idle", "friends", "sever"},
           NEW q \in Between(job[s].pair), NEW status \in {"pending", "accepted", "rejected"},
           friend' = [friend EXCEPT ![q] = status], Went(s, Idle, {}), Excuse(s),
           UNCHANGED <<follows, blocks>>,
           ~job[s].overlapped /\ friend[q] = "none" =>
               /\ ~IsBlocked(job[s].pair)
               /\ Rows(job[s].pair) = {} \/ Excused(job[s].pair),
           ~job[s].overlapped /\ status \in {"pending", "accepted"} =>
               \/ friend[q] \in {"pending", "accepted"}
               \/ Between(job[s].pair) \subseteq follows
    PROVE  IInv'
<1>1. PICK c \in Pair : c = job[s].pair
  BY DEF IInv, JobOK, Shape
<1>2. /\ GraphTyped /\ Idle \in Job /\ job'[s] = Idle /\ job' \in [Slot -> Job]
      /\ \A p, part : Severing(p, part) => Severing(p, part)'
      /\ \A p : Dropping(p) => Dropping(p)'
  BY WriteFacts, JobFields DEF IInv
<1>3. /\ excused \subseteq excused'
      /\ job[s].overlapped => \A p \in Between(c) : Excused(p)'
  BY <1>1, ExcuseFacts
<1>4. /\ q \in Pair /\ friend'[q] = status
      /\ \A p \in Pair : p # q => friend'[p] = friend[p]
      /\ friend' \in [Pair -> {"none", "pending", "accepted", "rejected"}]
  BY <1>1, <1>2, SamePair DEF GraphTyped
<1>5. ASSUME NEW p \in Between(c)
      PROVE  PairOK(p)'
  <2>1. /\ p \in Pair /\ Opposite(p) \in Pair /\ PairOK(p) /\ Between(p) = Between(c)
        /\ q = p \/ q = Opposite(p)
    BY <1>1, SamePair, PairFacts DEF IInv
  <2>2. Excused(p) => Excused(p)'
    BY <1>3 DEF Excused
  <2>3. CASE job[s].overlapped
    <3>1. Excused(p)'
      BY <1>3, <2>3
    <3>2. QED
      BY <3>1 DEF PairOK, OneRow, Severed, Mutual
  <2>4. CASE ~job[s].overlapped
    <3>1. Rows(p) = Rows(c) /\ Excused(p) = Excused(c)
      BY <2>1, RowsOfPair DEF Excused
    <3>2. OneRow(p)'
      <4>1. CASE friend[q] # "none"
        BY <1>4, <2>1, <2>2, <4>1, PairFacts DEF PairOK, OneRow
      <4>2. CASE friend[q] = "none"
        <5>1. Excused(p) \/ Rows(p) = {}
          BY <1>1, <2>4, <3>1, <4>2
        <5>2. CASE Excused(p)
          BY <2>2, <5>2 DEF OneRow
        <5>3. CASE Rows(p) = {}
          <6>1. friend[p] = "none" /\ friend[Opposite(p)] = "none"
            BY <2>1, <5>3, RowsOfPair
          <6>2. QED
            BY <1>4, <2>1, <6>1, PairFacts DEF OneRow
        <5>4. QED
          BY <5>1, <5>2, <5>3
      <4>3. QED
        BY <4>1, <4>2
    <3>3. Severed(p)'
      <4>1. CASE friend[q] # "none"
        <5>1. Rows(p) # {}
          BY <2>1, <4>1, RowsOfPair
        <5>2. QED
          BY <1>2, <2>1, <2>2, <5>1 DEF PairOK, Severed
      <4>2. CASE friend[q] = "none"
        BY <1>1, <2>4, <4>2 DEF IsBlocked, Severed
      <4>3. QED
        BY <4>1, <4>2
    <3>4. Mutual(p)'
      <4>1. CASE friend'[p] \notin {"pending", "accepted"}
        BY <4>1 DEF Mutual
      <4>2. CASE friend[p] \in {"pending", "accepted"} \/ Between(p) \subseteq follows
        BY <1>2, <2>1, <2>2, <4>2 DEF PairOK, Mutual
      <4>3. QED
        BY <1>1, <1>4, <2>1, <2>4, <4>1, <4>2
    <3>5. QED
      BY <3>2, <3>3, <3>4 DEF PairOK
  <2>5. QED
    BY <2>3, <2>4
<1>6. GraphTyped'
  BY <1>2, <1>4 DEF GraphTyped
<1>7. JobOK(s)'
  BY <1>2, IdleIsOK
<1>8. QED
  BY <1>1, <1>2, <1>3, <1>4, <1>5, <1>6, <1>7, WriteKeepsIInv

LEMMA ReviveKeepsIInv ==
    ASSUME IInv, NEW s \in Slot, Revive(s)
    PROVE  IInv'
<1>1. /\ job[s].pc = "revive" /\ job[s].op = "sendRequest" /\ JobOK(s)
      /\ UNCHANGED <<follows, blocks>>
  BY DEF IInv, Revive, At
<1>2. CASE job[s].row = NoRow
  <2>1. Moved(s, Idle) /\ UNCHANGED <<friend, excused>>
    BY <1>2 DEF Revive
  <2>2. QED
    BY <1>1, <2>1, GiveUpKeepsIInv
<1>3. CASE job[s].row # NoRow
  <2>1. /\ friend' = [friend EXCEPT ![job[s].row] = "pending"]
        /\ Went(s, Idle, {}) /\ Excuse(s)
    BY <1>3 DEF Revive
  <2>2. job[s].row \in Between(job[s].pair) /\ friend[job[s].row] # "none"
    BY <1>1, <1>3 DEF JobOK, Shape
  <2>3. ~job[s].overlapped => Between(job[s].pair) \subseteq follows
    BY <1>1 DEF JobOK, StillAskable
  <2>4. QED
    BY <1>1, <2>1, <2>2, <2>3, RowWriteKeepsIInv
<1>4. QED
  BY <1>2, <1>3

LEMMA CreateRequestKeepsIInv ==
    ASSUME IInv, NEW s \in Slot, CreateRequest(s)
    PROVE  IInv'
<1>1. /\ job[s].pc = "create" /\ job[s].op = "sendRequest" /\ JobOK(s)
      /\ UNCHANGED <<follows, blocks>>
  BY DEF IInv, CreateRequest, At
<1>2. CASE friend[job[s].pair] # "none"
  <2>1. Moved(s, Idle) /\ UNCHANGED <<friend, excused>>
    BY <1>2 DEF CreateRequest
  <2>2. QED
    BY <1>1, <2>1, GiveUpKeepsIInv
<1>3. CASE friend[job[s].pair] = "none"
  <2>1. /\ friend' = [friend EXCEPT ![job[s].pair] = "pending"]
        /\ Went(s, Idle, {}) /\ Excuse(s)
    BY <1>3 DEF CreateRequest
  <2>2. job[s].pair \in Between(job[s].pair)
    BY <1>1, PairFacts DEF JobOK, Shape
  <2>3. ~job[s].overlapped =>
            /\ ~IsBlocked(job[s].pair)
            /\ Rows(job[s].pair) = {} \/ Excused(job[s].pair)
            /\ Between(job[s].pair) \subseteq follows
    BY <1>1 DEF JobOK, StillUnblocked, StillAskable
  <2>4. QED
    BY <1>1, <2>1, <2>2, <2>3, RowWriteKeepsIInv
<1>4. QED
  BY <1>2, <1>3

(* An answer writes a row that exists; accepting one that nothing          *)
(* overlapped finds it pending.                                            *)
LEMMA AnswerKeepsIInv ==
    ASSUME IInv, NEW s \in Slot, Answer(s)
    PROVE  IInv'
<1>1. job[s].pc = "answer" /\ JobOK(s) /\ UNCHANGED <<follows, blocks>>
  BY DEF IInv, Answer
<1>2. CASE job[s].row = NoRow
  <2>1. Moved(s, Idle) /\ UNCHANGED <<friend, excused>>
    BY <1>2 DEF Answer
  <2>2. QED
    BY <1>1, <2>1, GiveUpKeepsIInv
<1>3. CASE job[s].row # NoRow
  <2> DEFINE status == Answered(job[s].op)
  <2>1. /\ friend' = [friend EXCEPT ![job[s].row] = status]
        /\ Went(s, Idle, {}) /\ Excuse(s)
    BY <1>3 DEF Answer
  <2>2. /\ status \in {"pending", "accepted", "rejected"}
        /\ status = "accepted" => job[s].op = "acceptRequest"
        /\ status # "pending"
    BY DEF Answered
  <2>3. job[s].row \in Between(job[s].pair) /\ friend[job[s].row] # "none"
    BY <1>1, <1>3 DEF JobOK, Shape
  <2>4. ~job[s].overlapped /\ job[s].op = "acceptRequest" => friend[job[s].row] = "pending"
    BY <1>1, <1>3 DEF JobOK, StillPending
  <2> HIDE DEF status
  <2>5. QED
    BY <1>1, <2>1, <2>2, <2>3, <2>4, RowWriteKeepsIInv
<1>4. QED
  BY <1>2, <1>3

(* NoRow deletes nothing.                                                  *)
LEMMA NoRowDeletes ==
    ASSUME GraphTyped, friend' = Without({NoRow})
    PROVE  friend' = friend
BY PairFacts DEF GraphTyped, Without

(* After the other side's rejected row is gone the pair has none, unless   *)
(* it had two.                                                             *)
LEMMA ReplaceKeepsIInv ==
    ASSUME IInv, NEW s \in Slot, Replace(s)
    PROVE  IInv'
<1>1. /\ job[s].pc = "replace" /\ job[s].op = "sendRequest" /\ JobOK(s) /\ GraphTyped
      /\ job[s].pair \in Pair
      /\ friend' = Without({job[s].row}) /\ UNCHANGED <<follows, blocks, excused>>
  BY DEF IInv, JobOK, Shape, Replace, At
<1>2. CASE job[s].row = NoRow
  <2>1. Moved(s, Idle) /\ UNCHANGED friend
    BY <1>1, <1>2, NoRowDeletes DEF Replace
  <2>2. QED
    BY <1>1, <2>1, GiveUpKeepsIInv
<1>3. CASE job[s].row # NoRow
  <2>1. PICK c \in Pair : c = job[s].pair
    BY <1>1
  <2>2. PICK row \in Between(c) : row = job[s].row /\ friend[row] # "none"
    BY <1>1, <1>3, <2>1 DEF JobOK, Shape
  <2> DEFINE next == To(s, "create")
  <2>3. /\ Went(s, next, {row}) /\ next \in Job /\ next.pc = "create"
        /\ next.op = "sendRequest" /\ next.pair = c
        /\ next.overlapped = job[s].overlapped
    BY <1>1, <1>3, <2>1, <2>2, JobFields DEF Replace
  <2> HIDE DEF next
  <2>4. job'[s] = next
    BY <1>1, <2>3, WriteFacts
  <2>5. JobOK(s)'
    <3>1. Shape(s)'
      BY <2>3, <2>4 DEF Shape
    <3>2. StillUnblocked(s) => StillUnblocked(s)'
      BY <1>1, <2>1, <2>3, <2>4 DEF StillUnblocked, IsBlocked, Between, Opposite
    <3>3. Rows(c)' = {} \/ Excused(c)'
      <4>1. /\ \A q \in Pair : friend'[q] = IF q = row THEN "none" ELSE friend[q]
            /\ OneRow(c)
        BY <1>1, <2>2, WithoutEffect DEF IInv, PairOK
      <4>2. CASE Excused(c)
        BY <1>1, <4>2 DEF Excused
      <4>3. CASE friend[c] = "none" \/ friend[Opposite(c)] = "none"
        <5>1. friend'[c] = "none" /\ friend'[Opposite(c)] = "none"
          BY <2>2, <4>1, <4>3, PairFacts
        <5>2. QED
          BY <5>1 DEF Rows, Between, Opposite
      <4>4. QED
        BY <4>1, <4>2, <4>3 DEF OneRow
    <3>4. StillAskable(s) => StillAskable(s)'
      BY <1>1, <2>1, <2>3, <2>4, <3>3 DEF StillAskable, Between, Opposite
    <3>5. StillPending(s)' /\ StillBlocked(s)'
      BY <2>3, <2>4 DEF StillPending, StillBlocked
    <3>6. QED
      BY <1>1, <2>3, <2>4, <3>1, <3>2, <3>4, <3>5 DEF JobOK
  <2>6. {row} \in SUBSET Between(job[s].pair)
    BY <2>1
  <2>7. QED
    BY <1>1, <2>2, <2>3, <2>5, <2>6, DeletionKeepsIInv
<1>4. QED
  BY <1>2, <1>3

LEMMA DeleteRowKeepsIInv ==
    ASSUME IInv, NEW s \in Slot, DeleteRow(s)
    PROVE  IInv'
<1>1. /\ job[s].pc = "delete" /\ JobOK(s) /\ GraphTyped /\ job[s].pair \in Pair
      /\ Idle \in Job /\ Went(s, Idle, {job[s].row})
      /\ friend' = Without({job[s].row}) /\ UNCHANGED <<follows, blocks, excused>>
  BY JobFields DEF IInv, JobOK, Shape, DeleteRow
<1>2. JobOK(s)'
  BY <1>1, WriteFacts, IdleIsOK
<1>3. CASE job[s].row # NoRow
  <2>1. {job[s].row} \in SUBSET Between(job[s].pair)
    BY <1>1, <1>3 DEF JobOK, Shape
  <2>2. QED
    BY <1>1, <1>2, <2>1, DeletionKeepsIInv
<1>4. CASE job[s].row = NoRow
  <2>1. /\ friend' = friend /\ GraphTyped'
        /\ \A p, part : Severing(p, part) => Severing(p, part)'
        /\ \A p : Dropping(p) => Dropping(p)'
    BY <1>1, <1>4, NoRowDeletes, WriteFacts DEF GraphTyped
  <2>2. ASSUME NEW p \in Pair
        PROVE  PairOK(p)'
    <3>1. PairOK(p) /\ Excused(p)' = Excused(p) /\ Rows(p)' = Rows(p)
      BY <1>1, <2>1 DEF IInv, Excused, Rows
    <3>2. OneRow(p)' /\ Severed(p)' /\ Mutual(p)'
      BY <1>1, <2>1, <3>1 DEF PairOK, OneRow, Severed, Mutual
    <3>3. QED
      BY <3>2 DEF PairOK
  <2>3. \A p \in Between(job[s].pair) : PairOK(p)'
    BY <1>1, <2>2, PairFacts
  <2>4. QED
    BY <1>1, <1>2, <2>1, <2>3, WriteKeepsIInv
<1>5. QED
  BY <1>3, <1>4

(* acceptRequest and rejectRequest take the requester's pending row,       *)
(* cancelRequest the caller's own and unfriend an accepted one.            *)
LEMMA FindRowKeepsIInv ==
    ASSUME IInv, NEW s \in Slot, FindRow(s)
    PROVE  IInv'
<1>1. /\ job[s].pc = "start" /\ JobOK(s) /\ GraphTyped /\ job[s].pair \in Pair
      /\ job[s].op \in {"acceptRequest", "rejectRequest", "cancelRequest", "unfriend"}
      /\ UNCHANGED <<follows, friend, blocks, excused>>
  BY DEF IInv, JobOK, Shape, FindRow
<1>2. CASE Moved(s, Idle)
  BY <1>1, <1>2, GiveUpKeepsIInv
<1>3. ASSUME NEW q \in Wanted(job[s].op, job[s].pair), NEW pc \in {"answer", "delete"},
             Moved(s, [To(s, pc) EXCEPT !.row = q])
      PROVE  IInv'
  <2>1. /\ q \in Between(job[s].pair) /\ q \in Pair
        /\ friend[q] # "none"
        /\ job[s].op = "acceptRequest" => friend[q] = "pending"
    BY <1>1, PairFacts DEF Wanted
  <2> DEFINE next == [To(s, pc) EXCEPT !.row = q]
  <2>2. To(s, pc) \in Job /\ To(s, pc).pc = pc
    BY <1>1, JobFields
  <2>3. /\ next \in Job /\ next.pc = pc /\ next.op = job[s].op
        /\ next.pair = job[s].pair /\ next.row = q
    BY <1>1, <2>1, <2>2, JobFields DEF Job
  <2> HIDE DEF next
  <2>4. Moved(s, next)
    BY <1>3 DEF next
  <2>5. job'[s] = next
    BY <1>1, <2>3, <2>4, MovedEffect
  <2>6. JobOK(s)'
    <3>1. Shape(s)'
      BY <1>1, <2>1, <2>3, <2>5 DEF Shape, Between, Opposite
    <3>2. StillUnblocked(s)' /\ StillAskable(s)' /\ StillBlocked(s)'
      BY <1>1, <2>3, <2>5 DEF StillUnblocked, StillAskable, StillBlocked
    <3>3. StillPending(s)'
      BY <1>1, <2>1, <2>3, <2>5 DEF StillPending
    <3>4. QED
      BY <3>1, <3>2, <3>3 DEF JobOK
  <2>7. QED
    BY <1>1, <2>3, <2>4, <2>6, MoveKeepsIInv
<1>4. QED
  BY <1>2, <1>3 DEF FindRow

(* The new row is left to the two cleanups that start with it.             *)
LEMMA BlockKeepsIInv ==
    ASSUME IInv, NEW s \in Slot, Block(s)
    PROVE  IInv'
<1>1. PICK c \in Pair : c = job[s].pair
  BY DEF IInv, JobOK, Shape, Block, At
<1> DEFINE next == [To(s, "sever") EXCEPT !.todo = {"follows", "friends"}]
<1>2. /\ job[s].pc = "start" /\ job[s].op = "block"
      /\ blocks' = blocks \cup {c} /\ Went(s, next, {})
      /\ UNCHANGED <<follows, friend, excused>> /\ GraphTyped
  BY <1>1 DEF IInv, Block, At
<1>3. To(s, "sever") \in Job /\ To(s, "sever").pc = "sever"
  BY <1>2, JobFields
<1>4. /\ next \in Job /\ next.pc = "sever" /\ next.op = "block" /\ next.pair = c
      /\ next.todo = {"follows", "friends"}
  BY <1>1, <1>2, <1>3, JobFields DEF Job
<1> HIDE DEF next
<1>5. /\ job'[s] = next /\ job' \in [Slot -> Job]
      /\ \A p, part : Severing(p, part) => Severing(p, part)'
  BY <1>2, <1>4, WriteFacts
<1>6. JobOK(s)'
  BY <1>2, <1>4, <1>5
  DEF JobOK, Shape, StillUnblocked, StillAskable, StillPending, StillBlocked
<1>7. ASSUME NEW p \in Between(c)
      PROVE  PairOK(p)'
  <2>1. p \in Pair /\ PairOK(p) /\ c \in Between(p)
    BY SamePair DEF IInv
  <2>2. Severing(p, "follows")' /\ Severing(p, "friends")'
    BY <1>4, <1>5, <2>1 DEF Severing, Between, Opposite
  <2>3. OneRow(p)'
    BY <1>2, <2>1 DEF PairOK, OneRow, Excused
  <2>4. QED
    BY <2>2, <2>3 DEF PairOK, Severed, Mutual
<1>8. GraphTyped'
  BY <1>2, <1>5 DEF GraphTyped
<1>9. QED
  BY <1>1, <1>2, <1>4, <1>6, <1>7, <1>8, PairFacts, WriteKeepsIInv

LEMMA UnblockKeepsIInv ==
    ASSUME IInv, NEW s \in Slot, Unblock(s)
    PROVE  IInv'
<1>1. PICK c \in Pair : c = job[s].pair
  BY DEF IInv, JobOK, Shape, Unblock, At
<1>2. /\ job[s].pc = "start" /\ blocks' = blocks \ {c} /\ Went(s, Idle, {})
      /\ UNCHANGED <<follows, friend, excused>> /\ GraphTyped /\ Idle \in Job
  BY <1>1, JobFields DEF IInv, Unblock, At
<1>3. /\ job'[s] = Idle /\ job' \in [Slot -> Job]
      /\ \A p, part : Severing(p, part) => Severing(p, part)'
      /\ \A p : Dropping(p) => Dropping(p)'
  BY <1>2, WriteFacts
<1>4. ASSUME NEW p \in Between(c)
      PROVE  PairOK(p)'
  <2>1. p \in Pair /\ PairOK(p)
    BY SamePair DEF IInv
  <2>2. Excused(p)' = Excused(p) /\ Rows(p)' = Rows(p)
    BY <1>2 DEF Excused, Rows
  <2>3. OneRow(p)' /\ Mutual(p)'
    BY <1>2, <1>3, <2>1, <2>2 DEF PairOK, OneRow, Mutual
  <2>4. Severed(p)'
    BY <1>2, <1>3, <2>1, <2>2 DEF PairOK, Severed
  <2>5. QED
    BY <2>3, <2>4 DEF PairOK
<1>5. GraphTyped'
  BY <1>2, <1>3 DEF GraphTyped
<1>6. QED
  BY <1>1, <1>2, <1>3, <1>4, <1>5, PairFacts, IdleIsOK, WriteKeepsIInv

(* A block once one of its cleanups is over.                               *)
AfterPart(s, part) ==
    LET rest == job[s].todo \ {part}
    IN  IF rest = {} THEN Idle ELSE [job[s] EXCEPT !.todo = rest]

LEMMA AfterPartFacts ==
    ASSUME IInv, NEW s \in Slot, At(s, "block", "sever"), NEW part,
           blocks' = blocks, job'[s] = AfterPart(s, part)
    PROVE  /\ AfterPart(s, part) \in Job /\ JobOK(s)'
           /\ \A other \in job[s].todo : other # part =>
                 /\ AfterPart(s, part).pc = "sever"
                 /\ AfterPart(s, part).pair = job[s].pair
                 /\ other \in AfterPart(s, part).todo
<1>1. /\ JobOK(s) /\ job[s] \in Job /\ Idle \in Job
      /\ job[s].pc = "sever" /\ job[s].op = "block"
  BY JobFields DEF IInv, At
<1>2. CASE job[s].todo \ {part} = {}
  <2>1. AfterPart(s, part) = Idle
    BY <1>2 DEF AfterPart
  <2>2. QED
    BY <1>1, <1>2, <2>1, IdleIsOK
<1>3. CASE job[s].todo \ {part} # {}
  <2> DEFINE next == AfterPart(s, part)
  <2>1. /\ next \in Job /\ next.pc = "sever" /\ next.op = "block"
        /\ next.pair = job[s].pair /\ next.overlapped = job[s].overlapped
        /\ next.todo = job[s].todo \ {part}
    BY <1>1, <1>3 DEF AfterPart, Job
  <2> HIDE DEF next
  <2>2. job'[s] = next
    BY DEF next
  <2>3. Shape(s)'
    BY <1>1, <2>1, <2>2 DEF JobOK, Shape
  <2>4. StillUnblocked(s)' /\ StillAskable(s)' /\ StillPending(s)'
    BY <2>1, <2>2 DEF StillUnblocked, StillAskable, StillPending
  <2>5. StillBlocked(s) => StillBlocked(s)'
    BY <1>1, <2>1, <2>2 DEF StillBlocked
  <2>6. JobOK(s)'
    BY <1>1, <2>1, <2>2, <2>3, <2>4, <2>5 DEF JobOK
  <2>7. QED
    BY <2>1, <2>6 DEF next
<1>4. QED
  BY <1>2, <1>3

(* The other cleanups of the pair are still to run after a cleanup.        *)
LEMMA OtherPartsGoOn ==
    ASSUME IInv, NEW s \in Slot, At(s, "block", "sever"), NEW part, NEW deleted,
           blocks' = blocks, Went(s, AfterPart(s, part), deleted),
           AfterPart(s, part) \in Job
    PROVE  /\ \A p, other : other # part /\ Severing(p, other) => Severing(p, other)'
           /\ \A p : Dropping(p) => Dropping(p)'
<1>1. /\ job'[s] = AfterPart(s, part)
      /\ \A t \in Slot : t # s => Overtaken(t, job[s].pair, deleted)
      /\ job[s].pc = "sever"
  BY WentEffect DEF IInv, At
<1>2. ASSUME NEW p, NEW other, other # part, Severing(p, other)
      PROVE  Severing(p, other)'
  <2>1. PICK u \in Slot : /\ job[u].pc = "sever" /\ job[u].pair \in Between(p)
                          /\ other \in job[u].todo
    BY <1>2 DEF Severing
  <2>2. CASE u # s
    <3>1. /\ job'[u].pc = job[u].pc /\ job'[u].pair = job[u].pair
          /\ job'[u].todo = job[u].todo
      BY <1>1, <2>2 DEF Overtaken
    <3>2. QED
      BY <2>1, <3>1 DEF Severing, Between, Opposite
  <2>3. CASE u = s
    <3>1. /\ job'[s].pc = "sever" /\ job'[s].pair = job[s].pair
          /\ other \in job'[s].todo
      BY <1>1, <1>2, <2>1, <2>3, AfterPartFacts
    <3>2. QED
      BY <2>1, <2>3, <3>1 DEF Severing, Between, Opposite
  <2>4. QED
    BY <2>2, <2>3
<1>3. \A p : Dropping(p) => Dropping(p)'
  BY <1>1, CleanupsGoOn DEF Overtaken
<1>4. QED
  BY <1>2, <1>3

(* The follows go: a friend row that is left is left to the cleanup of the *)
(* rows, unless the block was withdrawn and so overlapped.                 *)
LEMMA SeverFollowsKeepsIInv ==
    ASSUME IInv, NEW s \in Slot, At(s, "block", "sever"),
           follows' = follows \ Between(job[s].pair),
           Went(s, AfterPart(s, "follows"), {}),
           IF job[s].pair \in blocks THEN UNCHANGED excused ELSE Excuse(s),
           UNCHANGED <<friend, blocks>>
    PROVE  IInv'
<1> DEFINE next == AfterPart(s, "follows")
<1>1. PICK c \in Pair : c = job[s].pair
  BY DEF IInv, JobOK, Shape, At
<1>2. next \in Job
  BY JobFields DEF IInv, AfterPart, Job
<1>3. /\ JobOK(s) /\ GraphTyped /\ job'[s] = next /\ job' \in [Slot -> Job]
      /\ job[s].pc = "sever"
  BY <1>2, WriteFacts DEF At
<1>4. JobOK(s)'
  BY <1>3, AfterPartFacts
<1>5. /\ \A p : Severing(p, "friends") => Severing(p, "friends")'
      /\ \A p : Dropping(p) => Dropping(p)'
  BY <1>2, OtherPartsGoOn
<1>6. /\ excused \subseteq excused'
      /\ c \notin blocks => \A p \in Between(c) : Excused(p)'
  <2>1. CASE c \in blocks
    BY <1>1, <2>1
  <2>2. CASE c \notin blocks
    <3>1. Excuse(s) /\ job[s].overlapped
      BY <1>1, <1>3, <2>2 DEF JobOK, StillBlocked
    <3>2. QED
      BY <1>1, <3>1, ExcuseFacts
  <2>3. QED
    BY <2>1, <2>2
<1>7. ASSUME NEW p \in Between(c)
      PROVE  PairOK(p)'
  <2>1. p \in Pair /\ PairOK(p) /\ Between(p) = Between(c) /\ Rows(p) = Rows(c)
    BY SamePair, RowsOfPair DEF IInv
  <2>2. (Excused(p) => Excused(p)') /\ Rows(p)' = Rows(p)
    BY <1>6 DEF Excused, Rows
  <2>3. OneRow(p)'
    BY <2>1, <2>2 DEF PairOK, OneRow
  <2>4. (Between(p) \cap follows)' = {}
    BY <1>1, <2>1 DEF Between, Opposite
  <2>5. Severed(p)'
    BY <1>5, <2>1, <2>2, <2>4 DEF PairOK, Severed
  <2>6. Mutual(p)'
    <3>1. CASE c \notin blocks
      BY <1>6, <3>1 DEF Mutual
    <3>2. CASE c \in blocks /\ friend[p] \in {"pending", "accepted"}
      <4>1. Severed(c) /\ Rows(c) # {}
        BY <2>1, <3>2, RowsOfPair DEF IInv, PairOK
      <4>2. Excused(c) \/ Severing(c, "friends")
        BY <3>2, <4>1 DEF Severed
      <4>3. Excused(p) \/ Severing(p, "friends")
        BY <2>1, <4>2 DEF Excused, Severing
      <4>4. QED
        BY <1>5, <2>2, <4>3 DEF Mutual
    <3>3. CASE friend[p] \notin {"pending", "accepted"}
      BY <3>3 DEF Mutual
    <3>4. QED
      BY <3>1, <3>2, <3>3
  <2>7. QED
    BY <2>3, <2>5, <2>6 DEF PairOK
<1>8. GraphTyped'
  BY <1>3 DEF GraphTyped
<1>9. \A q \in Pair : q \notin Between(c) => (q \in follows' <=> q \in follows)
  BY <1>1
<1> HIDE DEF next
<1>10. Went(s, next, {})
  BY DEF next
<1>11. QED
  BY <1>1, <1>2, <1>4, <1>6, <1>7, <1>8, <1>9, <1>10, WriteKeepsIInv

(* The friend rows go.                                                     *)
LEMMA SeverFriendsKeepsIInv ==
    ASSUME IInv, NEW s \in Slot, At(s, "block", "sever"),
           friend' = Without(Between(job[s].pair)),
           Went(s, AfterPart(s, "friends"), Between(job[s].pair)),
           UNCHANGED <<follows, blocks, excused>>
    PROVE  IInv'
<1> DEFINE next == AfterPart(s, "friends")
<1>1. PICK c \in Pair : c = job[s].pair
  BY DEF IInv, JobOK, Shape, At
<1>2. next \in Job
  BY JobFields DEF IInv, AfterPart, Job
<1>3. GraphTyped /\ job'[s] = next /\ job' \in [Slot -> Job] /\ job[s].pc = "sever"
  BY <1>2, WriteFacts DEF At
<1>4. JobOK(s)'
  BY <1>3, AfterPartFacts
<1>5. \A p : Severing(p, "follows") => Severing(p, "follows")'
  BY <1>2, OtherPartsGoOn
<1>6. /\ friend' \in [Pair -> {"none", "pending", "accepted", "rejected"}]
      /\ \A q \in Pair : friend'[q] = IF q \in Between(c) THEN "none" ELSE friend[q]
      /\ \A q \in Pair : friend[q] # "none" /\ friend'[q] = "none" => q \in Between(c)
  BY <1>1, <1>3, WithoutEffect
<1>7. ASSUME NEW p \in Between(c)
      PROVE  PairOK(p)'
  <2>1. p \in Pair /\ PairOK(p) /\ Between(p) = Between(c) /\ Between(c) \subseteq Pair
    BY SamePair, PairFacts DEF IInv
  <2>2. Excused(p)' = Excused(p) /\ friend'[p] = "none"
    BY <1>6, <2>1 DEF Excused
  <2>3. Rows(p)' = {}
    BY <1>6, <2>1 DEF Rows, Between, Opposite
  <2>4. Severed(p)'
    BY <1>5, <2>1, <2>2, <2>3 DEF PairOK, Severed
  <2>5. QED
    BY <2>2, <2>4 DEF PairOK, OneRow, Mutual
<1>8. GraphTyped'
  BY <1>3, <1>6 DEF GraphTyped
<1> HIDE DEF next
<1>9. Went(s, next, Between(c))
  BY <1>1 DEF next
<1>10. QED
  BY <1>1, <1>2, <1>4, <1>6, <1>7, <1>8, <1>9, WriteKeepsIInv

(* A cleanup that fails excuses its pair.                                  *)
LEMMA SeverFailsKeepsIInv ==
    ASSUME IInv, NEW s \in Slot, At(s, "block", "sever"), NEW part,
           Moved(s, AfterPart(s, part)),
           excused' = excused \cup {Between(job[s].pair)},
           UNCHANGED <<follows, friend, blocks>>
    PROVE  IInv'
<1> DEFINE next == AfterPart(s, part)
<1>1. next \in Job
  BY JobFields DEF IInv, AfterPart, Job
<1>2. job'[s] = next
  BY <1>1, MovedEffect DEF IInv
<1>3. JobOK(s)'
  BY <1>2, AfterPartFacts
<1> HIDE DEF next
<1>4. Moved(s, next)
  BY DEF next
<1>5. QED
  BY <1>1, <1>3, <1>4, MoveKeepsIInv

LEMMA SeverKeepsIInv ==
    ASSUME IInv, NEW s \in Slot, Sever(s)
    PROVE  IInv'
<1>1. At(s, "block", "sever") /\ blocks' = blocks
  BY DEF Sever
<1>2. PICK part \in job[s].todo :
        \/ /\ part = "follows"
           /\ follows' = follows \ Between(job[s].pair)
           /\ Went(s, AfterPart(s, part), {})
           /\ IF job[s].pair \in blocks THEN UNCHANGED excused ELSE Excuse(s)
           /\ UNCHANGED friend
        \/ /\ part = "friends"
           /\ friend' = Without(Between(job[s].pair))
           /\ Went(s, AfterPart(s, part), Between(job[s].pair))
           /\ UNCHANGED <<follows, excused>>
        \/ /\ Moved(s, AfterPart(s, part))
           /\ excused' = excused \cup {Between(job[s].pair)}
           /\ UNCHANGED <<follows, friend>>
  BY DEF Sever, AfterPart
<1>3. QED
  BY <1>1, <1>2, SeverFollowsKeepsIInv, SeverFriendsKeepsIInv, SeverFailsKeepsIInv

(* A statement fails and the handler is over.                              *)
LEMMA AbortKeepsIInv ==
    ASSUME IInv, NEW s \in Slot, Abort(s)
    PROVE  IInv'
<1>1. /\ Moved(s, Idle) /\ UNCHANGED <<follows, friend, blocks>>
      /\ excused \subseteq excused'
      /\ job[s].pc \in {"friends", "sever"} => Between(job[s].pair) \in excused'
  BY DEF Abort
<1>2. QED
  BY <1>1, GiveUpKeepsIInv

LEMMA StutterKeepsIInv == IInv /\ UNCHANGED socialVars => IInv'
<1> SUFFICES ASSUME IInv, UNCHANGED socialVars PROVE IInv'
  OBVIOUS
<1>1. /\ follows' = follows /\ friend' = friend /\ blocks' = blocks
      /\ job' = job /\ excused' = excused
  BY DEF socialVars
<1>2. GraphTyped'
  BY <1>1 DEF IInv, GraphTyped
<1>3. \A p \in Pair : PairOK(p)'
  BY <1>1 DEF IInv, PairOK, OneRow, Severed, Mutual, Severing, Dropping, Excused, Rows,
              Between, Opposite
<1>4. \A s \in Slot : JobOK(s)'
  BY <1>1 DEF IInv, JobOK, Shape, StillUnblocked, StillAskable, StillPending,
              StillBlocked, Excused, Rows, IsBlocked, Between, Opposite
<1>5. QED
  BY <1>2, <1>3, <1>4 DEF IInv

LEMMA StepIInv == IInv /\ [SocialNext]_socialVars => IInv'
<1> SUFFICES ASSUME IInv, [SocialNext]_socialVars PROVE IInv'
  OBVIOUS
<1>1. CASE UNCHANGED socialVars
  BY <1>1, StutterKeepsIInv
<1>2. ASSUME NEW s \in Slot, NEW op \in Op, NEW p \in Pair, Begin(s, op, p)
      PROVE  IInv'
  BY <1>2, BeginKeepsIInv
<1>3. ASSUME NEW s \in Slot, Follow(s) \/ Unfollow(s) \/ DropFriends(s)
      PROVE  IInv'
  BY <1>3, FollowKeepsIInv, UnfollowKeepsIInv, DropFriendsKeepsIInv
<1>4. ASSUME NEW s \in Slot,
             ReadFollows(s) \/ ReadExisting(s) \/ Revive(s) \/ Replace(s) \/ CreateRequest(s)
      PROVE  IInv'
  BY <1>4, ReadFollowsKeepsIInv, ReadExistingKeepsIInv, ReviveKeepsIInv,
     ReplaceKeepsIInv, CreateRequestKeepsIInv
<1>5. ASSUME NEW s \in Slot, FindRow(s) \/ Answer(s) \/ DeleteRow(s)
      PROVE  IInv'
  BY <1>5, FindRowKeepsIInv, AnswerKeepsIInv, DeleteRowKeepsIInv
<1>6. ASSUME NEW s \in Slot, Block(s) \/ Sever(s) \/ Unblock(s) \/ Abort(s)
      PROVE  IInv'
  BY <1>6, BlockKeepsIInv, SeverKeepsIInv, UnblockKeepsIInv, AbortKeepsIInv
<1>7. QED
  BY <1>1, <1>2, <1>3, <1>4, <1>5, <1>6 DEF SocialNext

LEMMA Invariance == SocialSpec => []IInv
BY InitIInv, StepIInv, PTL DEF SocialSpec

-----------------------------------------------------------------------------
(* What the invariant gives.                                               *)

(* A block severs (BlocksService.block): no follow and no friend row is    *)
(* left between the two users once its cleanups are over, for any number   *)
(* of requests in flight, unless a cleanup failed or a request that the    *)
(* block overlapped wrote.                                                 *)
THEOREM BlocksSever == SocialSpec => []BlockSevers
<1>1. IInv => BlockSevers
  <2> SUFFICES ASSUME IInv, NEW p \in blocks
               PROVE  \/ Between(p) \in excused
                      \/ Cleaning(p, {"sever"})
                      \/ Between(p) \cap follows = {} /\ Rows(p) = {}
    BY DEF BlockSevers
  <2>1. Severed(p)
    BY DEF IInv, GraphTyped, PairOK
  <2>2. \A part : Severing(p, part) => Cleaning(p, {"sever"})
    BY DEF Severing, Cleaning
  <2>3. QED
    BY <2>1, <2>2 DEF Severed, Excused
<1>2. QED
  BY <1>1, Invariance, PTL

(* Friends, and users who asked to be, follow each other (the check of     *)
(* FriendsService.sendRequest against SocialService.unfollow and           *)
(* BlocksService.block), unless a write of theirs was overlapped.          *)
THEOREM FriendshipIsMutual == SocialSpec => []FriendsAreMutual
<1>1. IInv => FriendsAreMutual
  <2> SUFFICES ASSUME IInv, NEW p \in Pair, friend[p] \in {"pending", "accepted"}
               PROVE  \/ Between(p) \in excused
                      \/ Cleaning(p, {"friends", "sever"})
                      \/ Between(p) \subseteq follows
    BY DEF FriendsAreMutual
  <2>1. Mutual(p)
    BY DEF IInv, PairOK
  <2>2. Severing(p, "friends") \/ Dropping(p) => Cleaning(p, {"friends", "sever"})
    BY DEF Severing, Dropping, Cleaning
  <2>3. QED
    BY <2>1, <2>2 DEF Mutual, Excused
<1>2. QED
  BY <1>1, Invariance, PTL

(* Two users have at most one friend row between them, although the table  *)
(* allows one per direction (FriendsService.sendRequest), unless a write   *)
(* of theirs was overlapped.                                               *)
THEOREM OneRowIsLeft == SocialSpec => []OneRowPerPair
<1>1. IInv => OneRowPerPair
  <2> SUFFICES ASSUME IInv, NEW p \in Pair, ~Excused(p)
               PROVE  Cardinality(Rows(p)) <= 1
    BY DEF OneRowPerPair, Excused
  <2>1. Opposite(p) \in Pair /\ OneRow(p)
    BY PairFacts DEF IInv, PairOK
  <2>2. Rows(p) = {q \in {p, Opposite(p)} : friend[q] # "none"}
    BY RowsOfPair
  <2>3. Rows(p) = {} \/ \E q \in Pair : Rows(p) = {q}
    BY <2>1, <2>2 DEF OneRow
  <2>4. CASE Rows(p) = {}
    BY <2>4, FS_EmptySet
  <2>5. ASSUME NEW q \in Pair, Rows(p) = {q}
        PROVE  Cardinality(Rows(p)) <= 1
    <3>1. Cardinality({q}) = 1
      BY FS_Singleton
    <3>2. QED
      BY <2>5, <3>1
  <2>6. QED
    BY <2>3, <2>4, <2>5
<1>2. QED
  BY <1>1, Invariance, PTL

(* A request becomes a friendship only while it is pending                 *)
(* (FriendsService.acceptRequest updates the row by its id), unless the    *)
(* answers overlapped.                                                     *)
THEOREM AcceptsOnlyPending == SocialSpec => AcceptedWhilePending
<1> DEFINE Kept(p) == friend[p] # "accepted" /\ friend'[p] = "accepted" =>
                        friend[p] = "pending" \/ Between(p) \in excused'
<1>1. ASSUME IInv, [SocialNext]_socialVars, NEW p \in Pair
      PROVE  Kept(p)
  <2>1. CASE friend' = friend
    BY <2>1
  <2>2. ASSUME NEW rows, friend' = Without(rows)
        PROVE  Kept(p)
    BY <1>1, <2>2, WithoutEffect DEF IInv
  <2>3. ASSUME NEW s \in Slot, NEW q, friend' = [friend EXCEPT ![q] = "pending"]
        PROVE  Kept(p)
    BY <1>1, <2>3 DEF IInv, GraphTyped
  <2>4. ASSUME NEW s \in Slot, Answer(s)
        PROVE  Kept(p)
    <3>1. job[s].pc = "answer" /\ JobOK(s) /\ job[s].pair \in Pair /\ GraphTyped
      BY <1>1, <2>4 DEF IInv, JobOK, Shape, Answer
    <3>2. CASE job[s].row = NoRow
      BY <2>1, <2>4, <3>2 DEF Answer
    <3>3. CASE job[s].row # NoRow
      <4>1. /\ friend' = [friend EXCEPT ![job[s].row] = Answered(job[s].op)]
            /\ Excuse(s)
        BY <2>4, <3>3 DEF Answer
      <4>2. job[s].row \in Between(job[s].pair)
        BY <3>1, <3>3 DEF JobOK, Shape
      <4>3. CASE job[s].overlapped
        <5>1. Between(job[s].row) \in excused'
          BY <3>1, <4>1, <4>2, <4>3, SamePair DEF Excuse
        <5>2. QED
          BY <3>1, <4>1, <5>1 DEF GraphTyped
      <4>4. CASE ~job[s].overlapped
        <5>1. Answered(job[s].op) = "accepted" => friend[job[s].row] = "pending"
          BY <3>1, <3>3, <4>4 DEF JobOK, StillPending, Answered
        <5>2. QED
          BY <3>1, <4>1, <5>1 DEF GraphTyped
      <4>5. QED
        BY <4>3, <4>4
    <3>4. QED
      BY <3>2, <3>3
  <2>5. ASSUME NEW s \in Slot,
               \/ Follow(s) \/ Unfollow(s) \/ ReadFollows(s) \/ ReadExisting(s)
               \/ FindRow(s) \/ Block(s) \/ Unblock(s) \/ Abort(s)
               \/ \E op \in Op, c \in Pair : Begin(s, op, c)
        PROVE  friend' = friend
    BY <2>5 DEF Follow, Unfollow, ReadFollows, ReadExisting, FindRow, Block, Unblock,
                Abort, Begin
  <2>6. ASSUME NEW s \in Slot,
               DropFriends(s) \/ Replace(s) \/ DeleteRow(s) \/ Sever(s)
        PROVE  Kept(p)
    BY <2>1, <2>2, <2>6 DEF DropFriends, Replace, DeleteRow, Sever
  <2>7. ASSUME NEW s \in Slot, Revive(s) \/ CreateRequest(s)
        PROVE  Kept(p)
    BY <2>1, <2>3, <2>7 DEF Revive, CreateRequest
  <2>8. CASE UNCHANGED socialVars
    BY <2>1, <2>8 DEF socialVars
  <2>9. QED
    BY <1>1, <2>1, <2>4, <2>5, <2>6, <2>7, <2>8 DEF SocialNext
<1>2. IInv /\ [SocialNext]_socialVars =>
        [\A p \in Pair : Kept(p)]_socialVars
  BY <1>1
<1>3. QED
  BY <1>2, Invariance, PTL DEF SocialSpec, AcceptedWhilePending

=============================================================================
