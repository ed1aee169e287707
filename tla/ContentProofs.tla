---------------------------- MODULE ContentProofs ----------------------------
(***************************************************************************)
(* Proofs about Posts, Sounds and Paging for any number of requests in     *)
(* flight and of users, posts, comments, tracks, objects and rows: the     *)
(* counters that the services keep beside their rows, the object of a      *)
(* story, and what a walk down a list in pages serves.                     *)
(***************************************************************************)
EXTENDS Posts, Sounds, Paging, FiniteSetTheorems, TLAPS

-----------------------------------------------------------------------------
(* Posts.                                                                  *)

Request ==
    [pc : {"idle", "insert", "toggle", "content", "thumbnail", "row"},
     user : User \cup {None}, post : Post \cup {None},
     kind : Mark \cup {None}, saw : BOOLEAN]

PostRow == [row : {"unused", "live", "deleted"}, author : User \cup {None}, album : BOOLEAN]

(* What a toggle is about to commit names a row that may exist.            *)
TogglesARow(r) == r.pc = "toggle" => r.post \in Post /\ r.user \in User /\ r.kind \in Mark

CountsTyped ==
    /\ marks \subseteq [kind : Mark, post : Post, user : User] /\ IsFiniteSet(marks)
    /\ comments \subseteq [id : Comment, post : Post, user : User]
    /\ IsFiniteSet(comments)
    /\ count \in [Post -> [Counter -> Int]]
    /\ drift \in [Post -> [Counter -> Int]]
    /\ post \in [Post -> PostRow]
    /\ task \in [Task -> Request]
    /\ \A t \in Task : TogglesARow(task[t])

(* Of every post, live or not: one that is deleted has no rows and nothing *)
(* counted, so that no step needs to know which posts are live.            *)
Counted(p, k) == count[p][k] = Cardinality(RowsOf(p, k)) + drift[p][k]

CountsInv == CountsTyped /\ \A p \in Post, k \in Counter : Counted(p, k)

LEMMA CountsInit_Inv == PostsInit => CountsInv
<1> SUFFICES ASSUME PostsInit PROVE CountsInv
  OBVIOUS
<1>1. Nobody \in Request /\ Nobody.pc = "idle" /\ Zero \in [Counter -> Int]
  BY DEF Nobody, Request, Zero
<1>2. CountsTyped
  BY <1>1, FS_EmptySet DEF PostsInit, CountsTyped, TogglesARow, PostRow, NoPost
<1>3. ASSUME NEW p \in Post, NEW k \in Counter
      PROVE  Counted(p, k)
  <2>1. RowsOf(p, k) = {} /\ count[p][k] = 0 /\ drift[p][k] = 0
    BY DEF PostsInit, RowsOf, Zero
  <2>2. QED
    BY <2>1, FS_EmptySet DEF Counted
<1>4. QED
  BY <1>2, <1>3 DEF CountsInv

(* The rows behind a counter: of a toggle, or comments.                    *)
LEMMA RowsBehind ==
    ASSUME CountsTyped, NEW p \in Post, NEW k \in Counter
    PROVE  /\ k \in Mark => RowsOf(p, k) = {m \in marks : m.kind = k /\ m.post = p}
           /\ k = "comment" => RowsOf(p, k) = {x \in comments : x.post = p}
           /\ k \in Mark \/ k = "comment"
           /\ IsFiniteSet(RowsOf(p, k)) /\ Cardinality(RowsOf(p, k)) \in Nat
<1>1. "comment" \notin Mark /\ (k \in Mark \/ k = "comment")
  BY DEF Mark, Counter
<1>2. k \in Mark => RowsOf(p, k) = {m \in marks : m.kind = k /\ m.post = p}
  BY <1>1 DEF RowsOf
<1>3. \A m \in marks : m.kind \in Mark
  BY DEF CountsTyped
<1>4. k = "comment" => RowsOf(p, k) = {x \in comments : x.post = p}
  BY <1>1, <1>3 DEF RowsOf
<1>5. IsFiniteSet(RowsOf(p, k))
  <2>1. {m \in marks : m.kind = k /\ m.post = p} \in SUBSET marks
        /\ {x \in comments : x.post = p} \in SUBSET comments
    OBVIOUS
  <2>2. /\ IsFiniteSet({m \in marks : m.kind = k /\ m.post = p})
        /\ IsFiniteSet({x \in comments : x.post = p})
    BY <2>1, FS_Subset DEF CountsTyped
  <2>3. QED
    BY <1>1, <1>2, <1>4, <2>2
<1>6. QED
  BY <1>1, <1>2, <1>4, <1>5, FS_CardinalityType

(* One counter moves.                                                      *)
LEMMA AddEffect ==
    ASSUME CountsTyped, NEW p \in Post, NEW k \in Counter, NEW n \in Int, Add(p, k, n)
    PROVE  /\ count' \in [Post -> [Counter -> Int]]
           /\ count'[p][k] = count[p][k] + n
           /\ \A q \in Post, j \in Counter : q # p \/ j # k => count'[q][j] = count[q][j]
<1>1. PICK f : f = [count[p] EXCEPT ![k] = count[p][k] + n]
  OBVIOUS
<1>2. count[p] \in [Counter -> Int] /\ count \in [Post -> [Counter -> Int]]
  BY DEF CountsTyped
<1>3. /\ f \in [Counter -> Int] /\ f[k] = count[p][k] + n
      /\ \A j \in Counter : j # k => f[j] = count[p][j]
  BY <1>1, <1>2
<1>4. count' = [count EXCEPT ![p] = f]
  BY <1>1, <1>2 DEF Add
<1>5. QED
  BY <1>2, <1>3, <1>4

(* Requests that end, begin or go on without touching rows or counters.    *)
LEMMA RequestMoves ==
    ASSUME CountsInv, NEW t \in Task, NEW r \in Request, TogglesARow(r),
           task' = [task EXCEPT ![t] = r], post' \in [Post -> PostRow],
           UNCHANGED <<marks, comments, count, drift>>
    PROVE  CountsInv'
<1>1. CountsTyped'
  BY DEF CountsInv, CountsTyped
<1>2. \A p \in Post, k \in Counter : Counted(p, k)' <=> Counted(p, k)
  BY DEF Counted, RowsOf
<1>3. QED
  BY <1>1, <1>2 DEF CountsInv

LEMMA FinishEffect ==
    ASSUME CountsTyped, NEW t \in Task, Finish(t)
    PROVE  task' \in [Task -> Request] /\ \A s \in Task : TogglesARow(task'[s])
<1>1. Nobody \in Request /\ TogglesARow(Nobody)
  BY DEF Nobody, Request, TogglesARow
<1>2. QED
  BY <1>1 DEF CountsTyped, Finish

(* A request that is given up or done, or has removed an object.           *)
LEMMA AwaitsKeepInv ==
    ASSUME CountsInv, NEW t \in Task, Insert(t) \/ RemoveObject(t) \/ Fail(t)
    PROVE  CountsInv'
<1>1. UNCHANGED <<marks, comments, count, drift>>
  BY DEF Insert, RemoveObject, Fail
<1>2. task \in [Task -> Request] /\ task[t] \in Request /\ post \in [Post -> PostRow]
  BY DEF CountsInv, CountsTyped
<1>3. CASE Insert(t) \/ Fail(t)
  <2>1. PICK r : r = Nobody
    OBVIOUS
  <2>2. r \in Request /\ TogglesARow(r)
    BY <2>1 DEF Nobody, Request, TogglesARow
  <2>3. post' \in [Post -> PostRow]
    <3>1. CASE Fail(t)
      BY <1>2, <3>1 DEF Fail
    <3>2. CASE Insert(t)
      <4>1. PICK album \in BOOLEAN :
              post' = [post EXCEPT ![task[t].post] =
                         [row |-> "live", author |-> task[t].user, album |-> album]]
        BY <3>2 DEF Insert
      <4>2. [row |-> "live", author |-> task[t].user, album |-> album] \in PostRow
        BY <1>2 DEF Request, PostRow
      <4>3. QED
        BY <1>2, <4>1, <4>2
    <3>3. QED
      BY <1>3, <3>1, <3>2
  <2>4. QED
    BY <1>1, <1>3, <2>1, <2>2, <2>3, RequestMoves DEF Insert, Fail, Finish
<1>4. CASE RemoveObject(t)
  <2>1. PICK pc \in {"thumbnail", "row"} : pc = IF task[t].pc = "content" THEN "thumbnail" ELSE "row"
    OBVIOUS
  <2>2. PICK r : r = [task[t] EXCEPT !.pc = pc]
    OBVIOUS
  <2>3. r \in Request /\ TogglesARow(r)
    BY <1>2, <2>1, <2>2 DEF Request, TogglesARow
  <2>4. task' = [task EXCEPT ![t] = r]
    BY <1>2, <1>4, <2>1, <2>2 DEF RemoveObject, Request
  <2>5. QED
    BY <1>1, <1>2, <1>4, <2>3, <2>4, RequestMoves DEF RemoveObject
<1>5. QED
  BY <1>3, <1>4

LEMMA RequestsKeepInv ==
    ASSUME CountsInv, NEW t \in Task, NEW u \in User, NEW p \in Post,
           Upload(t, u, p) \/ Delete(t, u, p)
    PROVE  CountsInv'
<1>1. UNCHANGED <<post, marks, comments, count, drift>> /\ post \in [Post -> PostRow]
  BY DEF Upload, Delete, CountsInv, CountsTyped
<1>2. CASE Upload(t, u, p)
  <2>1. PICK r : r = Step("insert", u, p)
    OBVIOUS
  <2>2. r \in Request /\ TogglesARow(r)
    BY <2>1 DEF Step, Nobody, Request, TogglesARow
  <2>3. QED
    BY <1>1, <1>2, <2>1, <2>2, RequestMoves DEF Upload, Begin
<1>3. CASE Delete(t, u, p)
  <2>1. PICK saw \in BOOLEAN : saw = post[p].album
    BY <1>1 DEF PostRow
  <2>2. PICK r : r = [Step("content", u, p) EXCEPT !.saw = saw]
    OBVIOUS
  <2>3. r \in Request /\ TogglesARow(r)
    BY <2>2 DEF Step, Nobody, Request, TogglesARow
  <2>4. QED
    BY <1>1, <1>3, <2>1, <2>2, <2>3, RequestMoves DEF Delete, Begin
<1>4. QED
  BY <1>2, <1>3

LEMMA ReadMarkKeepsInv ==
    ASSUME CountsInv, NEW t \in Task, NEW u \in User, NEW p \in Post, NEW k \in Toggles,
           ReadMark(t, u, p, k)
    PROVE  CountsInv'
<1>1. PICK saw \in BOOLEAN : saw = ([kind |-> k, post |-> p, user |-> u] \in marks)
  <2>1. ([kind |-> k, post |-> p, user |-> u] \in marks) \in BOOLEAN
    OBVIOUS
  <2>2. QED
    BY <2>1
<1>2. PICK r : r = [Step("toggle", u, p) EXCEPT !.kind = k, !.saw = saw]
  OBVIOUS
<1>3. k \in Mark
  BY PostsAssumption
<1>4. r = [pc |-> "toggle", user |-> u, post |-> p, kind |-> k, saw |-> saw]
  BY <1>2 DEF Step, Nobody
<1>5. r \in Request /\ TogglesARow(r)
  BY <1>1, <1>3, <1>4 DEF Request, TogglesARow
<1>6. QED
  BY <1>1, <1>2, <1>5, RequestMoves DEF ReadMark, Begin, CountsInv, CountsTyped

(* The row and its counter change together, or not at all.                 *)
LEMMA CommitMarkKeepsInv ==
    ASSUME CountsInv, NEW t \in Task, CommitMark(t)
    PROVE  CountsInv'
<1>1. PICK p \in Post, k \in Mark, u \in User :
        p = task[t].post /\ k = task[t].kind /\ u = task[t].user
  BY DEF CountsInv, CountsTyped, TogglesARow, CommitMark
<1>2. PICK r \in [kind : Mark, post : Post, user : User] :
        r = MarkOf(t) /\ r.kind = k /\ r.post = p
  <2>1. MarkOf(t) = [kind |-> k, post |-> p, user |-> u]
    BY <1>1 DEF MarkOf
  <2>2. [kind |-> k, post |-> p, user |-> u] \in [kind : Mark, post : Post, user : User]
    OBVIOUS
  <2>3. QED
    BY <2>1, <2>2
<1>3. CountsTyped /\ k \in Counter /\ k # "comment"
  BY DEF CountsInv, Counter, Mark
<1>4. /\ task' \in [Task -> Request] /\ \A s \in Task : TogglesARow(task'[s])
      /\ comments' = comments /\ drift' = drift /\ post' = post
  BY <1>3, FinishEffect DEF CommitMark
<1>5. \/ /\ r \in marks /\ marks' = marks \ {r} /\ Add(p, k, -1)
      \/ /\ r \notin marks /\ marks' = marks \cup {r} /\ Add(p, k, 1)
  BY <1>1, <1>2 DEF CommitMark
<1>6. PICK n \in {-1, 1} :
        /\ Add(p, k, n)
        /\ n = -1 => r \in marks /\ marks' = marks \ {r}
        /\ n = 1 => r \notin marks /\ marks' = marks \cup {r}
  BY <1>5
<1>7. /\ count' \in [Post -> [Counter -> Int]]
      /\ count'[p][k] = count[p][k] + n
      /\ \A q \in Post, j \in Counter : q # p \/ j # k => count'[q][j] = count[q][j]
  BY <1>3, <1>6, AddEffect
<1>8. CountsTyped'
  <2>1. IsFiniteSet(marks')
    BY <1>3, <1>6, FS_AddElement, FS_RemoveElement DEF CountsTyped
  <2>2. marks' \subseteq [kind : Mark, post : Post, user : User]
    BY <1>3, <1>6 DEF CountsTyped
  <2>3. QED
    BY <1>3, <1>4, <1>7, <2>1, <2>2 DEF CountsTyped
<1>9. ASSUME NEW q \in Post, NEW j \in Counter, q # p \/ j # k
      PROVE  Counted(q, j)'
  <2>1. RowsOf(q, j)' = RowsOf(q, j)
    <3>1. {m \in marks' : m.kind = j /\ m.post = q} = {m \in marks : m.kind = j /\ m.post = q}
      BY <1>2, <1>6, <1>9
    <3>2. QED
      BY <1>4, <3>1 DEF RowsOf
  <2>2. QED
    BY <1>4, <1>7, <1>9, <2>1 DEF CountsInv, Counted
<1>10. Counted(p, k)'
  <2>1. /\ RowsOf(p, k) = {m \in marks : m.kind = k /\ m.post = p}
        /\ IsFiniteSet(RowsOf(p, k)) /\ Cardinality(RowsOf(p, k)) \in Nat
    BY <1>3, RowsBehind
  <2>2. RowsOf(p, k)' = {m \in marks' : m.kind = k /\ m.post = p}
    BY <1>3, <1>4 DEF RowsOf
  <2>3. /\ count[p][k] = Cardinality(RowsOf(p, k)) + drift[p][k]
        /\ drift[p][k] \in Int
    BY <1>3 DEF CountsInv, CountsTyped, Counted
  <2>4. CASE n = 1
    <3>1. RowsOf(p, k)' = RowsOf(p, k) \cup {r} /\ r \notin RowsOf(p, k)
      BY <1>2, <1>6, <2>1, <2>2, <2>4
    <3>2. Cardinality(RowsOf(p, k)') = Cardinality(RowsOf(p, k)) + 1
      BY <2>1, <3>1, FS_AddElement
    <3>3. QED
      <4>1. drift'[p][k] = drift[p][k] /\ count'[p][k] = count[p][k] + 1
        BY <1>4, <1>7, <2>4
      <4>2. Cardinality(RowsOf(p, k)) \in Nat
        BY <2>1
      <4>3. count'[p][k] = Cardinality(RowsOf(p, k)') + drift'[p][k]
        BY <2>3, <3>2, <4>1, <4>2
      <4>4. QED
        BY <4>3 DEF Counted
  <2>5. CASE n = -1
    <3>1. RowsOf(p, k)' = RowsOf(p, k) \ {r} /\ r \in RowsOf(p, k)
      BY <1>2, <1>6, <2>1, <2>2, <2>5
    <3>2. Cardinality(RowsOf(p, k)') = Cardinality(RowsOf(p, k)) - 1
      BY <2>1, <3>1, FS_RemoveElement
    <3>3. QED
      <4>1. drift'[p][k] = drift[p][k] /\ count'[p][k] = count[p][k] + (-1)
        BY <1>4, <1>7, <2>5
      <4>2. Cardinality(RowsOf(p, k)) \in Nat
        BY <2>1
      <4>3. count'[p][k] = Cardinality(RowsOf(p, k)') + drift'[p][k]
        BY <2>3, <3>2, <4>1, <4>2
      <4>4. QED
        BY <4>3 DEF Counted
  <2>6. QED
    BY <2>4, <2>5
<1>11. QED
  BY <1>8, <1>9, <1>10 DEF CountsInv

(* The counters that neither a comment nor a route names stay right.       *)
LEMMA OthersStayCounted ==
    ASSUME CountsInv, NEW p \in Post, NEW k \in Counter,
           RowsOf(p, k)' = RowsOf(p, k), count'[p][k] = count[p][k],
           drift'[p][k] = drift[p][k]
    PROVE  Counted(p, k)'
BY DEF CountsInv, Counted

(* Comments are behind the counter of comments and no other.               *)
LEMMA CommentsChange ==
    ASSUME CountsTyped, UNCHANGED marks, NEW p \in Post
    PROVE  /\ RowsOf(p, "comment") = {y \in comments : y.post = p}
           /\ RowsOf(p, "comment")' = {y \in comments' : y.post = p}
           /\ \A k \in Mark : RowsOf(p, k)' = RowsOf(p, k)
<1>1. "comment" \notin Mark /\ \A m \in marks : m.kind \in Mark
  BY DEF CountsTyped, Mark
<1>2. QED
  BY <1>1 DEF RowsOf

LEMMA AddCommentKeepsInv ==
    ASSUME CountsInv, NEW u \in User, NEW p \in Post, NEW c \in Comment, AddComment(u, p, c)
    PROVE  CountsInv'
<1>1. PICK x \in [id : Comment, post : Post, user : User] :
        x = [id |-> c, post |-> p, user |-> u] /\ x.id = c /\ x.post = p
  <2>1. [id |-> c, post |-> p, user |-> u] \in [id : Comment, post : Post, user : User]
    OBVIOUS
  <2>2. QED
    BY <2>1
<1>2. /\ x \notin comments /\ comments' = comments \cup {x} /\ Add(p, "comment", 1)
      /\ UNCHANGED <<post, marks, task, drift>>
  BY <1>1 DEF AddComment
<1>3. CountsTyped /\ "comment" \in Counter
  BY DEF CountsInv, Counter
<1>4. /\ count' \in [Post -> [Counter -> Int]]
      /\ count'[p]["comment"] = count[p]["comment"] + 1
      /\ \A q \in Post, j \in Counter : q # p \/ j # "comment" => count'[q][j] = count[q][j]
  BY <1>2, <1>3, AddEffect
<1>5. CountsTyped'
  <2>1. IsFiniteSet(comments')
    BY <1>2, <1>3, FS_AddElement DEF CountsTyped
  <2>2. comments' \subseteq [id : Comment, post : Post, user : User]
    BY <1>2, <1>3 DEF CountsTyped
  <2>3. QED
    BY <1>2, <1>3, <1>4, <2>1, <2>2 DEF CountsTyped
<1>6. ASSUME NEW q \in Post, NEW j \in Counter, q # p \/ j # "comment"
      PROVE  Counted(q, j)'
  <2>1. RowsOf(q, j)' = RowsOf(q, j)
    <3>1. CASE j \in Mark
      BY <1>2, <1>3, <3>1, CommentsChange
    <3>2. CASE j = "comment"
      <4>1. {y \in comments' : y.post = q} = {y \in comments : y.post = q}
        BY <1>1, <1>2, <1>6, <3>2
      <4>2. QED
        BY <1>2, <1>3, <3>2, <4>1, CommentsChange
    <3>3. QED
      BY <3>1, <3>2 DEF Counter
  <2>2. QED
    BY <1>2, <1>4, <1>6, <2>1, OthersStayCounted
<1>7. Counted(p, "comment")'
  <2>1. RowsOf(p, "comment")' = RowsOf(p, "comment") \cup {x} /\ x \notin RowsOf(p, "comment")
    BY <1>1, <1>2, <1>3, CommentsChange
  <2>2. /\ IsFiniteSet(RowsOf(p, "comment")) /\ Cardinality(RowsOf(p, "comment")) \in Nat
        /\ Cardinality(RowsOf(p, "comment")') = Cardinality(RowsOf(p, "comment")) + 1
    BY <1>3, <2>1, RowsBehind, FS_AddElement
  <2>3. /\ count[p]["comment"] = Cardinality(RowsOf(p, "comment")) + drift[p]["comment"]
        /\ drift[p]["comment"] \in Int /\ drift'[p]["comment"] = drift[p]["comment"]
    BY <1>2, <1>3 DEF CountsInv, CountsTyped, Counted
  <2>4. /\ count'[p]["comment"] = count[p]["comment"] + 1
        /\ Cardinality(RowsOf(p, "comment")) \in Nat
        /\ Cardinality(RowsOf(p, "comment")') = Cardinality(RowsOf(p, "comment")) + 1
    BY <1>4, <2>2
  <2>5. count'[p]["comment"] = Cardinality(RowsOf(p, "comment")') + drift'[p]["comment"]
    BY <2>3, <2>4
  <2>6. QED
    BY <2>5 DEF Counted
<1>8. QED
  BY <1>5, <1>6, <1>7 DEF CountsInv

(* What the route and the comment disagree about is what the history says. *)
LEMMA DriftEffect ==
    ASSUME CountsTyped, NEW p \in Post, NEW q \in Post, p # q,
           drift' = [drift EXCEPT ![p]["comment"] = @ - 1, ![q]["comment"] = @ + 1]
    PROVE  /\ drift' \in [Post -> [Counter -> Int]]
           /\ drift'[p]["comment"] = drift[p]["comment"] - 1
           /\ drift'[q]["comment"] = drift[q]["comment"] + 1
           /\ \A s \in Post, j \in Counter :
                  (s # p /\ s # q) \/ j # "comment" => drift'[s][j] = drift[s][j]
<1>1. PICK f : f = [drift[p] EXCEPT !["comment"] = drift[p]["comment"] - 1]
  OBVIOUS
<1>2. PICK g : g = [drift[q] EXCEPT !["comment"] = drift[q]["comment"] + 1]
  OBVIOUS
<1>3. /\ drift \in [Post -> [Counter -> Int]] /\ "comment" \in Counter
      /\ drift[p] \in [Counter -> Int] /\ drift[q] \in [Counter -> Int]
  BY DEF CountsTyped, Counter
<1>4. /\ f \in [Counter -> Int] /\ f["comment"] = drift[p]["comment"] - 1
      /\ \A j \in Counter : j # "comment" => f[j] = drift[p][j]
      /\ g \in [Counter -> Int] /\ g["comment"] = drift[q]["comment"] + 1
      /\ \A j \in Counter : j # "comment" => g[j] = drift[q][j]
  BY <1>1, <1>2, <1>3
<1>5. drift' = [drift EXCEPT ![p] = f, ![q] = g]
  BY <1>1, <1>2, <1>3
<1>6. /\ drift' \in [Post -> [Counter -> Int]] /\ drift'[p] = f /\ drift'[q] = g
      /\ \A s \in Post : s # p /\ s # q => drift'[s] = drift[s]
  BY <1>3, <1>4, <1>5
<1>7. QED
  BY <1>4, <1>6

(* The row goes from its own post, the count from the post of the route.   *)
LEMMA DeleteCommentKeepsInv ==
    ASSUME CountsInv, NEW u \in User, NEW p \in Post, NEW x \in comments,
           DeleteComment(u, p, x)
    PROVE  CountsInv'
<1>1. CountsTyped /\ "comment" \in Counter
  BY DEF CountsInv, Counter
<1>2. PICK q \in Post : q = x.post
  BY <1>1 DEF CountsTyped
<1>3. /\ comments' = comments \ {x} /\ Add(p, "comment", -1)
      /\ drift' = IF p = q THEN drift
                  ELSE [drift EXCEPT ![p]["comment"] = @ - 1, ![q]["comment"] = @ + 1]
      /\ UNCHANGED <<post, marks, task>>
  BY <1>2 DEF DeleteComment
<1>4. /\ count' \in [Post -> [Counter -> Int]]
      /\ count'[p]["comment"] = count[p]["comment"] + (-1)
      /\ \A s \in Post, j \in Counter : s # p \/ j # "comment" => count'[s][j] = count[s][j]
  BY <1>1, <1>3, AddEffect
<1>5. /\ drift' \in [Post -> [Counter -> Int]]
      /\ \A s \in Post, j \in Counter :
             (s # p /\ s # q) \/ j # "comment" => drift'[s][j] = drift[s][j]
      /\ p = q => drift'[p]["comment"] = drift[p]["comment"]
      /\ p # q => /\ drift'[p]["comment"] = drift[p]["comment"] - 1
                  /\ drift'[q]["comment"] = drift[q]["comment"] + 1
  <2>1. CASE p = q
    BY <1>1, <1>3, <2>1 DEF CountsTyped
  <2>2. CASE p # q
    <3>1. drift' = [drift EXCEPT ![p]["comment"] = @ - 1, ![q]["comment"] = @ + 1]
      BY <1>3, <2>2
    <3>2. QED
      BY <1>1, <2>2, <3>1, DriftEffect
  <2>3. QED
    BY <2>1, <2>2
<1>6. CountsTyped'
  <2>1. IsFiniteSet(comments')
    BY <1>1, <1>3, FS_RemoveElement DEF CountsTyped
  <2>2. QED
    BY <1>1, <1>3, <1>4, <1>5, <2>1 DEF CountsTyped
<1>7. \A s \in Post, j \in Counter : s # q \/ j # "comment" => RowsOf(s, j)' = RowsOf(s, j)
  <2>1. ASSUME NEW s \in Post, NEW j \in Counter, s # q \/ j # "comment"
        PROVE  RowsOf(s, j)' = RowsOf(s, j)
    <3>1. CASE j \in Mark
      BY <1>1, <1>3, <3>1, CommentsChange
    <3>2. CASE j = "comment"
      <4>1. {y \in comments' : y.post = s} = {y \in comments : y.post = s}
        BY <1>2, <1>3, <2>1, <3>2
      <4>2. QED
        BY <1>1, <1>3, <3>2, <4>1, CommentsChange
    <3>3. QED
      BY <3>1, <3>2 DEF Counter
  <2>2. QED
    BY <2>1
<1>8. /\ Cardinality(RowsOf(q, "comment")') = Cardinality(RowsOf(q, "comment")) - 1
      /\ Cardinality(RowsOf(q, "comment")) \in Nat
  <2>1. RowsOf(q, "comment")' = RowsOf(q, "comment") \ {x} /\ x \in RowsOf(q, "comment")
    BY <1>1, <1>2, <1>3, CommentsChange
  <2>2. QED
    BY <1>1, <2>1, RowsBehind, FS_RemoveElement
<1>9. ASSUME NEW s \in Post, NEW j \in Counter, (s # p /\ s # q) \/ j # "comment"
      PROVE  Counted(s, j)'
  BY <1>4, <1>5, <1>7, <1>9, OthersStayCounted
<1>10. \A s \in {p, q} : /\ count[s]["comment"] = Cardinality(RowsOf(s, "comment")) + drift[s]["comment"]
                         /\ drift[s]["comment"] \in Int
                         /\ Cardinality(RowsOf(s, "comment")) \in Nat
  BY <1>1, RowsBehind DEF CountsInv, CountsTyped, Counted
<1>11. Counted(q, "comment")'
  <2>1. /\ count[q]["comment"] = Cardinality(RowsOf(q, "comment")) + drift[q]["comment"]
        /\ drift[q]["comment"] \in Int
    BY <1>10
  <2>2. \/ /\ count'[q]["comment"] = count[q]["comment"] + (-1)
           /\ drift'[q]["comment"] = drift[q]["comment"]
        \/ /\ count'[q]["comment"] = count[q]["comment"]
           /\ drift'[q]["comment"] = drift[q]["comment"] + 1
    <3>1. CASE p = q
      BY <1>4, <1>5, <3>1
    <3>2. CASE p # q
      BY <1>1, <1>4, <1>5, <3>2
    <3>3. QED
      BY <3>1, <3>2
  <2>3. count'[q]["comment"] = Cardinality(RowsOf(q, "comment")') + drift'[q]["comment"]
    BY <1>8, <2>1, <2>2
  <2>4. QED
    BY <2>3 DEF Counted
<1>12. ASSUME p # q
       PROVE  Counted(p, "comment")'
  <2>1. RowsOf(p, "comment")' = RowsOf(p, "comment")
    BY <1>1, <1>7, <1>12
  <2>2. count'[p]["comment"] = Cardinality(RowsOf(p, "comment")') + drift'[p]["comment"]
    BY <1>4, <1>5, <1>10, <1>12, <2>1
  <2>3. QED
    BY <2>2 DEF Counted
<1>13. QED
  BY <1>6, <1>9, <1>11, <1>12 DEF CountsInv

(* What a cascade leaves: the posts in ps count nothing, and every other   *)
(* counter is over its rows by those of u that went.                       *)
LEMMA CascadeCounts ==
    ASSUME CountsInv, NEW ps, NEW u, Cascade(ps, u)
    PROVE  /\ marks' \subseteq [kind : Mark, post : Post, user : User] /\ IsFiniteSet(marks')
           /\ comments' \subseteq [id : Comment, post : Post, user : User]
           /\ IsFiniteSet(comments')
           /\ count' \in [Post -> [Counter -> Int]] /\ drift' \in [Post -> [Counter -> Int]]
           /\ post' \in [Post -> PostRow]
           /\ \A p \in Post, k \in Counter : Counted(p, k)'
<1>1. /\ CountsTyped /\ Zero \in [Counter -> Int] /\ NoPost("deleted") \in PostRow
      /\ \A k \in Counter : Zero[k] = 0
  BY DEF CountsInv, Zero, NoPost, PostRow
<1>2. /\ marks' = {m \in marks : m.post \notin ps /\ m.user # u}
      /\ comments' = {x \in comments : x.post \notin ps /\ x.user # u}
      /\ post' = [p \in Post |-> IF p \in ps THEN NoPost("deleted") ELSE post[p]]
      /\ count' = [p \in Post |-> IF p \in ps THEN Zero ELSE count[p]]
  BY DEF Cascade
<1>3. ASSUME NEW p \in Post, NEW k \in Counter
      PROVE  /\ IsFiniteSet({x \in RowsOf(p, k) : x.user = u})
             /\ Cardinality({x \in RowsOf(p, k) : x.user = u}) \in Nat
  <2>1. IsFiniteSet(RowsOf(p, k)) /\ {x \in RowsOf(p, k) : x.user = u} \in SUBSET RowsOf(p, k)
    BY <1>1, RowsBehind
  <2>2. QED
    BY <2>1, FS_Subset, FS_CardinalityType
<1>4. PICK n \in [Post -> [Counter -> Nat]] :
        \A p \in Post, k \in Counter : n[p][k] = Cardinality({x \in RowsOf(p, k) : x.user = u})
  <2>1. [p \in Post |-> [k \in Counter |-> Cardinality({x \in RowsOf(p, k) : x.user = u})]]
          \in [Post -> [Counter -> Nat]]
    BY <1>3
  <2>2. QED
    BY <2>1
<1>5. drift' = [p \in Post |-> IF p \in ps THEN Zero ELSE [k \in Counter |-> drift[p][k] + n[p][k]]]
  BY <1>4 DEF Cascade
<1>6. IsFiniteSet(marks') /\ IsFiniteSet(comments')
  <2>1. marks' \in SUBSET marks /\ comments' \in SUBSET comments
    BY <1>2
  <2>2. QED
    BY <1>1, <2>1, FS_Subset DEF CountsTyped
<1>7. count' \in [Post -> [Counter -> Int]] /\ post' \in [Post -> PostRow]
  BY <1>1, <1>2 DEF CountsTyped
<1>8. drift' \in [Post -> [Counter -> Int]]
  <2>1. ASSUME NEW p \in Post
        PROVE  [k \in Counter |-> drift[p][k] + n[p][k]] \in [Counter -> Int]
    <3>1. drift[p] \in [Counter -> Int] /\ n[p] \in [Counter -> Nat]
      BY <1>1 DEF CountsTyped
    <3>2. QED
      BY <3>1
  <2>2. QED
    BY <1>1, <1>5, <2>1
<1>9. ASSUME NEW p \in Post, NEW k \in Counter, p \in ps
      PROVE  Counted(p, k)'
  <2>1. count'[p][k] = 0 /\ drift'[p][k] = 0
    BY <1>1, <1>2, <1>5, <1>9
  <2>2. RowsOf(p, k)' = {}
    BY <1>2, <1>9 DEF RowsOf
  <2>3. Cardinality(RowsOf(p, k)') = 0
    BY <2>2, FS_EmptySet
  <2>4. QED
    BY <2>1, <2>3 DEF Counted
<1>10. ASSUME NEW p \in Post, NEW k \in Counter, p \notin ps
       PROVE  Counted(p, k)'
  <2>1. PICK gone : gone = {x \in RowsOf(p, k) : x.user = u}
    OBVIOUS
  <2>2. PICK kept : kept = {x \in RowsOf(p, k) : x.user # u}
    OBVIOUS
  <2>3. RowsOf(p, k)' = kept
    BY <1>2, <1>10, <2>2 DEF RowsOf
  <2>4. /\ RowsOf(p, k) = kept \cup gone /\ kept \cap gone = {}
        /\ kept \in SUBSET RowsOf(p, k)
    BY <2>1, <2>2
  <2>5. IsFiniteSet(kept) /\ IsFiniteSet(gone)
    BY <1>1, <1>3, <2>1, <2>4, RowsBehind, FS_Subset
  <2>6. Cardinality(RowsOf(p, k)) = Cardinality(kept) + Cardinality(gone) - 0
    BY <2>4, <2>5, FS_Union, FS_EmptySet
  <2>7. Cardinality(kept) \in Nat /\ Cardinality(gone) \in Nat
    BY <2>5, FS_CardinalityType
  <2>8. /\ count[p][k] = Cardinality(RowsOf(p, k)) + drift[p][k]
        /\ drift[p][k] \in Int
    BY <1>1 DEF CountsInv, CountsTyped, Counted
  <2>9. count'[p][k] = count[p][k] /\ drift'[p][k] = drift[p][k] + Cardinality(gone)
    BY <1>2, <1>4, <1>5, <1>10, <2>1
  <2>10. count'[p][k] = Cardinality(RowsOf(p, k)') + drift'[p][k]
    BY <2>3, <2>6, <2>7, <2>8, <2>9
  <2>11. QED
    BY <2>10 DEF Counted
<1>11. QED
  BY <1>1, <1>2, <1>6, <1>7, <1>8, <1>9, <1>10 DEF CountsTyped

LEMMA DeletionsKeepInv ==
    ASSUME CountsInv,
           \/ \E t \in Task : DeleteRow(t)
           \/ \E u \in User : DeleteUser(u)
    PROVE  CountsInv'
<1>1. PICK ps, u : Cascade(ps, u)
  BY DEF DeleteRow, DeleteUser
<1>2. /\ marks' \subseteq [kind : Mark, post : Post, user : User] /\ IsFiniteSet(marks')
      /\ comments' \subseteq [id : Comment, post : Post, user : User]
      /\ IsFiniteSet(comments')
      /\ count' \in [Post -> [Counter -> Int]] /\ drift' \in [Post -> [Counter -> Int]]
      /\ post' \in [Post -> PostRow]
      /\ \A p \in Post, k \in Counter : Counted(p, k)'
  BY <1>1, CascadeCounts
<1>3. task' \in [Task -> Request] /\ \A t \in Task : TogglesARow(task'[t])
  BY FinishEffect DEF CountsInv, CountsTyped, DeleteRow, DeleteUser
<1>4. QED
  BY <1>2, <1>3 DEF CountsInv, CountsTyped

LEMMA CountsStep == CountsInv /\ [PostsNext]_postsVars => CountsInv'
<1> SUFFICES ASSUME CountsInv, [PostsNext]_postsVars PROVE CountsInv'
  OBVIOUS
<1>1. CASE UNCHANGED postsVars
  BY <1>1 DEF postsVars, CountsInv, CountsTyped, Counted, RowsOf
<1>2. ASSUME NEW t \in Task, NEW u \in User, NEW p \in Post,
             \/ Upload(t, u, p) \/ Delete(t, u, p)
             \/ \E k \in Toggles : ReadMark(t, u, p, k)
      PROVE  CountsInv'
  BY <1>2, RequestsKeepInv, ReadMarkKeepsInv
<1>3. ASSUME NEW t \in Task, CommitMark(t) PROVE CountsInv'
  BY <1>3, CommitMarkKeepsInv
<1>4. ASSUME NEW t \in Task, Insert(t) \/ RemoveObject(t) \/ Fail(t)
      PROVE  CountsInv'
  BY <1>4, AwaitsKeepInv
<1>5. ASSUME NEW u \in User, NEW p \in Post,
             \/ \E c \in Comment : AddComment(u, p, c)
             \/ \E x \in comments : DeleteComment(u, p, x)
      PROVE  CountsInv'
  BY <1>5, AddCommentKeepsInv, DeleteCommentKeepsInv
<1>6. CASE (\E t \in Task : DeleteRow(t)) \/ (\E u \in User : DeleteUser(u))
  BY <1>6, DeletionsKeepInv
<1>7. QED
  BY <1>1, <1>2, <1>3, <1>4, <1>5, <1>6 DEF PostsNext

(* A counter of a post is the number of its rows, off by the rows of       *)
(* deleted accounts and by comments deleted through the route of another   *)
(* post and by no more (PostsService: each toggle reads, then commits its  *)
(* row and its counter together), for any number of requests that race.    *)
THEOREM CountersFollowRows == PostsSpec => []CountsFollowRows
<1>1. CountsInv => CountsFollowRows
  BY DEF CountsInv, Counted, CountsFollowRows
<1>2. QED
  BY <1>1, CountsInit_Inv, CountsStep, PTL DEF PostsSpec

-----------------------------------------------------------------------------
(* Sounds.                                                                 *)

ClipRow ==
    [row : {"unused", "live", "expired", "deleted"}, kind : {"story", "post", NoValue},
     author : Person \cup {NoValue}, sound : Track \cup {NoValue}, file : File \cup {NoValue}]

ClipRequest ==
    [pc : {"idle", "sound", "use", "insert", "object"}, clip : Clip \cup {NoValue},
     kind : {"story", "post", NoValue}, person : Person \cup {NoValue},
     sound : Track \cup {NoValue}, file : File \cup {NoValue}]

TrackRow == [status : {"unused", "ready", "blocked"}, uses : Nat, favorites : Int]

Ledger == [gone : [Track -> Nat], uncounted : [Track -> Nat],
           given : SUBSET File, loose : SUBSET File]

(* What a request that makes a clip knows at each of its awaits.           *)
Knows(r) ==
    /\ r.pc \in {"sound", "use", "insert"} => r.clip \in Clip
    /\ r.pc = "sound" => r.sound = NoValue
    /\ r.pc = "use" => r.sound \in Track

SoundsTyped ==
    /\ track \in [Track -> TrackRow]
    /\ favorites \subseteq Person \X Track /\ IsFiniteSet(favorites)
    /\ clip \in [Clip -> ClipRow]
    /\ making \in [Making -> ClipRequest] /\ \A k \in Making : Knows(making[k])
    /\ ledger \in Ledger

FavoredBy(m) == {f \in favorites : f[2] = m}
FavoritesCounted ==
    \A m \in Track : track[m].favorites = Cardinality(FavoredBy(m)) + ledger.gone[m]

(* The clips with a sound, and those about to be.                          *)
ClipsWith(m) ==
    {c \in Clip : \/ Exists(c) /\ clip[c].sound = m
                  \/ \E k \in Making : /\ making[k].pc = "insert"
                                       /\ making[k].clip = c /\ making[k].sound = m}
UsesCounted ==
    \A m \in Track : Cardinality(ClipsWith(m)) <= track[m].uses + ledger.uncounted[m]

LEMMA SoundsInit_Typed == SoundsInit => SoundsTyped
<1> SUFFICES ASSUME SoundsInit PROVE SoundsTyped
  OBVIOUS
<1>1. AtRest \in ClipRequest /\ Knows(AtRest) /\ NoClip("unused") \in ClipRow
  BY DEF AtRest, ClipRequest, Knows, NoClip, ClipRow
<1>2. track \in [Track -> TrackRow]
  <2>1. {[status |-> s, uses |-> 0, favorites |-> 0] : s \in {"unused", "ready", "blocked"}}
          \subseteq TrackRow
    BY DEF TrackRow
  <2>2. QED
    BY <2>1 DEF SoundsInit
<1>3. ledger \in Ledger
  BY DEF SoundsInit, Ledger
<1>4. QED
  BY <1>1, <1>2, <1>3, FS_EmptySet DEF SoundsInit, SoundsTyped

(* A request moves on, or ends.                                            *)
LEMMA MakingMoves ==
    ASSUME SoundsTyped, NEW k \in Making, NEW r \in ClipRequest, Knows(r),
           making' = [making EXCEPT ![k] = r]
    PROVE  /\ making' \in [Making -> ClipRequest] /\ \A j \in Making : Knows(making'[j])
           /\ making'[k] = r /\ \A j \in Making : j # k => making'[j] = making[j]
BY DEF SoundsTyped

LEMMA MakingStops ==
    ASSUME SoundsTyped, NEW k \in Making, Stop(k)
    PROVE  /\ making' \in [Making -> ClipRequest] /\ \A j \in Making : Knows(making'[j])
           /\ making'[k].pc = "idle" /\ \A j \in Making : j # k => making'[j] = making[j]
<1>1. PICK r : r = AtRest
  OBVIOUS
<1>2. r \in ClipRequest /\ Knows(r) /\ r.pc = "idle"
  BY <1>1 DEF AtRest, ClipRequest, Knows
<1>3. making' = [making EXCEPT ![k] = r]
  BY <1>1 DEF Stop
<1>4. QED
  BY <1>2, <1>3, MakingMoves

(* One row of the library changes, in one of its columns.                  *)
LEMMA TrackMoves ==
    ASSUME SoundsTyped, NEW m \in Track
    PROVE  /\ Use(m) => /\ track' \in [Track -> TrackRow]
                        /\ track'[m].uses = track[m].uses + 1
                        /\ \A n \in Track : /\ n # m => track'[n].uses = track[n].uses
                                            /\ track'[n].favorites = track[n].favorites
           /\ NewTrack(m) => /\ track' \in [Track -> TrackRow]
                             /\ \A n \in Track : /\ track'[n].uses = track[n].uses
                                                 /\ track'[n].favorites = track[n].favorites
           /\ \A d \in Int : Favored(m, d) =>
                 /\ track' \in [Track -> TrackRow]
                 /\ track'[m].favorites = track[m].favorites + d
                 /\ \A n \in Track : /\ n # m => track'[n].favorites = track[n].favorites
                                     /\ track'[n].uses = track[n].uses
<1>1. track \in [Track -> TrackRow] /\ track[m] \in TrackRow
  BY DEF SoundsTyped
<1>2. ASSUME NEW r \in TrackRow, track' = [track EXCEPT ![m] = r]
      PROVE  /\ track' \in [Track -> TrackRow] /\ track'[m] = r
             /\ \A n \in Track : n # m => track'[n] = track[n]
  BY <1>1, <1>2
<1>3. ASSUME Use(m)
      PROVE  /\ track' \in [Track -> TrackRow]
             /\ track'[m].uses = track[m].uses + 1
             /\ \A n \in Track : /\ n # m => track'[n].uses = track[n].uses
                                 /\ track'[n].favorites = track[n].favorites
  <2>1. PICK r : r = [track[m] EXCEPT !.uses = track[m].uses + 1]
    OBVIOUS
  <2>2. r \in TrackRow /\ r.uses = track[m].uses + 1 /\ r.favorites = track[m].favorites
    BY <1>1, <2>1 DEF TrackRow
  <2>3. track' = [track EXCEPT ![m] = r]
    BY <1>1, <1>3, <2>1 DEF Use
  <2>4. QED
    BY <1>2, <2>2, <2>3
<1>4. ASSUME NewTrack(m)
      PROVE  /\ track' \in [Track -> TrackRow]
             /\ \A n \in Track : /\ track'[n].uses = track[n].uses
                                 /\ track'[n].favorites = track[n].favorites
  <2>1. PICK r : r = [track[m] EXCEPT !.status = "ready"]
    OBVIOUS
  <2>2. r \in TrackRow /\ r.uses = track[m].uses /\ r.favorites = track[m].favorites
    BY <1>1, <2>1 DEF TrackRow
  <2>3. track' = [track EXCEPT ![m] = r]
    BY <1>1, <1>4, <2>1 DEF NewTrack
  <2>4. QED
    BY <1>2, <2>2, <2>3
<1>5. ASSUME NEW d \in Int, Favored(m, d)
      PROVE  /\ track' \in [Track -> TrackRow]
             /\ track'[m].favorites = track[m].favorites + d
             /\ \A n \in Track : /\ n # m => track'[n].favorites = track[n].favorites
                                 /\ track'[n].uses = track[n].uses
  <2>1. PICK r : r = [track[m] EXCEPT !.favorites = track[m].favorites + d]
    OBVIOUS
  <2>2. r \in TrackRow /\ r.uses = track[m].uses /\ r.favorites = track[m].favorites + d
    BY <1>1, <2>1 DEF TrackRow
  <2>3. track' = [track EXCEPT ![m] = r]
    BY <1>1, <1>5, <2>1 DEF Favored
  <2>4. QED
    BY <1>2, <2>2, <2>3
<1>6. QED
  BY <1>3, <1>4, <1>5

(* What each await of a request that makes a clip changes.                 *)
LEMMA CreateEffect ==
    ASSUME SoundsTyped, NEW k \in Making, NEW c \in Clip, NEW kind \in {"story", "post"},
           NEW p \in Person, Create(k, c, kind, p)
    PROVE  /\ SoundsTyped' /\ UNCHANGED <<track, favorites, clip, ledger>>
           /\ bucket \subseteq bucket'
           /\ making'[k].pc = "sound"
           /\ \A j \in Making : j # k => making'[j] = making[j]
<1>1. PICK f \in File \cup {NoValue} :
        /\ bucket \subseteq bucket'
        /\ making' = [making EXCEPT ![k] =
                        [pc |-> "sound", clip |-> c, kind |-> kind,
                         person |-> p, sound |-> NoValue, file |-> f]]
  BY DEF Create
<1>2. PICK r : r = [pc |-> "sound", clip |-> c, kind |-> kind,
                    person |-> p, sound |-> NoValue, file |-> f]
  OBVIOUS
<1>3. r \in ClipRequest /\ Knows(r) /\ r.pc = "sound"
  BY <1>2 DEF ClipRequest, Knows
<1>4. UNCHANGED <<track, favorites, clip, ledger>>
  BY DEF Create
<1>5. /\ making' \in [Making -> ClipRequest] /\ \A j \in Making : Knows(making'[j])
      /\ making'[k] = r /\ \A j \in Making : j # k => making'[j] = making[j]
  BY <1>1, <1>2, <1>3, MakingMoves
<1>6. SoundsTyped'
  BY <1>4, <1>5 DEF SoundsTyped
<1>7. QED
  BY <1>1, <1>3, <1>4, <1>5, <1>6

LEMMA ResolveEffect ==
    ASSUME SoundsTyped, NEW k \in Making, ResolveSound(k)
    PROVE  /\ SoundsTyped' /\ UNCHANGED <<favorites, clip, bucket, ledger>>
           /\ \A n \in Track : /\ track'[n].uses = track[n].uses
                               /\ track'[n].favorites = track[n].favorites
           /\ making[k].pc = "sound" /\ making'[k].pc \in {"use", "insert"}
           /\ making'[k].pc = "insert" => making'[k].sound = NoValue
           /\ making'[k].file = making[k].file
           /\ \A j \in Making : j # k => making'[j] = making[j]
<1>1. /\ making[k] \in ClipRequest /\ Knows(making[k]) /\ making[k].pc = "sound"
      /\ UNCHANGED <<favorites, clip, bucket, ledger>>
      /\ making \in [Making -> ClipRequest]
  BY DEF ResolveSound, SoundsTyped
<1>2. PICK r \in ClipRequest :
        /\ making' = [making EXCEPT ![k] = r] /\ Knows(r) /\ r.pc \in {"use", "insert"}
        /\ r.pc = "insert" => r.sound = NoValue
        /\ r.file = making[k].file
  <2>1. CASE making' = [making EXCEPT ![k].pc = "insert"]
    <3>1. PICK r : r = [making[k] EXCEPT !.pc = "insert"]
      OBVIOUS
    <3>2. /\ r \in ClipRequest /\ Knows(r) /\ r.pc = "insert" /\ r.sound = NoValue
          /\ r.file = making[k].file
      BY <1>1, <3>1 DEF ClipRequest, Knows
    <3>3. making' = [making EXCEPT ![k] = r]
      BY <2>1, <3>1
    <3>4. QED
      BY <3>2, <3>3
  <2>2. ASSUME NEW m \in Track, making' = [making EXCEPT ![k].pc = "use", ![k].sound = m]
        PROVE  \E r \in ClipRequest :
                 /\ making' = [making EXCEPT ![k] = r] /\ Knows(r) /\ r.pc \in {"use", "insert"}
                 /\ r.pc = "insert" => r.sound = NoValue
                 /\ r.file = making[k].file
    <3>1. PICK r : r = [making[k] EXCEPT !.pc = "use", !.sound = m]
      OBVIOUS
    <3>2. /\ r \in ClipRequest /\ Knows(r) /\ r.pc = "use" /\ r.file = making[k].file
      BY <1>1, <3>1 DEF ClipRequest, Knows
    <3>3. making' = [making EXCEPT ![k] = r]
      BY <1>1, <2>2, <3>1
    <3>4. QED
      BY <3>2, <3>3
  <2>3. QED
    BY <2>1, <2>2 DEF ResolveSound
<1>3. /\ track' \in [Track -> TrackRow]
      /\ \A n \in Track : /\ track'[n].uses = track[n].uses
                          /\ track'[n].favorites = track[n].favorites
  <2>1. CASE track' = track
    BY <2>1 DEF SoundsTyped
  <2>2. ASSUME NEW m \in Track, NewTrack(m)
        PROVE  /\ track' \in [Track -> TrackRow]
               /\ \A n \in Track : /\ track'[n].uses = track[n].uses
                                   /\ track'[n].favorites = track[n].favorites
    BY <2>2, TrackMoves
  <2>3. QED
    BY <2>1, <2>2 DEF ResolveSound
<1>4. /\ making' \in [Making -> ClipRequest] /\ \A j \in Making : Knows(making'[j])
      /\ making'[k] = r /\ \A j \in Making : j # k => making'[j] = making[j]
  BY <1>2, MakingMoves
<1>5. SoundsTyped'
  BY <1>1, <1>3, <1>4 DEF SoundsTyped
<1>6. QED
  BY <1>1, <1>2, <1>3, <1>4, <1>5

(* The use is counted, or known not to be.                                 *)
LEMMA CountUseEffect ==
    ASSUME SoundsTyped, NEW k \in Making, CountUse(k)
    PROVE  /\ SoundsTyped' /\ UNCHANGED <<favorites, clip, bucket>>
           /\ \A n \in Track : /\ track'[n].favorites = track[n].favorites
                               /\ track'[n].uses + ledger'.uncounted[n] =
                                    track[n].uses + ledger.uncounted[n]
                                      + (IF n = making[k].sound THEN 1 ELSE 0)
           /\ ledger'.gone = ledger.gone /\ ledger'.given = ledger.given
           /\ ledger'.loose = ledger.loose
           /\ making[k].pc = "use" /\ making'[k].pc = "insert"
           /\ making'[k].clip = making[k].clip /\ making'[k].sound = making[k].sound
           /\ making'[k].file = making[k].file
           /\ \A j \in Making : j # k => making'[j] = making[j]
<1>1. /\ making[k] \in ClipRequest /\ Knows(making[k]) /\ making[k].pc = "use"
      /\ UNCHANGED <<favorites, clip, bucket>> /\ ledger \in Ledger
      /\ track \in [Track -> TrackRow]
  BY DEF CountUse, SoundsTyped
<1>2. PICK m \in Track : m = making[k].sound
  BY <1>1 DEF Knows
<1>3. PICK r : r = [making[k] EXCEPT !.pc = "insert"]
  OBVIOUS
<1>4. /\ r \in ClipRequest /\ Knows(r) /\ r.pc = "insert" /\ r.clip = making[k].clip
      /\ r.sound = making[k].sound /\ r.file = making[k].file
  BY <1>1, <1>3 DEF ClipRequest, Knows
<1>5. making' = [making EXCEPT ![k] = r]
  BY <1>3 DEF CountUse, Goto
<1>6. /\ making' \in [Making -> ClipRequest] /\ \A j \in Making : Knows(making'[j])
      /\ making'[k] = r /\ \A j \in Making : j # k => making'[j] = making[j]
  BY <1>4, <1>5, MakingMoves
<1>7. /\ track' \in [Track -> TrackRow] /\ ledger' \in Ledger
      /\ \A n \in Track : /\ track'[n].favorites = track[n].favorites
                          /\ track'[n].uses + ledger'.uncounted[n] =
                               track[n].uses + ledger.uncounted[n] + (IF n = m THEN 1 ELSE 0)
      /\ ledger'.gone = ledger.gone /\ ledger'.given = ledger.given
      /\ ledger'.loose = ledger.loose
  <2>1. \A n \in Track : track[n].uses \in Nat /\ ledger.uncounted[n] \in Nat
    BY <1>1 DEF TrackRow, Ledger
  <2>2. CASE Use(m) /\ ledger' = ledger
    <3>1. /\ track' \in [Track -> TrackRow] /\ track'[m].uses = track[m].uses + 1
          /\ \A n \in Track : /\ n # m => track'[n].uses = track[n].uses
                              /\ track'[n].favorites = track[n].favorites
      BY <2>2, TrackMoves
    <3>2. ASSUME NEW n \in Track
          PROVE  track'[n].uses + ledger'.uncounted[n] =
                   track[n].uses + ledger.uncounted[n] + (IF n = m THEN 1 ELSE 0)
      BY <2>1, <2>2, <3>1
    <3>3. QED
      BY <1>1, <2>2, <3>1, <3>2
  <2>3. CASE ledger' = [ledger EXCEPT !.uncounted[m] = @ + 1] /\ track' = track
    <3>1. PICK g : g = [ledger.uncounted EXCEPT ![m] = ledger.uncounted[m] + 1]
      OBVIOUS
    <3>2. /\ g \in [Track -> Nat] /\ g[m] = ledger.uncounted[m] + 1
          /\ \A n \in Track : n # m => g[n] = ledger.uncounted[n]
      BY <1>1, <3>1 DEF Ledger
    <3>3. ledger' = [ledger EXCEPT !.uncounted = g]
      BY <1>1, <2>3, <3>1 DEF Ledger
    <3>4. /\ ledger' \in Ledger /\ ledger'.uncounted = g
          /\ ledger'.gone = ledger.gone /\ ledger'.given = ledger.given
          /\ ledger'.loose = ledger.loose
      BY <1>1, <3>2, <3>3 DEF Ledger
    <3>5. ASSUME NEW n \in Track
          PROVE  track'[n].uses + ledger'.uncounted[n] =
                   track[n].uses + ledger.uncounted[n] + (IF n = m THEN 1 ELSE 0)
      <4>1. track'[n].uses = track[n].uses /\ ledger'.uncounted[n] = g[n]
        BY <2>3, <3>4
      <4>2. g[n] = ledger.uncounted[n] + (IF n = m THEN 1 ELSE 0)
        BY <2>1, <3>2
      <4>3. QED
        BY <2>1, <4>1, <4>2
    <3>6. QED
      BY <1>1, <2>3, <3>4, <3>5
  <2>4. QED
    BY <1>2, <2>2, <2>3 DEF CountUse
<1>8. SoundsTyped'
  BY <1>1, <1>6, <1>7 DEF SoundsTyped
<1>9. QED
  BY <1>1, <1>2, <1>4, <1>6, <1>7, <1>8

LEMMA InsertClipEffect ==
    ASSUME SoundsTyped, NEW k \in Making, InsertClip(k)
    PROVE  /\ SoundsTyped' /\ UNCHANGED <<track, favorites, bucket>>
           /\ making[k].pc = "insert" /\ making[k].clip \in Clip /\ making'[k].pc = "idle"
           /\ \A j \in Making : j # k => making'[j] = making[j]
           /\ clip'[making[k].clip].row = "live"
           /\ clip'[making[k].clip].sound = making[k].sound
           /\ clip'[making[k].clip].file = making[k].file
           /\ \A c \in Clip : c # making[k].clip => clip'[c] = clip[c]
           /\ ledger'.gone = ledger.gone /\ ledger'.uncounted = ledger.uncounted
           /\ ledger'.given = ledger.given \cup ({making[k].file} \ {NoValue})
           /\ ledger'.loose = ledger.loose \cup ({making[k].file} \cap ledger.given)
                                           \cup ({making[k].file} \ (bucket \cup {NoValue}))
<1>1. /\ making[k] \in ClipRequest /\ Knows(making[k]) /\ making[k].pc = "insert"
      /\ UNCHANGED <<track, favorites, bucket>> /\ Stop(k)
      /\ ledger \in Ledger /\ clip \in [Clip -> ClipRow]
  BY DEF InsertClip, SoundsTyped
<1>2. making[k].clip \in Clip
  BY <1>1 DEF Knows
<1>3. PICK r : r = [row |-> "live", kind |-> making[k].kind, author |-> making[k].person,
                    sound |-> making[k].sound, file |-> making[k].file]
  OBVIOUS
<1>4. /\ r \in ClipRow /\ r.row = "live" /\ r.sound = making[k].sound
      /\ r.file = making[k].file
  BY <1>1, <1>3 DEF ClipRequest, ClipRow
<1>5. clip' = [clip EXCEPT ![making[k].clip] = r]
  BY <1>3 DEF InsertClip
<1>6. PICK g \in SUBSET File, s \in SUBSET File :
        /\ g = ledger.given \cup ({making[k].file} \ {NoValue})
        /\ s = ledger.loose \cup ({making[k].file} \cap ledger.given)
                            \cup ({making[k].file} \ (bucket \cup {NoValue}))
  BY <1>1 DEF Ledger, ClipRequest
<1>7. ledger' = [ledger EXCEPT !.given = g, !.loose = s]
  BY <1>6 DEF InsertClip
<1>8. /\ ledger' \in Ledger /\ ledger'.given = g /\ ledger'.loose = s
      /\ ledger'.gone = ledger.gone /\ ledger'.uncounted = ledger.uncounted
  BY <1>1, <1>7 DEF Ledger
<1>9. /\ making' \in [Making -> ClipRequest] /\ \A j \in Making : Knows(making'[j])
      /\ making'[k].pc = "idle" /\ \A j \in Making : j # k => making'[j] = making[j]
  BY <1>1, MakingStops
<1>10. /\ clip' \in [Clip -> ClipRow] /\ clip'[making[k].clip] = r
       /\ \A c \in Clip : c # making[k].clip => clip'[c] = clip[c]
  BY <1>1, <1>2, <1>4, <1>5
<1>11. SoundsTyped'
  BY <1>1, <1>8, <1>9, <1>10 DEF SoundsTyped
<1>12. QED
  BY <1>1, <1>2, <1>4, <1>6, <1>8, <1>9, <1>10, <1>11

(* Clips go; the others stay what they were.                               *)
LEMMA DropEffect ==
    ASSUME SoundsTyped, NEW cs, DropClips(cs)
    PROVE  /\ clip' \in [Clip -> ClipRow]
           /\ \A c \in Clip : Exists(c)' => Exists(c) /\ clip'[c] = clip[c] /\ c \notin cs
<1>1. NoClip("deleted") \in ClipRow /\ NoClip("deleted").row = "deleted"
  BY DEF NoClip, ClipRow
<1>2. clip' = [c \in Clip |-> IF c \in cs THEN NoClip("deleted") ELSE clip[c]]
  BY DEF DropClips
<1>3. clip \in [Clip -> ClipRow]
  BY DEF SoundsTyped
<1>4. QED
  BY <1>1, <1>2, <1>3 DEF Exists

LEMMA DeleteStoryEffect ==
    ASSUME SoundsTyped, NEW k \in Making, NEW c \in Clip, NEW p \in Person,
           DeleteStory(k, c, p)
    PROVE  /\ SoundsTyped' /\ UNCHANGED <<track, favorites, bucket, ledger>>
           /\ Exists(c)
           /\ \A d \in Clip : Exists(d)' => Exists(d) /\ clip'[d] = clip[d] /\ d # c
           /\ making' # making => /\ making'[k].pc = "object"
                                  /\ making'[k].file = clip[c].file /\ clip[c].file # NoValue
           /\ \A j \in Making : j # k => making'[j] = making[j]
<1>1. /\ DropClips({c}) /\ Exists(c) /\ UNCHANGED <<track, favorites, bucket, ledger>>
      /\ clip \in [Clip -> ClipRow]
  BY DEF DeleteStory, SoundsTyped
<1>2. /\ clip' \in [Clip -> ClipRow]
      /\ \A d \in Clip : Exists(d)' => Exists(d) /\ clip'[d] = clip[d] /\ d # c
  BY <1>1, DropEffect
<1>3. /\ making' \in [Making -> ClipRequest] /\ \A j \in Making : Knows(making'[j])
      /\ making' # making => /\ making'[k].pc = "object"
                             /\ making'[k].file = clip[c].file /\ clip[c].file # NoValue
      /\ \A j \in Making : j # k => making'[j] = making[j]
  <2>1. CASE clip[c].file = NoValue
    <3>1. making' = making
      BY <2>1 DEF DeleteStory
    <3>2. QED
      BY <3>1 DEF SoundsTyped
  <2>2. CASE clip[c].file # NoValue
    <3>1. PICK f \in File : f = clip[c].file
      BY <1>1, <2>2 DEF ClipRow
    <3>2. PICK r : r = [AtRest EXCEPT !.pc = "object", !.file = f]
      OBVIOUS
    <3>3. r \in ClipRequest /\ Knows(r) /\ r.pc = "object" /\ r.file = f
      BY <3>2 DEF AtRest, ClipRequest, Knows
    <3>4. making' = [making EXCEPT ![k] = r]
      BY <2>2, <3>1, <3>2 DEF DeleteStory
    <3>5. QED
      BY <2>2, <3>1, <3>3, <3>4, MakingMoves
  <2>3. QED
    BY <2>1, <2>2
<1>4. SoundsTyped'
  BY <1>1, <1>2, <1>3 DEF SoundsTyped
<1>5. QED
  BY <1>1, <1>2, <1>3, <1>4

(* The rows of an account go; the library keeps its counters.              *)
LEMMA DeletePersonEffect ==
    ASSUME SoundsTyped, NEW p \in Person, DeletePerson(p)
    PROVE  /\ SoundsTyped' /\ UNCHANGED <<track, bucket, making>>
           /\ \A d \in Clip : Exists(d)' => Exists(d) /\ clip'[d] = clip[d]
           /\ favorites' = {f \in favorites : f[1] # p}
           /\ \A m \in Track : ledger'.gone[m] =
                 IF <<p, m>> \in favorites THEN ledger.gone[m] + 1 ELSE ledger.gone[m]
           /\ ledger'.uncounted = ledger.uncounted /\ ledger'.given = ledger.given
           /\ ledger'.loose = ledger.loose
<1>1. /\ UNCHANGED <<track, bucket, making>> /\ ledger \in Ledger
      /\ favorites' = {f \in favorites : f[1] # p}
  BY DEF DeletePerson, SoundsTyped
<1>2. /\ clip' \in [Clip -> ClipRow]
      /\ \A d \in Clip : Exists(d)' => Exists(d) /\ clip'[d] = clip[d]
  <2>1. PICK cs : DropClips(cs)
    BY DEF DeletePerson
  <2>2. QED
    BY <2>1, DropEffect
<1>3. PICK g : g = [m \in Track |-> IF <<p, m>> \in favorites THEN ledger.gone[m] + 1
                                                             ELSE ledger.gone[m]]
  OBVIOUS
<1>4. ledger' = [ledger EXCEPT !.gone = g]
  BY <1>3 DEF DeletePerson
<1>5. g \in [Track -> Nat]
  BY <1>1, <1>3 DEF Ledger
<1>6. /\ ledger' \in Ledger /\ ledger'.gone = g
      /\ ledger'.uncounted = ledger.uncounted /\ ledger'.given = ledger.given
      /\ ledger'.loose = ledger.loose
  BY <1>1, <1>4, <1>5 DEF Ledger
<1>7. IsFiniteSet(favorites')
  <2>1. favorites' \in SUBSET favorites
    BY <1>1
  <2>2. QED
    BY <2>1, FS_Subset DEF SoundsTyped
<1>8. SoundsTyped'
  BY <1>1, <1>2, <1>6, <1>7 DEF SoundsTyped
<1>9. QED
  BY <1>1, <1>2, <1>3, <1>6, <1>8

(* A request stops, with or without the object it was to remove.           *)
LEMMA StopEffect ==
    ASSUME SoundsTyped, NEW k \in Making, Abandon(k) \/ DeleteFile(k)
    PROVE  /\ SoundsTyped' /\ UNCHANGED <<track, favorites, clip, ledger>>
           /\ making'[k].pc = "idle" /\ \A j \in Making : j # k => making'[j] = making[j]
<1>1. Stop(k) /\ UNCHANGED <<track, favorites, clip, ledger>>
  BY DEF Abandon, DeleteFile
<1>2. /\ making' \in [Making -> ClipRequest] /\ \A j \in Making : Knows(making'[j])
      /\ making'[k].pc = "idle" /\ \A j \in Making : j # k => making'[j] = making[j]
  BY <1>1, MakingStops
<1>3. QED
  BY <1>1, <1>2 DEF SoundsTyped

LEMMA ExpireEffect ==
    ASSUME SoundsTyped, NEW c \in Clip, Expire(c)
    PROVE  /\ SoundsTyped' /\ UNCHANGED <<track, favorites, bucket, making, ledger>>
           /\ \A d \in Clip : /\ Exists(d)' <=> Exists(d)
                              /\ clip'[d].sound = clip[d].sound
                              /\ clip'[d].file = clip[d].file
<1>1. clip \in [Clip -> ClipRow] /\ clip[c] \in ClipRow /\ clip[c].row = "live"
  BY DEF SoundsTyped, Expire
<1>2. PICK r : r = [clip[c] EXCEPT !.row = "expired"]
  OBVIOUS
<1>3. /\ r \in ClipRow /\ r.row = "expired" /\ r.sound = clip[c].sound
      /\ r.file = clip[c].file
  BY <1>1, <1>2 DEF ClipRow
<1>4. clip' = [clip EXCEPT ![c] = r] /\ UNCHANGED <<track, favorites, bucket, making, ledger>>
  BY <1>2 DEF Expire
<1>5. QED
  BY <1>1, <1>3, <1>4 DEF SoundsTyped, Exists

(* Every object of a clip was given to it, and is stored unless nobody     *)
(* promises to keep it; no two clips share one that is kept.               *)
ObjectsGiven ==
    /\ \A c \in Clip : Exists(c) =>
           /\ clip[c].file \in {NoValue} \cup ledger.given
           /\ clip[c].file \in {NoValue} \cup ledger.loose \cup bucket
    /\ \A c, d \in Clip : Exists(c) /\ Exists(d) /\ c # d /\ clip[c].file = clip[d].file =>
           clip[c].file \in {NoValue} \cup ledger.loose

(* A request to remove an object comes after its clip.                     *)
Carries(r) ==
    r.pc = "object" =>
        /\ r.file # NoValue /\ r.file \in ledger.given
        /\ \A c \in Clip : Exists(c) /\ clip[c].file = r.file => r.file \in ledger.loose

SoundsInv ==
    /\ SoundsTyped /\ FavoritesCounted /\ UsesCounted
    /\ ObjectsGiven /\ \A k \in Making : Carries(making[k])

LEMMA SoundsInit_Inv == SoundsInit => SoundsInv
<1> SUFFICES ASSUME SoundsInit PROVE SoundsInv
  OBVIOUS
<1>1. SoundsTyped
  BY SoundsInit_Typed
<1>2. ASSUME NEW c \in Clip
      PROVE  ~Exists(c)
  BY DEF SoundsInit, Exists, NoClip
<1>3. ASSUME NEW k \in Making
      PROVE  making[k].pc = "idle"
  BY DEF SoundsInit, AtRest
<1>4. FavoritesCounted
  <2>1. ASSUME NEW m \in Track
        PROVE  track[m].favorites = 0 /\ ledger.gone[m] = 0 /\ FavoredBy(m) = {}
    <3>1. track[m] \in {[status |-> s, uses |-> 0, favorites |-> 0] :
                          s \in {"unused", "ready", "blocked"}}
      BY DEF SoundsInit
    <3>2. QED
      BY <3>1 DEF SoundsInit, FavoredBy
  <2>2. ASSUME NEW m \in Track
        PROVE  track[m].favorites = Cardinality(FavoredBy(m)) + ledger.gone[m]
    <3>1. Cardinality(FavoredBy(m)) = 0
      BY <2>1, FS_EmptySet
    <3>2. QED
      BY <2>1, <3>1
  <2>3. QED
    BY <2>2 DEF FavoritesCounted
<1>5. UsesCounted
  <2>1. ASSUME NEW m \in Track
        PROVE  Cardinality(ClipsWith(m)) <= track[m].uses + ledger.uncounted[m]
    <3>1. ClipsWith(m) = {}
      BY <1>2, <1>3 DEF ClipsWith
    <3>2. track[m].uses \in Nat /\ ledger.uncounted[m] \in Nat
      BY <1>1 DEF SoundsTyped, TrackRow, Ledger
    <3>3. QED
      BY <3>1, <3>2, FS_EmptySet
  <2>2. QED
    BY <2>1 DEF UsesCounted
<1>6. QED
  BY <1>1, <1>2, <1>3, <1>4, <1>5 DEF SoundsInv, ObjectsGiven, Carries

LEMMA FavoritesStay ==
    ASSUME FavoritesCounted, favorites' = favorites, ledger'.gone = ledger.gone,
           \A m \in Track : track'[m].favorites = track[m].favorites
    PROVE  FavoritesCounted'
BY DEF FavoritesCounted, FavoredBy

LEMMA ClipsFinite ==
    \A m : IsFiniteSet(ClipsWith(m)) /\ Cardinality(ClipsWith(m)) \in Nat
<1> SUFFICES ASSUME NEW m
             PROVE  IsFiniteSet(ClipsWith(m)) /\ Cardinality(ClipsWith(m)) \in Nat
  OBVIOUS
<1>1. ClipsWith(m) \in SUBSET Clip
  BY DEF ClipsWith
<1>2. QED
  BY <1>1, SoundsAssumption, FS_Subset, FS_CardinalityType

(* No clip gains a sound that was not counted for it.                      *)
LEMMA UsesStay ==
    ASSUME SoundsTyped, UsesCounted, SoundsTyped',
           \A m \in Track : track[m].uses + ledger.uncounted[m]
                              <= track'[m].uses + ledger'.uncounted[m],
           \A c \in Clip : Exists(c)' => Exists(c) /\ clip'[c].sound = clip[c].sound,
           \A k \in Making : making'[k].pc = "insert" =>
               making'[k] = making[k] \/ making'[k].sound = NoValue
    PROVE  UsesCounted'
<1>1. ASSUME NEW m \in Track
      PROVE  Cardinality(ClipsWith(m)') <= track'[m].uses + ledger'.uncounted[m]
  <2>1. ClipsWith(m)' \in SUBSET ClipsWith(m)
    BY SoundsAssumption DEF ClipsWith
  <2>2. Cardinality(ClipsWith(m)') <= Cardinality(ClipsWith(m))
    BY <2>1, ClipsFinite, FS_Subset
  <2>3. IsFiniteSet(ClipsWith(m)')
    BY <2>1, ClipsFinite, FS_Subset
  <2>4. Cardinality(ClipsWith(m)') \in Nat /\ Cardinality(ClipsWith(m)) \in Nat
    BY <2>3, ClipsFinite, FS_CardinalityType
  <2>5. Cardinality(ClipsWith(m)) <= track[m].uses + ledger.uncounted[m]
    BY DEF UsesCounted
  <2>6. /\ track[m].uses \in Nat /\ ledger.uncounted[m] \in Nat
        /\ track'[m].uses \in Nat /\ ledger'.uncounted[m] \in Nat
    BY DEF SoundsTyped, TrackRow, Ledger
  <2>7. track[m].uses + ledger.uncounted[m] <= track'[m].uses + ledger'.uncounted[m]
    OBVIOUS
  <2>8. QED
    BY <2>2, <2>4, <2>5, <2>6, <2>7
<1>2. QED
  BY <1>1 DEF UsesCounted

(* Clips that go, or stay what they are, share no more objects.            *)
LEMMA ObjectsStay ==
    ASSUME ObjectsGiven, bucket \subseteq bucket',
           ledger'.given = ledger.given, ledger'.loose = ledger.loose,
           \A c \in Clip : Exists(c)' => Exists(c) /\ clip'[c].file = clip[c].file
    PROVE  ObjectsGiven'
BY DEF ObjectsGiven

LEMMA CarriesStays ==
    ASSUME NEW j \in Making, Carries(making[j]), making'[j] = making[j],
           ledger'.given = ledger.given, ledger.loose \subseteq ledger'.loose,
           \A c \in Clip : Exists(c)' => Exists(c) /\ clip'[c].file = clip[c].file
    PROVE  Carries(making[j])'
BY DEF Carries

(* The steps that insert no clip, count no favourite and remove no object. *)
LEMMA QuietStep ==
    ASSUME SoundsInv, SoundsTyped', favorites' = favorites, bucket \subseteq bucket',
           ledger'.gone = ledger.gone, ledger'.uncounted = ledger.uncounted,
           ledger'.given = ledger.given, ledger'.loose = ledger.loose,
           \A m \in Track : /\ track'[m].favorites = track[m].favorites
                            /\ track'[m].uses \in {track[m].uses, track[m].uses + 1},
           \A c \in Clip : Exists(c)' => /\ Exists(c) /\ clip'[c].sound = clip[c].sound
                                         /\ clip'[c].file = clip[c].file,
           \A k \in Making : \/ making'[k] = making[k]
                             \/ /\ Carries(making[k])'
                                /\ making'[k].pc = "insert" => making'[k].sound = NoValue
    PROVE  SoundsInv'
<1>1. FavoritesCounted'
  BY FavoritesStay DEF SoundsInv
<1>2. UsesCounted'
  <2>1. ASSUME NEW m \in Track
        PROVE  track[m].uses + ledger.uncounted[m] <= track'[m].uses + ledger'.uncounted[m]
    <3>1. /\ track[m].uses \in Nat /\ ledger.uncounted[m] \in Nat
          /\ ledger'.uncounted[m] = ledger.uncounted[m]
      BY DEF SoundsInv, SoundsTyped, TrackRow, Ledger
    <3>2. track'[m].uses \in {track[m].uses, track[m].uses + 1}
      OBVIOUS
    <3>3. QED
      BY <3>1, <3>2
  <2>2. SoundsTyped /\ UsesCounted
    BY DEF SoundsInv
  <2>3. QED
    BY <2>1, <2>2, UsesStay
<1>3. ObjectsGiven'
  BY ObjectsStay DEF SoundsInv
<1>4. \A k \in Making : Carries(making[k])'
  BY CarriesStays DEF SoundsInv
<1>5. QED
  BY <1>1, <1>2, <1>3, <1>4 DEF SoundsInv

LEMMA MakingKeepsInv ==
    ASSUME SoundsInv, NEW k \in Making,
           \/ \E c \in Clip, kind \in {"story", "post"}, p \in Person : Create(k, c, kind, p)
           \/ ResolveSound(k) \/ Abandon(k)
    PROVE  SoundsInv'
<1>1. SoundsTyped /\ Carries(making[k])
  BY DEF SoundsInv
<1>2. \A m \in Track : track[m].uses \in Nat
  BY <1>1 DEF SoundsTyped, TrackRow
<1>3. ASSUME NEW c \in Clip, NEW kind \in {"story", "post"}, NEW p \in Person,
             Create(k, c, kind, p)
      PROVE  SoundsInv'
  <2>1. /\ SoundsTyped' /\ UNCHANGED <<track, favorites, clip, ledger>>
        /\ bucket \subseteq bucket'
        /\ making'[k].pc = "sound"
        /\ \A j \in Making : j # k => making'[j] = making[j]
    BY <1>1, <1>3, CreateEffect
  <2>2. Carries(making[k])'
    BY <2>1 DEF Carries
  <2>3. QED
    BY <1>2, <2>1, <2>2, QuietStep DEF Exists
<1>4. CASE ResolveSound(k)
  <2>1. /\ SoundsTyped' /\ UNCHANGED <<favorites, clip, bucket, ledger>>
        /\ \A n \in Track : /\ track'[n].uses = track[n].uses
                            /\ track'[n].favorites = track[n].favorites
        /\ making[k].pc = "sound" /\ making'[k].pc \in {"use", "insert"}
        /\ making'[k].pc = "insert" => making'[k].sound = NoValue
        /\ making'[k].file = making[k].file
        /\ \A j \in Making : j # k => making'[j] = making[j]
    BY <1>1, <1>4, ResolveEffect
  <2>2. Carries(making[k])'
    BY <1>1, <2>1 DEF Carries
  <2>3. QED
    BY <1>2, <2>1, <2>2, QuietStep DEF Exists
<1>5. CASE Abandon(k)
  <2>1. /\ SoundsTyped' /\ UNCHANGED <<track, favorites, clip, ledger>>
        /\ making'[k].pc = "idle" /\ \A j \in Making : j # k => making'[j] = making[j]
        /\ UNCHANGED bucket
    BY <1>1, <1>5, StopEffect DEF Abandon
  <2>2. Carries(making[k])'
    BY <2>1 DEF Carries
  <2>3. QED
    BY <1>2, <2>1, <2>2, QuietStep DEF Exists
<1>6. QED
  BY <1>3, <1>4, <1>5

LEMMA CountUseKeepsInv ==
    ASSUME SoundsInv, NEW k \in Making, CountUse(k)
    PROVE  SoundsInv'
<1>1. SoundsTyped /\ Carries(making[k])
  BY DEF SoundsInv
<1>2. /\ SoundsTyped' /\ UNCHANGED <<favorites, clip, bucket>>
      /\ \A n \in Track : /\ track'[n].favorites = track[n].favorites
                          /\ track'[n].uses + ledger'.uncounted[n] =
                               track[n].uses + ledger.uncounted[n]
                                 + (IF n = making[k].sound THEN 1 ELSE 0)
      /\ ledger'.gone = ledger.gone /\ ledger'.given = ledger.given
      /\ ledger'.loose = ledger.loose
      /\ making[k].pc = "use" /\ making'[k].pc = "insert"
      /\ making'[k].clip = making[k].clip /\ making'[k].sound = making[k].sound
      /\ making'[k].file = making[k].file
      /\ \A j \in Making : j # k => making'[j] = making[j]
  BY <1>1, CountUseEffect
<1>3. FavoritesCounted'
  BY <1>2, FavoritesStay DEF SoundsInv
<1>4. UsesCounted'
  <2>1. ASSUME NEW m \in Track
        PROVE  Cardinality(ClipsWith(m)') <= track'[m].uses + ledger'.uncounted[m]
    <3>1. /\ track[m].uses \in Nat /\ ledger.uncounted[m] \in Nat
          /\ Cardinality(ClipsWith(m)) <= track[m].uses + ledger.uncounted[m]
      BY <1>1 DEF SoundsInv, SoundsTyped, UsesCounted, TrackRow, Ledger
    <3>2. /\ IsFiniteSet(ClipsWith(m)) /\ Cardinality(ClipsWith(m)) \in Nat
      BY ClipsFinite
    <3>3. CASE m # making[k].sound
      <4>1. ClipsWith(m)' \in SUBSET ClipsWith(m)
        BY <1>2, <3>3 DEF ClipsWith, Exists
      <4>2. IsFiniteSet(ClipsWith(m)') /\ Cardinality(ClipsWith(m)') <= Cardinality(ClipsWith(m))
        BY <3>2, <4>1, FS_Subset
      <4>3. Cardinality(ClipsWith(m)') \in Nat
        BY <4>2, FS_CardinalityType
      <4>4. track'[m].uses + ledger'.uncounted[m] = track[m].uses + ledger.uncounted[m]
        BY <1>2, <3>1, <3>3
      <4>5. QED
        BY <3>1, <3>2, <4>2, <4>3, <4>4
    <3>4. CASE m = making[k].sound
      <4>1. ClipsWith(m)' \in SUBSET (ClipsWith(m) \cup {making[k].clip})
        BY <1>2, <3>4 DEF ClipsWith, Exists
      <4>2. /\ IsFiniteSet(ClipsWith(m) \cup {making[k].clip})
            /\ Cardinality(ClipsWith(m) \cup {making[k].clip}) <= Cardinality(ClipsWith(m)) + 1
            /\ Cardinality(ClipsWith(m) \cup {making[k].clip}) \in Nat
        <5>1. /\ IsFiniteSet(ClipsWith(m) \cup {making[k].clip})
              /\ Cardinality(ClipsWith(m) \cup {making[k].clip}) =
                   IF making[k].clip \in ClipsWith(m) THEN Cardinality(ClipsWith(m))
                                                     ELSE Cardinality(ClipsWith(m)) + 1
          BY <3>2, FS_AddElement
        <5>2. QED
          BY <3>2, <5>1
      <4>3. IsFiniteSet(ClipsWith(m)')
            /\ Cardinality(ClipsWith(m)') <= Cardinality(ClipsWith(m) \cup {making[k].clip})
        BY <4>1, <4>2, FS_Subset
      <4>4. Cardinality(ClipsWith(m)') \in Nat
        BY <4>3, FS_CardinalityType
      <4>5. track'[m].uses + ledger'.uncounted[m] = track[m].uses + ledger.uncounted[m] + 1
        BY <1>2, <3>4
      <4>6. QED
        BY <3>1, <3>2, <4>2, <4>3, <4>4, <4>5
    <3>5. QED
      BY <3>3, <3>4
  <2>2. QED
    BY <2>1 DEF UsesCounted
<1>5. ObjectsGiven'
  BY <1>2, ObjectsStay DEF SoundsInv, Exists
<1>6. ASSUME NEW j \in Making
      PROVE  Carries(making[j])'
  <2>1. CASE j = k
    BY <1>1, <1>2, <2>1 DEF Carries
  <2>2. CASE j # k
    BY <1>2, <2>2, CarriesStays DEF SoundsInv, Exists
  <2>3. QED
    BY <2>1, <2>2
<1>7. QED
  BY <1>2, <1>3, <1>4, <1>5, <1>6 DEF SoundsInv

(* An object that is given again is known as such from then on.            *)
LEMMA InsertClipKeepsInv ==
    ASSUME SoundsInv, NEW k \in Making, InsertClip(k)
    PROVE  SoundsInv'
<1>1. SoundsTyped /\ Carries(making[k])
  BY DEF SoundsInv
<1>2. PICK n \in Clip : n = making[k].clip
  BY <1>1, InsertClipEffect
<1>3. PICK f : f = making[k].file
  OBVIOUS
<1>4. /\ SoundsTyped' /\ UNCHANGED <<track, favorites, bucket>>
      /\ making[k].pc = "insert" /\ making'[k].pc = "idle"
      /\ \A j \in Making : j # k => making'[j] = making[j]
      /\ clip'[n].row = "live" /\ clip'[n].sound = making[k].sound /\ clip'[n].file = f
      /\ \A c \in Clip : c # n => clip'[c] = clip[c]
      /\ ledger'.gone = ledger.gone /\ ledger'.uncounted = ledger.uncounted
      /\ ledger'.given = ledger.given \cup ({f} \ {NoValue})
      /\ ledger'.loose = ledger.loose \cup ({f} \cap ledger.given)
                                      \cup ({f} \ (bucket \cup {NoValue}))
  BY <1>1, <1>2, <1>3, InsertClipEffect
<1>5. f \in {NoValue} \cup bucket \cup ledger'.loose
  BY <1>4
<1>6. \A c \in Clip : c # n => (Exists(c)' <=> Exists(c))
  BY <1>4 DEF Exists
<1>7. FavoritesCounted'
  BY <1>4, FavoritesStay DEF SoundsInv
<1>8. UsesCounted'
  <2>1. ASSUME NEW m \in Track
        PROVE  Cardinality(ClipsWith(m)') <= track'[m].uses + ledger'.uncounted[m]
    <3>1. ClipsWith(m)' \in SUBSET ClipsWith(m)
      <4>1. ASSUME NEW c \in Clip,
                   \/ Exists(c)' /\ clip'[c].sound = m
                   \/ \E j \in Making : /\ making'[j].pc = "insert"
                                        /\ making'[j].clip = c /\ making'[j].sound = m
            PROVE  \/ Exists(c) /\ clip[c].sound = m
                   \/ \E j \in Making : /\ making[j].pc = "insert"
                                        /\ making[j].clip = c /\ making[j].sound = m
        BY <1>2, <1>4, <1>6, <4>1
      <4>2. QED
        BY <4>1 DEF ClipsWith
    <3>2. IsFiniteSet(ClipsWith(m)) /\ Cardinality(ClipsWith(m)) \in Nat
      BY ClipsFinite
    <3>3. IsFiniteSet(ClipsWith(m)') /\ Cardinality(ClipsWith(m)') <= Cardinality(ClipsWith(m))
      BY <3>1, <3>2, FS_Subset
    <3>4. Cardinality(ClipsWith(m)') \in Nat
      BY <3>3, FS_CardinalityType
    <3>5. /\ track[m].uses \in Nat /\ ledger.uncounted[m] \in Nat
          /\ Cardinality(ClipsWith(m)) <= track[m].uses + ledger.uncounted[m]
          /\ track'[m].uses + ledger'.uncounted[m] = track[m].uses + ledger.uncounted[m]
      BY <1>1, <1>4 DEF SoundsInv, SoundsTyped, UsesCounted, TrackRow, Ledger
    <3>6. QED
      BY <3>2, <3>3, <3>4, <3>5
  <2>2. QED
    BY <2>1 DEF UsesCounted
<1>9. ObjectsGiven'
  <2>1. ASSUME NEW c \in Clip, Exists(c)'
        PROVE  /\ clip'[c].file \in {NoValue} \cup ledger'.given
               /\ clip'[c].file \in {NoValue} \cup ledger'.loose \cup bucket'
    <3>1. CASE c = n
      BY <1>4, <1>5, <3>1
    <3>2. CASE c # n
      BY <1>4, <1>6, <2>1, <3>2 DEF SoundsInv, ObjectsGiven
    <3>3. QED
      BY <3>1, <3>2
  <2>2. ASSUME NEW c \in Clip, NEW d \in Clip, Exists(c)', Exists(d)', c # d,
               clip'[c].file = clip'[d].file
        PROVE  clip'[c].file \in {NoValue} \cup ledger'.loose
    <3>1. CASE c # n /\ d # n
      BY <1>4, <1>6, <2>2, <3>1 DEF SoundsInv, ObjectsGiven
    <3>2. ASSUME NEW e \in Clip, Exists(e)', e # n, clip'[e].file = f
          PROVE  f \in {NoValue} \cup ledger'.loose
      <4>1. f \in {NoValue} \cup ledger.given
        BY <1>4, <1>6, <3>2 DEF SoundsInv, ObjectsGiven
      <4>2. QED
        BY <1>4, <4>1
    <3>3. CASE c = n
      BY <1>4, <2>2, <3>2, <3>3
    <3>4. CASE d = n
      BY <1>4, <2>2, <3>2, <3>4
    <3>5. QED
      BY <3>1, <3>3, <3>4
  <2>3. QED
    BY <2>1, <2>2 DEF ObjectsGiven
<1>10. ASSUME NEW j \in Making
       PROVE  Carries(making[j])'
  <2>1. CASE j = k
    BY <1>4, <2>1 DEF Carries
  <2>2. CASE j # k
    <3>1. making'[j] = making[j] /\ Carries(making[j])
      BY <1>4, <2>2 DEF SoundsInv
    <3>2. ASSUME making[j].pc = "object", NEW c \in Clip, Exists(c)', clip'[c].file = making[j].file
          PROVE  making[j].file \in ledger'.loose
      <4>1. CASE c = n
        BY <1>4, <3>1, <3>2, <4>1 DEF Carries
      <4>2. CASE c # n
        BY <1>4, <1>6, <3>1, <3>2, <4>2 DEF Carries
      <4>3. QED
        BY <4>1, <4>2
    <3>3. QED
      BY <1>4, <3>1, <3>2 DEF Carries
  <2>3. QED
    BY <2>1, <2>2
<1>11. QED
  BY <1>4, <1>7, <1>8, <1>9, <1>10 DEF SoundsInv

LEMMA DeleteStoryKeepsInv ==
    ASSUME SoundsInv, NEW k \in Making, NEW c \in Clip, NEW p \in Person,
           DeleteStory(k, c, p)
    PROVE  SoundsInv'
<1>1. SoundsTyped /\ ObjectsGiven
  BY DEF SoundsInv
<1>2. /\ SoundsTyped' /\ UNCHANGED <<track, favorites, bucket, ledger>>
      /\ Exists(c)
      /\ \A d \in Clip : Exists(d)' => Exists(d) /\ clip'[d] = clip[d] /\ d # c
      /\ making' # making => /\ making'[k].pc = "object"
                             /\ making'[k].file = clip[c].file /\ clip[c].file # NoValue
      /\ \A j \in Making : j # k => making'[j] = making[j]
  BY <1>1, DeleteStoryEffect
<1>3. making'[k] = making[k] \/ (Carries(making[k])' /\ making'[k].pc # "insert")
  <2>1. CASE making' = making
    BY <2>1
  <2>2. CASE making' # making
    <3>1. /\ making'[k].pc = "object" /\ making'[k].file = clip[c].file
          /\ clip[c].file # NoValue
      BY <1>2, <2>2
    <3>2. clip[c].file \in ledger.given
      BY <1>1, <1>2, <3>1 DEF ObjectsGiven
    <3>3. ASSUME NEW d \in Clip, Exists(d)', clip'[d].file = clip[c].file
          PROVE  clip[c].file \in ledger.loose
      BY <1>1, <1>2, <3>1, <3>3 DEF ObjectsGiven
    <3>4. QED
      BY <1>2, <3>1, <3>2, <3>3 DEF Carries
  <2>3. QED
    BY <2>1, <2>2
<1>4. QED
  BY <1>2, <1>3, QuietStep

(* No clip that exists loses an object that is kept for it.                *)
LEMMA DeleteFileKeepsInv ==
    ASSUME SoundsInv, NEW k \in Making, DeleteFile(k)
    PROVE  SoundsInv'
<1>1. SoundsTyped /\ Carries(making[k])
  BY DEF SoundsInv
<1>2. PICK f : f = making[k].file
  OBVIOUS
<1>3. /\ SoundsTyped' /\ UNCHANGED <<track, favorites, clip, ledger>>
      /\ making'[k].pc = "idle" /\ \A j \in Making : j # k => making'[j] = making[j]
      /\ making[k].pc = "object" /\ bucket' = bucket \ {f}
  BY <1>1, <1>2, StopEffect DEF DeleteFile
<1>4. /\ f \in ledger.given
      /\ \A c \in Clip : Exists(c) /\ clip[c].file = f => f \in ledger.loose
  BY <1>1, <1>2, <1>3 DEF Carries
<1>5. FavoritesCounted'
  BY <1>3, FavoritesStay DEF SoundsInv
<1>6. UsesCounted'
  <2>1. ASSUME NEW m \in Track
        PROVE  track[m].uses + ledger.uncounted[m] <= track'[m].uses + ledger'.uncounted[m]
    <3>1. track[m].uses \in Nat /\ ledger.uncounted[m] \in Nat
      BY <1>1 DEF SoundsTyped, TrackRow, Ledger
    <3>2. QED
      BY <1>3, <3>1
  <2>2. \A c \in Clip : Exists(c)' => Exists(c) /\ clip'[c].sound = clip[c].sound
    BY <1>3 DEF Exists
  <2>3. UsesCounted
    BY DEF SoundsInv
  <2>4. QED
    BY <1>1, <1>3, <2>1, <2>2, <2>3, UsesStay
<1>7. ObjectsGiven'
  BY <1>3, <1>4 DEF SoundsInv, ObjectsGiven, Exists
<1>8. ASSUME NEW j \in Making
      PROVE  Carries(making[j])'
  <2>1. CASE j = k
    BY <1>3, <2>1 DEF Carries
  <2>2. CASE j # k
    <3>1. making'[j] = making[j] /\ Carries(making[j])
      BY <1>3, <2>2 DEF SoundsInv
    <3>2. QED
      BY <1>3, <1>4, <3>1 DEF Carries, Exists
  <2>3. QED
    BY <2>1, <2>2
<1>9. QED
  BY <1>3, <1>5, <1>6, <1>7, <1>8 DEF SoundsInv

(* Objects come and go by other hands than a story's.                      *)
LEMMA BucketKeepsInv ==
    ASSUME SoundsInv, NEW f \in File, PutObject(f) \/ RemoveElsewhere(f)
    PROVE  SoundsInv'
<1>1. SoundsTyped
  BY DEF SoundsInv
<1>2. CASE PutObject(f)
  <2>1. /\ bucket \subseteq bucket'
        /\ UNCHANGED <<track, favorites, clip, making, ledger>>
    BY <1>2 DEF PutObject
  <2>2. SoundsTyped'
    BY <1>1, <2>1 DEF SoundsTyped
  <2>3. QED
    BY <2>1, <2>2, QuietStep DEF Exists
<1>3. CASE RemoveElsewhere(f)
  <2>1. PICK s \in SUBSET File : s = ledger.loose \cup {f}
    BY <1>1 DEF SoundsTyped, Ledger
  <2>2. /\ bucket' = bucket \ {f} /\ ledger' = [ledger EXCEPT !.loose = s]
        /\ UNCHANGED <<track, favorites, clip, making>>
    BY <1>3, <2>1 DEF RemoveElsewhere
  <2>3. /\ ledger' \in Ledger /\ ledger'.loose = ledger.loose \cup {f}
        /\ ledger'.gone = ledger.gone /\ ledger'.uncounted = ledger.uncounted
        /\ ledger'.given = ledger.given
    BY <1>1, <2>1, <2>2 DEF SoundsTyped, Ledger
  <2>4. SoundsTyped'
    BY <1>1, <2>2, <2>3 DEF SoundsTyped
  <2>5. FavoritesCounted'
    BY <2>2, <2>3, FavoritesStay DEF SoundsInv
  <2>6. UsesCounted'
    <3>1. ASSUME NEW m \in Track
          PROVE  track[m].uses + ledger.uncounted[m] <= track'[m].uses + ledger'.uncounted[m]
      <4>1. track[m].uses \in Nat /\ ledger.uncounted[m] \in Nat
        BY <1>1 DEF SoundsTyped, TrackRow, Ledger
      <4>2. QED
        BY <2>2, <2>3, <4>1
    <3>2. UsesCounted
      BY DEF SoundsInv
    <3>3. QED
      BY <1>1, <2>2, <2>4, <3>1, <3>2, UsesStay DEF Exists
  <2>7. ObjectsGiven'
    BY <2>2, <2>3 DEF SoundsInv, ObjectsGiven, Exists
  <2>8. \A j \in Making : Carries(making[j])'
    BY <2>2, <2>3, CarriesStays DEF SoundsInv, Exists
  <2>9. QED
    BY <2>4, <2>5, <2>6, <2>7, <2>8 DEF SoundsInv
<1>4. QED
  BY <1>2, <1>3

LEMMA LibraryKeepsInv ==
    ASSUME SoundsInv,
           \/ \E c \in Clip : Expire(c) \/ \E p \in Person : MarkViewed(c, p)
           \/ \E m \in Track : UploadMusic(m) \/ Tap(m)
    PROVE  SoundsInv'
<1>1. SoundsTyped
  BY DEF SoundsInv
<1>2. ASSUME NEW c \in Clip, Expire(c)
      PROVE  SoundsInv'
  <2>1. /\ SoundsTyped' /\ UNCHANGED <<track, favorites, bucket, making, ledger>>
        /\ \A d \in Clip : /\ Exists(d)' <=> Exists(d)
                           /\ clip'[d].sound = clip[d].sound
                           /\ clip'[d].file = clip[d].file
    BY <1>1, <1>2, ExpireEffect
  <2>2. QED
    BY <2>1, QuietStep
<1>3. ASSUME NEW c \in Clip, NEW p \in Person, MarkViewed(c, p)
      PROVE  SoundsInv'
  <2>1. UNCHANGED <<track, favorites, clip, bucket, making, ledger>>
    BY <1>3 DEF MarkViewed
  <2>2. SoundsTyped'
    BY <1>1, <2>1 DEF SoundsTyped
  <2>3. QED
    BY <2>1, <2>2, QuietStep DEF Exists
<1>4. ASSUME NEW m \in Track, NewTrack(m) \/ Use(m),
             UNCHANGED <<favorites, clip, bucket, making, ledger>>
      PROVE  SoundsInv'
  <2>1. /\ track' \in [Track -> TrackRow]
        /\ \A n \in Track : /\ track'[n].favorites = track[n].favorites
                            /\ track'[n].uses \in {track[n].uses, track[n].uses + 1}
    BY <1>1, <1>4, TrackMoves
  <2>2. SoundsTyped'
    BY <1>1, <1>4, <2>1 DEF SoundsTyped
  <2>3. QED
    BY <1>4, <2>1, <2>2, QuietStep DEF Exists
<1>5. QED
  BY <1>2, <1>3, <1>4 DEF UploadMusic, Tap

(* The favourites of a track, when one row comes or goes.                  *)
LEMMA FavoritesFinite ==
    ASSUME SoundsTyped, NEW m \in Track
    PROVE  /\ IsFiniteSet(FavoredBy(m)) /\ Cardinality(FavoredBy(m)) \in Nat
           /\ track[m].favorites \in Int /\ ledger.gone[m] \in Nat
<1>1. FavoredBy(m) \in SUBSET favorites
  BY DEF FavoredBy
<1>2. IsFiniteSet(FavoredBy(m))
  BY <1>1, FS_Subset DEF SoundsTyped
<1>3. QED
  BY <1>2, FS_CardinalityType DEF SoundsTyped, TrackRow, Ledger

LEMMA FavoriteKeepsInv ==
    ASSUME SoundsInv, NEW p \in Person, NEW m \in Track,
           Favorite(p, m) \/ Unfavorite(p, m)
    PROVE  SoundsInv'
<1>1. SoundsTyped /\ FavoritesCounted
  BY DEF SoundsInv
<1>2. UNCHANGED <<clip, bucket, making, ledger>>
  BY DEF Favorite, Unfavorite
<1>3. PICK d \in {-1, 1} :
        /\ Favored(m, d)
        /\ d = 1 => <<p, m>> \notin favorites /\ favorites' = favorites \cup {<<p, m>>}
        /\ d = -1 => <<p, m>> \in favorites /\ favorites' = favorites \ {<<p, m>>}
  BY DEF Favorite, Unfavorite
<1>4. /\ track' \in [Track -> TrackRow]
      /\ track'[m].favorites = track[m].favorites + d
      /\ \A n \in Track : /\ n # m => track'[n].favorites = track[n].favorites
                          /\ track'[n].uses = track[n].uses
  BY <1>1, <1>3, TrackMoves
<1>5. SoundsTyped'
  <2>1. IsFiniteSet(favorites')
    BY <1>1, <1>3, FS_AddElement, FS_RemoveElement DEF SoundsTyped
  <2>2. favorites' \subseteq Person \X Track
    BY <1>1, <1>3 DEF SoundsTyped
  <2>3. QED
    BY <1>1, <1>2, <1>4, <2>1, <2>2 DEF SoundsTyped
<1>6. FavoritesCounted'
  <2>1. ASSUME NEW n \in Track, n # m
        PROVE  track'[n].favorites = Cardinality(FavoredBy(n)') + ledger'.gone[n]
    <3>1. FavoredBy(n)' = FavoredBy(n)
      BY <1>3, <2>1 DEF FavoredBy
    <3>2. QED
      BY <1>1, <1>2, <1>4, <2>1, <3>1 DEF FavoritesCounted
  <2>2. /\ track[m].favorites = Cardinality(FavoredBy(m)) + ledger.gone[m]
        /\ Cardinality(FavoredBy(m)) \in Nat /\ ledger.gone[m] \in Nat
        /\ IsFiniteSet(FavoredBy(m)) /\ ledger'.gone[m] = ledger.gone[m]
        /\ track'[m].favorites = track[m].favorites + d
    BY <1>1, <1>2, <1>4, FavoritesFinite DEF FavoritesCounted
  <2>3. Cardinality(FavoredBy(m)') = Cardinality(FavoredBy(m)) + d
    <3>1. CASE d = 1
      <4>1. FavoredBy(m)' = FavoredBy(m) \cup {<<p, m>>} /\ <<p, m>> \notin FavoredBy(m)
        BY <1>3, <3>1 DEF FavoredBy
      <4>2. QED
        BY <2>2, <3>1, <4>1, FS_AddElement
    <3>2. CASE d = -1
      <4>1. FavoredBy(m)' = FavoredBy(m) \ {<<p, m>>} /\ <<p, m>> \in FavoredBy(m)
        BY <1>3, <3>2 DEF FavoredBy
      <4>2. Cardinality(FavoredBy(m)') = Cardinality(FavoredBy(m)) - 1
        BY <2>2, <4>1, FS_RemoveElement
      <4>3. QED
        BY <2>2, <3>2, <4>2
    <3>3. QED
      BY <3>1, <3>2
  <2>4. track'[m].favorites = Cardinality(FavoredBy(m)') + ledger'.gone[m]
    BY <2>2, <2>3
  <2>5. QED
    BY <2>1, <2>4 DEF FavoritesCounted
<1>7. UsesCounted'
  <2>1. \A n \in Track : /\ track[n].uses + ledger.uncounted[n]
                              <= track'[n].uses + ledger'.uncounted[n]
    <3>1. ASSUME NEW n \in Track
          PROVE  track[n].uses + ledger.uncounted[n] <= track'[n].uses + ledger'.uncounted[n]
      <4>1. track[n].uses \in Nat /\ ledger.uncounted[n] \in Nat
        BY <1>1 DEF SoundsTyped, TrackRow, Ledger
      <4>2. track'[n].uses = track[n].uses /\ ledger'.uncounted[n] = ledger.uncounted[n]
        BY <1>2, <1>4
      <4>3. QED
        BY <4>1, <4>2
    <3>2. QED
      BY <3>1
  <2>2. UsesCounted
    BY DEF SoundsInv
  <2>3. QED
    BY <1>1, <1>2, <1>5, <2>1, <2>2, UsesStay DEF Exists
<1>8. ObjectsGiven'
  BY <1>2, ObjectsStay DEF SoundsInv, Exists
<1>9. \A j \in Making : Carries(making[j])'
  BY <1>2, CarriesStays DEF SoundsInv, Exists
<1>10. QED
  BY <1>5, <1>6, <1>7, <1>8, <1>9 DEF SoundsInv

LEMMA DeletePersonKeepsInv ==
    ASSUME SoundsInv, NEW p \in Person, DeletePerson(p)
    PROVE  SoundsInv'
<1>1. SoundsTyped /\ FavoritesCounted /\ UsesCounted
  BY DEF SoundsInv
<1>2. /\ SoundsTyped' /\ UNCHANGED <<track, bucket, making>>
      /\ \A d \in Clip : Exists(d)' => Exists(d) /\ clip'[d] = clip[d]
      /\ favorites' = {f \in favorites : f[1] # p}
      /\ \A m \in Track : ledger'.gone[m] =
            IF <<p, m>> \in favorites THEN ledger.gone[m] + 1 ELSE ledger.gone[m]
      /\ ledger'.uncounted = ledger.uncounted /\ ledger'.given = ledger.given
      /\ ledger'.loose = ledger.loose
  BY <1>1, DeletePersonEffect
<1>3. FavoritesCounted'
  <2>1. ASSUME NEW m \in Track
        PROVE  track'[m].favorites = Cardinality(FavoredBy(m)') + ledger'.gone[m]
    <3>1. FavoredBy(m)' = FavoredBy(m) \ {<<p, m>>}
          /\ (<<p, m>> \in FavoredBy(m) <=> <<p, m>> \in favorites)
      <4>1. \A f \in favorites : f[2] = m /\ f[1] = p <=> f = <<p, m>>
        BY <1>1 DEF SoundsTyped
      <4>2. QED
        BY <1>2, <4>1 DEF FavoredBy
    <3>2. /\ track[m].favorites = Cardinality(FavoredBy(m)) + ledger.gone[m]
          /\ Cardinality(FavoredBy(m)) \in Nat /\ ledger.gone[m] \in Nat
          /\ IsFiniteSet(FavoredBy(m)) /\ track'[m].favorites = track[m].favorites
      BY <1>1, <1>2, FavoritesFinite DEF FavoritesCounted
    <3>3. CASE <<p, m>> \in favorites
      <4>1. Cardinality(FavoredBy(m)') = Cardinality(FavoredBy(m)) - 1
        BY <3>1, <3>2, <3>3, FS_RemoveElement
      <4>2. ledger'.gone[m] = ledger.gone[m] + 1
        BY <1>2, <3>3
      <4>3. QED
        BY <3>2, <4>1, <4>2
    <3>4. CASE <<p, m>> \notin favorites
      <4>1. FavoredBy(m)' = FavoredBy(m)
        BY <3>1, <3>4
      <4>2. QED
        BY <1>2, <3>2, <3>4, <4>1
    <3>5. QED
      BY <3>3, <3>4
  <2>2. QED
    BY <2>1 DEF FavoritesCounted
<1>4. UsesCounted'
  <2>1. ASSUME NEW n \in Track
        PROVE  track[n].uses + ledger.uncounted[n] <= track'[n].uses + ledger'.uncounted[n]
    <3>1. track[n].uses \in Nat /\ ledger.uncounted[n] \in Nat
      BY <1>1 DEF SoundsTyped, TrackRow, Ledger
    <3>2. QED
      BY <1>2, <3>1
  <2>2. QED
    BY <1>1, <1>2, <2>1, UsesStay
<1>5. ObjectsGiven'
  BY <1>2, ObjectsStay DEF SoundsInv
<1>6. \A j \in Making : Carries(making[j])'
  BY <1>2, CarriesStays DEF SoundsInv
<1>7. QED
  BY <1>2, <1>3, <1>4, <1>5, <1>6 DEF SoundsInv

LEMMA SoundsStep == SoundsInv /\ [SoundsNext]_soundsVars => SoundsInv'
<1> SUFFICES ASSUME SoundsInv, [SoundsNext]_soundsVars PROVE SoundsInv'
  OBVIOUS
<1>1. CASE UNCHANGED soundsVars
  <2>1. UNCHANGED <<track, favorites, clip, bucket, making, ledger>>
    BY <1>1 DEF soundsVars
  <2>2. SoundsTyped'
    BY <2>1 DEF SoundsInv, SoundsTyped
  <2>3. QED
    BY <2>1, <2>2, QuietStep DEF Exists
<1>2. ASSUME NEW k \in Making,
             \/ \E c \in Clip, p \in Person :
                  \/ \E kind \in {"story", "post"} : Create(k, c, kind, p)
                  \/ DeleteStory(k, c, p)
             \/ ResolveSound(k) \/ CountUse(k) \/ InsertClip(k)
             \/ DeleteFile(k) \/ Abandon(k)
      PROVE  SoundsInv'
  BY <1>2, MakingKeepsInv, CountUseKeepsInv, InsertClipKeepsInv, DeleteStoryKeepsInv,
     DeleteFileKeepsInv
<1>3. CASE \/ \E c \in Clip : Expire(c) \/ \E p \in Person : MarkViewed(c, p)
           \/ \E m \in Track : UploadMusic(m) \/ Tap(m)
  BY <1>3, LibraryKeepsInv
<1>4. ASSUME NEW p \in Person,
             DeletePerson(p) \/ \E m \in Track : Favorite(p, m) \/ Unfavorite(p, m)
      PROVE  SoundsInv'
  BY <1>4, DeletePersonKeepsInv, FavoriteKeepsInv
<1>5. CASE \E f \in File : PutObject(f) \/ RemoveElsewhere(f)
  BY <1>5, BucketKeepsInv
<1>6. QED
  BY <1>1, <1>2, <1>3, <1>4, <1>5 DEF SoundsNext

LEMMA SoundsInvariant == SoundsSpec => []SoundsInv
<1>1. QED
  BY SoundsInit_Inv, SoundsStep, PTL DEF SoundsSpec

(* favoriteCount is the number of favourites but for those of deleted      *)
(* accounts, and useCount is at least the number of clips with the sound   *)
(* but for the uses whose counting failed (MusicService.favorite, use;     *)
(* the create of posts and stories), for any number of requests.           *)
THEOREM LibraryCountsFollowRows == SoundsSpec => []SoundCountsFollowRows
<1>1. SoundsInv => SoundCountsFollowRows
  <2> SUFFICES ASSUME SoundsInv, NEW m \in Track
               PROVE  /\ track[m].favorites =
                           Cardinality({f \in favorites : f[2] = m}) + ledger.gone[m]
                      /\ Cardinality({c \in Clip : Exists(c) /\ clip[c].sound = m})
                           <= track[m].uses + ledger.uncounted[m]
    BY DEF SoundCountsFollowRows
  <2>1. track[m].favorites = Cardinality({f \in favorites : f[2] = m}) + ledger.gone[m]
    BY DEF SoundsInv, FavoritesCounted, FavoredBy
  <2>2. {c \in Clip : Exists(c) /\ clip[c].sound = m} \in SUBSET ClipsWith(m)
    BY DEF ClipsWith
  <2>3. /\ IsFiniteSet({c \in Clip : Exists(c) /\ clip[c].sound = m})
        /\ Cardinality({c \in Clip : Exists(c) /\ clip[c].sound = m}) <= Cardinality(ClipsWith(m))
    BY <2>2, ClipsFinite, FS_Subset
  <2>4. /\ Cardinality(ClipsWith(m)) <= track[m].uses + ledger.uncounted[m]
        /\ track[m].uses \in Nat /\ ledger.uncounted[m] \in Nat
    BY DEF SoundsInv, UsesCounted, SoundsTyped, TrackRow, Ledger
  <2>5. /\ Cardinality(ClipsWith(m)) \in Nat
        /\ Cardinality({c \in Clip : Exists(c) /\ clip[c].sound = m}) \in Nat
    BY <2>3, ClipsFinite, FS_CardinalityType
  <2>6. QED
    BY <2>1, <2>3, <2>4, <2>5
<1>2. QED
  BY <1>1, SoundsInvariant, PTL

(* An object that was stored when a story's row named it is in the bucket  *)
(* as long as the row exists, whatever fails or interleaves, unless        *)
(* clients gave one object to two stories or another feature removed it    *)
(* (StoriesService.delete removes the row first and the object after), for *)
(* any number of requests and uploads.                                     *)
THEOREM ObjectOutlivesStory == SoundsSpec => []StoryKeepsItsObject
<1>1. SoundsInv => StoryKeepsItsObject
  BY DEF SoundsInv, ObjectsGiven, StoryKeepsItsObject
<1>2. QED
  BY <1>1, SoundsInvariant, PTL

-----------------------------------------------------------------------------
(* Paging.                                                                 *)

(* Where the cursor is a row, no two rows of the list have one time.       *)
OrderIsTotal ==
    walk.list \notin Dated =>
        /\ \A r \in Listed : at[r] < clock
        /\ \A r, s \in Listed : at[r] = at[s] => r = s

(* The walk has not begun, or has not read a page.                         *)
AtStart == used = {} \/ walk.cursor = Start

CursorWasSent ==
    /\ used = {} => walk.cursor = End
    /\ used # {} /\ walk.cursor # End => walk.cursor \in used

(* Where the cursor is a row, that row is on the list until it is erased.  *)
CursorIsListed ==
    walk.list \notin Dated /\ ~astray /\ walk.cursor \notin {Start, End}
        => walk.cursor \in Listed

(* The row of the cursor was erased, and may be on the list again.         *)
Strayed == walk.list = "liked" /\ astray

(* Rows are served at most once, and what was served is not to come.       *)
ServedIsBehind ==
    \A r \in Row :
        /\ AtStart => times[r] = 0
        /\ ~Strayed => /\ times[r] \in {0, 1}
                       /\ times[r] = 1 /\ walk.cursor # End
                            => r \notin AfterCursor(walk.cursor)

(* A row that was on the list all the time was served, was lost at a       *)
(* cursor, or is still to come.                                            *)
SteadyIsServed ==
    \A r \in steady :
        \/ used = {}
        \/ astray \/ times[r] = 1 \/ LostAtCursor(r)
        \/ walk.cursor # End /\ r \in AfterCursor(walk.cursor)

PagingInv ==
    /\ PagingTypeOK
    /\ steady \subseteq Listed
    /\ OrderIsTotal
    /\ CursorWasSent
    /\ CursorIsListed
    /\ ServedIsBehind
    /\ SteadyIsServed

LEMMA PagingInit_Inv == PagingInit => PagingInv
<1> SUFFICES ASSUME PagingInit PROVE PagingInv
  OBVIOUS
<1>1. PagingTypeOK
  <2>1. walk \in [list : List, cursor : Cursor]
    BY DEF PagingInit, Cursor
  <2>2. at \in [Row -> 0..MaxStamp] /\ times \in [Row -> Nat] /\ clock \in 1..MaxStamp
    BY PagingAssumption DEF PagingInit
  <2>3. QED
    BY <2>1, <2>2 DEF PagingInit, PagingTypeOK
<1>2. Listed = {} /\ steady = {} /\ used = {} /\ walk.cursor = End
  BY DEF PagingInit, Listed
<1>3. QED
  BY <1>1, <1>2 DEF PagingInit, PagingInv, OrderIsTotal, CursorWasSent, ServedIsBehind,
     CursorIsListed, SteadyIsServed, Listed

(* The order of a list, also among rows of one time. *)
LEMMA ListOrder ==
    ASSUME PagingTypeOK, NEW r \in Row, NEW s \in Row, NEW t \in Row
    PROVE  /\ ~Before(r, r)
           /\ Before(r, s) /\ ~Before(r, t) => Before(t, s)
           /\ Before(r, s) /\ Before(s, t) => Before(r, t)
           /\ Before(r, s) => ~Before(s, r)
<1>1. at[r] \in Int /\ at[s] \in Int /\ at[t] \in Int
  BY DEF PagingTypeOK
<1>2. QED
  BY <1>1 DEF Before

LEMMA RowsAreFinite ==
    ASSUME NEW S \in SUBSET Row
    PROVE  IsFiniteSet(S) /\ Cardinality(S) \in Nat
<1>1. IsFiniteSet(Row)
  BY PagingAssumption, FS_Interval DEF Row
<1>2. QED
  BY <1>1, FS_Subset, FS_CardinalityType

(* The first rows are all of them when there are no more than asked for.   *)
LEMMA FirstsAre ==
    ASSUME NEW n \in Nat, NEW S \in SUBSET Row, NEW T \in Firsts(n, S)
    PROVE  /\ T \subseteq S
           /\ Cardinality(T) \in Nat /\ Cardinality(T) <= n
           /\ T # S => Cardinality(T) = n
           /\ Cardinality(S) <= n => T = S
           /\ \A r \in T, s \in S \ T : ~Before(s, r)
<1>1. /\ T \subseteq S
      /\ Cardinality(T) = IF Cardinality(S) < n THEN Cardinality(S) ELSE n
      /\ \A r \in T, s \in S \ T : ~Before(s, r)
  BY DEF Firsts
<1>2. IsFiniteSet(S) /\ Cardinality(S) \in Nat
  BY RowsAreFinite
<1>3. Cardinality(T) = Cardinality(S) => T = S
  BY <1>1, <1>2, FS_Subset
<1>4. QED
  BY <1>1, <1>2, <1>3

(* A row that its own query leaves out comes after all rows of the merge.  *)
LEMMA LeftOutComesAfter ==
    ASSUME PagingTypeOK, NEW n \in Nat, NEW V \in SUBSET Row, NEW W \in Firsts(n, V),
           NEW Z \in SUBSET Row, W \subseteq Z, NEW rows \in Firsts(n, Z),
           NEW r \in V \ W, NEW x \in rows
    PROVE  ~Before(r, x)
<1> SUFFICES ASSUME Before(r, x) PROVE FALSE
  OBVIOUS
<1>1. /\ W \subseteq V /\ Cardinality(W) = n
      /\ \A t \in W : ~Before(r, t)
  BY FirstsAre
<1>2. /\ rows \subseteq Z /\ Cardinality(rows) <= n
      /\ \A y \in rows, z \in Z \ rows : ~Before(z, y)
  BY FirstsAre
<1>3. \A t \in W : Before(t, x)
  BY <1>1, <1>2, ListOrder
<1>4. W \subseteq rows /\ x \notin W
  BY <1>1, <1>2, <1>3, ListOrder
<1>5. IsFiniteSet(W) /\ IsFiniteSet(rows) /\ W \cup {x} \subseteq rows
  BY <1>1, <1>2, <1>4, RowsAreFinite
<1>6. Cardinality(W \cup {x}) = n + 1
  BY <1>1, <1>4, <1>5, FS_AddElement
<1>7. Cardinality(W \cup {x}) <= Cardinality(rows)
  BY <1>5, FS_Subset
<1>8. Cardinality(rows) \in Nat
  BY <1>5, FS_CardinalityType
<1>9. QED
  BY <1>2, <1>6, <1>7, <1>8

(* What a query returns, the feed's merge of two included: every row that  *)
(* it leaves out comes after all that it returns.                          *)
LEMMA FetchedAreFirst ==
    ASSUME PagingTypeOK, NEW S \in SUBSET Row, NEW rows \in Fetched(S)
    PROVE  /\ rows \subseteq S
           /\ Cardinality(rows) \in Nat /\ Cardinality(rows) <= Take + 1
           /\ Cardinality(rows) <= Take => rows = S
           /\ \A r \in S \ rows, x \in rows : ~Before(r, x)
<1>1. Take \in Nat /\ Take + 1 \in Nat /\ Take # Take + 1
  BY PagingAssumption
<1>2. CASE walk.list # "feed"
  <2>1. rows \in Firsts(Take + 1, S)
    BY <1>2 DEF Fetched
  <2>2. QED
    BY <1>1, <2>1, FirstsAre
<1>3. CASE walk.list = "feed"
  <2> DEFINE P == {r \in S : source[r] = "post"}
             Q == {r \in S : source[r] = "repost"}
  <2>1. P \in SUBSET Row /\ Q \in SUBSET Row /\ S = P \cup Q
    BY DEF PagingTypeOK
  <2>2. PICK T \in Firsts(Take + 1, P), U \in Firsts(Take + 1, Q) :
           rows \in Firsts(Take + 1, T \cup U)
    BY <1>3 DEF Fetched
  <2> HIDE DEF P, Q
  <2>3. /\ T \subseteq P /\ U \subseteq Q /\ T \cup U \in SUBSET Row
        /\ T # P => Cardinality(T) = Take + 1
        /\ U # Q => Cardinality(U) = Take + 1
    BY <1>1, <2>1, FirstsAre
  <2>4. /\ rows \subseteq T \cup U
        /\ Cardinality(rows) \in Nat /\ Cardinality(rows) <= Take + 1
        /\ rows # T \cup U => Cardinality(rows) = Take + 1
        /\ \A x \in rows, r \in (T \cup U) \ rows : ~Before(r, x)
    BY <1>1, <2>2, <2>3, FirstsAre
  <2>5. ASSUME Cardinality(rows) <= Take PROVE rows = S
    <3>1. rows = T \cup U
      BY <1>1, <2>4, <2>5
    <3>2. Cardinality(T) <= Take /\ Cardinality(U) <= Take
      <4>1. IsFiniteSet(T \cup U)
        BY <2>3, RowsAreFinite
      <4>2. Cardinality(T) <= Cardinality(T \cup U) /\ Cardinality(U) <= Cardinality(T \cup U)
        BY <4>1, FS_Subset
      <4>3. Cardinality(T) \in Nat /\ Cardinality(U) \in Nat
        BY <2>1, <2>3, RowsAreFinite
      <4>4. QED
        BY <1>1, <2>4, <2>5, <3>1, <4>2, <4>3
    <3>3. T = P /\ U = Q
      BY <1>1, <2>3, <3>2
    <3>4. QED
      BY <2>1, <3>1, <3>3
  <2>6. ASSUME NEW r \in S \ rows, NEW x \in rows
        PROVE  ~Before(r, x)
    <3>1. CASE r \in T \cup U
      BY <2>4, <2>6, <3>1
    <3>2. CASE r \in P \ T
      BY <1>1, <2>1, <2>2, <2>3, <3>2, LeftOutComesAfter
    <3>3. CASE r \in Q \ U
      BY <1>1, <2>1, <2>2, <2>3, <3>3, LeftOutComesAfter
    <3>4. QED
      BY <2>1, <2>6, <3>1, <3>2, <3>3
  <2>7. QED
    BY <2>1, <2>3, <2>4, <2>5, <2>6
<1>4. QED
  BY <1>2, <1>3

(* A page: everything when nothing is beyond it, and otherwise all it      *)
(* leaves out comes after it; one more row than the page was fetched.      *)
LEMMA PageIsFirst ==
    ASSUME PagingTypeOK, NEW S \in SUBSET Row, NEW rows \in Fetched(S),
           NEW page \in Firsts(Take, rows)
    PROVE  /\ page \subseteq rows /\ rows \subseteq S
           /\ Cardinality(rows) <= Take => page = S
           /\ \A r \in S \ page, x \in page : ~Before(r, x)
           /\ \A r \in S \ rows, x \in rows : ~Before(r, x)
           /\ \A r, x \in rows \ page : r = x
<1>1. /\ rows \subseteq S
      /\ Cardinality(rows) \in Nat /\ Cardinality(rows) <= Take + 1
      /\ Cardinality(rows) <= Take => rows = S
      /\ \A r \in S \ rows, x \in rows : ~Before(r, x)
  BY FetchedAreFirst
<1>2. /\ page \subseteq rows
      /\ Cardinality(page) \in Nat /\ Cardinality(page) <= Take
      /\ page # rows => Cardinality(page) = Take
      /\ Cardinality(rows) <= Take => page = rows
      /\ \A x \in page, r \in rows \ page : ~Before(r, x)
  BY <1>1, FirstsAre, PagingAssumption
<1>3. ASSUME NEW r \in rows \ page, NEW x \in rows \ page PROVE r = x
  <2> SUFFICES ASSUME r # x PROVE FALSE
    OBVIOUS
  <2>1. IsFiniteSet(page) /\ IsFiniteSet(rows) /\ page \cup {r} \cup {x} \subseteq rows
    BY <1>1, <1>2, RowsAreFinite
  <2>2. IsFiniteSet(page \cup {r}) /\ Cardinality(page \cup {r}) = Cardinality(page) + 1
    BY <1>3, <2>1, FS_AddElement
  <2>3. Cardinality(page \cup {r} \cup {x}) = Cardinality(page \cup {r}) + 1
    BY <1>3, <2>2, FS_AddElement
  <2>4. Cardinality(page \cup {r} \cup {x}) <= Cardinality(rows)
    BY <2>1, FS_Subset
  <2>5. Cardinality(page) = Take
    BY <1>2, <1>3
  <2>6. QED
    BY <1>1, <2>2, <2>3, <2>4, <2>5, PagingAssumption
<1>4. QED
  BY <1>1, <1>2, <1>3

(* Whether a row is still to come depends on that row and on the cursor's. *)
LEMMA ComesAfterStays ==
    ASSUME UNCHANGED walk, NEW c, NEW s \in Row, at'[s] = at[s],
           c = Start \/ walk.list \in Dated \/ (c \in Listed)' = (c \in Listed),
           c \in Listed => c = Start \/ walk.list \in Dated \/ at'[c] = at[c]
    PROVE  (s \in AfterCursor(c))' <=> s \in AfterCursor(c)
<1>1. (s \in Listed)' <=> s \in Listed
  BY DEF Listed
<1>2. CASE c = Start
  BY <1>1, <1>2 DEF AfterCursor
<1>3. CASE c # Start /\ walk.list \in Dated
  BY <1>1, <1>3 DEF AfterCursor
<1>4. CASE c # Start /\ walk.list \notin Dated
  BY <1>1, <1>4 DEF AfterCursor, Before
<1>5. QED
  BY <1>2, <1>3, <1>4

LEMMA WriteKeepsPagingInv ==
    ASSUME PagingInv, NEW r \in Row, Write(r)
    PROVE  PagingInv'
<1>0. PICK c : c = walk.cursor
  OBVIOUS
<1>1. /\ c # Start /\ at[r] = 0
      /\ walk.list # "liked" => times[r] = 0 /\ (walk.list \in Dated \/ r \notin used)
      /\ clock' <= MaxStamp /\ clock' \in {clock, clock + 1}
      /\ walk.list \notin Dated => clock' = clock + 1
      /\ UNCHANGED <<source, walk, times, steady, used, astray>>
  BY <1>0 DEF Write
<1>2. /\ clock \in 1..MaxStamp /\ clock' \in 1..MaxStamp
      /\ at \in [Row -> 0..MaxStamp]
  BY <1>1, PagingAssumption DEF PagingInv, PagingTypeOK
<1>3. /\ at' \in [Row -> 0..MaxStamp] /\ at'[r] = clock
      /\ \A s \in Row : s # r => at'[s] = at[s]
  BY <1>2 DEF Write
<1>4. r \notin Listed /\ Listed' = Listed \cup {r} /\ r \notin steady
  BY <1>1, <1>2, <1>3 DEF Listed, PagingInv
<1>5. PagingTypeOK'
  BY <1>1, <1>2, <1>3 DEF PagingInv, PagingTypeOK
<1>6. OrderIsTotal'
  <2> SUFFICES ASSUME walk.list \notin Dated PROVE OrderIsTotal'
    BY <1>1 DEF OrderIsTotal
  <2>1. \A s \in Listed : at'[s] = at[s] /\ at[s] < clock /\ at[s] \in Int /\ s # r
    BY <1>2, <1>3, <1>4 DEF PagingInv, OrderIsTotal, Listed
  <2>2. \A s \in Listed' : at'[s] < clock'
    BY <1>1, <1>2, <1>3, <1>4, <2>1
  <2>3. \A s, t \in Listed' : at'[s] = at'[t] => s = t
    BY <1>2, <1>3, <1>4, <2>1 DEF PagingInv, OrderIsTotal
  <2>4. QED
    BY <2>2, <2>3 DEF OrderIsTotal
<1>7. CursorWasSent' /\ CursorIsListed'
  BY <1>1, <1>4 DEF PagingInv, CursorWasSent, CursorIsListed
<1>8. ASSUME NEW s \in Row, s # r, c # End, used # {}, ~Strayed
      PROVE  /\ walk.list \in Dated \/ c # r
             /\ (s \in AfterCursor(c))' <=> s \in AfterCursor(c)
  <2>1. walk.list \in Dated \/ c # r
    <3>1. CASE walk.list = "liked"
      <4>1. c \in Listed
        BY <1>0, <1>1, <1>8, <3>1 DEF PagingInv, CursorIsListed, Strayed, Dated
      <4>2. QED
        BY <1>4, <4>1
    <3>2. CASE walk.list # "liked"
      BY <1>0, <1>1, <1>8, <3>2 DEF PagingInv, CursorWasSent
    <3>3. QED
      BY <3>1, <3>2
  <2>2. walk.list \in Dated \/ (c \in Listed)' = (c \in Listed)
    BY <1>4, <2>1
  <2>3. c \in Listed => walk.list \in Dated \/ at'[c] = at[c]
    BY <1>3, <2>1 DEF Listed
  <2>4. UNCHANGED walk /\ at'[s] = at[s]
    BY <1>1, <1>3, <1>8
  <2>5. QED
    BY <2>1, <2>2, <2>3, <2>4, ComesAfterStays
<1>9. ServedIsBehind'
  <2>1. AtStart' = AtStart /\ (Strayed' <=> Strayed)
    BY <1>1 DEF AtStart, Strayed
  <2> SUFFICES ASSUME NEW s \in Row, times[s] = 1, c # End, ~Strayed
               PROVE  (s \notin AfterCursor(c))'
    BY <1>0, <1>1, <2>1 DEF PagingInv, ServedIsBehind
  <2>2. used # {} /\ s \notin AfterCursor(c)
    BY <1>0 DEF PagingInv, ServedIsBehind, AtStart
  <2>3. CASE s # r
    <3>1. (s \in AfterCursor(c))' <=> s \in AfterCursor(c)
      BY <1>8, <2>2, <2>3
    <3>2. QED
      BY <2>2, <3>1
  (* The row of the cursor is older than one that is on the list again.    *)
  <2>4. CASE s = r
    <3>1. walk.list = "liked" /\ walk'.list = "liked" /\ walk.list \notin Dated
      BY <1>1, <2>4 DEF Dated
    <3>2. c \in Listed /\ c \in Row /\ c # r
      BY <1>0, <1>1, <1>4, <3>1 DEF PagingInv, CursorIsListed, Strayed, Listed
    <3>3. at'[c] = at[c] /\ at[c] < clock /\ at[c] \in Int /\ at'[r] = clock /\ clock \in Int
      BY <1>2, <1>3, <3>1, <3>2 DEF PagingInv, OrderIsTotal
    <3>4. ~Before(c, r)'
      BY <3>1, <3>3 DEF Before
    <3>5. QED
      BY <1>1, <2>4, <3>1, <3>4 DEF AfterCursor
  <2>5. QED
    BY <2>3, <2>4
<1>10. SteadyIsServed'
  <2> SUFFICES ASSUME NEW s \in steady, used # {}, ~astray
               PROVE  \/ times[s] = 1 \/ LostAtCursor(s)'
                      \/ c # End /\ (s \in AfterCursor(c))'
    BY <1>0, <1>1 DEF SteadyIsServed
  <2>1. s \in Row /\ s # r /\ at'[s] = at[s]
    BY <1>3, <1>4 DEF PagingInv, PagingTypeOK
  <2>2. LostAtCursor(s)' <=> LostAtCursor(s)
    BY <1>1, <2>1 DEF LostAtCursor
  <2>3. c # End => ((s \in AfterCursor(c))' <=> s \in AfterCursor(c))
    BY <1>8, <2>1 DEF Strayed
  <2>4. QED
    BY <1>0, <2>2, <2>3 DEF PagingInv, SteadyIsServed
<1>11. steady' \subseteq Listed'
  BY <1>1, <1>4 DEF PagingInv
<1>12. QED
  BY <1>5, <1>6, <1>7, <1>9, <1>10, <1>11 DEF PagingInv

LEMMA EraseKeepsPagingInv ==
    ASSUME PagingInv, NEW r \in Row, Erase(r)
    PROVE  PagingInv'
<1>0. PICK c : c = walk.cursor
  OBVIOUS
<1>1. /\ r \in Listed /\ steady' = steady \ {r}
      /\ astray' = (astray \/ (walk.list \notin Dated /\ r = c))
      /\ UNCHANGED <<source, clock, walk, times, used>>
  BY <1>0 DEF Erase
<1>2. /\ at \in [Row -> 0..MaxStamp] /\ at' \in [Row -> 0..MaxStamp] /\ at'[r] = 0
      /\ \A s \in Row : s # r => at'[s] = at[s]
  BY PagingAssumption DEF Erase, PagingInv, PagingTypeOK
<1>3. Listed' = Listed \ {r}
  BY <1>2 DEF Listed
<1>4. PagingTypeOK'
  BY <1>1, <1>2 DEF PagingInv, PagingTypeOK
<1>5. OrderIsTotal'
  BY <1>1, <1>2, <1>3 DEF PagingInv, OrderIsTotal, Listed
<1>6. CursorWasSent' /\ CursorIsListed'
  BY <1>0, <1>1, <1>3 DEF PagingInv, CursorWasSent, CursorIsListed
<1>7. ASSUME NEW s \in Row, s # r
      PROVE  \/ (s \in AfterCursor(c))' <=> s \in AfterCursor(c)
             \/ c = r /\ c # Start /\ walk.list \notin Dated
  <2> SUFFICES ASSUME c # r \/ c = Start \/ walk.list \in Dated
               PROVE  (s \in AfterCursor(c))' <=> s \in AfterCursor(c)
    OBVIOUS
  <2>1. c = Start \/ walk.list \in Dated \/ (c \in Listed)' = (c \in Listed)
    BY <1>3
  <2>2. c \in Listed => c = Start \/ walk.list \in Dated \/ at'[c] = at[c]
    BY <1>2 DEF Listed
  <2>3. UNCHANGED walk /\ at'[s] = at[s]
    BY <1>1, <1>2, <1>7
  <2>4. QED
    BY <2>1, <2>2, <2>3, ComesAfterStays
<1>8. c = r /\ c # Start /\ walk.list \notin Dated => (AfterCursor(c) = {})'
  BY <1>1, <1>3 DEF AfterCursor
<1>9. ServedIsBehind'
  <2>1. AtStart' = AtStart /\ (~Strayed' => ~Strayed)
    BY <1>1 DEF AtStart, Strayed
  <2> SUFFICES ASSUME NEW s \in Row, times[s] = 1, c # End, ~Strayed
               PROVE  (s \notin AfterCursor(c))'
    BY <1>0, <1>1, <2>1 DEF PagingInv, ServedIsBehind
  <2>2. s \notin AfterCursor(c)
    BY <1>0 DEF PagingInv, ServedIsBehind
  <2>3. CASE s = r
    BY <1>1, <1>3, <2>3 DEF AfterCursor
  <2>4. CASE s # r
    BY <1>7, <1>8, <2>2, <2>4
  <2>5. QED
    BY <2>3, <2>4
<1>10. SteadyIsServed'
  <2> SUFFICES ASSUME NEW s \in steady, s # r, used # {}, ~astray'
               PROVE  \/ times[s] = 1 \/ LostAtCursor(s)'
                      \/ c # End /\ (s \in AfterCursor(c))'
    BY <1>0, <1>1 DEF SteadyIsServed
  <2>1. s \in Row /\ at'[s] = at[s]
    BY <1>2 DEF PagingInv, PagingTypeOK
  <2>2. LostAtCursor(s)' <=> LostAtCursor(s)
    BY <1>1, <2>1 DEF LostAtCursor
  <2>3. (s \in AfterCursor(c))' <=> s \in AfterCursor(c)
    BY <1>1, <1>7, <2>1
  <2>4. QED
    BY <1>0, <1>1, <2>2, <2>3 DEF PagingInv, SteadyIsServed
<1>11. steady' \subseteq Listed'
  BY <1>1, <1>3 DEF PagingInv
<1>12. QED
  BY <1>4, <1>5, <1>6, <1>9, <1>10, <1>11 DEF PagingInv

LEMMA OpenKeepsPagingInv ==
    ASSUME PagingInv, Open
    PROVE  PagingInv'
<1>1. /\ walk.cursor = End /\ used = {} /\ steady' = Listed /\ used' = {Start}
      /\ walk' = [walk EXCEPT !.cursor = Start]
      /\ UNCHANGED <<at, source, clock, times, astray>>
  BY DEF Open
<1>2. walk'.list = walk.list /\ walk'.cursor = Start /\ walk' \in [list : List, cursor : Cursor]
  BY <1>1 DEF PagingInv, PagingTypeOK, Cursor
<1>3. Listed' = Listed /\ Listed \subseteq Row
  BY <1>1 DEF Listed
<1>4. PagingTypeOK'
  BY <1>1, <1>2, <1>3 DEF PagingInv, PagingTypeOK, Cursor
<1>5. OrderIsTotal' /\ CursorWasSent' /\ CursorIsListed'
  BY <1>1, <1>2, <1>3 DEF PagingInv, OrderIsTotal, CursorWasSent, CursorIsListed
<1>6. AfterCursor(walk.cursor)' = Listed
  BY <1>2, <1>3 DEF AfterCursor
<1>7. \A r \in Row : times[r] = 0
  BY <1>1 DEF PagingInv, ServedIsBehind, AtStart
<1>8. ServedIsBehind'
  BY <1>1, <1>7 DEF ServedIsBehind
<1>9. SteadyIsServed'
  BY <1>1, <1>2, <1>6 DEF SteadyIsServed, Start, End
<1>10. QED
  BY <1>1, <1>3, <1>4, <1>5, <1>8, <1>9 DEF PagingInv

(* What comes after a row that is still to come is to come as well. *)
LEMMA ToComeIsClosed ==
    ASSUME PagingTypeOK, NEW c, NEW l \in AfterCursor(c), NEW r \in Listed, Before(l, r),
           c \in Cursor
    PROVE  r \in AfterCursor(c)
<1>1. l \in Listed /\ r \in Row /\ l \in Row /\ at[l] \in Int /\ at[r] \in Int
  BY DEF AfterCursor, Listed, PagingTypeOK
<1>2. CASE c = Start
  BY <1>2 DEF AfterCursor
<1>3. CASE c # Start /\ walk.list \in Dated
  <2>1. at[r] < at[l] /\ at[l] < c
    BY <1>1, <1>3 DEF AfterCursor, Before, Dated
  <2>2. c \in Int
    BY PagingAssumption DEF Cursor, Row, Start, End
  <2>3. QED
    BY <1>1, <1>3, <2>1, <2>2 DEF AfterCursor
<1>4. CASE c # Start /\ walk.list \notin Dated
  <2>1. c \in Listed /\ Before(c, l) /\ c \in Row
    BY <1>4 DEF AfterCursor, Listed
  <2>2. Before(c, r)
    BY <1>1, <2>1, ListOrder
  <2>3. QED
    BY <1>4, <2>1, <2>2 DEF AfterCursor
<1>5. QED
  BY <1>2, <1>3, <1>4

(* The cursor of a page that is not the last stands for a row l.  What is  *)
(* after l is to come, the page is not, and what is neither is l itself or *)
(* a row of its time.                                                      *)
LEMMA CursorDivides ==
    ASSUME PagingInv, NEW S \in SUBSET Listed, NEW rows \in Fetched(S),
           NEW page \in Firsts(Take, rows), NEW d \in NextCursor(rows, page),
           ~(Cardinality(rows) <= Take)
    PROVE  \E l \in S :
              /\ walk.list \in Dated \/ d \in S
              /\ d # Start /\ d # End
              /\ \A r \in Listed : r \in AfterCursor(d) <=> Before(l, r)
              /\ \A r \in page : ~Before(l, r)
              /\ \A r \in S \ page :
                    \/ Before(l, r)
                    \/ IF walk.list \in Dated THEN at[r] = d
                       ELSE walk.list \in RowAfter /\ r = d
<1>1. /\ page \subseteq rows /\ rows \subseteq S /\ S \subseteq Row
      /\ \A r \in S \ page, x \in page : ~Before(r, x)
      /\ \A r \in S \ rows, x \in rows : ~Before(r, x)
      /\ \A r, x \in rows \ page : r = x
  BY PageIsFirst DEF PagingInv, Listed
<1>2. \A r \in S : at[r] \in Int /\ at[r] > 0 /\ r \in Int /\ r > 0
  BY <1>1, PagingAssumption DEF PagingInv, PagingTypeOK, Listed, Row
<1>3. CASE walk.list \in Dated
  <2>1. PICK l \in LastOf(page) : d = at[l]
    BY <1>3 DEF NextCursor
  <2>2. l \in page /\ \A r \in page : ~Before(l, r)
    BY <2>1 DEF LastOf
  <2>3. l \in S /\ d # Start /\ d # End
    BY <1>1, <1>2, <2>1, <2>2 DEF Start, End
  <2>4. \A r \in Listed : r \in AfterCursor(d) <=> Before(l, r)
    BY <1>3, <2>1, <2>3 DEF AfterCursor, Before, Dated
  <2>5. ASSUME NEW r \in S \ page PROVE Before(l, r) \/ at[r] = d
    <3>1. ~Before(r, l)
      BY <1>1, <2>2
    <3>2. at[r] \in Int /\ at[l] \in Int
      BY <1>2, <2>3
    <3>3. QED
      BY <1>3, <2>1, <3>1, <3>2 DEF Before, Dated
  <2>6. QED
    BY <1>3, <2>2, <2>3, <2>4, <2>5
<1>4. ASSUME walk.list \notin Dated, d \in rows, \A r \in page : ~Before(d, r),
             \A r \in S \ page : r = d \/ ~Before(r, d),
             d \notin page => walk.list \in RowAfter
      PROVE  \E l \in S :
              /\ walk.list \in Dated \/ d \in S
              /\ d # Start /\ d # End
              /\ \A r \in Listed : r \in AfterCursor(d) <=> Before(l, r)
              /\ \A r \in page : ~Before(l, r)
              /\ \A r \in S \ page :
                    \/ Before(l, r)
                    \/ IF walk.list \in Dated THEN at[r] = d
                       ELSE walk.list \in RowAfter /\ r = d
  <2>1. d \in S /\ d # Start /\ d # End
    BY <1>1, <1>2, <1>4 DEF Start, End
  <2>2. \A r \in Listed : r \in AfterCursor(d) <=> Before(d, r)
    BY <1>4, <2>1 DEF AfterCursor
  <2>3. ASSUME NEW r \in S \ page, r # d PROVE Before(d, r)
    <3>1. ~Before(r, d) /\ at[r] # at[d]
      BY <1>4, <2>1, <2>3 DEF PagingInv, OrderIsTotal
    <3>2. at[r] \in Int /\ at[d] \in Int
      BY <1>2, <2>1
    <3>3. QED
      BY <3>1, <3>2 DEF Before
  <2>4. QED
    BY <1>4, <2>1, <2>2, <2>3
<1>5. CASE walk.list \notin Dated /\ walk.list \in LastRow
  <2>1. d \in page /\ \A r \in page : ~Before(d, r)
    BY <1>5 DEF NextCursor, LastOf
  <2>2. QED
    BY <1>1, <1>4, <1>5, <2>1
<1>6. CASE walk.list \notin Dated /\ walk.list \notin LastRow
  <2>1. d \in rows /\ \A r \in rows : ~Before(d, r)
    BY <1>6 DEF NextCursor, LastOf
  <2>2. walk.list \in RowAfter
    BY <1>6 DEF PagingInv, PagingTypeOK, List
  <2>3. ASSUME NEW r \in S \ page, r # d PROVE ~Before(r, d)
    <3>1. CASE r \notin rows
      BY <1>1, <2>1, <2>3, <3>1
    <3>2. CASE r \in rows /\ d \in page
      BY <1>1, <2>3, <3>2
    <3>3. CASE r \in rows /\ d \notin page
      BY <1>1, <2>1, <2>3, <3>3
    <3>4. QED
      BY <3>1, <3>2, <3>3
  <2>4. QED
    BY <1>1, <1>4, <1>6, <2>1, <2>2, <2>3
<1>7. QED
  BY <1>3, <1>5, <1>6

LEMMA ReadKeepsPagingInv ==
    ASSUME PagingInv, ReadPage
    PROVE  PagingInv'
<1>0. PICK c : c = walk.cursor
  OBVIOUS
<1>1. PICK S : S = AfterCursor(c)
  OBVIOUS
<1>2. PICK rows \in Fetched(S) : \E page \in Firsts(Take, rows), d \in Cursor :
         /\ d \in NextCursor(rows, page)
         /\ walk' = [walk EXCEPT !.cursor = d]
         /\ used' = used \cup {d}
         /\ times' = [r \in Row |-> IF r \in page THEN times[r] + 1 ELSE times[r]]
  BY <1>0, <1>1 DEF ReadPage
<1>3. PICK page \in Firsts(Take, rows), d \in Cursor :
         /\ d \in NextCursor(rows, page)
         /\ walk' = [walk EXCEPT !.cursor = d]
         /\ used' = used \cup {d}
         /\ times' = [r \in Row |-> IF r \in page THEN times[r] + 1 ELSE times[r]]
  BY <1>2
<1>4. c # End /\ UNCHANGED <<at, source, clock, steady, astray>>
  BY <1>0 DEF ReadPage
<1>5. /\ walk \in [list : List, cursor : Cursor] /\ walk'.list = walk.list
      /\ walk'.cursor = d /\ walk' \in [list : List, cursor : Cursor]
  BY <1>3 DEF PagingInv, PagingTypeOK
<1>6. Listed' = Listed /\ S \in SUBSET Listed /\ Listed \subseteq Row /\ c \in Cursor
  BY <1>0, <1>1, <1>4, <1>5 DEF Listed, AfterCursor
<1>7. /\ page \subseteq rows /\ rows \subseteq S
      /\ Cardinality(rows) <= Take => page = S
  BY <1>3, <1>6, PageIsFirst DEF PagingInv
<1>8. Cardinality(rows) <= Take => d = End
  BY <1>3 DEF NextCursor
<1>9. /\ d # Start /\ used # {}
      /\ ~(Cardinality(rows) <= Take) =>
         \E l \in S :
              /\ walk.list \in Dated \/ d \in S
              /\ d # Start /\ d # End
              /\ \A r \in Listed : r \in AfterCursor(d) <=> Before(l, r)
              /\ \A r \in page : ~Before(l, r)
              /\ \A r \in S \ page :
                    \/ Before(l, r)
                    \/ IF walk.list \in Dated THEN at[r] = d
                       ELSE walk.list \in RowAfter /\ r = d
  <2>1. used # {}
    BY <1>0, <1>4 DEF PagingInv, CursorWasSent
  <2>2. ~(Cardinality(rows) <= Take) =>
         \E l \in S :
              /\ walk.list \in Dated \/ d \in S
              /\ d # Start /\ d # End
              /\ \A r \in Listed : r \in AfterCursor(d) <=> Before(l, r)
              /\ \A r \in page : ~Before(l, r)
              /\ \A r \in S \ page :
                    \/ Before(l, r)
                    \/ IF walk.list \in Dated THEN at[r] = d
                       ELSE walk.list \in RowAfter /\ r = d
    BY <1>3, <1>6, CursorDivides
  <2>3. QED
    BY <1>8, <2>1, <2>2 DEF Start, End
<1>10. \A r \in Listed : (r \in AfterCursor(d))' <=> r \in AfterCursor(d)
  BY <1>4, <1>5, <1>6 DEF AfterCursor, Before
<1>11. /\ \A r \in page : r \in Row /\ times[r] \in Nat /\ times'[r] = times[r] + 1
       /\ \A r \in Row \ page : times'[r] = times[r]
       /\ times' \in [Row -> Nat]
  <2>1. times \in [Row -> Nat]
    BY DEF PagingInv, PagingTypeOK
  <2>2. \A r \in Row : times'[r] = IF r \in page THEN times[r] + 1 ELSE times[r]
    BY <1>3
  <2>3. times' \in [Row -> Nat]
    BY <1>3, <2>1, <2>2
  <2>4. QED
    BY <1>6, <1>7, <2>1, <2>2, <2>3
<1>12. PagingTypeOK'
  BY <1>3, <1>4, <1>5, <1>11 DEF PagingInv, PagingTypeOK
<1>13. /\ OrderIsTotal' /\ CursorWasSent' /\ steady' \subseteq Listed'
       /\ CursorIsListed'
  <2>1. CursorIsListed'
    BY <1>4, <1>5, <1>6, <1>8, <1>9 DEF CursorIsListed
  <2>2. QED
    BY <1>3, <1>4, <1>5, <1>6, <2>1 DEF PagingInv, OrderIsTotal, CursorWasSent
(* Nothing that is to come was served, unless the walk has gone astray.    *)
<1>14. ~Strayed => /\ \A r \in Row : times[r] \in {0, 1} /\ times'[r] \in {0, 1}
                   /\ \A r \in Row : times[r] = 1 => r \notin S /\ times'[r] = 1
                   /\ \A r \in Row : times'[r] = 1 => times[r] = 1 \/ r \in page
  <2> SUFFICES ASSUME ~Strayed
               PROVE  /\ \A r \in Row : times[r] \in {0, 1} /\ times'[r] \in {0, 1}
                      /\ \A r \in Row : times[r] = 1 => r \notin S /\ times'[r] = 1
                      /\ \A r \in Row : times'[r] = 1 => times[r] = 1 \/ r \in page
    OBVIOUS
  <2>1. \A r \in Row : times[r] \in {0, 1} /\ (times[r] = 1 => r \notin S)
    BY <1>0, <1>1, <1>4 DEF PagingInv, ServedIsBehind
  <2>2. \A r \in Row : r \in page => times[r] = 0
    BY <1>7, <2>1
  <2>3. QED
    BY <1>7, <1>11, <2>1, <2>2
<1>15. ServedIsBehind'
  <2>1. ~AtStart' /\ (Strayed' <=> Strayed)
    BY <1>3, <1>4, <1>5, <1>9 DEF AtStart, Strayed
  <2>2. ASSUME NEW r \in Row, times'[r] = 1, d # End, (r \in AfterCursor(d))', ~Strayed
        PROVE  FALSE
    <3>1. ~(Cardinality(rows) <= Take)
      BY <1>8, <2>2
    <3>2. PICK l \in S : /\ \A x \in Listed : x \in AfterCursor(d) <=> Before(l, x)
                         /\ \A x \in page : ~Before(l, x)
      BY <1>9, <3>1
    <3>3. r \in Listed /\ Before(l, r)
      <4>1. r \in Listed
        BY <1>6, <2>2 DEF AfterCursor
      <4>2. QED
        BY <1>10, <2>2, <3>2, <4>1
    <3>4. r \in S
      BY <1>1, <1>6, <3>2, <3>3, ToComeIsClosed DEF PagingInv
    <3>5. QED
      BY <1>14, <2>2, <3>2, <3>3, <3>4
  <2>3. QED
    BY <1>5, <1>14, <2>1, <2>2 DEF ServedIsBehind
<1>16. SteadyIsServed'
  <2> SUFFICES ASSUME NEW r \in steady, ~astray
               PROVE  \/ times'[r] = 1 \/ LostAtCursor(r)'
                      \/ d # End /\ (r \in AfterCursor(d))'
    BY <1>4, <1>5 DEF SteadyIsServed
  <2>1. r \in Listed /\ r \in Row
    BY <1>6 DEF PagingInv
  <2>2. LostAtCursor(r) => LostAtCursor(r)'
    BY <1>3, <1>4, <1>5 DEF LostAtCursor
  <2>3. /\ times[r] = 1 \/ LostAtCursor(r) \/ r \in S
        /\ times[r] \in {0, 1} /\ (times[r] = 1 => times'[r] = 1)
    BY <1>0, <1>1, <1>9, <1>14, <2>1 DEF PagingInv, SteadyIsServed, Strayed
  <2>4. r \in page => times'[r] = 1
    BY <1>11, <1>14, <2>1, <2>3 DEF Strayed
  <2>5. CASE r \in S /\ r \notin page
    <3>1. PICK l \in S :
             /\ d # End /\ (r \in AfterCursor(d) <=> Before(l, r))
             /\ \/ Before(l, r)
                \/ IF walk.list \in Dated THEN at[r] = d
                   ELSE walk.list \in RowAfter /\ r = d
      BY <1>7, <1>9, <2>1, <2>5
    <3>2. CASE Before(l, r)
      BY <1>10, <2>1, <3>1, <3>2
    <3>3. CASE IF walk.list \in Dated THEN at[r] = d ELSE walk.list \in RowAfter /\ r = d
      BY <1>3, <1>4, <1>5, <3>3 DEF LostAtCursor
    <3>4. QED
      BY <3>1, <3>2, <3>3
  <2>6. QED
    BY <2>2, <2>3, <2>4, <2>5
<1>17. QED
  BY <1>12, <1>13, <1>15, <1>16 DEF PagingInv

LEMMA PagingStep == PagingInv /\ [PagingNext]_pagingVars => PagingInv'
<1> SUFFICES ASSUME PagingInv, [PagingNext]_pagingVars PROVE PagingInv'
  OBVIOUS
<1>1. CASE UNCHANGED pagingVars
  BY <1>1 DEF pagingVars, PagingInv, PagingTypeOK, OrderIsTotal, CursorWasSent,
     CursorIsListed, ServedIsBehind, SteadyIsServed, AtStart, Strayed, LostAtCursor,
     AfterCursor, Listed, Before
<1>2. QED
  BY <1>1, WriteKeepsPagingInv, EraseKeepsPagingInv, OpenKeepsPagingInv,
     ReadKeepsPagingInv DEF PagingNext

(* A walk through any of the lists (PostsService, MusicService) serves no  *)
(* row twice and, at its end, has served every row that stayed on the list *)
(* but those its cursors lose: for lists and pages of any length, whatever *)
(* is written and erased meanwhile, unless the row of its cursor is erased *)
(* (then it ends there, or goes on where a post of the liked list is liked *)
(* again).                                                                 *)
THEOREM WalksServeSteadyRows == PagingSpec => []WalkServesSteadyRows
<1>1. ASSUME PagingInv PROVE WalkServesSteadyRows
  <2>1. ~Strayed => \A r \in Row : times[r] <= 1
    BY <1>1 DEF PagingInv, ServedIsBehind
  <2>2. ASSUME walk.cursor = End, used # {}
        PROVE  astray \/ \A r \in steady : times[r] = 1 \/ LostAtCursor(r)
    BY <1>1, <2>2 DEF PagingInv, SteadyIsServed
  <2>3. QED
    BY <2>1, <2>2 DEF WalkServesSteadyRows, Strayed
<1>2. PagingSpec => []PagingInv
  BY PagingInit_Inv, PagingStep, PTL DEF PagingSpec
<1>3. QED
  BY <1>1, <1>2, PTL
=============================================================================
