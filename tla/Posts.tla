------------------------------- MODULE Posts -------------------------------
(***************************************************************************)
(* PostsService: posts with their uploaded objects, the four toggles       *)
(* (like, share, save, repost), comments, and the counters of a post that  *)
(* the database does not derive from its rows.  A toggle reads the row,    *)
(* then commits a transaction; a deletion goes object by object.  Requests *)
(* interleave at each of these steps and may fail at any of them.          *)
(***************************************************************************)
EXTENDS Integers, FiniteSets

CONSTANTS
    User, Post, Comment,
    Task,        \* requests the server can have in flight
    Toggles      \* the toggles that are tried

Mark == {"like", "share", "save", "repost"}

ASSUME PostsAssumption ==
    /\ Toggles \subseteq Mark
    /\ IsFiniteSet(User) /\ IsFiniteSet(Comment)

VARIABLES
    users,       \* accounts that exist
    post,        \* Post rows: their state, author and whether an album
    marks,       \* PostLike, Share, SavedPost and Repost rows
    comments,    \* PostComment rows
    count,       \* the counters of a post
    stored,      \* objects of a post in the bucket
    task,        \* what each request read and where it is
    drift        \* history: what each counter has over or under its rows

postsVars == <<users, post, marks, comments, count, stored, task, drift>>

Object == {"content", "thumbnail"}
Counter == Mark \cup {"comment"}
None == "none"
Nobody == [pc |-> "idle", user |-> None, post |-> None, kind |-> None,
           saw |-> FALSE]

NoPost(state) == [row |-> state, author |-> None, album |-> FALSE]
Zero == [k \in Counter |-> 0]

PostsTypeOK ==
    /\ users \subseteq User
    /\ post \in [Post -> [row : {"unused", "live", "deleted"},
                          author : User \cup {None}, album : BOOLEAN]]
    /\ marks \subseteq [kind : Mark, post : Post, user : User]
    /\ comments \subseteq [id : Comment, post : Post, user : User]
    /\ count \in [Post -> [Counter -> Int]]
    /\ stored \in [Post -> SUBSET Object]
    /\ task \in [Task -> [pc : {"idle", "insert", "toggle", "content",
                                "thumbnail", "row"},
                          user : User \cup {None}, post : Post \cup {None},
                          kind : Mark \cup {None}, saw : BOOLEAN]]
    /\ drift \in [Post -> [Counter -> Int]]

PostsInit ==
    /\ users = User
    /\ post = [p \in Post |-> NoPost("unused")]
    /\ marks = {}
    /\ comments = {}
    /\ count = [p \in Post |-> Zero]
    /\ stored = [p \in Post |-> {}]
    /\ task = [t \in Task |-> Nobody]
    /\ drift = [p \in Post |-> Zero]

-----------------------------------------------------------------------------

Live(p) == post[p].row = "live"
Begin(t, step) == task[t] = Nobody /\ task' = [task EXCEPT ![t] = step]
Finish(t) == task' = [task EXCEPT ![t] = Nobody]
Step(pc, u, p) == [Nobody EXCEPT !.pc = pc, !.user = u, !.post = p]

\* A statement fails, or the process stops, between two awaits.
Fail(t) ==
    /\ task[t] # Nobody
    /\ Finish(t)
    /\ UNCHANGED <<users, post, marks, comments, count, stored, drift>>

\* What create accepts: one file or several, and a thumbnail only for video;
\* ffmpeg may fail, and the post then goes without one.
Uploads == {{"content"}, {"content", "thumbnail"}}

\* create: the objects are in the bucket before the row is.
Upload(t, u, p) ==
    /\ u \in users
    /\ post[p].row = "unused" /\ stored[p] = {}
    /\ \E objects \in Uploads : stored' = [stored EXCEPT ![p] = objects]
    /\ Begin(t, Step("insert", u, p))
    /\ UNCHANGED <<users, post, marks, comments, count, drift>>

\* The row; the foreign key refuses it when the author is gone.
Insert(t) ==
    /\ task[t].pc = "insert"
    /\ task[t].user \in users
    /\ \E album \in BOOLEAN :
         post' = [post EXCEPT ![task[t].post] =
                    [row |-> "live", author |-> task[t].user, album |-> album]]
    /\ Finish(t)
    /\ UNCHANGED <<users, marks, comments, count, stored, drift>>

-----------------------------------------------------------------------------
(* Toggles.  The read that the post exists and the read of the row are one *)
(* step: had the post gone between them, the transaction would fail.       *)

\* like, share, save and repost; only repost looks at whose post it is.
ReadMark(t, u, p, k) ==
    /\ u \in users /\ Live(p)
    /\ k = "repost" => post[p].author # u
    /\ Begin(t, [Step("toggle", u, p) EXCEPT
                   !.kind = k,
                   !.saw = [kind |-> k, post |-> p, user |-> u] \in marks])
    /\ UNCHANGED <<users, post, marks, comments, count, stored, drift>>

MarkOf(t) ==
    [kind |-> task[t].kind, post |-> task[t].post, user |-> task[t].user]

RowsOf(p, k) ==
    {m \in marks : m.kind = k /\ m.post = p}
        \cup {x \in comments : k = "comment" /\ x.post = p}

Add(p, k, n) == count' = [count EXCEPT ![p][k] = @ + n]

CommitMark_Upsert(t) ==
    /\ task[t].pc = "toggle"
    /\ IF task[t].saw
         THEN /\ marks' = marks \ {MarkOf(t)}
              /\ Add(task[t].post, task[t].kind, -1)
         ELSE /\ Live(task[t].post) /\ task[t].user \in users
              /\ marks' = marks \cup {MarkOf(t)}
              /\ Add(task[t].post, task[t].kind, 1)
    /\ Finish(t)
    /\ UNCHANGED <<users, post, comments, stored, drift>>

\* The transaction of the row and its counter.  delete refuses a missing
\* row, create a duplicate or a missing post or user: all roll back (Fail).
CommitMark(t) ==
    /\ task[t].pc = "toggle"
    /\ task[t].saw <=> MarkOf(t) \in marks
    /\ IF task[t].saw
         THEN /\ marks' = marks \ {MarkOf(t)}
              /\ Add(task[t].post, task[t].kind, -1)
         ELSE /\ Live(task[t].post) /\ task[t].user \in users
              /\ marks' = marks \cup {MarkOf(t)}
              /\ Add(task[t].post, task[t].kind, 1)
    /\ Finish(t)
    /\ UNCHANGED <<users, post, comments, stored, drift>>

-----------------------------------------------------------------------------
(* Comments.  Each is one transaction after reads it does not rely on.     *)

AddComment(u, p, c) ==
    /\ u \in users /\ Live(p)
    /\ \A x \in comments : x.id # c
    /\ comments' = comments \cup {[id |-> c, post |-> p, user |-> u]}
    /\ Add(p, "comment", 1)
    /\ UNCHANGED <<users, post, marks, stored, task, drift>>

\* The counter is that of the post in the route, which is not compared
\* with the post of the comment.
DeleteComment(u, p, x) ==
    /\ u \in users /\ Live(p)
    /\ x.user = u
    /\ comments' = comments \ {x}
    /\ Add(p, "comment", -1)
    /\ drift' = IF p = x.post THEN drift
                ELSE [drift EXCEPT ![p]["comment"] = @ - 1,
                                   ![x.post]["comment"] = @ + 1]
    /\ UNCHANGED <<users, post, marks, stored, task>>

-----------------------------------------------------------------------------
(* Deletion                                                                *)

\* delete reads the post, and removes its objects first.
Delete(t, u, p) ==
    /\ u \in users /\ Live(p)
    /\ post[p].author = u
    /\ Begin(t, [Step("content", u, p) EXCEPT !.saw = post[p].album])
    /\ UNCHANGED <<users, post, marks, comments, count, stored, drift>>

\* deleteByUrl.  An album's contentUrl is a JSON list, which names no object.
RemoveObject(t) ==
    /\ task[t].pc \in Object
    /\ LET p == task[t].post
       IN  stored' = IF task[t].pc = "content" /\ task[t].saw THEN stored
                     ELSE [stored EXCEPT ![p] = @ \ {task[t].pc}]
    /\ task' = [task EXCEPT ![t].pc =
                  IF @ = "content" THEN "thumbnail" ELSE "row"]
    /\ UNCHANGED <<users, post, marks, comments, count, drift>>

\* The rows of the posts in ps and of the user u go, and with the posts the
\* rows that refer to them.  No counter of another post changes.
Cascade(ps, u) ==
    /\ post' = [p \in Post |-> IF p \in ps THEN NoPost("deleted") ELSE post[p]]
    /\ marks' = {m \in marks : m.post \notin ps /\ m.user # u}
    /\ comments' = {x \in comments : x.post \notin ps /\ x.user # u}
    /\ count' = [p \in Post |-> IF p \in ps THEN Zero ELSE count[p]]
    /\ drift' = [p \in Post |-> IF p \in ps THEN Zero ELSE
                   [k \in Counter |-> drift[p][k] +
                      Cardinality({x \in RowsOf(p, k) : x.user = u})]]

DeleteRow(t) ==
    /\ task[t].pc = "row"
    /\ Live(task[t].post)
    /\ Cascade({task[t].post}, None)
    /\ Finish(t)
    /\ UNCHANGED <<users, stored>>

\* deleteAccount.
DeleteUser(u) ==
    /\ u \in users
    /\ users' = users \ {u}
    /\ Cascade({p \in Post : Live(p) /\ post[p].author = u}, u)
    /\ UNCHANGED <<stored, task>>

PostsNext ==
    \/ \E t \in Task, u \in User, p \in Post :
         \/ Upload(t, u, p)
         \/ \E k \in Toggles : ReadMark(t, u, p, k)
         \/ Delete(t, u, p)
    \/ \E t \in Task :
         \/ Insert(t)
         \/ CommitMark(t)
         \/ RemoveObject(t)
         \/ DeleteRow(t)
         \/ Fail(t)
    \/ \E u \in User, p \in Post, c \in Comment : AddComment(u, p, c)
    \/ \E u \in User, p \in Post, x \in comments : DeleteComment(u, p, x)
    \/ \E u \in User : DeleteUser(u)

PostsSpec == PostsInit /\ [][PostsNext]_postsVars

-----------------------------------------------------------------------------
\* A counter is the number of its rows, however requests for the same row
\* race.  It is off by the rows of deleted accounts, and by the comments
\* that were deleted through the route of another post, and by no more.
CountsFollowRows ==
    \A p \in Post : Live(p) =>
        \A k \in Counter :
            count[p][k] = Cardinality(RowsOf(p, k)) + drift[p][k]
=============================================================================
