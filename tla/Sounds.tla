------------------------------- MODULE Sounds -------------------------------
(***************************************************************************)
(* MusicService and StoriesService: the sound library shared by posts and  *)
(* stories, its counters, and stories with their uploaded objects.  Making *)
(* a story or a post takes several awaits (object, sound, use, row), and   *)
(* requests interleave at each of them and may fail there.                 *)
(***************************************************************************)
EXTENDS Integers, FiniteSets

CONSTANTS
    Person, Track,
    Clip,        \* stories, and posts as far as their sound goes
    File,        \* keys of objects in the bucket
    Making       \* requests that make or delete a clip, in flight

NoValue == "none"

ASSUME SoundsAssumption ==
    /\ IsFiniteSet(Person) /\ IsFiniteSet(Clip)
    /\ NoValue \notin Track

VARIABLES
    people,      \* accounts that exist
    track,       \* Music rows
    favorites,   \* MusicFavorite rows, and the reads behind an insertion
    clip,        \* Story rows, and Post rows with a sound
    views,       \* StoryView rows
    bucket,      \* objects that are stored
    making,      \* where each request is
    ledger       \* history: favourites of deleted accounts, uses not counted,
                 \* objects that a story was given; those nobody promises to
                 \* keep: given to two stories, not stored when a story was
                 \* given them, or removed by another feature

soundsVars ==
    <<people, track, favorites, clip, views, bucket, making, ledger>>

AtRest == [pc |-> "idle", clip |-> NoValue, kind |-> NoValue, person |-> NoValue,
            sound |-> NoValue, file |-> NoValue]

NoClip(state) == [row |-> state, kind |-> NoValue, author |-> NoValue,
                 sound |-> NoValue, file |-> NoValue]

SoundsTypeOK ==
    /\ people \subseteq Person
    /\ track \in [Track -> [status : {"unused", "ready", "blocked"},
                            uses : Nat, favorites : Int]]
    /\ favorites \subseteq Person \X Track
    /\ clip \in [Clip -> [row : {"unused", "live", "expired", "deleted"},
                          kind : {"story", "post", NoValue},
                          author : Person \cup {NoValue},
                          sound : Track \cup {NoValue}, file : File \cup {NoValue}]]
    /\ views \subseteq Clip \X Person
    /\ bucket \subseteq File
    /\ making \in [Making -> [pc : {"idle", "sound", "use", "insert", "object"},
                              clip : Clip \cup {NoValue},
                              kind : {"story", "post", NoValue},
                              person : Person \cup {NoValue},
                              sound : Track \cup {NoValue},
                              file : File \cup {NoValue}]]
    /\ ledger \in [gone : [Track -> Nat], uncounted : [Track -> Nat],
                   given : SUBSET File, loose : SUBSET File]

\* The library may hold a track that was blocked in the database.
SoundsInit ==
    /\ people = Person
    /\ track \in [Track -> {[status |-> s, uses |-> 0, favorites |-> 0] :
                              s \in {"unused", "ready", "blocked"}}]
    /\ favorites = {}
    /\ clip = [c \in Clip |-> NoClip("unused")]
    /\ views = {}
    /\ bucket = {}
    /\ making = [k \in Making |-> AtRest]
    /\ ledger = [gone |-> [m \in Track |-> 0],
                 uncounted |-> [m \in Track |-> 0], given |-> {},
                 loose |-> {}]

-----------------------------------------------------------------------------
Exists(c) == clip[c].row \in {"live", "expired"}
Goto(k, pc) == making' = [making EXCEPT ![k].pc = pc]
Stop(k) == making' = [making EXCEPT ![k] = AtRest]

\* A statement of the request fails, or the process stops.
Abandon(k) ==
    /\ making[k].pc # "idle"
    /\ Stop(k)
    /\ UNCHANGED <<people, track, favorites, clip, views, bucket, ledger>>

\* uploadStory puts its file under a new key.
FreshKey(f) ==
    /\ f \notin bucket \cup ledger.given \cup ledger.loose
    /\ \A k \in Making : making[k].file # f

\* create in both services.  A story is a text, or has a file that is stored
\* first, or names a URL its client gives: nobody looks whether an object is
\* stored there, or whose it is.
Create(k, c, kind, p) ==
    /\ making[k] = AtRest
    /\ p \in people
    /\ clip[c].row = "unused"
    /\ \A j \in Making : making[j].clip # c
    /\ \E f \in File \cup {NoValue} :
         /\ f # NoValue => kind = "story"
         /\ \/ UNCHANGED bucket
            \/ f \in File /\ FreshKey(f) /\ bucket' = bucket \cup {f}
         /\ making' = [making EXCEPT ![k] =
                         [pc |-> "sound", clip |-> c, kind |-> kind,
                          person |-> p, sound |-> NoValue, file |-> f]]
    /\ UNCHANGED <<people, track, favorites, clip, views, ledger>>

\* A client's own upload to a presigned URL, before a story names the object
\* or after; the story's request knows nothing of it.
PutObject(f) ==
    /\ f \notin bucket
    /\ bucket' = bucket \cup {f}
    /\ UNCHANGED <<people, track, favorites, clip, views, making, ledger>>

\* Another feature removes the object: a post that names it is deleted.
RemoveElsewhere(f) ==
    /\ f \in bucket
    /\ bucket' = bucket \ {f}
    /\ ledger' = [ledger EXCEPT !.loose = @ \cup {f}]
    /\ UNCHANGED <<people, track, favorites, clip, views, making>>

\* assertUsable.
Usable(m) == track[m].status = "ready"

\* createOriginalSound and upload: a new track, ready at once.
NewTrack(m) ==
    /\ track[m].status = "unused"
    /\ track' = [track EXCEPT ![m].status = "ready"]

\* The sound the client named, a new one from the clip, or none.
ResolveSound(k) ==
    /\ making[k].pc = "sound"
    /\ \/ /\ making' = [making EXCEPT ![k].pc = "insert"]
          /\ UNCHANGED track
       \/ \E m \in Track :
            /\ \/ Usable(m) /\ UNCHANGED track
               \/ NewTrack(m)
            /\ making' = [making EXCEPT ![k].pc = "use", ![k].sound = m]
    /\ UNCHANGED <<people, favorites, clip, views, bucket, ledger>>

\* use, tapped on the page of a track or called by create.
Use(m) == track' = [track EXCEPT ![m].uses = @ + 1]

Tap(m) ==
    /\ track[m].status # "unused"
    /\ Use(m)
    /\ UNCHANGED <<people, favorites, clip, views, bucket, making, ledger>>

CountUse_Later(k) ==
    /\ making[k].pc = "use"
    /\ Goto(k, "insert")
    /\ UNCHANGED <<people, track, favorites, clip, views, bucket, ledger>>

\* create's use, whose failure is ignored.
CountUse(k) ==
    /\ making[k].pc = "use"
    /\ LET m == making[k].sound
       IN  \/ Use(m) /\ UNCHANGED ledger
           \/ /\ ledger' = [ledger EXCEPT !.uncounted[m] = @ + 1]
              /\ UNCHANGED track
    /\ Goto(k, "insert")
    /\ UNCHANGED <<people, favorites, clip, views, bucket>>

\* The row; the foreign key refuses it when the author is gone.
InsertClip(k) ==
    /\ making[k].pc = "insert"
    /\ making[k].person \in people
    /\ LET new == making[k]
       IN  /\ clip' = [clip EXCEPT ![new.clip] =
                         [row |-> "live", kind |-> new.kind,
                          author |-> new.person, sound |-> new.sound,
                          file |-> new.file]]
           /\ ledger' = [ledger EXCEPT
                           !.given = @ \cup ({new.file} \ {NoValue}),
                           !.loose = @ \cup ({new.file} \cap ledger.given)
                                       \cup ({new.file} \ (bucket \cup {NoValue}))]
    /\ Stop(k)
    /\ UNCHANGED <<people, track, favorites, views, bucket>>

\* A story is over after 24 hours; nothing deletes it then.
Expire(c) ==
    /\ clip[c].row = "live" /\ clip[c].kind = "story"
    /\ clip' = [clip EXCEPT ![c].row = "expired"]
    /\ UNCHANGED <<people, track, favorites, views, bucket, making, ledger>>

\* markViewed: an idempotent upsert.  The author's own view is not counted.
MarkViewed(c, p) ==
    /\ p \in people
    /\ clip[c].row = "live" /\ clip[c].kind = "story"
    /\ clip[c].author # p
    /\ views' = views \cup {<<c, p>>}
    /\ UNCHANGED <<people, track, favorites, clip, bucket, making, ledger>>

DropClips(cs) ==
    /\ clip' = [c \in Clip |->
                  IF c \in cs THEN NoClip("deleted") ELSE clip[c]]
    /\ views' = {v \in views : v[1] \notin cs}

DeleteStory_ObjectFirst(k, c, p) ==
    /\ making[k] = AtRest
    /\ p \in people /\ Exists(c)
    /\ clip[c].author = p
    /\ bucket' = bucket \ {clip[c].file}
    /\ UNCHANGED <<people, track, favorites, clip, views, making, ledger>>

\* delete: the row goes first, then its object (posts: see Posts.tla).
DeleteStory(k, c, p) ==
    /\ making[k] = AtRest
    /\ p \in people /\ Exists(c)
    /\ clip[c].author = p
    /\ DropClips({c})
    /\ making' = IF clip[c].file = NoValue THEN making
                 ELSE [making EXCEPT ![k] = [AtRest EXCEPT
                         !.pc = "object", !.file = clip[c].file]]
    /\ UNCHANGED <<people, track, favorites, bucket, ledger>>

\* deleteFile; its failure is ignored.
DeleteFile(k) ==
    /\ making[k].pc = "object"
    /\ bucket' = bucket \ {making[k].file}
    /\ Stop(k)
    /\ UNCHANGED <<people, track, favorites, clip, views, ledger>>

\* upload: a sound of its own.
UploadMusic(m) ==
    /\ NewTrack(m)
    /\ UNCHANGED <<people, favorites, clip, views, bucket, making, ledger>>

Favored(m, n) == track' = [track EXCEPT ![m].favorites = @ + n]

\* favorite: a second insertion of the same row fails with its increment, so
\* the read before the transaction decides nothing.
Favorite(p, m) ==
    /\ p \in people /\ track[m].status # "unused"
    /\ <<p, m>> \notin favorites
    /\ favorites' = favorites \cup {<<p, m>>}
    /\ Favored(m, 1)
    /\ UNCHANGED <<people, clip, views, bucket, making, ledger>>

\* unfavorite: deleting a missing row fails with its decrement.
Unfavorite(p, m) ==
    /\ p \in people
    /\ <<p, m>> \in favorites
    /\ favorites' = favorites \ {<<p, m>>}
    /\ Favored(m, -1)
    /\ UNCHANGED <<people, clip, views, bucket, making, ledger>>

\* deleteAccount: the cascade reaches the rows; tracks stay, and no counter
\* changes.
DeletePerson(p) ==
    /\ p \in people
    /\ people' = people \ {p}
    /\ DropClips({c \in Clip : Exists(c) /\ clip[c].author = p})
    /\ favorites' = {f \in favorites : f[1] # p}
    /\ ledger' = [ledger EXCEPT !.gone = [m \in Track |->
                    IF <<p, m>> \in favorites THEN @[m] + 1 ELSE @[m]]]
    /\ UNCHANGED <<track, bucket, making>>

SoundsNext ==
    \/ \E k \in Making, c \in Clip, p \in Person :
         \/ \E kind \in {"story", "post"} : Create(k, c, kind, p)
         \/ DeleteStory(k, c, p)
    \/ \E k \in Making :
         \/ ResolveSound(k)
         \/ CountUse(k)
         \/ InsertClip(k)
         \/ DeleteFile(k)
         \/ Abandon(k)
    \/ \E c \in Clip : Expire(c) \/ \E p \in Person : MarkViewed(c, p)
    \/ \E f \in File : PutObject(f) \/ RemoveElsewhere(f)
    \/ \E m \in Track : UploadMusic(m) \/ Tap(m)
    \/ \E p \in Person, m \in Track : Favorite(p, m) \/ Unfavorite(p, m)
    \/ \E p \in Person : DeletePerson(p)

SoundsSpec == SoundsInit /\ [][SoundsNext]_soundsVars

-----------------------------------------------------------------------------
\* favoriteCount is the number of favourites, off only by those of deleted
\* accounts; useCount is at least the number of clips with the sound, but
\* for the uses whose counting failed.
SoundCountsFollowRows ==
    \A m \in Track :
        /\ track[m].favorites =
             Cardinality({f \in favorites : f[2] = m}) + ledger.gone[m]
        /\ Cardinality({c \in Clip : Exists(c) /\ clip[c].sound = m})
             <= track[m].uses + ledger.uncounted[m]

\* An object that was stored when a story's row named it stays stored as long
\* as the row exists, whatever fails or interleaves, unless two stories name
\* it or another feature removes it.
StoryKeepsItsObject ==
    \A c \in Clip :
        Exists(c) /\ clip[c].file \notin {NoValue} \cup ledger.loose
            => clip[c].file \in bucket
=============================================================================
