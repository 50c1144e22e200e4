------------------------------- MODULE Stories -------------------------------
(* The strip of stories (StoriesStrip.tsx, StoryViewer.tsx, lib/stories.ts)   *)
(* and the server's side of it (internal/stories/service.go): a story is      *)
(* uploaded, created and the feed is asked for again; when any step fails,    *)
(* the story is kept in this browser's localStorage instead.  The feed is     *)
(* asked for after many events, and nothing orders the answers.               *)
EXTENDS Integers, FiniteSets, Sequences, SequencesExt

CONSTANTS
  None,         \* no viewer, no feed answered yet
  MaxStories,   \* how many stories may be published or posted in all
  MaxMoves,     \* how many clicks and events besides publishing
  MaxAges       \* how many stories may reach the end of their 24 hours

StoriesConstants ==
  /\ MaxStories \in Nat /\ MaxMoves \in Nat /\ MaxAges \in Nat

VARIABLES
  stories,   \* the rows of the table that have not expired
  friend,    \* is the other author an accepted friend?
  local,     \* the stories kept in localStorage (ids starting with s_)
  items,     \* what the strip shows
  asks,      \* the feeds asked for and not yet answered
  tasks,     \* the publications under way
  open,      \* is the dialog for the caption on the screen?
  viewer,    \* the viewer's own copy of the groups, and its place in them
  views,     \* the views on their way to the server
  seen,      \* the stories with a view or a reaction of mine
  made,      \* the ids given out
  fate,      \* what became of each publication that ended without a row
  odd,       \* why the strip may differ from the server
  asked, newest, moves, ages
vars == <<stories, friend, local, items, asks, tasks, open, viewer, views,
          seen, made, fate, odd, asked, newest, moves, ages>>

Authors == <<"me", "peer">>
Story == [by : {"me", "peer"}, id : 0..MaxStories, kept : BOOLEAN]
Of(who, n, k) == [by |-> who, id |-> n, kept |-> k]

(* ListFeed: my own and my friends' stories. *)
ListFeed == {s \in stories : s.by = "me" \/ friend}

(* The server's stories, and those kept here of authors who have none there. *)
Merge(feed, mine) ==
  feed \union {s \in mine : \A f \in feed : f.by # s.by}

(* The rings of the strip: one for each author, the newest story first. *)
Ring(who, shown) ==
  SetToSortSeq({s \in shown : s.by = who}, LAMBDA a, b : a.id > b.id)
Groups(shown) ==
  SelectSeq([i \in 1..Len(Authors) |-> Ring(Authors[i], shown)],
            LAMBDA r : r # <<>>)

-----------------------------------------------------------------------------
(* refresh: asks for the feed; "task" is the publication that waits for it. *)
Asks(n, task) ==
  [n |-> n, task |-> task, feed |-> None, stale |-> {}]
Refresh(task) ==
  /\ asked' = asked + 1
  /\ asks' = asks \union {Asks(asked + 1, task)}

(* Something changed on the server: the answers already made are stale. *)
Aged(set, why) ==
  {IF a.feed = None THEN a ELSE [a EXCEPT !.stale = @ \union {why}] : a \in set}
Elsewhere ==
  /\ asks' = Aged(asks, "others")
  /\ odd' = odd \union {"others"}

Init ==
  /\ stories \in SUBSET {Of("peer", 0, FALSE)}
  /\ local \in SUBSET {Of("peer", 0, TRUE)}   \* of an earlier user of this browser
  /\ friend = TRUE /\ items = {} /\ asks = {Asks(1, 0)}
  /\ tasks = {} /\ open = FALSE /\ viewer = None /\ views = {} /\ seen = {}
  /\ made = 0 /\ fate = {} /\ odd = {} /\ asked = 1 /\ newest = 0
  /\ moves = 0 /\ ages = 0

(* One of the events and clicks the bound counts. *)
Moves == moves < MaxMoves /\ moves' = moves + 1

Storage ==
  /\ Moves /\ Refresh(0)
  /\ UNCHANGED <<stories, friend, local, items, tasks, open, viewer, views,
                 seen, made, fate, odd, newest, ages>>

(* The feed is read; ListFeed is one query. *)
ServeFeed ==
  \E a \in asks :
    /\ a.feed = None
    /\ asks' = (asks \ {a}) \union {[a EXCEPT !.feed = ListFeed]}
    /\ UNCHANGED <<stories, friend, local, items, tasks, open, viewer, views,
                   seen, made, fate, odd, asked, newest, moves, ages>>

(* The answer, or the failure of the call, which leaves the server's list    *)
(* empty; what is kept here is read only now.  A publication that waited for *)
(* it ends, and closes whatever dialog is open.                              *)
Show(feed) == Merge(feed, local)
Feed ==
  \E a \in asks, ok \in BOOLEAN :
    /\ ok => a.feed # None
    /\ items' = Show(IF ok THEN a.feed ELSE {})
    /\ asks' = asks \ {a}
    /\ odd' = (IF ok THEN a.stale ELSE {"failed"})
              \union (IF a.n < newest THEN {"late"} ELSE {})
    /\ newest' = IF a.n > newest THEN a.n ELSE newest
    /\ open' = (open /\ a.task = 0)
    /\ tasks' = {t \in tasks : t.n # a.task}
    /\ UNCHANGED <<stories, friend, local, viewer, views, seen, made, fate,
                   asked, moves, ages>>

-----------------------------------------------------------------------------
(* Publishing. *)
Pick ==
  /\ ~open /\ Moves /\ open' = TRUE
  /\ UNCHANGED <<stories, friend, local, items, asks, tasks, viewer, views,
                 seen, made, fate, odd, asked, newest, ages>>

Cancel ==
  /\ open /\ open' = FALSE
  /\ UNCHANGED <<stories, friend, local, items, asks, tasks, viewer, views,
                 seen, made, fate, odd, asked, newest, moves, ages>>

(* The button stays live: a second click publishes the file again. *)
Submit ==
  /\ open /\ made < MaxStories
  /\ made' = made + 1
  /\ tasks' = tasks \union {[n |-> made + 1, st |-> "upload"]}
  /\ UNCHANGED <<stories, friend, local, items, asks, open, viewer, views,
                 seen, fate, odd, asked, newest, moves, ages>>

At(t, st) == tasks' = (tasks \ {t}) \union {[t EXCEPT !.st = st]}

Uploaded ==
  \E t \in tasks :
    /\ t.st = "upload" /\ At(t, "create")
    /\ UNCHANGED <<stories, friend, local, items, asks, open, viewer, views,
                   seen, made, fate, odd, asked, newest, moves, ages>>

(* Create: the row, before its answer. *)
Create ==
  \E t \in tasks :
    /\ t.st = "create" /\ At(t, "made")
    /\ stories' = stories \union {Of("me", t.n, FALSE)}
    /\ asks' = Aged(asks, "mine")
    /\ UNCHANGED <<friend, local, items, open, viewer, views, seen, made,
                   fate, odd, asked, newest, moves, ages>>

(* The answer of createStory: the strip is refreshed. *)
Created ==
  \E t \in tasks :
    /\ t.st = "made" /\ Refresh(t.n) /\ At(t, "refresh")
    /\ UNCHANGED <<stories, friend, local, items, open, viewer, views, seen,
                   made, fate, odd, newest, moves, ages>>

(* Any call fails, its answer being lost included: the file is read for the *)
(* copy kept here; the promise ends and closes whatever dialog is open.      *)
Failed ==
  \E t \in tasks :
    /\ t.st \in {"upload", "create", "made"}
    /\ At(t, "read") /\ open' = FALSE
    /\ UNCHANGED <<stories, friend, local, items, asks, viewer, views, seen,
                   made, fate, odd, asked, newest, moves, ages>>

(* addStory, where a full localStorage is passed over in silence. *)
Add(t) == local \union {Of("me", t.n, TRUE)}
AddedSilently(t) == UNCHANGED <<asks, asked>>                    \* mutant
AfterAdd(t) == Refresh(0)
Read ==
  \E t \in tasks, full \in BOOLEAN :
    /\ t.st = "read" /\ tasks' = tasks \ {t}
    /\ local' = IF full THEN local ELSE Add(t)
    /\ fate' = IF full THEN fate \union {t.n} ELSE fate
    /\ AfterAdd(t)
    /\ UNCHANGED <<stories, friend, items, open, viewer, views, seen, made,
                   odd, newest, moves, ages>>
(* The file can no longer be read, of which nobody hears: no copy, no refresh. *)
Unread ==
  \E t \in tasks :
    /\ t.st = "read" /\ tasks' = tasks \ {t}
    /\ fate' = fate \union {t.n}
    /\ asks' = Aged(asks, "unread") /\ odd' = odd \union {"unread"}
    /\ UNCHANGED <<stories, friend, local, items, open, viewer, views, seen, made,
                   asked, newest, moves, ages>>

-----------------------------------------------------------------------------
(* The viewer shows the groups as they were when it was opened. *)
Slide(v) == v.groups[v.g][v.s]

(* A slide of another author's: its view is recorded, here at once with a     *)
(* refresh, or at the server with a refresh after its answer.                 *)
Looks(v) ==
  LET s == Slide(v) IN
  CASE s.by = "me" -> UNCHANGED <<views, seen, asks, asked>>
    [] s.kept -> /\ seen' = IF s \in local THEN seen \union {s} ELSE seen
                 /\ Refresh(0) /\ UNCHANGED views
    [] OTHER -> views' = views \union {s} /\ UNCHANGED <<seen, asks, asked>>

Watch ==
  /\ viewer = None /\ items # {} /\ Moves
  /\ \E i \in 1..Len(Groups(items)) :
       LET v == [groups |-> Groups(items), g |-> i, s |-> 1] IN
       viewer' = v /\ Looks(v)
  /\ UNCHANGED <<stories, friend, local, items, tasks, open, made, fate, odd,
                 newest, ages>>

(* The 5.2 s timer and the right half of the screen. *)
After(v) ==
  CASE v.s < Len(v.groups[v.g]) -> [v EXCEPT !.s = @ + 1]
    [] v.s >= Len(v.groups[v.g]) /\ v.g < Len(v.groups) ->
         [v EXCEPT !.g = @ + 1, !.s = 1]
    [] OTHER -> None
Before(v) ==
  CASE v.s > 1 -> [v EXCEPT !.s = @ - 1]
    [] v.s = 1 /\ v.g > 1 -> [v EXCEPT !.g = @ - 1, !.s = Len(v.groups[v.g - 1])]
    [] OTHER -> v

NextSlide ==
  /\ viewer # None /\ viewer' = After(viewer)
  /\ IF viewer' = None THEN UNCHANGED <<views, seen, asks, asked>>
     ELSE Looks(viewer')
  /\ UNCHANGED <<stories, friend, local, items, tasks, open, made, fate, odd,
                 newest, moves, ages>>

Prev ==
  /\ viewer # None /\ Before(viewer) # viewer /\ Moves
  /\ viewer' = Before(viewer) /\ Looks(viewer')
  /\ UNCHANGED <<stories, friend, local, items, tasks, open, made, fate, odd,
                 newest, ages>>

Close ==
  /\ viewer # None /\ viewer' = None
  /\ UNCHANGED <<stories, friend, local, items, asks, tasks, open, views, seen,
                 made, fate, odd, asked, newest, moves, ages>>

(* RecordView: the story must be alive and its author a friend; only a view *)
(* that was recorded refreshes the strip.                                    *)
View ==
  \E s \in views :
    /\ views' = views \ {s}
    /\ \/ s \in ListFeed /\ seen' = seen \union {s} /\ Refresh(0)
       \/ UNCHANGED <<seen, asks, asked>>
    /\ UNCHANGED <<stories, friend, local, items, tasks, open, viewer, made,
                   fate, odd, newest, moves, ages>>

(* A reaction is counted in this browser only; one to a kept story that is no *)
(* longer there changes nothing.                                             *)
React ==
  /\ viewer # None /\ Moves
  /\ Slide(viewer).kept => Slide(viewer) \in local
  /\ seen' = seen \union {Slide(viewer)} /\ Refresh(0)
  /\ UNCHANGED <<stories, friend, local, items, tasks, open, viewer, views,
                 made, fate, odd, newest, ages>>

-----------------------------------------------------------------------------
(* The rest of the world. *)
PeerPosts ==
  /\ made < MaxStories /\ made' = made + 1
  /\ stories' = stories \union {Of("peer", made + 1, FALSE)}
  /\ Elsewhere
  /\ UNCHANGED <<friend, local, items, tasks, open, viewer, views, seen, fate,
                 asked, newest, moves, ages>>

Expire ==
  /\ ages < MaxAges /\ ages' = ages + 1
  /\ \E s \in stories \union local :
       stories' = stories \ {s} /\ local' = local \ {s}
       /\ fate' = fate \union {s.id}
  /\ Elsewhere
  /\ UNCHANGED <<friend, items, tasks, open, viewer, views, seen, made, asked,
                 newest, moves>>

Unfriend ==
  /\ friend /\ friend' = FALSE /\ Elsewhere
  /\ UNCHANGED <<stories, local, items, tasks, open, viewer, views, seen, made,
                 fate, asked, newest, moves, ages>>

Next ==
  \/ Storage \/ ServeFeed \/ Feed \/ Pick \/ Cancel \/ Submit \/ Uploaded
  \/ Create \/ Created \/ Failed \/ Read \/ Unread \/ Watch \/ NextSlide \/ Prev \/ Close
  \/ View \/ React \/ PeerPosts \/ Expire \/ Unfriend

Spec == Init /\ [][Next]_vars

-----------------------------------------------------------------------------
TypeOK ==
  /\ stories \subseteq Story /\ local \subseteq Story /\ items \subseteq Story
  /\ friend \in BOOLEAN /\ open \in BOOLEAN
  /\ made \in 0..MaxStories /\ moves \in 0..MaxMoves /\ ages \in 0..MaxAges
  /\ tasks \subseteq [n : 1..MaxStories,
                      st : {"upload", "create", "made", "refresh", "read"}]
  /\ \A a \in asks : a.n \in 1..asked /\ a.task \in 0..MaxStories
  /\ odd \subseteq {"others", "mine", "failed", "late", "unread"}

(* When nothing is under way, the strip shows the feed of this moment and     *)
(* the kept stories of authors without one, unless somebody else or the       *)
(* clock changed the feed since the last answer was made, that call failed,   *)
(* an earlier one was answered after it, or the file of a publication that    *)
(* failed, perhaps with its row made, could not be read: my other             *)
(* publications, kept stories and views never leave it behind                 *)
(* (StoriesStrip.tsx:23-49, 61-87).                                           *)
StoriesTrue ==
  asks = {} /\ tasks = {} /\ odd \intersect {"others", "failed", "late", "unread"} = {}
    => items = Merge(ListFeed, local)

(* A story that was published is at the server or kept here, until 24 hours   *)
(* have passed, however its calls failed: only a full localStorage and a      *)
(* file that can no longer be read lose it (StoriesStrip.tsx:60-86,           *)
(* stories.ts:123-138).                                                       *)
PublishedKept ==
  \A n \in 1..made :
    \/ \E s \in stories \union local : s.id = n
    \/ \E t \in tasks : t.n = n
    \/ n \in fate

=============================================================================
