-------------------------------- MODULE Music --------------------------------
(***************************************************************************)
(* The music player: MusicPlayerContext.tsx with its reducer, the bar of   *)
(* MusicBottomBar.tsx and the buttons of MusicBubblePlayer.tsx.  There is  *)
(* one element; the tags of a track are fetched when it becomes current.   *)
(***************************************************************************)
EXTENDS Naturals, Sequences

CONSTANTS Tracks, None,
          MaxQueue, MaxEvents \* bounds for TLC: tracks that wait, events under way
MusicConstants == None \notin Tracks /\ {MaxQueue, MaxEvents} \subseteq Nat

VARIABLES
  current, queue,  \* of the reducer: a track (None for null) and the sources after it
  patched,         \* the current track has its tags
  src, playing,    \* of the element: its source, and whether it plays
  events,          \* what the element has not told yet
  button,          \* playing of the context, which the buttons show
  fetching,        \* the track whose tags are fetched (None: cancelled or come)
  asked,           \* history: whether the user wants the current track to play
  odd              \* history: "tags" came to a track the user had paused
vars == <<current, queue, patched, src, playing, events, button, fetching, asked, odd>>

Init == /\ current = None /\ queue = <<>> /\ patched = FALSE /\ src = None /\ playing = FALSE
        /\ events = <<>> /\ button = FALSE /\ fetching = None /\ asked = FALSE /\ odd = {}
-----------------------------------------------------------------------------
Says(before, e) == Len(before) + Len(e) <= MaxEvents /\ events' = before \o e
(* The effect on the track: the element gets the source and is started.  Setting a source, the *)
(* same one too, makes the element forget what it had to tell; one without a track is paused.  *)
Loaded(before) == IF current' # None THEN src' = current' /\ playing' = TRUE /\ events' = <<"play">>
          ELSE /\ src' = None /\ playing' = FALSE
               /\ Says(before, IF playing THEN <<"pause">> ELSE <<>>)
(* The effect on its source: the tags of another track are fetched, those of before cancelled. *)
Fetch == fetching' = IF current' = current THEN fetching ELSE current'
(* Another track takes its place.                                                              *)
Becomes(t, before) == /\ current' = t /\ patched' = FALSE /\ asked' = (t # None) /\ odd' = {} /\ Loaded(before) /\ Fetch

(* The button of a message with music: a track that is not the current one waits its turn.     *)
Play(t) == /\ t # current
           /\ IF current = None THEN Becomes(t, events) /\ UNCHANGED queue
              ELSE /\ Len(queue) < MaxQueue /\ queue' = Append(queue, t)
                   /\ UNCHANGED <<current, patched, src, playing, events, fetching, asked, odd>>
           /\ UNCHANGED button
(* The button of the bar, or of the message of the current track.                              *)
Toggle == /\ current # None /\ playing' = ~playing /\ asked' = ~playing
          /\ Says(events, IF playing THEN <<"pause">> ELSE <<"play">>) /\ odd' = {}
          /\ UNCHANGED <<current, queue, patched, src, button, fetching>>
(* What the queue gives next.                                                                  *)
NextTrack(before) == /\ queue' = (IF queue = <<>> THEN <<>> ELSE Tail(queue))
                     /\ Becomes(IF queue = <<>> THEN None ELSE Head(queue), before)
SkipNext == queue # <<>> /\ NextTrack(events) /\ UNCHANGED button
StopAndClear == current # None /\ queue' = <<>> /\ Becomes(None, events) /\ UNCHANGED button
-----------------------------------------------------------------------------
Ends == /\ playing /\ playing' = FALSE /\ Says(events, <<"pause", "ended">>)
        /\ UNCHANGED <<current, queue, patched, src, button, fetching, asked, odd>>
(* The element tells: the end of a track starts the next.                                      *)
OnEvent == /\ events # <<>> /\ Head(events) # "ended" /\ events' = Tail(events)
           /\ button' = (Head(events) = "play")
           /\ UNCHANGED <<current, queue, patched, src, playing, fetching, asked, odd>>
OnEnded == /\ events # <<>> /\ Head(events) = "ended" /\ button' = FALSE /\ NextTrack(Tail(events))

(* The tags make a new object of the track, and the effect on it starts the element anew.      *)
PatchTrack == /\ fetching = current /\ current # None /\ fetching' = None /\ ~patched /\ patched' = TRUE
              /\ UNCHANGED current /\ Loaded(events)
              /\ odd' = (IF asked THEN odd ELSE {"tags"})
              /\ UNCHANGED <<queue, button, asked>>
NoTags == fetching # None /\ fetching' = None /\ UNCHANGED <<current, queue, patched, src, playing, events, button, asked, odd>>

Next == \/ Toggle \/ SkipNext \/ StopAndClear \/ Ends \/ OnEvent \/ OnEnded \/ PatchTrack \/ NoTags
        \/ \E t \in Tracks : Play(t)
Spec == Init /\ [][Next]_vars
-----------------------------------------------------------------------------
(* When the element has told everything, it plays the current track exactly when the user asked *)
(* for that, with the buttons to match, unless tags came to a paused track, which starts again *)
(* then; and no track waits while none plays.  (The effect on track, musicReducer.)            *)
MusicObeys ==
  events = <<>> => /\ src = current /\ button = playing
                   /\ odd = {} => playing = asked
                   /\ current = None => queue = <<>> /\ ~playing
=============================================================================
