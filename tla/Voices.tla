-------------------------------- MODULE Voices --------------------------------
(***************************************************************************)
(* Voice messages and video notes of a chat, and the bar that says which   *)
(* one plays: VoiceBubblePlayer.tsx, VideoNotePlayer.tsx, NowPlayingBar.tsx *)
(* and store/nowPlayingMedia.ts.  A media element changes at once and      *)
(* tells of it later, its events in order; between two elements any order. *)
(***************************************************************************)
EXTENDS Naturals, Sequences

CONSTANTS Voice, Notes, None,
          MaxEvents \* bound for TLC: events of one element under way
VoicesConstants == /\ Voice \cap Notes = {} /\ None \notin Voice \cup Notes /\ MaxEvents \in Nat
Players == Voice \cup Notes

VARIABLES
  here,    \* their chat is the one shown
  st,      \* of each element: "paused", "waiting" for data, or "playing"
  events,  \* what each has not told yet
  button,  \* playing: each player offers to pause
  active,  \* of the store: whose controller the bar uses
  odd      \* history: the active one was loaded again ("again"), without a word from it
vars == <<here, st, events, button, active, odd>>

Silent == [p \in Players |-> <<>>]
Init == /\ here = TRUE /\ st = [p \in Players |-> "paused"] /\ events = Silent
        /\ button = [p \in Players |-> FALSE] /\ active = None /\ odd = {}
-----------------------------------------------------------------------------
(* HTMLMediaElement.play and pause.                                                            *)
Toggled(p) == IF st[p] = "paused" THEN [to |-> "waiting", says |-> <<"play">>]
              ELSE [to |-> "paused", says |-> <<"pause">>]
Toggle(p) == LET t == Toggled(p) IN
             /\ Len(events[p]) < MaxEvents /\ st' = [st EXCEPT ![p] = t.to]
             /\ events' = [events EXCEPT ![p] = @ \o t.says]
OnPlayClick(p) == here /\ Toggle(p) /\ UNCHANGED <<here, button, active, odd>>
(* The button of the bar, which follows the controller from frame to frame.                    *)
BarToggle == active # None /\ here /\ Toggle(active) /\ UNCHANGED <<here, button, active, odd>>
BarClose == /\ active # None /\ here /\ active' = None /\ odd' = {}
            /\ IF st[active] = "paused" THEN UNCHANGED <<st, events>> ELSE Toggle(active)
            /\ UNCHANGED <<here, button>>

Ready(p) == /\ st[p] = "waiting" /\ Len(events[p]) < MaxEvents
            /\ st' = [st EXCEPT ![p] = "playing"] /\ events' = [events EXCEPT ![p] = Append(@, "playing")]
            /\ UNCHANGED <<here, button, active, odd>>
Stall(p) == /\ st[p] = "playing" /\ st' = [st EXCEPT ![p] = "waiting"]
            /\ UNCHANGED <<here, events, button, active, odd>>
Ends(p) == /\ st[p] = "playing" /\ Len(events[p]) + 1 < MaxEvents
           /\ st' = [st EXCEPT ![p] = "paused"] /\ events' = [events EXCEPT ![p] = @ \o <<"pause", "ended">>]
           /\ UNCHANGED <<here, button, active, odd>>
-----------------------------------------------------------------------------
(* Mutant: the one that plays is not stopped for another. *)
StopsNobody(p) == {}
(* The one of the store is paused where another starts.                                        *)
Stops(p) == {active} \ {None, p}
Told(p) == [events EXCEPT ![p] = Tail(@)]
OnPlaying(p) ==
  /\ events[p] # <<>> /\ Head(events[p]) = "playing" /\ active' = p /\ odd' = {}
  /\ LET over == {q \in Stops(p) : st[q] # "paused"} IN
       /\ \A q \in over : Len(events[q]) < MaxEvents
       /\ st' = [q \in Players |-> IF q \in over THEN "paused" ELSE st[q]]
       /\ events' = [q \in Players |-> IF q \in over THEN Append(events[q], "pause") ELSE Told(p)[q]]
  /\ UNCHANGED <<here, button>>
OnPlay(p) == /\ events[p] # <<>> /\ Head(events[p]) = "play" /\ events' = Told(p)
             /\ button' = [button EXCEPT ![p] = TRUE] /\ UNCHANGED <<here, st, active, odd>>
(* clearIfMessage: a pause that is told late takes nothing from the next.                      *)
ClearIfMessage(p) == IF active = p THEN None ELSE active
OnPause(p) == /\ events[p] # <<>> /\ Head(events[p]) \in {"pause", "ended"} /\ events' = Told(p)
              /\ button' = [button EXCEPT ![p] = FALSE] /\ active' = ClearIfMessage(p)
              /\ odd' = (IF active' = None THEN {} ELSE odd) /\ UNCHANGED <<here, st>>
(* Another speed, or another speaker, sets the source of a voice message again: the element    *)
(* stops at the start and forgets what it had to tell.                                         *)
LoadAgain(p) == /\ here /\ p \in Voice /\ st' = [st EXCEPT ![p] = "paused"]
                /\ events' = [events EXCEPT ![p] = <<>>] /\ button' = [button EXCEPT ![p] = FALSE]
                /\ odd' = odd \cup (IF active = p THEN {"again"} ELSE {})
                /\ UNCHANGED <<here, active>>
(* Another chat: its elements are removed, and with them what they had to tell.                *)
Leave == /\ here /\ here' = FALSE /\ st' = [p \in Players |-> "paused"] /\ events' = Silent
         /\ button' = [p \in Players |-> FALSE] /\ active' = None /\ odd' = {}
Come == ~here /\ here' = TRUE /\ UNCHANGED <<st, events, button, active, odd>>

Next == \/ BarToggle \/ BarClose \/ Leave \/ Come
        \/ \E p \in Players : \/ OnPlayClick(p) \/ Ready(p) \/ Stall(p) \/ Ends(p)
                              \/ OnPlaying(p) \/ OnPlay(p) \/ OnPause(p) \/ LoadAgain(p)
Spec == Init /\ [][Next]_vars
-----------------------------------------------------------------------------
(* When every element has told what happened to it, at most one plays, and the bar is its bar, *)
(* with the pause its player offers; the bar of one that does not play is left over only where *)
(* its source was set again.  (onPlaying, onPause, setActive and clearIfMessage.)              *)
OneVoice ==
  events = Silent =>
    /\ \A p \in Players : st[p] = "playing" => active = p /\ button[p]
    /\ active # None /\ odd = {} => st[active] # "paused"
=============================================================================
