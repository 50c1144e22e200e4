------------------------------ MODULE CallMedia ------------------------------
(***************************************************************************)
(* CallMedia: what one client captures for its calls -- the microphone,    *)
(* the camera, the screen -- as CallModal.tsx keeps and releases it.  A    *)
(* track is live until it is stopped or ends; the refs of CallModal hold   *)
(* tracks, and cleanup stops what localStreamRef and screenStreamRef hold. *)
(* Every await is a point at which the user, or the end of the call, comes *)
(* in between: a task is the rest of an async function that waits there.   *)
(* The connections of a call are taken together, as one with one sender of *)
(* video, and so are the capture of a camera and the replaceTrack after it.*)
(***************************************************************************)
EXTENDS Naturals, Sequences, FiniteSets

CONSTANTS Calls,     \* 1 .. n, the calls of this client one after the other
          Video,     \* those begun with video
          Group,     \* the group calls
          MaxTracks, \* bound: how many tracks are captured
          MaxTasks,  \* bound: how many functions wait at once
          None

MediaConstants ==
  /\ Calls \subseteq Nat \ {0} /\ Video \subseteq Calls /\ Group \subseteq Calls
  /\ MaxTracks \in Nat /\ MaxTasks \in Nat
  /\ None \notin Nat /\ None \notin [call : Calls, sender : Nat \cup {None}]
  /\ \A ts \in SUBSET (1 .. MaxTracks) : ts # None

VARIABLES
  desktop, \* hasElectronDesktopPicker(), which stays: the client has its own picker of screens
  call,    \* activeCall, or None
  video,   \* activeCall.isVideo
  pc,      \* pcRef or pcMapRef: [call, sender], its sender's track of video or None; or None
  kind,    \* the tracks captured so far: the kind of each
  live,    \* those that are live
  on,      \* those that are enabled
  stream,  \* the tracks of localStreamRef, or None
  screen,  \* the track of screenStreamRef, or None
  pip,     \* cameraTrackForPipRef, or None
  sharing, \* screenSharing and screenSharingRef
  picker,  \* screenPickerOpen and screenPickerModeRef: "start", "switch" or None
  audioOn, videoOn, \* audioEnabled, videoEnabled
  tasks,   \* the functions that wait
  last,    \* the last call
  loose,   \* history: tracks that came after their call, crossed another capture or were doubled
  crossed, \* history: the start of a share crossed its end or a capture
  early    \* history: the kinds whose button was off before the tracks came

refs == <<stream, screen, pip>>
history == <<loose, crossed, early>>
vars == <<desktop, call, video, pc, kind, live, on, refs, sharing, picker, audioOn, videoOn,
          tasks, last, history>>

Kinds == {"mic", "cam", "screen"}
Sources == {"display", "source", "system"}
(* Those that end in a change of localStreamRef; those that end with a screen shown. *)
Captures == {"media", "camera", "reset", "upgrade"}
Showing == Sources \cup {"replace"}
Waits == Sources \cup Captures \cup {"replace", "restore"}
InStream == IF stream = None THEN {} ELSE stream
Of(ts, k) == {t \in ts : kind[t] = k}
(* getVideoTracks()[0] of localStreamRef, if it is live: a set of at most one.                  *)
FirstCam == {t \in Of(InStream, "cam") \cap live : \A x \in Of(InStream, "cam") : t <= x}

(* The task that begins beside ts. sw: of a source, that it replaces another; of a sender, that *)
(* a failure stops the share; of the media, that there is a camera among them. ok: the          *)
(* connection was not closed. alone: no other capture crosses it. id: it is one of several.     *)
Ids == 1 .. MaxTasks
Free(ts) == {i \in Ids : \A x \in ts : x.id # i}
Task(ts, w, sw, t) ==
  [wait |-> w, call |-> call, sw |-> sw, track |-> t, ok |-> TRUE,
   alone |-> \A x \in ts : x.wait \notin Captures, id |-> CHOOSE i \in Ids : i \in Free(ts)]
(* tasks', when the task t of no capture, or of one, begins beside ts. *)
Waiting(ts, t) == Free(ts) # {} /\ tasks' = ts \cup {t}
Begun(ts, t) == Free(ts) # {} /\ tasks' = {[x EXCEPT !.alone = FALSE] : x \in ts} \cup {t}
Closed(ts) == {[t EXCEPT !.ok = FALSE] : t \in ts}

(* The numbers of new tracks of the kinds ks. *)
Fresh(ks) == {Len(kind) + i : i \in DOMAIN ks}
Caught(ks) ==
  /\ Len(kind) + Len(ks) <= MaxTracks
  /\ kind' = kind \o ks /\ on' = on \cup Fresh(ks)
Media(v) == IF v THEN <<"mic", "cam">> ELSE <<"mic">>
(* The new camera among them, or None. *)
NewCam(v) == IF v THEN Len(kind) + 2 ELSE None
Sends(t) == IF pc = None \/ pc.sender = None THEN pc ELSE [pc EXCEPT !.sender = t]

Init ==
  /\ desktop \in BOOLEAN
  /\ call = None /\ video = FALSE /\ pc = None
  /\ kind = <<>> /\ live = {} /\ on = {}
  /\ stream = None /\ screen = None /\ pip = None
  /\ sharing = FALSE /\ picker = None /\ audioOn = TRUE /\ videoOn = TRUE
  /\ tasks = {} /\ last = 0 /\ loose = {} /\ crossed = FALSE /\ early = {}

----------------------------------------------------------------------------
(* A call begins and ends. *)

(* startCall, startMeshOutbound, acceptCall up to the media. *)
Begin ==
  /\ call = None /\ last + 1 \in Calls
  /\ last' = last + 1 /\ call' = last' /\ video' = (last' \in Video)
  /\ Begun(tasks, [Task(tasks, "media", video', None) EXCEPT !.call = last'])
  /\ crossed' = FALSE
  /\ UNCHANGED <<desktop, pc, kind, live, on, refs, sharing, picker, audioOn, videoOn, loose,
                 early>>

(* History: what t captured is nobody's when its call is over; what two captures put into       *)
(* localStreamRef may be what the other overwrites.                                             *)
Astray(t, ks) ==
  (IF call = None \/ t.call # call \/ ~t.alone THEN Fresh(ks) ELSE {}) \cup (IF t.alone THEN {} ELSE InStream)

Unlike == (IF audioOn THEN {} ELSE {"mic"}) \cup (IF videoOn THEN {} ELSE {"cam"})

(* The media, and the connection with them. *)
MediaCome(t) ==
  /\ t.wait = "media"
  /\ Caught(Media(t.sw))
  /\ live' = live \cup Fresh(Media(t.sw))
  /\ stream' = Fresh(Media(t.sw))
  /\ pc' = [call |-> t.call, sender |-> NewCam(t.sw)]
  /\ tasks' = tasks \ {t}
  /\ loose' = loose \cup Astray(t, Media(t.sw))
  /\ early' = Unlike
  /\ UNCHANGED <<desktop, call, video, screen, pip, sharing, picker, audioOn, videoOn, last,
                 crossed>>

(* Mutant: the screen is not stopped. *)
CleanupKeepsScreen ==
  /\ live' = live \ InStream
  /\ pc' = None /\ stream' = None /\ screen' = None /\ pip' = None /\ sharing' = FALSE
  /\ picker' = None /\ call' = None /\ video' = FALSE /\ tasks' = Closed(tasks)

(* cleanup; the buttons stay as they are. *)
Cleanup ==
  /\ live' = live \ (InStream \cup {screen})
  /\ pc' = None /\ stream' = None /\ screen' = None /\ pip' = None /\ sharing' = FALSE
  /\ picker' = None /\ call' = None /\ video' = FALSE /\ tasks' = Closed(tasks)

(* hangup, or the other end. *)
End ==
  /\ call # None
  /\ Cleanup
  /\ UNCHANGED <<desktop, kind, on, audioOn, videoOn, last, history>>

----------------------------------------------------------------------------
(* The screen. *)

(* The camera after the screen: the one that was sent before, or a new one. *)
SendsCamera(ts) ==
  IF pc = None \/ pc.sender = None THEN tasks' = ts
  ELSE IF pip \in live THEN Waiting(ts, Task(ts, "restore", FALSE, pip))
  ELSE Begun(ts, Task(ts, "camera", FALSE, None))

(* stopScreenShareInternal up to its await, ts the other tasks. *)
StopShare(ts) ==
  /\ live' = live \ {screen} /\ screen' = None /\ sharing' = FALSE /\ pip' = None
  /\ SendsCamera(ts)
  /\ crossed' = (crossed \/ \E t \in ts : t.wait \in Showing)

(* toggleScreenShare, and startScreenShareInternal confirmed. *)
ToggleShare ==
  /\ call # None
  /\ IF sharing THEN StopShare(tasks) /\ UNCHANGED picker
     ELSE /\ video /\ pc # None
          /\ picker' = IF desktop THEN "start" ELSE picker
          /\ IF desktop THEN tasks' = tasks
                        ELSE Waiting(tasks, Task(tasks, "display", FALSE, None))
          /\ UNCHANGED <<live, screen, sharing, pip, crossed>>
  /\ UNCHANGED <<desktop, call, video, pc, kind, on, stream, audioOn, videoOn, last, loose,
                 early>>

(* switchScreenSource. *)
SwitchSource ==
  /\ sharing
  /\ IF desktop THEN picker' = "switch" /\ UNCHANGED <<tasks, live>>
                 ELSE /\ live' = live \ {screen} /\ UNCHANGED picker
                      /\ Waiting(tasks, Task(tasks, "display", TRUE, None))
  /\ UNCHANGED <<desktop, call, video, pc, kind, on, refs, sharing, audioOn, videoOn, last,
                 history>>

(* The picker: a source, the dialog of the system (w), or neither. *)
Pick(w) ==
  /\ picker # None
  /\ picker' = None
  /\ IF w = None THEN tasks' = tasks
                 ELSE Waiting(tasks, Task(tasks, w, picker = "switch", None))
  /\ UNCHANGED <<desktop, call, video, pc, kind, live, on, refs, sharing, audioOn, videoOn, last,
                 history>>

(* applyScreenStream up to its await: without a call of video the tracks are stopped. A start   *)
(* over a screen there is replaces it without a word.                                           *)
ScreenComes(t) ==
  LET n == Len(kind) + 1 IN
  /\ t.wait \in Sources
  /\ Caught(<<"screen">>)
  /\ IF ~video \/ pc = None
       THEN tasks' = tasks \ {t} /\ UNCHANGED <<live, screen, pip, loose>>
       ELSE /\ live' = (IF t.sw THEN live \ {screen} ELSE live) \cup {n}
            /\ screen' = n
            /\ IF t.sw \/ FirstCam = {} THEN pip' = pip ELSE pip' \in FirstCam
            /\ Waiting(tasks \ {t},
                       Task(tasks \ {t}, "replace", t.sw /\ t.wait # "system", n))
            /\ loose' = IF t.sw \/ screen = None THEN loose ELSE loose \cup {screen}
  /\ crossed' = (crossed \/ (t.sw /\ ~sharing)
                          \/ \E x \in tasks : x.wait \in {"reset", "camera", "media", "restore"})
  /\ UNCHANGED <<desktop, call, video, pc, stream, sharing, picker, audioOn, videoOn, last,
                 early>>

(* No source: a change of source ends the share, except from the dialog of the system.         *)
NoScreen(t) ==
  /\ t.wait \in Sources
  /\ IF t.sw /\ t.wait # "system" THEN StopShare(tasks \ {t})
     ELSE tasks' = tasks \ {t} /\ UNCHANGED <<live, screen, sharing, pip, crossed>>
  /\ UNCHANGED <<desktop, call, video, pc, kind, on, stream, picker, audioOn, videoOn, last,
                 loose, early>>

(* The screen is sent and the banner shown; a closed connection throws. *)
ScreenSent(t) ==
  /\ t.wait = "replace"
  /\ IF t.ok THEN /\ pc' = Sends(t.track) /\ sharing' = TRUE /\ tasks' = tasks \ {t}
                  /\ UNCHANGED <<live, screen, pip, crossed>>
     ELSE IF t.sw THEN StopShare(tasks \ {t}) /\ UNCHANGED pc
     ELSE tasks' = tasks \ {t} /\ UNCHANGED <<pc, live, screen, sharing, pip, crossed>>
  /\ UNCHANGED <<desktop, call, video, kind, on, stream, picker, audioOn, videoOn, last, loose,
                 early>>

(* onended: the user or the system ends the capture. *)
ScreenEnds(t) ==
  /\ kind[t] = "screen"
  /\ live' = live \ {t, screen} /\ screen' = None /\ sharing' = FALSE /\ pip' = None
  /\ SendsCamera(tasks)
  /\ crossed' = (crossed \/ \E x \in tasks : x.wait \in Showing)
  /\ UNCHANGED <<desktop, call, video, pc, kind, on, stream, picker, audioOn, videoOn, last,
                 loose, early>>

(* The camera that was sent before is sent again. *)
Restored(t) ==
  /\ t.wait = "restore"
  /\ pc' = IF t.ok THEN Sends(t.track) ELSE pc
  /\ tasks' = tasks \ {t}
  /\ UNCHANGED <<desktop, call, video, kind, live, on, refs, sharing, picker, audioOn, videoOn,
                 last, history>>

(* A new camera after the screen; on a closed connection nothing holds it. *)
CameraComes(t) ==
  LET n == Len(kind) + 1 IN
  /\ t.wait = "camera"
  /\ Caught(<<"cam">>)
  /\ IF t.ok THEN /\ pc' = Sends(n)
                  /\ live' = (live \ Of(InStream, "cam")) \cup {n}
                  /\ stream' = InStream \cup {n}
                  /\ videoOn' = TRUE /\ early' = early \ {"cam"}
             ELSE live' = live \cup {n} /\ UNCHANGED <<pc, stream, videoOn, early>>
  /\ tasks' = tasks \ {t}
  /\ loose' = loose \cup Astray(t, <<"cam">>)
  /\ UNCHANGED <<desktop, call, video, screen, pip, sharing, picker, audioOn, last, crossed>>

----------------------------------------------------------------------------
(* The rest of the panel. *)

(* resetCallMedia up to its await. *)
Reset ==
  /\ call # None
  /\ live' = live \ (InStream \cup {screen})
  /\ screen' = None /\ pip' = None /\ sharing' = FALSE
  /\ Begun(tasks, Task(tasks, "reset", video, None))
  /\ crossed' = (crossed \/ \E t \in tasks : t.wait \in Showing)
  /\ UNCHANGED <<desktop, call, video, pc, kind, on, stream, picker, audioOn, videoOn, last,
                 loose, early>>

(* The new tracks, whatever call there is by then. *)
ResetComes(t) ==
  /\ t.wait = "reset"
  /\ Caught(Media(t.sw))
  /\ live' = live \cup Fresh(Media(t.sw))
  /\ stream' = Fresh(Media(t.sw))
  /\ pc' = IF t.sw THEN Sends(NewCam(TRUE)) ELSE pc
  /\ tasks' = tasks \ {t}
  /\ loose' = loose \cup Astray(t, Media(t.sw))
  /\ audioOn' = TRUE /\ videoOn' = TRUE /\ early' = {}
  /\ UNCHANGED <<desktop, call, video, screen, pip, sharing, picker, last, crossed>>

(* upgradeToVideo up to its await. *)
Upgrade ==
  /\ call # None /\ pc # None /\ ~video /\ call \notin Group
  /\ ~\E t \in tasks : t.wait = "upgrade" /\ t.ok
  /\ Begun(tasks, Task(tasks, "upgrade", FALSE, None))
  /\ UNCHANGED <<desktop, call, video, pc, kind, live, on, refs, sharing, picker, audioOn,
                 videoOn, last, history>>

(* The camera, for whatever stream there is; addTrack on a closed connection throws. *)
UpgradeComes(t) ==
  LET n == Len(kind) + 1 IN
  /\ t.wait = "upgrade"
  /\ Caught(<<"cam">>)
  /\ live' = live \cup {n}
  /\ stream' = IF stream = None THEN None ELSE stream \cup {n}
  /\ IF t.ok THEN pc' = [pc EXCEPT !.sender = n] /\ video' = TRUE ELSE UNCHANGED <<pc, video>>
  /\ tasks' = tasks \ {t}
  /\ loose' = loose \cup Astray(t, <<"cam">>)
  /\ early' = early \cup (Unlike \cap {"cam"})
  /\ UNCHANGED <<desktop, call, screen, pip, sharing, picker, audioOn, videoOn, last, crossed>>

(* No camera or microphone, or an operation on a closed connection that never settles. *)
Fails(t) ==
  /\ t.wait \in Captures \/ (~t.ok /\ t.wait \in {"replace", "restore"})
  /\ tasks' = tasks \ {t}
  /\ UNCHANGED <<desktop, call, video, pc, kind, live, on, refs, sharing, picker, audioOn,
                 videoOn, last, history>>

Switched(ts, to) == IF to THEN on \cup ts ELSE on \ ts

(* The button of the microphone. *)
ToggleMic ==
  /\ call # None
  /\ audioOn' = ~audioOn
  /\ on' = Switched(Of(InStream, "mic"), audioOn')
  /\ early' = early \ {"mic"}
  /\ UNCHANGED <<desktop, call, video, pc, kind, live, refs, sharing, picker, videoOn, tasks,
                 last, loose, crossed>>

(* That of the camera: of the preview, while the screen is shared. *)
ToggleCam ==
  /\ call # None /\ video
  /\ videoOn' = ~videoOn
  /\ on' = IF sharing THEN (IF pip = None THEN on ELSE Switched({pip}, pip \notin on))
           ELSE Switched(Of(InStream, "cam"), videoOn')
  /\ early' = IF sharing THEN early ELSE early \ {"cam"}
  /\ UNCHANGED <<desktop, call, video, pc, kind, live, refs, sharing, picker, audioOn, tasks,
                 last, loose, crossed>>

Next ==
  \/ Begin \/ End \/ ToggleShare \/ SwitchSource \/ Reset \/ Upgrade \/ ToggleMic \/ ToggleCam
  \/ \E w \in {"source", "system", None} : Pick(w)
  \/ \E t \in live : ScreenEnds(t)
  \/ \E t \in tasks : \/ MediaCome(t) \/ ScreenComes(t) \/ NoScreen(t) \/ ScreenSent(t)
                      \/ Restored(t) \/ CameraComes(t) \/ ResetComes(t) \/ UpgradeComes(t)
                      \/ Fails(t)

Spec == Init /\ [][Next]_vars

----------------------------------------------------------------------------
TypeOK ==
  /\ desktop \in BOOLEAN /\ call \in Calls \cup {None} /\ video \in BOOLEAN
  /\ kind \in Seq(Kinds)
  /\ live \subseteq DOMAIN kind /\ on \subseteq DOMAIN kind
  /\ pc \in [call : Calls, sender : DOMAIN kind \cup {None}] \cup {None}
  /\ stream = None \/ stream \subseteq DOMAIN kind
  /\ screen \in DOMAIN kind \cup {None} /\ pip \in DOMAIN kind \cup {None}
  /\ sharing \in BOOLEAN /\ picker \in {"start", "switch", None}
  /\ audioOn \in BOOLEAN /\ videoOn \in BOOLEAN
  /\ tasks \subseteq [wait : Waits, call : Calls \cup {None}, sw : BOOLEAN,
                      track : DOMAIN kind \cup {None}, ok : BOOLEAN, alone : BOOLEAN, id : Ids]
  /\ last \in Calls \cup {0} /\ loose \subseteq DOMAIN kind
  /\ crossed \in BOOLEAN /\ early \subseteq Kinds

(* What is captured can be released: every live track is held where cleanup looks for it,       *)
(* except those that came after their call, crossed another capture or were doubled.            *)
TracksHeld == live \subseteq InStream \cup {screen} \cup loose

(* The banner says that the screen is shared just when it is captured, once nothing is under    *)
(* way, unless the share was stopped while it was being set up.                                 *)
BannerTrue == tasks = {} /\ ~crossed => (sharing <=> screen # None)

(* The buttons show what is sent, unless they were off before the tracks came, or captures       *)
(* crossed.                                                                                      *)
Sent == Of(InStream, "mic")
          \cup IF pc = None THEN {} ELSE {pc.sender} \cap Of(DOMAIN kind, "cam")
ButtonsTrue ==
  call # None /\ ~crossed /\ InStream \cap loose = {} =>
    \A t \in Sent \cap live :
      kind[t] \in early \/ (t \in on <=> IF kind[t] = "mic" THEN audioOn ELSE videoOn)
=============================================================================
