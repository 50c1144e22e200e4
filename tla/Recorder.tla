------------------------------ MODULE Recorder -------------------------------
(***************************************************************************)
(* Voice messages and video circles recorded in the message field          *)
(* (MessageInput.tsx): the press of the button, the wait for the           *)
(* microphone, the MediaRecorder with its chunks, which every recording of *)
(* the field collects in one array, its end, and the file that is sent.    *)
(* One field, until it is taken down; the file goes to the chat of the     *)
(* press, whichever is open when it ends.                                  *)
(***************************************************************************)
EXTENDS Naturals, FiniteSets

CONSTANTS None,
          MaxRecs \* bound for TLC: recordings asked for
RecorderConstants == MaxRecs \in Nat /\ None \notin 1..MaxRecs

VARIABLES
  there,   \* the field is not taken down
  press,   \* the timer of the long press is running
  mode,    \* recordMode
  bar,     \* isRecording
  recs,    \* by number: what became of the recording, and its mode
  n,       \* counter: recordings asked for
  chunks,  \* chunksRef: the recordings that have data in it
  current, \* mediaRecorderRef
  stream,  \* streamRef
  live,    \* recordings whose tracks are not stopped
  flips,   \* waits for the other camera, each for one recording
  limits,  \* the 60 s of a video are running
  files,   \* history: files given to be sent
  odd      \* history: recordings that overlapped, were left or had the camera changed
vars == <<there, press, mode, bar, recs, n, chunks, current, stream, live, flips, limits, files, odd>>

Init == /\ there = TRUE /\ press = FALSE /\ mode = "voice" /\ bar = FALSE
        /\ recs = [r \in {} |-> 0] /\ n = 0 /\ chunks = {} /\ current = None /\ stream = None
        /\ live = {} /\ flips = {} /\ limits = 0 /\ files = {} /\ odd = {}

St(r) == recs[r].st
Becomes(r, st) == recs' = [recs EXCEPT ![r].st = st]
Running == {r \in DOMAIN recs : St(r) \in {"on", "stopping"}}
Same(x) == UNCHANGED x
-----------------------------------------------------------------------------
Press == /\ there /\ ~press /\ ~bar /\ press' = TRUE
         /\ Same(<<there, mode, bar, recs, n, chunks, current, stream, live, flips, limits, files, odd>>)
(* The button is let go before the 280 ms: the other mode.                                     *)
Tap == /\ press /\ press' = FALSE /\ mode' = (IF mode = "voice" THEN "video" ELSE "voice")
       /\ Same(<<there, bar, recs, n, chunks, current, stream, live, flips, limits, files, odd>>)
SlideOff == /\ press /\ ~bar /\ press' = FALSE
            /\ Same(<<there, mode, bar, recs, n, chunks, current, stream, live, flips, limits, files, odd>>)
(* startRecording, up to the stream                                                            *)
Start == /\ press /\ press' = FALSE /\ n < MaxRecs /\ n' = n + 1
         /\ recs' = [r \in DOMAIN recs \cup {n'} |->
                       IF r = n' THEN [st |-> "asked", mode |-> mode] ELSE recs[r]]
         /\ Same(<<there, mode, bar, chunks, current, stream, live, flips, limits, files, odd>>)
(* and with it. Another recording may have begun, or not ended, since.                         *)
Granted(r) ==
  /\ St(r) = "asked" /\ Becomes(r, "on") /\ live' = live \cup {r} /\ stream' = r /\ chunks' = {}
  /\ current' = r /\ bar' = TRUE /\ limits' = limits + (IF recs[r].mode = "video" THEN 1 ELSE 0)
  /\ odd' = odd \cup (IF Running # {} THEN Running \cup {r} ELSE {}) \cup (IF there THEN {} ELSE {r})
  /\ Same(<<there, press, mode, n, flips, files>>)
(* No access, or no audio track: the stream is let go.                                         *)
Denied(r) == /\ St(r) = "asked" /\ Becomes(r, "ended")
             /\ Same(<<there, press, mode, bar, n, chunks, current, stream, live, flips, limits, files, odd>>)
(* The stream is there, but no MediaRecorder can be made of it, or it does not start, after    *)
(* the array was emptied: the catch says so and stops no track.                                *)
Unmade(r, made) ==
  /\ St(r) = "asked" /\ Becomes(r, "failed") /\ live' = live \cup {r} /\ stream' = r
  /\ chunks' = (IF made THEN {} ELSE chunks)
  /\ Same(<<there, press, mode, bar, n, current, flips, limits, files, odd>>)
Data(r) == /\ St(r) = "on" /\ r \notin chunks /\ chunks' = chunks \cup {r}
           /\ Same(<<there, press, mode, bar, recs, n, current, stream, live, flips, limits, files, odd>>)
-----------------------------------------------------------------------------
On == current # None /\ St(current) = "on"
(* The button of the bar, or the press let go, or the pointer that slid off.                   *)
StopAndSend == /\ there /\ bar /\ bar' = FALSE
               /\ IF On THEN Becomes(current, "stopping") ELSE Same(recs)
               /\ Same(<<there, press, mode, n, chunks, current, stream, live, flips, limits, files, odd>>)
(* Mutant: a cancelled recording only loses its data. *)
ReleasedNot(r) == live
(* Cancelling stops the tracks and empties the array; the MediaRecorder ends by itself, of     *)
(* which onstop hears.                                                                         *)
Released(r) == live \ {r}
Cancel == /\ there /\ bar /\ bar' = FALSE
          /\ IF On THEN /\ live' = Released(current) /\ stream' = None /\ chunks' = {} /\ current' = None
                        /\ recs' = [recs EXCEPT ![current].st = IF current \in Released(current) THEN @ ELSE "stopping"]
             ELSE Same(<<live, stream, chunks, current, recs>>)
          /\ Same(<<there, press, mode, n, flips, limits, files, odd>>)
(* The 60 s end whatever is being recorded then: they are not stopped with the video they are of. *)
Limit == /\ limits > 0 /\ limits' = limits - 1
         /\ IF On THEN Becomes(current, "stopping") /\ current' = None /\ bar' = FALSE
            ELSE Same(<<recs, current, bar>>)
         /\ Same(<<there, press, mode, n, chunks, stream, live, flips, files, odd>>)
(* onstop: the last data, if any, and the file, of all there is in the array.                  *)
Ended(r, tail) ==
  /\ St(r) = "stopping" /\ Becomes(r, "ended") /\ live' = live \ {r} /\ stream' = None
  /\ chunks' = chunks \cup (IF tail THEN {r} ELSE {})
  /\ files' = files \cup (IF chunks' = {} THEN {} ELSE {[of |-> r, data |-> chunks']})
  /\ Same(<<there, press, mode, bar, n, current, flips, limits, odd>>)
(* The other camera: the track of the stream is turned, which changes nothing here, or another *)
(* is asked for, and takes its place even if the recording is over by then. A recorder whose   *)
(* stream loses a track may end.                                                               *)
Flip == /\ there /\ bar /\ mode = "video" /\ stream # None /\ stream \notin flips /\ flips' = flips \cup {stream}
        /\ Same(<<there, press, mode, bar, recs, n, chunks, current, stream, live, limits, files, odd>>)
Flipped(r, got, ends) ==
  /\ r \in flips /\ flips' = flips \ {r}
  /\ IF got THEN /\ live' = live \cup {r} /\ odd' = odd \cup {r}
                 /\ IF ends /\ St(r) = "on" THEN Becomes(r, "stopping") ELSE Same(recs)
     ELSE ~ends /\ Same(<<live, odd, recs>>)
  /\ Same(<<there, press, mode, bar, n, chunks, current, stream, limits, files>>)
(* The field is taken down: only the long press is given up, and a recording goes on.          *)
Leave == /\ there /\ there' = FALSE /\ press' = FALSE /\ odd' = odd \cup Running
         /\ Same(<<mode, bar, recs, n, chunks, current, stream, live, flips, limits, files>>)

Next == \/ Press \/ Tap \/ SlideOff \/ Start \/ StopAndSend \/ Cancel \/ Limit \/ Flip \/ Leave
        \/ \E r \in DOMAIN recs : Granted(r) \/ Denied(r) \/ Data(r)
        \/ \E r \in DOMAIN recs, t \in BOOLEAN : Ended(r, t) \/ Unmade(r, t)
        \/ \E r \in flips, g, e \in BOOLEAN : Flipped(r, g, e)
Spec == Init /\ [][Next]_vars
-----------------------------------------------------------------------------
(* The microphone and the camera are on only while the bar shows a recording or one is just    *)
(* about to end, and a file holds the data of its own recording, unless two recordings         *)
(* overlapped (the second was asked for before the first had its stream, or before its end),   *)
(* the camera was changed, or the field was taken down; and the tracks stay on of a stream of  *)
(* which no recorder could be made or started. (startRecording, stopRecording,                 *)
(* MessageInput.tsx.)                                                                          *)
MicHeld == /\ \A r \in live \ odd : St(r) \in {"stopping", "failed"} \/ (bar /\ current = r)
           /\ \A f \in files : f.data \cap odd = {} /\ f.of \notin odd => f.data \subseteq {f.of}
=============================================================================
