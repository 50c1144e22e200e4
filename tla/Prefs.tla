-------------------------------- MODULE Prefs --------------------------------
(***************************************************************************)
(* The settings of the client: the rows of SettingsPanel.tsx, and the      *)
(* persist middleware of store/index.ts, which after every set writes all  *)
(* that partialize names, as this window has it, to the one localStorage   *)
(* of the windows of an origin, and reads it only when a window is loaded. *)
(***************************************************************************)
EXTENDS Naturals, FiniteSets

CONSTANTS Windows,
          Earlier,   \* the rows an older version may have saved nothing of
          Chosen,    \* bound for TLC: the rows that somebody changes
          MaxChanges \* bound for TLC: changes ever made

(* The rows of a section: the field of the store, the part of it, and how many values it has.  *)
Notifications ==
  {<<"notificationPrefs", p, 2>> :
      p \in {"personal.enabled", "personal.sound", "personal.messagePreview", "groups.enabled",
             "groups.sound", "channels.enabled", "vibrate"}}
  \cup {<<f, "", 2>> : f \in {"messageMarkdownEnabled", "quickRepliesEnabled", "showInAppMessageToasts",
                              "notificationMutedChatIds"}}
Privacy ==
  {<<"privacyPrefs", p, 3>> : p \in {"phone", "lastSeen", "onlineStatus", "profilePhoto", "forwards",
                                     "calls", "groupChannels"}}
  \cup {<<"privacyPrefs", p, 2>> : p \in {"hideEmail", "hidePhone"}}
Appearance ==
  {<<f, "", 2>> : f \in {"followSystemTheme", "theme", "accentColor", "chatBg", "fontSize", "bubbleRadius",
                         "liquidGlassEnabled", "compactSidebar", "sendSound"}}
Browser == {<<f, "", 2>> : f \in {"inAppBrowserEnabled", "browserBlockTrackers",
                                  "browserClearHistoryOnClose", "browserAllowDownloads"}}
Language == {<<"language", "", 2>>}
Calls == {<<"callAudioPrefs", p, 2>> : p \in {"normalizeVolume", "prioritizeSpeaker",
                                              "noiseSuppressionCalls", "volumeByPeerId"}}
Rows == UNION {Notifications, Privacy, Appearance, Browser, Language, Calls}

VARIABLES
  mem,   \* what the store of a window holds
  disk,  \* dierchat-storage: the rows saved
  left,  \* changes still to come
  last,  \* history: the value somebody chose last for a row, 0 when nobody did
  over,  \* history: rows a window holding another value has saved since
  behind \* history: rows changed in another window since this one was loaded
vars == <<mem, disk, left, last, over, behind>>

(* vibrate is read as on unless it is false; of another row nothing would be undefined.        *)
Undefined == 9
Read(m, r) == IF r \in DOMAIN m THEN m[r] ELSE IF r[2] = "vibrate" THEN 0 ELSE Undefined

Nested(r) == r[1] \in {"callAudioPrefs", "privacyPrefs"} \/ r[2] = ""
(* Where the defaults are not spread, vibrate is the one row that came later.                  *)
PrefsConstants == /\ Earlier \cup Chosen \subseteq Rows /\ MaxChanges \in Nat
                  /\ \A r \in Earlier : Nested(r) \/ r[2] = "vibrate"
(* Loading: what was saved, over the defaults; within a field only where the defaults are      *)
(* spread first.                                                                               *)
Merge(p) == LET dom == DOMAIN p \cup IF \E r \in DOMAIN p : r[1] = "notificationPrefs"
                                     THEN {r \in Rows : Nested(r)} ELSE Rows
            IN [r \in dom |-> IF r \in DOMAIN p THEN p[r] ELSE 0]
(* Mutant: chatBg is not among what is saved. *)
PartializeLess(m) == [r \in DOMAIN m \ {<<"chatBg", "", 2>>} |-> m[r]]
Partialize(m) == m

Init == /\ disk \in {[r \in Rows \ gone |-> 0] : gone \in {Rows} \cup SUBSET Earlier}
        /\ mem = [w \in Windows |-> Merge(disk)] /\ left = MaxChanges /\ last = [r \in Rows |-> 0]
        /\ over = {} /\ behind = [w \in Windows |-> {}]
-----------------------------------------------------------------------------
(* set: the new state m of the window, in which the rows R were chosen, is saved whole.        *)
Save(w, m, R) ==
  /\ mem' = [mem EXCEPT ![w] = m] /\ disk' = Partialize(m)
  /\ last' = [r \in Rows |-> IF r \in R THEN Read(m, r) ELSE last[r]]
  /\ over' = {r \in Rows : Read(m, r) # last'[r]}
  /\ behind' = [v \in Windows |-> IF v = w THEN behind[w] \ R ELSE behind[v] \cup R]

(* The spread of a field before one part of it: the rest of it is as it was.                   *)
With(m, r, v) == [x \in DOMAIN m \cup {r} |-> IF x = r THEN v ELSE m[x]]
(* A click on a row: the other value, the next one of all | contacts | nobody, or another one. *)
Choose(w, r) == /\ left > 0 /\ left' = left - 1
                /\ Save(w, With(mem[w], r, (Read(mem[w], r) + 1) % r[3]), {r})
(* The buttons of the theme stop following the system first.                                   *)
ChooseTheme(w, v) ==
  LET follow == <<"followSystemTheme", "", 2>>
      theme == <<"theme", "", 2>>
  IN /\ left > 0 /\ left' = left - 1
     /\ Save(w, With(With(mem[w], follow, 0), theme, v), {follow, theme})
(* Any other set of the store: presence, the open chat, a call.                                *)
Touch(w) == Save(w, mem[w], {}) /\ UNCHANGED left
(* The window is loaded again.                                                                 *)
Load(w) == /\ mem' = [mem EXCEPT ![w] = Merge(disk)]
           /\ behind' = [behind EXCEPT ![w] = over] /\ UNCHANGED <<disk, left, last, over>>

Next == \E w \in Windows :
          \/ \E r \in Chosen : Choose(w, r)
          \/ \E v \in 0..1 : ChooseTheme(w, v)
          \/ Touch(w)
          \/ Load(w)
Spec == Init /\ [][Next]_vars
-----------------------------------------------------------------------------
(* What somebody chose last is what a window goes by and what will be loaded, and where nobody *)
(* chose a row has its default: a window may lag behind in the rows changed in another one     *)
(* since it was loaded, and what is saved in those a lagging window has saved over.  (merge    *)
(* and partialize of store/index.ts, the rows of SettingsPanel.tsx.)                           *)
ChoiceKept ==
  /\ \A w \in Windows, r \in Rows : Read(mem[w], r) = last[r] \/ r \in behind[w]
  /\ \A r \in Rows : Read(Merge(disk), r) = last[r] \/ r \in over
=============================================================================
