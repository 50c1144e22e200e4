----------------------------- MODULE DeskProofs -----------------------------
(* What the parts of the window promise, for every set of windows, chats, devices and files:  *)
(* for each part an inductive invariant, and then the theorem on what Desk checks of it.       *)
EXTENDS Desk, SequenceTheorems, FiniteSetTheorems, WellFoundedInduction, TLAPS

-----------------------------------------------------------------------------
(* The choices of the settings (Prefs).                                                       *)

(* The rows a window may lack are read as if they had their default; so will be those that what *)
(* is saved lacks, unless no row of their field is there.                                       *)
Full(m) == DOMAIN m \subseteq P!Rows /\ \A r \in P!Rows \ DOMAIN m : r[2] = "vibrate"
Fine(p) == /\ DOMAIN p \subseteq P!Rows
           /\ \/ \A r \in DOMAIN p : r[1] # "notificationPrefs"
              \/ \A r \in P!Rows \ DOMAIN p : P!Nested(r) \/ r[2] = "vibrate"

(* What the windows have and what is saved can be read back, and the last choices are in both.*)
PrefsInv ==
  /\ mem = [w \in Windows |-> mem[w]] /\ behind = [w \in Windows |-> behind[w]]
  /\ \A w \in Windows : Full(mem[w])
  /\ Fine(prefsDisk)
  /\ P!ChoiceKept

(* What is loaded can be read, and as it was saved; a row that was not saved has its default. *)
LEMMA Merged == ASSUME NEW p, Fine(p)
                PROVE  /\ Full(P!Merge(p))
                       /\ \A r \in P!Rows : P!Read(P!Merge(p), r) = IF r \in DOMAIN p THEN p[r] ELSE 0
BY DEF Fine, Full, P!Merge, P!Read

(* A window finds what another one saved as that one had it.                                  *)
LEMMA Saved == ASSUME NEW m, Full(m)
               PROVE  Fine(m) /\ \A r \in P!Rows : P!Read(P!Merge(m), r) = P!Read(m, r)
<1>1. Fine(m) BY DEF Full, Fine
<1>2. QED BY <1>1, Merged DEF Full, P!Read

(* It holds at the start.                                                                     *)
LEMMA PrefsInit == ASSUME P!Init PROVE PrefsInv
<1>1. PICK lacks \in {P!Rows} \cup SUBSET Earlier : prefsDisk = [r \in P!Rows \ lacks |-> 0]
  BY DEF P!Init
<1>2. Fine(prefsDisk) BY <1>1, PrefsAssumption DEF Fine, P!PrefsConstants
<1>3. Full(P!Merge(prefsDisk)) /\ \A r \in P!Rows : P!Read(P!Merge(prefsDisk), r) = 0
  BY <1>1, <1>2, Merged
<1>4. QED BY <1>2, <1>3 DEF P!Init, PrefsInv, P!ChoiceKept

(* A change keeps it, if it changes no more than the rows it chooses.                         *)
LEMMA PrefsSave ==
  ASSUME PrefsInv, NEW w \in Windows, NEW m, NEW chose \in SUBSET P!Rows, Full(m), P!Save(w, m, chose),
         \A r \in P!Rows \ chose : P!Read(m, r) = P!Read(mem[w], r)
  PROVE  PrefsInv'
<1>1. /\ mem' = [mem EXCEPT ![w] = m] /\ prefsDisk' = m
      /\ prefsLast' = [r \in P!Rows |-> IF r \in chose THEN P!Read(m, r) ELSE prefsLast[r]]
      /\ over' = {r \in P!Rows : P!Read(m, r) # prefsLast'[r]}
      /\ behind' = [v \in Windows |-> IF v = w THEN behind[w] \ chose ELSE behind[v] \cup chose]
  BY DEF P!Save, P!Partialize
<1>2. mem' = [v \in Windows |-> mem'[v]] /\ behind' = [v \in Windows |-> behind'[v]]
  BY <1>1 DEF PrefsInv
<1>3. mem'[w] = m /\ \A v \in Windows : v # w => mem'[v] = mem[v] BY <1>1 DEF PrefsInv
<1>4. \A v \in Windows : Full(mem'[v]) BY <1>3 DEF PrefsInv
<1>5. Fine(prefsDisk') /\ \A r \in P!Rows : P!Read(P!Merge(prefsDisk'), r) = P!Read(m, r)
  BY <1>1, Saved
<1>6. ASSUME NEW v \in Windows, NEW r \in P!Rows
      PROVE  P!Read(mem'[v], r) = prefsLast'[r] \/ r \in behind'[v]
  <2>1. P!Read(mem[v], r) = prefsLast[r] \/ r \in behind[v] BY DEF PrefsInv, P!ChoiceKept
  <2>2. QED BY <1>1, <1>3, <2>1
<1>7. \A r \in P!Rows : P!Read(P!Merge(prefsDisk'), r) = prefsLast'[r] \/ r \in over' BY <1>1, <1>5
<1>8. P!ChoiceKept' BY <1>6, <1>7 DEF P!ChoiceKept, P!Read, P!Merge
<1>9. QED BY <1>2, <1>4, <1>5, <1>8 DEF PrefsInv, Full, Fine

(* A setter changes the row it is for.                                                        *)
LEMMA OneRow == ASSUME NEW m, Full(m), NEW r \in P!Rows, NEW v
                PROVE  /\ Full(P!With(m, r, v))
                       /\ \A x \in P!Rows : x # r => P!Read(P!With(m, r, v), x) = P!Read(m, x)
BY DEF Full, P!With, P!Read

(* Each step of the settings keeps it.                                                        *)
LEMMA PrefsStep == ASSUME PrefsInv, P!Next PROVE PrefsInv'
<1>1. PICK w \in Windows : \/ \E r \in Choices : P!Choose(w, r)
                           \/ \E v \in 0..1 : P!ChooseTheme(w, v)
                           \/ P!Touch(w)
                           \/ P!Load(w)
  BY DEF P!Next
<1>2. Full(mem[w]) BY DEF PrefsInv
<1>3. ASSUME NEW r \in Choices, P!Choose(w, r) PROVE PrefsInv'
  <2> DEFINE v == (P!Read(mem[w], r) + 1) % r[3]
             m == P!With(mem[w], r, v)
  <2>1. r \in P!Rows /\ {r} \in SUBSET P!Rows BY PrefsAssumption DEF P!PrefsConstants
  <2>2. P!Save(w, m, {r}) BY <1>3 DEF P!Choose
  <2> HIDE DEF v
  <2>3. Full(m) /\ \A x \in P!Rows \ {r} : P!Read(m, x) = P!Read(mem[w], x) BY <1>2, <2>1, OneRow
  <2> HIDE DEF m
  <2>4. QED BY <2>1, <2>2, <2>3, PrefsSave
<1>4. ASSUME NEW v \in 0..1, P!ChooseTheme(w, v) PROVE PrefsInv'
  <2> DEFINE follow == <<"followSystemTheme", "", 2>>
             theme == <<"theme", "", 2>>
             m == P!With(mem[w], follow, 0)
             k == P!With(m, theme, v)
  <2>1. follow \in P!Rows /\ theme \in P!Rows
    <3>1. follow \in P!Appearance /\ theme \in P!Appearance BY DEF P!Appearance
    <3>2. QED BY <3>1 DEF P!Rows
  <2>2. P!Save(w, k, {follow, theme}) BY <1>4 DEF P!ChooseTheme
  <2> HIDE DEF follow, theme
  <2>3. Full(m) /\ \A x \in P!Rows : x # follow => P!Read(m, x) = P!Read(mem[w], x)
    BY <1>2, <2>1, OneRow
  <2> HIDE DEF m
  <2>4. Full(k) /\ \A x \in P!Rows : x # theme => P!Read(k, x) = P!Read(m, x)
    BY <2>1, <2>3, OneRow
  <2> HIDE DEF k
  <2>5. \A x \in P!Rows \ {follow, theme} : P!Read(k, x) = P!Read(mem[w], x) BY <2>3, <2>4
  <2>6. QED BY <2>1, <2>2, <2>4, <2>5, PrefsSave
<1>5. CASE P!Touch(w)
  <2>1. P!Save(w, mem[w], {}) BY <1>5 DEF P!Touch
  <2>2. QED BY <1>2, <2>1, PrefsSave
<1>6. CASE P!Load(w)
  <2>1. /\ mem' = [mem EXCEPT ![w] = P!Merge(prefsDisk)] /\ behind' = [behind EXCEPT ![w] = over]
        /\ UNCHANGED <<prefsDisk, prefsLast, over>>
    BY <1>6 DEF P!Load
  <2>2. Fine(prefsDisk) BY DEF PrefsInv
  <2>3. Full(P!Merge(prefsDisk)) BY <2>2, Merged
  <2> DEFINE m == P!Merge(prefsDisk)
  <2>4. Full(m) /\ mem' = [mem EXCEPT ![w] = m] BY <2>1, <2>3
  <2>5. \A r \in P!Rows : P!Read(m, r) = prefsLast[r] \/ r \in over BY DEF PrefsInv, P!ChoiceKept
  <2>6. P!Merge(prefsDisk)' = m BY <2>1 DEF P!Merge
  <2> HIDE DEF m
  <2>7. mem' = [v \in Windows |-> mem'[v]] /\ behind' = [v \in Windows |-> behind'[v]]
    BY <2>1, <2>4 DEF PrefsInv
  <2>8. /\ mem'[w] = m /\ behind'[w] = over
        /\ \A v \in Windows : v # w => mem'[v] = mem[v] /\ behind'[v] = behind[v]
    BY <2>1, <2>4 DEF PrefsInv
  <2>9. ASSUME NEW v \in Windows, NEW r \in P!Rows
        PROVE  P!Read(mem'[v], r) = prefsLast'[r] \/ r \in behind'[v]
    <3>1. P!Read(mem[v], r) = prefsLast[r] \/ r \in behind[v] BY DEF PrefsInv, P!ChoiceKept
    <3>2. QED BY <2>1, <2>5, <2>8, <3>1
  <2>10. P!ChoiceKept' BY <2>1, <2>5, <2>6, <2>9 DEF P!ChoiceKept, P!Read
  <2>11. \A v \in Windows : Full(mem'[v]) BY <2>4, <2>8 DEF PrefsInv
  <2>12. QED BY <2>1, <2>2, <2>7, <2>10, <2>11 DEF PrefsInv, Full, Fine
<1>7. QED BY <1>1, <1>3, <1>4, <1>5, <1>6

-----------------------------------------------------------------------------
(* The devices of calls (Devices).                                                            *)

(* The row that IndexedDB will have when it has served all there is. *)
Latest == IF devicesTasks = <<>> THEN idb ELSE devicesTasks[Len(devicesTasks)]
Choice(row) == row = <<chosen>> \/ (row = D!Absent /\ chosen = None)

(* The types of the variables.                                                                *)
DeviceRows == {D!Absent} \cup {<<i>> : i \in Ids \cup {None}}
DeviceTypes ==
  /\ prefs \in Ids \cup {None} /\ devicesDisk \in Ids \cup {None}
  /\ chosen \in Ids \cup {None} /\ devicesDraft \in Ids \cup {None}
  /\ idb \in DeviceRows /\ devicesTasks \in Seq(DeviceRows)
  /\ read \in {<<"asked">>, <<"done">>} \cup {<<"row", i>> : i \in Ids \cup {None}}

(* Until the first load is done with, the store has the last choice or, where localStorage was  *)
(* cleared, the defaults, and IndexedDB nothing to serve.                                      *)
Untouched == read # <<"done">> => devicesTasks = <<>> /\ prefs \in {chosen, None}

(* The last row to be served is of the last choice, and what is loaded before is no other.    *)
DeviceInv ==
  /\ DeviceTypes
  /\ devicesOdd = {} =>
       /\ Choice(Latest) /\ devicesDisk \in {chosen, None}
       /\ read = <<"done">> => prefs = chosen
       /\ Untouched
       /\ read[1] = "row" => idb = <<read[2]>>

(* It holds at the start.                                                                     *)
LEMMA DeviceInit == ASSUME D!Init PROVE DeviceInv
<1>. USE DevicesAssumption DEF D!DevicesConstants, D!Absent
<1>1. /\ prefs = devicesDisk /\ chosen = devicesDisk /\ devicesTasks = <<>> /\ read = <<"asked">>
      /\ devicesDraft = None /\ idb \in {<<>>} \cup {<<i>> : i \in Ids \cup {None}}
      /\ devicesDisk = IF idb = <<>> THEN None ELSE idb[1]
  BY DEF D!Init, DeviceRows
<1>2. devicesDisk \in Ids \cup {None} /\ (idb = <<devicesDisk>> \/ (idb = <<>> /\ devicesDisk = None))
  BY <1>1
<1>3. DeviceTypes BY <1>1, <1>2 DEF DeviceTypes, DeviceRows
<1>4. Choice(Latest) BY <1>1, <1>2 DEF Choice, Latest
<1> QED BY <1>1, <1>3, <1>4 DEF DeviceInv, Untouched

(* Each step keeps the types.                                                                 *)
LEMMA DeviceTypesStep == ASSUME DeviceTypes, D!Next PROVE DeviceTypes'
<1>. USE DevicesAssumption DEF DeviceTypes, D!DevicesConstants, D!Absent
<1>1. CASE D!OpenSection BY <1>1 DEF D!OpenSection
<1>2. CASE D!CloseSection BY <1>2 DEF D!CloseSection
<1>3. ASSUME NEW i \in Ids \cup {None}, D!ChooseDevice(i) PROVE DeviceTypes'
  BY <1>3 DEF D!ChooseDevice
<1>4. ASSUME NEW v \in Ids \cup {None}, NEW before \in Seq(DeviceRows),
             D!Applying(v, before) PROVE DeviceTypes'
  <2>1. <<v>> \in DeviceRows BY DEF DeviceRows
  <2>2. D!Saved(v) \in Seq(DeviceRows) BY <2>1 DEF D!Saved
  <2> QED BY <1>4, <2>2 DEF D!Applying, D!SetDevicePrefs
<1>5. CASE D!Apply BY <1>4, <1>5 DEF D!Apply
<1>6. CASE D!Reset
  <2>1. Append(devicesTasks, D!Absent) \in Seq(DeviceRows) BY DEF DeviceRows
  <2> QED BY <1>4, <1>6, <2>1 DEF D!Reset
<1>7. CASE D!Complete BY <1>7 DEF D!Complete
<1>8. CASE D!ReadRow BY <1>8 DEF D!ReadRow, DeviceRows
<1>9. CASE D!MergeIdb
  <2>1. read[2] \in Ids \cup {None} BY <1>9 DEF D!MergeIdb
  <2>2. D!Merged(read[2]) \in Ids \cup {None} BY <2>1 DEF D!Merged
  <2>3. <<D!Merged(read[2])>> \in DeviceRows BY <2>2 DEF DeviceRows
  <2>4. D!Saved(D!Merged(read[2])) \in Seq(DeviceRows) BY <2>3 DEF D!Saved
  <2>5. read' = <<"done">> /\ UNCHANGED <<idb, chosen>> BY <1>9 DEF D!MergeIdb
  <2>6. CASE UNCHANGED <<prefs, devicesDisk, devicesTasks, devicesDraft>> BY <2>5, <2>6
  <2>7. CASE D!SetDevicePrefs(D!Merged(read[2]), devicesTasks)
    BY <2>2, <2>4, <2>5, <2>7 DEF D!SetDevicePrefs
  <2> QED BY <1>9, <2>6, <2>7 DEF D!MergeIdb
<1>10. CASE D!Load BY <1>10 DEF D!Load
<1> QED BY <1>1, <1>2, <1>3, <1>5, <1>6, <1>7, <1>8, <1>9, <1>10 DEF D!Next, D!CancelDraft

(* Each step of the devices keeps it.                                                         *)
LEMMA DeviceStep == ASSUME DeviceInv, D!Next PROVE DeviceInv'
<1>. USE DevicesAssumption DEF D!DevicesConstants, D!Absent
<1>1. DeviceTypes /\ DeviceTypes' BY DeviceTypesStep DEF DeviceInv
<1>2. devicesOdd \subseteq devicesOdd'
  BY DEF D!Next, D!OpenSection, D!CloseSection, D!ChooseDevice, D!CancelDraft, D!Apply, D!Reset,
     D!Applying, D!Complete, D!ReadRow, D!MergeIdb, D!Load
<1>. SUFFICES ASSUME devicesOdd' = {}
              PROVE  /\ Choice(Latest)' /\ devicesDisk' \in {chosen', None}
                     /\ read' = <<"done">> => prefs' = chosen'
                     /\ Untouched' /\ (read'[1] = "row" => idb' = <<read'[2]>>)
  BY <1>1 DEF DeviceInv
<1>3. /\ Choice(Latest) /\ devicesDisk \in {chosen, None} /\ Untouched
      /\ read = <<"done">> => prefs = chosen
      /\ read[1] = "row" => idb = <<read[2]>>
  BY <1>2 DEF DeviceInv
<1>4. CASE D!OpenSection \/ D!CloseSection \/ D!CancelDraft \/ \E i \in Ids \cup {None} : D!ChooseDevice(i)
  BY <1>3, <1>4
    DEF D!OpenSection, D!CloseSection, D!ChooseDevice, D!CancelDraft, Choice, Latest, Untouched
<1>5. ASSUME NEW v, NEW before, D!Applying(v, before),
             before \in Seq(DeviceRows),
             IF v = prefs THEN before # <<>> /\ before[Len(before)] = D!Absent /\ v = None ELSE TRUE
      PROVE  /\ Choice(Latest)' /\ devicesDisk' \in {chosen', None}
             /\ read' = <<"done">> => prefs' = chosen'
             /\ Untouched' /\ (read'[1] = "row" => idb' = <<read'[2]>>)
  <2>1. /\ chosen' = v /\ prefs' = v /\ devicesDisk' = v /\ UNCHANGED <<idb, read>>
        /\ devicesTasks' = before \o D!Saved(v) /\ read = <<"done">>
    BY <1>5 DEF D!Applying, D!SetDevicePrefs, D!Raced
  <2>2. CASE v = prefs
    <3>1. devicesTasks' = before BY <1>5, <2>1, <2>2 DEF D!Saved
    <3>2. Latest' = D!Absent /\ chosen' = None BY <1>5, <2>1, <2>2, <3>1 DEF Latest
    <3> QED BY <2>1, <3>2 DEF Choice, Untouched
  <2>3. CASE v # prefs
    <3>1. devicesTasks' = Append(before, <<v>>) BY <1>5, <2>1, <2>3 DEF D!Saved
    <3>2. Latest' = <<v>> BY <1>5, <3>1 DEF Latest
    <3> QED BY <2>1, <3>2 DEF Choice, Untouched
  <2> QED BY <2>2, <2>3
<1>6. CASE D!Apply BY <1>1, <1>5, <1>6 DEF D!Apply, DeviceTypes
<1>7. CASE D!Reset
  <2>0. devicesTasks \in Seq(DeviceRows) /\ D!Absent \in DeviceRows
    BY <1>1 DEF DeviceTypes, DeviceRows
  <2>1. /\ Append(devicesTasks, D!Absent) \in Seq(DeviceRows)
        /\ Append(devicesTasks, D!Absent) # <<>>
        /\ Append(devicesTasks, D!Absent)[Len(Append(devicesTasks, D!Absent))] = D!Absent
    BY <2>0
  <2> QED BY <1>5, <1>7, <2>1 DEF D!Reset
<1>8. CASE D!Complete
  <2>1. /\ devicesTasks # <<>> /\ devicesTasks' = Tail(devicesTasks) /\ idb' = Head(devicesTasks)
        /\ UNCHANGED <<prefs, devicesDisk, read, chosen>>
    BY <1>8 DEF D!Complete
  <2>2. Latest' = Latest
    <3>1. devicesTasks \in Seq(DeviceRows) BY <1>1 DEF DeviceTypes
    <3>2. CASE Len(devicesTasks) = 1 BY <2>1, <3>1, <3>2 DEF Latest
    <3>3. CASE Len(devicesTasks) # 1
      <4> DEFINE n == Len(devicesTasks)
      <4>1. n \in Nat /\ n # 0 /\ n # 1 BY <2>1, <3>1, <3>3, EmptySeq
      <4>2. devicesTasks' \in Seq(DeviceRows) /\ Len(devicesTasks') = n - 1
            /\ \A i \in 1..Len(devicesTasks') : devicesTasks'[i] = devicesTasks[i + 1]
        BY <2>1, <3>1, HeadTailProperties
      <4>3. n - 1 \in 1..Len(devicesTasks') /\ n - 1 + 1 = n BY <4>1, <4>2
      <4>4. devicesTasks'[n - 1] = devicesTasks[n] BY <4>2, <4>3
      <4>5. devicesTasks' # <<>> BY <4>1, <4>2
      <4> QED BY <2>1, <4>2, <4>4, <4>5 DEF Latest
    <3> QED BY <3>2, <3>3
  <2>3. read = <<"done">> BY <1>3, <2>1 DEF Untouched
  <2> QED BY <1>3, <2>1, <2>2, <2>3 DEF Choice, Untouched
<1>9. CASE D!ReadRow
  <2>1. /\ read = <<"asked">> /\ read' = (IF idb = D!Absent THEN <<"done">> ELSE <<"row", idb[1]>>)
        /\ UNCHANGED <<prefs, devicesDisk, idb, devicesTasks, chosen>>
    BY <1>9 DEF D!ReadRow
  <2>2. devicesTasks = <<>> /\ prefs \in {chosen, None} /\ Latest = idb
    BY <1>3, <2>1 DEF Untouched, Latest
  <2>3. CASE idb = D!Absent
    BY <1>3, <2>1, <2>2, <2>3 DEF Choice, Untouched, Latest
  <2>4. CASE idb # D!Absent
    <3>1. idb = <<idb[1]>> BY <1>1, <2>4 DEF DeviceTypes, DeviceRows
    <3> QED BY <1>3, <2>1, <2>2, <2>4, <3>1 DEF Choice, Untouched, Latest
  <2> QED BY <2>3, <2>4
<1>10. CASE D!MergeIdb
  <2>1. /\ read[1] = "row" /\ read' = <<"done">> /\ UNCHANGED <<idb, chosen>>
    BY <1>10 DEF D!MergeIdb
  <2>2. idb = <<read[2]>> /\ devicesTasks = <<>> /\ prefs \in {chosen, None} /\ read[2] = chosen
    BY <1>3, <2>1 DEF Untouched, Latest, Choice
  <2>3. D!Merged(read[2]) = chosen BY <2>2 DEF D!Merged
  <2>4. prefs' = chosen /\ devicesDisk' \in {chosen, None} /\ devicesTasks' \in {<<>>, <<<<chosen>>>>}
    BY <1>3, <1>10, <2>2, <2>3 DEF D!MergeIdb, D!SetDevicePrefs, D!Saved
  <2>5. Choice(Latest)' BY <2>1, <2>2, <2>4 DEF Choice, Latest
  <2> QED BY <2>1, <2>4, <2>5 DEF Untouched
<1>11. CASE D!Load
  <2>1. /\ devicesTasks = <<>> /\ devicesTasks' = <<>> /\ read' = <<"asked">>
        /\ devicesDisk' \in {devicesDisk, None} /\ prefs' = devicesDisk' /\ UNCHANGED <<idb, chosen>>
    BY <1>11 DEF D!Load
  <2> QED BY <1>3, <2>1 DEF Choice, Latest, Untouched
<1> QED BY <1>4, <1>6, <1>7, <1>8, <1>9, <1>10, <1>11 DEF D!Next

-----------------------------------------------------------------------------
(* Voice messages and notes (Voices).                                                         *)

(* The events of an element, and those that stop it.                                          *)
Said == {"play", "playing", "pause", "ended"}
StopsIt == {"pause", "ended"}

(* What an element has yet to tell stops it; or has an e that nothing after it takes back.      *)
Stopped(s) == \E i \in 1..Len(s) : s[i] \in StopsIt
Lasting(s, e) == \E i \in 1..Len(s) : s[i] = e /\ \A j \in (i + 1)..Len(s) : s[j] \notin StopsIt

(* The types of the variables.                                                                *)
VoiceTypes ==
  /\ st \in [V!Players -> {"paused", "waiting", "playing"}] /\ voiceButton \in [V!Players -> BOOLEAN]
  /\ voiceEvents \in [V!Players -> Seq(Said)] /\ active \in V!Players \cup {None}

(* What is told of an element and what it does agree, once it has told what it has to.        *)
VoiceTold(p) ==
  LET s == voiceEvents[p] IN
  /\ st[p] = "playing" => Lasting(s, "playing") \/ (active = p /\ ~Stopped(s))
  /\ st[p] # "paused" => Lasting(s, "play") \/ (voiceButton[p] /\ ~Stopped(s))
  /\ Lasting(s, "playing") => st[p] # "paused"
  /\ active = p /\ voiceOdd = {} => st[p] # "paused" \/ Stopped(s)
VoiceInv == VoiceTypes /\ \A p \in V!Players : VoiceTold(p)

(* An element with nothing to tell has nothing that stops it.                                 *)
LEMMA SilentSays == Len(<<>>) = 0 /\ ~Stopped(<<>>) /\ \A e : ~Lasting(<<>>, e)
BY DEF Stopped, Lasting

(* What one more event adds to what is to be told.                                            *)
LEMMA SaysMore ==
  ASSUME NEW s \in Seq(Said), NEW x \in Said
  PROVE  /\ Append(s, x) \in Seq(Said)
         /\ Stopped(Append(s, x)) <=> Stopped(s) \/ x \in StopsIt
         /\ \A e : Lasting(Append(s, x), e) <=> x = e \/ (Lasting(s, e) /\ x \notin StopsIt)
<1> DEFINE t == Append(s, x)
           n == Len(s)
<1>1. n \in Nat /\ Len(t) = n + 1 /\ t[n + 1] = x /\ \A i \in 1..n : t[i] = s[i] BY DEF t
<1>2. t \in Seq(Said) BY DEF t
<1> HIDE DEF t
<1>3. Stopped(t) <=> Stopped(s) \/ x \in StopsIt
  <2>1. ASSUME NEW i \in 1..Len(t), t[i] \in StopsIt PROVE Stopped(s) \/ x \in StopsIt
    BY <1>1, <2>1 DEF Stopped
  <2>2. ASSUME NEW i \in 1..n, s[i] \in StopsIt PROVE Stopped(t)
    BY <1>1, <2>2 DEF Stopped
  <2>3. ASSUME x \in StopsIt PROVE Stopped(t)
    <3>1. n + 1 \in 1..Len(t) BY <1>1
    <3>2. QED BY <1>1, <2>3, <3>1 DEF Stopped
  <2>4. QED BY <2>1, <2>2, <2>3 DEF Stopped
<1>4. ASSUME NEW e PROVE Lasting(t, e) <=> x = e \/ (Lasting(s, e) /\ x \notin StopsIt)
  <2>1. ASSUME NEW i \in 1..Len(t), t[i] = e, \A j \in (i + 1)..Len(t) : t[j] \notin StopsIt
        PROVE  x = e \/ (Lasting(s, e) /\ x \notin StopsIt)
    <3>1. CASE i = n + 1 BY <1>1, <2>1, <3>1
    <3>2. CASE i # n + 1
      <4>1. i \in 1..n /\ n + 1 \in (i + 1)..Len(t) BY <1>1, <3>2
      <4>2. x \notin StopsIt BY <1>1, <2>1, <4>1
      <4>3. s[i] = e BY <1>1, <2>1, <4>1
      <4>4. \A j \in (i + 1)..n : s[j] \notin StopsIt
        <5>1. TAKE j \in (i + 1)..n
        <5>2. j \in 1..n /\ j \in (i + 1)..Len(t) BY <1>1, <4>1
        <5>3. QED BY <1>1, <2>1, <5>2
      <4>5. QED BY <4>1, <4>2, <4>3, <4>4 DEF Lasting
    <3>3. QED BY <3>1, <3>2
  <2>2. ASSUME x = e PROVE Lasting(t, e)
    <3>1. n + 1 \in 1..Len(t) /\ (n + 1 + 1)..Len(t) = {} BY <1>1
    <3>2. QED BY <1>1, <2>2, <3>1 DEF Lasting
  <2>3. ASSUME NEW i \in 1..n, s[i] = e, x \notin StopsIt, \A j \in (i + 1)..n : s[j] \notin StopsIt
        PROVE  Lasting(t, e)
    <3>1. i \in 1..Len(t) /\ t[i] = e BY <1>1, <2>3
    <3>2. ASSUME NEW j \in (i + 1)..Len(t) PROVE t[j] \notin StopsIt
      <4>1. j = n + 1 \/ (j \in (i + 1)..n /\ j \in 1..n) BY <1>1
      <4>2. QED BY <1>1, <2>3, <4>1
    <3>3. QED BY <3>1, <3>2 DEF Lasting
  <2>4. QED BY <2>1, <2>2, <2>3 DEF Lasting
<1>5. QED BY <1>2, <1>3, <1>4 DEF t

(* What the first event takes from what is to be told.                                        *)
LEMMA SaysLess ==
  ASSUME NEW s \in Seq(Said), s # <<>>
  PROVE  /\ Tail(s) \in Seq(Said) /\ Head(s) \in Said
         /\ Stopped(s) <=> Head(s) \in StopsIt \/ Stopped(Tail(s))
         /\ \A e : Lasting(s, e) <=> Lasting(Tail(s), e) \/ (Head(s) = e /\ ~Stopped(Tail(s)))
<1> DEFINE t == Tail(s)
           h == Head(s)
           n == Len(s)
<1>1. /\ t \in Seq(Said) /\ h \in Said /\ Len(t) = n - 1 /\ h = s[1] /\ n \in Nat /\ n >= 1
      /\ \A i \in 1..Len(t) : t[i] = s[i + 1]
  <2>1. n \in Nat /\ n # 0 BY EmptySeq
  <2>2. QED BY <2>1, HeadTailProperties, HeadTailProperties
<1> HIDE DEF t, h, n
<1>2. \A i \in 1..n : i = 1 \/ (i - 1 \in 1..Len(t) /\ t[i - 1] = s[i])
  <2>1. TAKE i \in 1..n
  <2>2. i = 1 \/ (i - 1 \in 1..Len(t) /\ i - 1 + 1 = i) BY <1>1
  <2>3. QED BY <1>1, <2>2
<1>3. Stopped(s) <=> h \in StopsIt \/ Stopped(t)
  <2>1. ASSUME NEW i \in 1..n, s[i] \in StopsIt PROVE h \in StopsIt \/ Stopped(t)
    BY <1>1, <1>2, <2>1 DEF Stopped
  <2>2. ASSUME h \in StopsIt PROVE Stopped(s)
    <3>1. 1 \in 1..n BY <1>1
    <3>2. QED BY <1>1, <2>2, <3>1 DEF Stopped, n
  <2>3. ASSUME NEW i \in 1..Len(t), t[i] \in StopsIt PROVE Stopped(s)
    <3>1. i + 1 \in 1..n BY <1>1
    <3>2. QED BY <1>1, <2>3, <3>1 DEF Stopped, n
  <2>4. QED BY <2>1, <2>2, <2>3 DEF Stopped, n
<1>4. ASSUME NEW e PROVE Lasting(s, e) <=> Lasting(t, e) \/ (h = e /\ ~Stopped(t))
  <2>1. ASSUME NEW i \in 1..n, s[i] = e, \A j \in (i + 1)..n : s[j] \notin StopsIt
        PROVE  Lasting(t, e) \/ (h = e /\ ~Stopped(t))
    <3>1. CASE i = 1
      <4>1. ASSUME NEW j \in 1..Len(t) PROVE t[j] \notin StopsIt
        <5>1. j + 1 \in (i + 1)..n BY <1>1, <3>1
        <5>2. QED BY <1>1, <2>1, <5>1
      <4>2. QED BY <1>1, <2>1, <3>1, <4>1 DEF Stopped
    <3>2. CASE i # 1
      <4>1. i - 1 \in 1..Len(t) /\ t[i - 1] = e BY <1>2, <2>1, <3>2
      <4>2. ASSUME NEW j \in (i - 1 + 1)..Len(t) PROVE t[j] \notin StopsIt
        <5>1. j \in 1..Len(t) /\ j + 1 \in (i + 1)..n BY <1>1, <4>1
        <5>2. QED BY <1>1, <2>1, <5>1
      <4>3. QED BY <4>1, <4>2 DEF Lasting
    <3>3. QED BY <3>1, <3>2
  <2>2. ASSUME h = e, ~Stopped(t) PROVE Lasting(s, e)
    <3>1. 1 \in 1..n /\ s[1] = e BY <1>1, <2>2
    <3>2. ASSUME NEW j \in (1 + 1)..n PROVE s[j] \notin StopsIt
      <4>1. j \in 1..n /\ j # 1 BY <1>1
      <4>2. QED BY <1>2, <2>2, <4>1 DEF Stopped
    <3>3. QED BY <3>1, <3>2 DEF Lasting, n
  <2>3. ASSUME NEW i \in 1..Len(t), t[i] = e, \A j \in (i + 1)..Len(t) : t[j] \notin StopsIt
        PROVE  Lasting(s, e)
    <3>1. i + 1 \in 1..n /\ s[i + 1] = e BY <1>1, <2>3
    <3>2. ASSUME NEW j \in (i + 1 + 1)..n PROVE s[j] \notin StopsIt
      <4>1. j \in 1..n /\ j # 1 /\ j - 1 \in (i + 1)..Len(t) BY <1>1
      <4>2. QED BY <1>2, <2>3, <4>1
    <3>3. QED BY <3>1, <3>2 DEF Lasting, n
  <2>4. QED BY <2>1, <2>2, <2>3 DEF Lasting, n
<1>5. QED BY <1>1, <1>3, <1>4 DEF t, h

(* With nothing left to tell, one message plays, and it is that of the bar.                   *)
LEMMA VoiceHeld == ASSUME VoiceInv PROVE V!OneVoice
<1>1. SUFFICES ASSUME voiceEvents = V!Silent
               PROVE  /\ \A p \in V!Players : st[p] = "playing" => active = p /\ voiceButton[p]
                      /\ active # None /\ voiceOdd = {} => st[active] # "paused"
  BY DEF V!OneVoice
<1>2. \A p \in V!Players : voiceEvents[p] = <<>> BY <1>1 DEF V!Silent
<1>3. \A p \in V!Players : ~Stopped(voiceEvents[p]) /\ \A e : ~Lasting(voiceEvents[p], e)
  BY <1>2, SilentSays
<1>4. QED BY <1>3 DEF VoiceInv, VoiceTypes, VoiceTold

(* It holds at the start.                                                                     *)
LEMMA VoiceInit == ASSUME V!Init PROVE VoiceInv
<1>1. /\ active = None /\ \A p \in V!Players : st[p] = "paused" /\ voiceEvents[p] = <<>>
  BY DEF V!Init, V!Silent
<1>2. VoiceTypes
  <2>1. <<>> \in Seq(Said) OBVIOUS
  <2>2. QED BY <2>1 DEF V!Init, VoiceTypes, V!Silent
<1>3. \A p \in V!Players : p # None BY VoicesAssumption DEF V!VoicesConstants, V!Players
<1>4. QED BY <1>1, <1>2, <1>3, SilentSays DEF VoiceInv, VoiceTold

(* An element that nothing is done to has told as much as before, unless it becomes active, or  *)
(* stops being so, while it plays with nothing to say of that.                                  *)
LEMMA VoiceKept ==
  ASSUME NEW p \in V!Players, VoiceTold(p), st'[p] = st[p], voiceEvents'[p] = voiceEvents[p],
         voiceButton'[p] = voiceButton[p],
         \/ active' = active /\ voiceOdd \subseteq voiceOdd'
         \/ active # p /\ active' # p
  PROVE  VoiceTold(p)'
BY DEF VoiceTold

(* A click on a message starts it or stops it, and no other one.                              *)
LEMMA VoiceToggle ==
  ASSUME VoiceInv, NEW p \in V!Players, V!Toggle(p), voiceButton' = voiceButton
  PROVE  /\ voiceEvents' \in [V!Players -> Seq(Said)]
         /\ st' \in [V!Players -> {"paused", "waiting", "playing"}]
         /\ \A q \in V!Players : q # p => st'[q] = st[q] /\ voiceEvents'[q] = voiceEvents[q]
         /\ active' = active /\ voiceOdd' = voiceOdd => VoiceTold(p)'
         /\ st[p] # "paused" => st'[p] = "paused" /\ ~Lasting(voiceEvents'[p], "playing")
<1> DEFINE x == IF st[p] = "paused" THEN "play" ELSE "pause"
           s == voiceEvents[p]
<1>1. s \in Seq(Said) /\ x \in Said BY DEF VoiceInv, VoiceTypes, Said
<1>2. V!Toggled(p) = IF st[p] = "paused" THEN [to |-> "waiting", says |-> <<"play">>]
                     ELSE [to |-> "paused", says |-> <<"pause">>]
  BY DEF V!Toggled
<1>3. /\ voiceEvents' = [voiceEvents EXCEPT ![p] = Append(s, x)]
      /\ st' = [st EXCEPT ![p] = IF st[p] = "paused" THEN "waiting" ELSE "paused"]
  <2> DEFINE y == V!Toggled(p)
  <2>1. y.says = <<x>> /\ y.to = IF st[p] = "paused" THEN "waiting" ELSE "paused" BY <1>2
  <2>2. /\ st' = [st EXCEPT ![p] = y.to]
        /\ voiceEvents' = [voiceEvents EXCEPT ![p] = voiceEvents[p] \o y.says]
    BY DEF V!Toggle
  <2> HIDE DEF y
  <2>3. s \o <<x>> = Append(s, x) BY <1>1
  <2>4. QED BY <2>1, <2>2, <2>3
<1>4. Append(s, x) \in Seq(Said) BY <1>1
<1>5. /\ voiceEvents' \in [V!Players -> Seq(Said)] /\ voiceEvents'[p] = Append(s, x)
      /\ st' \in [V!Players -> {"paused", "waiting", "playing"}]
      /\ st'[p] = IF st[p] = "paused" THEN "waiting" ELSE "paused"
      /\ \A q \in V!Players : q # p => st'[q] = st[q] /\ voiceEvents'[q] = voiceEvents[q]
  BY <1>3, <1>4 DEF VoiceInv, VoiceTypes
<1> DEFINE t == Append(s, x)
<1>6. /\ Stopped(t) <=> Stopped(s) \/ x \in StopsIt
      /\ \A e : Lasting(t, e) <=> x = e \/ (Lasting(s, e) /\ x \notin StopsIt)
  BY <1>1, SaysMore
<1>7. VoiceTold(p) BY DEF VoiceInv
<1>8. voiceEvents'[p] = t BY <1>5
<1> HIDE DEF t
<1>9. ASSUME active' = active /\ voiceOdd' = voiceOdd PROVE VoiceTold(p)'
  BY <1>5, <1>6, <1>7, <1>8, <1>9 DEF VoiceTold, StopsIt
<1>10. QED BY <1>5, <1>6, <1>8, <1>9 DEF StopsIt

(* An element tells that it plays, or stops.                                                  *)
LEMMA VoiceSays ==
  ASSUME VoiceInv, NEW p \in V!Players, NEW x \in Said, NEW to \in {"paused", "waiting", "playing"},
         voiceEvents' = [voiceEvents EXCEPT ![p] = Append(voiceEvents[p], x)],
         st' = [st EXCEPT ![p] = to], UNCHANGED <<voiceButton, active, voiceOdd>>,
         \/ x = "playing" /\ to = "playing" /\ st[p] = "waiting"
         \/ x = "pause" /\ to = "paused"
  PROVE  VoiceInv'
<1> DEFINE s == voiceEvents[p]
           t == Append(s, x)
<1>1. s \in Seq(Said) BY DEF VoiceInv, VoiceTypes
<1>2. /\ t \in Seq(Said) /\ (Stopped(t) <=> Stopped(s) \/ x \in StopsIt)
      /\ \A e : Lasting(t, e) <=> x = e \/ (Lasting(s, e) /\ x \notin StopsIt)
  BY <1>1, SaysMore
<1>3. voiceEvents' = [voiceEvents EXCEPT ![p] = t] OBVIOUS
<1> HIDE DEF t
<1>4. VoiceTypes' BY <1>2, <1>3 DEF VoiceInv, VoiceTypes
<1>5. voiceEvents'[p] = t /\ st'[p] = to BY <1>3 DEF VoiceInv, VoiceTypes
<1>6. VoiceTold(p)'
  <2>1. VoiceTold(p) /\ active' = active /\ voiceOdd' = voiceOdd /\ voiceButton' = voiceButton
    BY DEF VoiceInv
  <2>2. CASE x = "playing" /\ to = "playing" /\ st[p] = "waiting"
    <3>1. Lasting(t, "playing") /\ (Lasting(s, "play") => Lasting(t, "play")) /\ (Stopped(t) <=> Stopped(s))
      BY <1>2, <2>2 DEF StopsIt
    <3>2. QED BY <1>5, <2>1, <2>2, <3>1 DEF VoiceTold
  <2>3. CASE x = "pause" /\ to = "paused"
    <3>1. Stopped(t) /\ ~Lasting(t, "playing") BY <1>2, <2>3 DEF StopsIt
    <3>2. QED BY <1>5, <2>1, <2>3, <3>1 DEF VoiceTold
  <2>4. QED BY <2>2, <2>3
<1>7. ASSUME NEW q \in V!Players, q # p PROVE VoiceTold(q)'
  <2>1. st'[q] = st[q] /\ voiceEvents'[q] = voiceEvents[q] BY <1>3, <1>7 DEF VoiceInv, VoiceTypes
  <2>2. QED BY <2>1, VoiceKept DEF VoiceInv
<1>8. QED BY <1>4, <1>6, <1>7 DEF VoiceInv

(* Each step of the players keeps it.                                                         *)
LEMMA VoiceStep == ASSUME VoiceInv, V!Next PROVE VoiceInv'
<1>. USE DEF VoiceInv
<1>0. \A p \in V!Players : p # None BY VoicesAssumption DEF V!VoicesConstants, V!Players
<1>1. ASSUME NEW p \in V!Players, V!Toggle(p), UNCHANGED <<voiceButton, active, voiceOdd>>
        PROVE VoiceInv'
  <2>1. /\ voiceEvents' \in [V!Players -> Seq(Said)]
        /\ st' \in [V!Players -> {"paused", "waiting", "playing"}]
        /\ \A q \in V!Players : q # p => st'[q] = st[q] /\ voiceEvents'[q] = voiceEvents[q]
        /\ VoiceTold(p)'
    BY <1>1, VoiceToggle
  <2>2. \A q \in V!Players : q # p => VoiceTold(q)' BY <1>1, <2>1, VoiceKept
  <2>3. QED BY <1>1, <2>1, <2>2 DEF VoiceTypes
<1>2. CASE V!BarToggle
  <2>1. active \in V!Players BY <1>2 DEF V!BarToggle, VoiceTypes
  <2>2. QED BY <1>1, <1>2, <2>1 DEF V!BarToggle
<1>3. CASE V!BarClose
  <2>1. PICK p \in V!Players : p = active BY <1>3 DEF V!BarClose, VoiceTypes
  <2>2. /\ active' = None /\ voiceOdd' = {} /\ voiceButton' = voiceButton
        /\ IF st[p] = "paused" THEN UNCHANGED <<st, voiceEvents>> ELSE V!Toggle(p)
    BY <1>3, <2>1 DEF V!BarClose
  <2>3. CASE st[p] = "paused"
    <3>1. VoiceTold(p)' BY <2>2, <2>3, <1>0 DEF VoiceTold
    <3>2. \A q \in V!Players : q # p => VoiceTold(q)' BY <1>0, <2>1, <2>2, <2>3, VoiceKept
    <3>3. VoiceTypes' BY <2>2, <2>3 DEF VoiceTypes
    <3>4. QED BY <3>1, <3>2, <3>3
  <2>4. CASE st[p] # "paused"
    <3>1. /\ voiceEvents' \in [V!Players -> Seq(Said)]
          /\ st' \in [V!Players -> {"paused", "waiting", "playing"}]
          /\ \A q \in V!Players : q # p => st'[q] = st[q] /\ voiceEvents'[q] = voiceEvents[q]
          /\ st'[p] = "paused" /\ ~Lasting(voiceEvents'[p], "playing")
      BY <2>2, <2>4, VoiceToggle
    <3>2. VoiceTold(p)' BY <1>0, <2>2, <3>1 DEF VoiceTold
    <3>3. \A q \in V!Players : q # p => VoiceTold(q)' BY <1>0, <2>1, <2>2, <3>1, VoiceKept
    <3>4. VoiceTypes' BY <2>2, <3>1 DEF VoiceTypes
    <3>5. QED BY <3>2, <3>3, <3>4
  <2>5. QED BY <2>3, <2>4
<1>4. CASE V!Leave
  <2>1. /\ active' = None /\ \A p \in V!Players : st'[p] = "paused" /\ voiceEvents'[p] = <<>>
        /\ VoiceTypes'
    <3>1. <<>> \in Seq(Said) OBVIOUS
    <3>2. QED BY <1>4, <3>1 DEF V!Leave, VoiceTypes, V!Silent
  <2>2. QED BY <1>0, <2>1, SilentSays DEF VoiceTold
<1>5. CASE V!Come BY <1>5, VoiceKept DEF V!Come, VoiceTypes
<1>6. ASSUME NEW p \in V!Players, V!OnPlayClick(p) PROVE VoiceInv' BY <1>1, <1>6 DEF V!OnPlayClick
<1>7. ASSUME NEW p \in V!Players, V!Ready(p) PROVE VoiceInv'
  <2>1. "playing" \in Said BY DEF Said
  <2>2. QED BY <1>7, <2>1, VoiceSays DEF V!Ready
<1>8. ASSUME NEW p \in V!Players, V!Stall(p) PROVE VoiceInv'
  <2>1. st' = [st EXCEPT ![p] = "waiting"] /\ st[p] = "playing"
        /\ UNCHANGED <<voiceEvents, voiceButton, active, voiceOdd>>
    BY <1>8 DEF V!Stall
  <2>2. VoiceTypes' BY <2>1 DEF VoiceTypes
  <2>3. \A q \in V!Players : st'[q] = IF q = p THEN "waiting" ELSE st[q] BY <2>1 DEF VoiceTypes
  <2>4. QED BY <2>1, <2>2, <2>3 DEF VoiceTold
<1>9. ASSUME NEW p \in V!Players, V!Ends(p) PROVE VoiceInv'
  <2> DEFINE s == voiceEvents[p]
             t == Append(s, "pause")
             u == Append(t, "ended")
  <2>1. /\ st' = [st EXCEPT ![p] = "paused"]
               /\ voiceEvents' = [voiceEvents EXCEPT ![p] = s \o <<"pause", "ended">>]
        /\ UNCHANGED <<voiceButton, active, voiceOdd>>
    BY <1>9 DEF V!Ends
  <2>2. s \in Seq(Said) /\ "pause" \in Said /\ "ended" \in Said BY DEF VoiceTypes, Said
  <2>3. s \o <<"pause", "ended">> = u BY <2>2
  <2>4. t \in Seq(Said) BY <2>2
  <2> HIDE DEF t
  <2>5. u \in Seq(Said) /\ Stopped(u) /\ ~Lasting(u, "playing") BY <2>2, <2>4, SaysMore DEF StopsIt
  <2> HIDE DEF u
  <2>6. VoiceTypes' BY <2>1, <2>3, <2>5 DEF VoiceTypes
  <2>7. st'[p] = "paused" /\ voiceEvents'[p] = u
        /\ \A q \in V!Players : q # p => st'[q] = st[q] /\ voiceEvents'[q] = voiceEvents[q]
    BY <2>1, <2>3 DEF VoiceTypes
  <2>8. VoiceTold(p)' BY <2>5, <2>7 DEF VoiceTold
  <2>9. \A q \in V!Players : q # p => VoiceTold(q)' BY <2>1, <2>7, VoiceKept
  <2>10. QED BY <2>6, <2>8, <2>9
<1>10. ASSUME NEW p \in V!Players, V!OnPlaying(p) PROVE VoiceInv'
  <2> DEFINE moot == {q \in V!Stops(p) : st[q] # "paused"}
             s == voiceEvents[p]
             t == Tail(s)
  <2>1. /\ s # <<>> /\ Head(s) = "playing" /\ active' = p /\ voiceOdd' = {} /\ voiceButton' = voiceButton
        /\ st' = [q \in V!Players |-> IF q \in moot THEN "paused" ELSE st[q]]
        /\ voiceEvents' = [q \in V!Players |-> IF q \in moot THEN Append(voiceEvents[q], "pause")
                                               ELSE V!Told(p)[q]]
    BY <1>10 DEF V!OnPlaying
  <2>2. s \in Seq(Said) BY DEF VoiceTypes
  <2>3. /\ t \in Seq(Said) /\ (Stopped(s) <=> Stopped(t))
        /\ \A e : Lasting(s, e) <=> Lasting(t, e) \/ (e = "playing" /\ ~Stopped(t))
    BY <2>1, <2>2, SaysLess DEF StopsIt
  <2>4. V!Told(p) = [voiceEvents EXCEPT ![p] = t] BY DEF V!Told
  <2>5. p \notin moot /\ \A q \in moot : q = active /\ q # p /\ q # None /\ st[q] # "paused"
    BY DEF V!Stops
  <2>6. \A q \in V!Players : q # p /\ q = active => q \in moot \/ st[q] = "paused"
    BY <1>0 DEF V!Stops
  <2> HIDE DEF t, moot
  <2>7. st'[p] = st[p] /\ voiceEvents'[p] = t BY <2>1, <2>4, <2>5 DEF VoiceTypes
  <2>8. VoiceTold(p)' BY <2>1, <2>3, <2>7 DEF VoiceTold
  <2>9. ASSUME NEW q \in V!Players, q \in moot
        PROVE  VoiceTold(q)' /\ voiceEvents'[q] \in Seq(Said) /\ st'[q] = "paused"
    <3> DEFINE u == Append(voiceEvents[q], "pause")
    <3>1. voiceEvents[q] \in Seq(Said) /\ "pause" \in Said BY DEF VoiceTypes, Said
    <3>2. u \in Seq(Said) /\ Stopped(u) /\ ~Lasting(u, "playing") BY <3>1, SaysMore DEF StopsIt
    <3>3. voiceEvents'[q] = u /\ st'[q] = "paused" BY <2>1, <2>9
    <3> HIDE DEF u
    <3>4. QED BY <3>2, <3>3 DEF VoiceTold
  <2>10. ASSUME NEW q \in V!Players, q \notin moot, q # p
         PROVE  VoiceTold(q)' /\ voiceEvents'[q] = voiceEvents[q] /\ st'[q] = st[q]
    <3>1. st'[q] = st[q] /\ voiceEvents'[q] = voiceEvents[q] BY <2>1, <2>4, <2>10 DEF VoiceTypes
    <3>2. VoiceTold(q) OBVIOUS
    <3>3. CASE active = q BY <2>1, <2>6, <2>10, <3>1, <3>2, <3>3 DEF VoiceTold
    <3>4. CASE active # q BY <2>1, <2>10, <3>1, <3>2, <3>4, VoiceKept
    <3>5. QED BY <3>1, <3>3, <3>4
  <2>11. VoiceTypes'
    <3>1. \A q \in V!Players : voiceEvents'[q] \in Seq(Said)
      BY <2>3, <2>7, <2>9, <2>10 DEF VoiceTypes
    <3>2. voiceEvents' \in [V!Players -> Seq(Said)] BY <2>1, <3>1
    <3>3. QED BY <2>1, <3>2 DEF VoiceTypes
  <2>12. QED BY <2>8, <2>9, <2>10, <2>11
<1>11. ASSUME NEW p \in V!Players, V!OnPlay(p) PROVE VoiceInv'
  <2> DEFINE s == voiceEvents[p]
             t == Tail(s)
  <2>1. /\ s # <<>> /\ Head(s) = "play" /\ voiceEvents' = [voiceEvents EXCEPT ![p] = t]
        /\ voiceButton' = [voiceButton EXCEPT ![p] = TRUE] /\ UNCHANGED <<st, active, voiceOdd>>
    BY <1>11 DEF V!OnPlay, V!Told
  <2>2. s \in Seq(Said) BY DEF VoiceTypes
  <2>3. /\ t \in Seq(Said) /\ (Stopped(s) <=> Stopped(t))
        /\ \A e : Lasting(s, e) <=> Lasting(t, e) \/ (e = "play" /\ ~Stopped(t))
    BY <2>1, <2>2, SaysLess DEF StopsIt
  <2> HIDE DEF t
  <2>4. VoiceTypes' BY <2>1, <2>3 DEF VoiceTypes
  <2>5. voiceEvents'[p] = t /\ voiceButton'[p] = TRUE
        /\ \A q \in V!Players : q # p => voiceEvents'[q] = voiceEvents[q] /\ voiceButton'[q] = voiceButton[q]
    BY <2>1 DEF VoiceTypes
  <2>6. VoiceTold(p)' BY <2>1, <2>3, <2>5 DEF VoiceTold
  <2>7. \A q \in V!Players : q # p => VoiceTold(q)' BY <2>1, <2>5, VoiceKept
  <2>8. QED BY <2>4, <2>6, <2>7
<1>12. ASSUME NEW p \in V!Players, V!OnPause(p) PROVE VoiceInv'
  <2> DEFINE s == voiceEvents[p]
             t == Tail(s)
  <2>1. /\ s # <<>> /\ Head(s) \in StopsIt /\ voiceEvents' = [voiceEvents EXCEPT ![p] = t]
        /\ voiceButton' = [voiceButton EXCEPT ![p] = FALSE] /\ st' = st
        /\ active' = IF active = p THEN None ELSE active
        /\ active' = None \/ voiceOdd' = voiceOdd
    BY <1>12 DEF V!OnPause, V!Told, V!ClearIfMessage, StopsIt
  <2>2. s \in Seq(Said) BY DEF VoiceTypes
  <2>3. /\ t \in Seq(Said) /\ Stopped(s)
        /\ \A e : Lasting(s, e) <=> Lasting(t, e) \/ (e = Head(s) /\ ~Stopped(t))
    BY <2>1, <2>2, SaysLess
  <2>4. \A e \in {"play", "playing"} : Lasting(s, e) <=> Lasting(t, e) BY <2>1, <2>3 DEF StopsIt
  <2> HIDE DEF t
  <2>5. VoiceTypes' BY <2>1, <2>3 DEF VoiceTypes
  <2>6. voiceEvents'[p] = t
        /\ \A q \in V!Players : q # p => voiceEvents'[q] = voiceEvents[q] /\ voiceButton'[q] = voiceButton[q]
    BY <2>1 DEF VoiceTypes
  <2>7. VoiceTold(p)'
    <3>1. VoiceTold(p) /\ active' # p BY <1>0, <2>1
    <3>2. QED BY <2>1, <2>3, <2>4, <2>6, <3>1 DEF VoiceTold
  <2>8. ASSUME NEW q \in V!Players, q # p PROVE VoiceTold(q)'
    <3>1. VoiceTold(q) OBVIOUS
    <3>2. active' = q => active = q /\ voiceOdd' = voiceOdd BY <1>0, <2>1, <2>8
    <3>3. active = q => active' = q BY <2>1, <2>8
    <3>4. QED BY <2>1, <2>6, <2>8, <3>1, <3>2, <3>3 DEF VoiceTold
  <2>9. QED BY <2>5, <2>7, <2>8
<1>13. ASSUME NEW p \in V!Players, V!LoadAgain(p) PROVE VoiceInv'
  <2>1. /\ st' = [st EXCEPT ![p] = "paused"] /\ voiceEvents' = [voiceEvents EXCEPT ![p] = <<>>]
        /\ voiceButton' = [voiceButton EXCEPT ![p] = FALSE] /\ active' = active
        /\ voiceOdd \subseteq voiceOdd' /\ (active = p => voiceOdd' # {})
    BY <1>13 DEF V!LoadAgain
  <2>2. <<>> \in Seq(Said) OBVIOUS
  <2>3. VoiceTypes' BY <2>1, <2>2 DEF VoiceTypes
  <2>4. st'[p] = "paused" /\ voiceEvents'[p] = <<>>
        /\ \A q \in V!Players : q # p => st'[q] = st[q] /\ voiceEvents'[q] = voiceEvents[q]
                                         /\ voiceButton'[q] = voiceButton[q]
    BY <2>1 DEF VoiceTypes
  <2>5. VoiceTold(p)' BY <2>1, <2>4, SilentSays DEF VoiceTold
  <2>6. \A q \in V!Players : q # p => VoiceTold(q)' BY <2>1, <2>4, VoiceKept
  <2>7. QED BY <2>3, <2>5, <2>6
<1>14. QED
  BY <1>2, <1>3, <1>4, <1>5, <1>6, <1>7, <1>8, <1>9, <1>10, <1>11, <1>12, <1>13 DEF V!Next

-----------------------------------------------------------------------------
(* The player of music (Music).                                                               *)

(* The events of the element, and the types of the variables.                                 *)
MusicSaid == {"play", "pause", "ended"}
MusicTypes ==
  /\ musicCurrent \in Tracks \cup {None} /\ queue \in Seq(Tracks) /\ musicEvents \in Seq(MusicSaid)
  /\ playing \in BOOLEAN /\ musicButton \in BOOLEAN /\ asked \in BOOLEAN

(* What was told last, and then what is to be told last, is what the element does.              *)
LastTold(s, otherwise) == IF s = <<>> THEN otherwise ELSE s[Len(s)] = "play"
Ending == \E i \in 1..Len(musicEvents) : musicEvents[i] = "ended"

(* The element has the current track, and its events tell truly what it does.                 *)
MusicInv ==
  /\ MusicTypes
  /\ src = musicCurrent
  /\ playing = LastTold(musicEvents, musicButton)
  /\ musicCurrent = None => queue = <<>> /\ ~playing
  /\ musicOdd = {} => playing = asked \/ Ending

(* With nothing left to tell, the player plays what was asked.                                *)
LEMMA MusicHeld == ASSUME MusicInv PROVE U!MusicObeys
<1>1. SUFFICES ASSUME musicEvents = <<>>
               PROVE  /\ src = musicCurrent /\ musicButton = playing
                      /\ musicOdd = {} => playing = asked
                      /\ musicCurrent = None => queue = <<>> /\ ~playing
  BY DEF U!MusicObeys
<1>2. ~Ending BY <1>1 DEF Ending
<1>3. playing = musicButton BY <1>1 DEF MusicInv, LastTold
<1>4. QED BY <1>2, <1>3 DEF MusicInv

(* It holds at the start.                                                                     *)
LEMMA MusicInit == ASSUME U!Init PROVE MusicInv
<1>1. <<>> \in Seq(Tracks) /\ <<>> \in Seq(MusicSaid) OBVIOUS
<1>2. LastTold(<<>>, FALSE) = FALSE BY DEF LastTold
<1>3. QED BY <1>1, <1>2 DEF U!Init, MusicInv, MusicTypes

(* What one more event adds to what is to be told.                                            *)
LEMMA ToldMore ==
  ASSUME NEW s \in Seq(MusicSaid), NEW x \in MusicSaid
  PROVE  /\ s \o <<x>> \in Seq(MusicSaid) /\ \A o : LastTold(s \o <<x>>, o) <=> x = "play"
         /\ \A i \in 1..Len(s) : i \in 1..Len(s \o <<x>>) /\ (s \o <<x>>)[i] = s[i]
         /\ Len(s) + 1 \in 1..Len(s \o <<x>>) /\ (s \o <<x>>)[Len(s) + 1] = x
BY DEF LastTold

(* What the first event takes from what is to be told.                                        *)
LEMMA ToldLess ==
  ASSUME NEW s \in Seq(MusicSaid), s # <<>>, NEW o
  PROVE  /\ Tail(s) \in Seq(MusicSaid)
         /\ LastTold(s, o) = LastTold(Tail(s), Head(s) = "play")
         /\ Head(s) # "ended" =>
              \A i \in 1..Len(s) : s[i] = "ended" => \E j \in 1..Len(Tail(s)) : Tail(s)[j] = "ended"
<1> DEFINE t == Tail(s)
           h == Head(s)
           n == Len(s)
<1>1. /\ t \in Seq(MusicSaid) /\ Len(t) = n - 1 /\ h = s[1] /\ n \in Nat /\ n >= 1
      /\ \A i \in 1..Len(t) : t[i] = s[i + 1]
  <2>1. n \in Nat /\ n # 0 BY EmptySeq
  <2>2. QED BY <2>1, HeadTailProperties
<1> HIDE DEF t, h, n
<1>2. t = <<>> <=> n = 1
  <2>1. Len(<<>>) = 0 /\ (t # <<>> => Len(t) # 0) BY <1>1, EmptySeq
  <2>2. QED BY <1>1, <2>1
<1>3. LastTold(s, o) = LastTold(t, h = "play")
  <2>1. LastTold(s, o) = (s[n] = "play") BY DEF LastTold, n
  <2>2. CASE n = 1 BY <1>1, <1>2, <2>1, <2>2 DEF LastTold
  <2>3. CASE n # 1
    <3>1. Len(t) \in 1..Len(t) /\ Len(t) + 1 = n BY <1>1, <2>3
    <3>2. t[Len(t)] = s[n] BY <1>1, <3>1
    <3>3. QED BY <1>2, <2>1, <2>3, <3>2 DEF LastTold
  <2>4. QED BY <2>2, <2>3
<1>4. ASSUME h # "ended", NEW i \in 1..n, s[i] = "ended" PROVE \E j \in 1..Len(t) : t[j] = "ended"
  <2>1. i # 1 BY <1>1, <1>4
  <2>2. i - 1 \in 1..Len(t) /\ i - 1 + 1 = i BY <1>1, <2>1
  <2>3. t[i - 1] = s[i] BY <1>1, <2>2
  <2>4. QED BY <1>4, <2>2, <2>3
<1>5. QED BY <1>1, <1>3, <1>4 DEF t, h, n

(* Another track: it is started, or the element is stopped where there is none. The events of   *)
(* before tell truly what the element does, as the buttons will be by then.                     *)
LEMMA MusicBecomes ==
  ASSUME NEW t \in Tracks \cup {None}, NEW before \in Seq(MusicSaid), U!Becomes(t, before),
         playing \in BOOLEAN, playing = LastTold(before, musicButton'), musicButton' \in BOOLEAN,
         queue' \in Seq(Tracks), t = None => queue' = <<>>
  PROVE  MusicInv'
<1>1. musicCurrent' = t /\ asked' = (t # None) BY DEF U!Becomes
<1>2. CASE t # None
  <2>1. src' = t /\ playing' = TRUE /\ musicEvents' = <<"play">>
    BY <1>1, <1>2 DEF U!Becomes, U!Loaded
  <2>2. <<"play">> \in Seq(MusicSaid) /\ Len(<<"play">>) = 1 /\ <<"play">>[1] = "play" /\ <<"play">> # <<>>
    BY DEF MusicSaid
  <2>3. QED BY <1>1, <1>2, <2>1, <2>2 DEF MusicInv, MusicTypes, LastTold
<1>3. CASE t = None
  <2>1. /\ src' = None /\ playing' = FALSE
        /\ musicEvents' = before \o (IF playing THEN <<"pause">> ELSE <<>>)
    BY <1>1, <1>3 DEF U!Becomes, U!Loaded, U!Says
  <2>2. musicEvents' \in Seq(MusicSaid) /\ LastTold(musicEvents', musicButton') = FALSE
    <3>1. CASE playing
      <4>1. "pause" \in MusicSaid BY DEF MusicSaid
      <4>2. QED BY <2>1, <3>1, <4>1, ToldMore
    <3>2. CASE ~playing
      <4>1. before \o <<>> = before OBVIOUS
      <4>2. musicEvents' = before BY <2>1, <3>2, <4>1
      <4>3. LastTold(before, musicButton') \in BOOLEAN BY DEF LastTold
      <4>4. QED BY <3>2, <4>2, <4>3
    <3>3. QED BY <3>1, <3>2
  <2>3. QED BY <1>1, <1>3, <2>1, <2>2 DEF MusicInv, MusicTypes
<1>4. QED BY <1>2, <1>3

(* Each step of the player keeps it.                                                          *)
LEMMA MusicStep == ASSUME MusicInv, U!Next PROVE MusicInv'
<1>. USE MusicAssumption DEF U!MusicConstants
<1>1. MusicTypes /\ playing \in BOOLEAN /\ musicEvents \in Seq(MusicSaid) /\ queue \in Seq(Tracks)
  BY DEF MusicInv, MusicTypes
<1>2. playing = LastTold(musicEvents, musicButton) BY DEF MusicInv
<1>3. ASSUME NEW t \in Tracks, U!Play(t) PROVE MusicInv'
  <2>1. CASE musicCurrent = None
    <3>1. U!Becomes(t, musicEvents) /\ queue' = queue /\ musicButton' = musicButton
      BY <1>3, <2>1 DEF U!Play
    <3>2. t # None BY DEF U!MusicConstants
    <3>3. QED BY <1>1, <1>2, <3>1, <3>2, MusicBecomes DEF MusicTypes
  <2>2. CASE musicCurrent # None
    <3>1. /\ queue' = Append(queue, t)
          /\ UNCHANGED <<musicCurrent, src, playing, musicEvents, asked, musicOdd, musicButton>>
      BY <1>3, <2>2 DEF U!Play
    <3>2. queue' \in Seq(Tracks) BY <1>1, <3>1
    <3>3. Ending' = Ending BY <3>1 DEF Ending
    <3>4. QED BY <2>2, <3>1, <3>2, <3>3 DEF MusicInv, MusicTypes
  <2>3. QED BY <2>1, <2>2
<1>4. CASE U!Toggle
  <2> DEFINE x == IF playing THEN "pause" ELSE "play"
  <2>1. /\ musicCurrent # None /\ playing' = ~playing /\ asked' = ~playing
        /\ musicEvents' = musicEvents \o <<x>>
        /\ UNCHANGED <<musicCurrent, queue, src, musicButton>>
    BY <1>4 DEF U!Toggle, U!Says
  <2>2. x \in MusicSaid /\ (x = "play" <=> ~playing) BY DEF MusicSaid
  <2> HIDE DEF x
  <2>3. musicEvents' \in Seq(MusicSaid) /\ (LastTold(musicEvents', musicButton') <=> x = "play")
    BY <1>1, <2>1, <2>2, ToldMore
  <2>4. LastTold(musicEvents', musicButton') \in BOOLEAN BY <1>1, <2>1 DEF LastTold, MusicTypes
  <2>5. playing' = LastTold(musicEvents', musicButton') BY <1>1, <2>1, <2>2, <2>3, <2>4
  <2>6. QED BY <1>1, <2>1, <2>3, <2>5 DEF MusicInv, MusicTypes
<1>5. ASSUME NEW before \in Seq(MusicSaid), U!NextTrack(before), musicButton' \in BOOLEAN,
             playing = LastTold(before, musicButton')
      PROVE  MusicInv'
  <2> DEFINE t == IF queue = <<>> THEN None ELSE Head(queue)
  <2>1. queue' = (IF queue = <<>> THEN <<>> ELSE Tail(queue)) /\ U!Becomes(t, before)
    BY <1>5 DEF U!NextTrack
  <2>2. CASE queue = <<>>
    <3>1. t = None /\ queue' = <<>> /\ <<>> \in Seq(Tracks) BY <2>1, <2>2
    <3>2. QED BY <1>1, <1>5, <2>1, <3>1, MusicBecomes
  <2>3. CASE queue # <<>>
    <3>1. Head(queue) \in Tracks /\ Tail(queue) \in Seq(Tracks) BY <1>1, <2>3
    <3>2. t \in Tracks /\ t # None /\ queue' \in Seq(Tracks) BY <2>1, <2>3, <3>1
    <3> HIDE DEF t
    <3>3. QED BY <1>1, <1>5, <2>1, <3>2, MusicBecomes
  <2>4. QED BY <2>2, <2>3
<1>6. CASE U!SkipNext BY <1>1, <1>2, <1>5, <1>6 DEF U!SkipNext, MusicTypes
<1>7. CASE U!StopAndClear
  <2>1. queue' = <<>> /\ <<>> \in Seq(Tracks) /\ U!Becomes(None, musicEvents) /\ musicButton' = musicButton
    BY <1>7 DEF U!StopAndClear
  <2>2. QED BY <1>1, <1>2, <2>1, MusicBecomes DEF MusicTypes
<1>8. CASE U!Ends
  <2> DEFINE s == musicEvents \o <<"pause">>
             u == s \o <<"ended">>
  <2>1. /\ playing /\ playing' = FALSE /\ musicEvents' = musicEvents \o <<"pause", "ended">>
        /\ UNCHANGED <<musicCurrent, queue, src, musicButton, asked, musicOdd>>
    BY <1>8 DEF U!Ends, U!Says
  <2>2. musicEvents \o <<"pause", "ended">> = u BY <1>1
  <2>3. "pause" \in MusicSaid /\ "ended" \in MusicSaid BY DEF MusicSaid
  <2>4. s \in Seq(MusicSaid) BY <1>1, <2>3, ToldMore
  <2> HIDE DEF s
  <2>5. /\ u \in Seq(MusicSaid) /\ ~LastTold(u, musicButton)
        /\ Len(s) + 1 \in 1..Len(u) /\ u[Len(s) + 1] = "ended"
    BY <2>3, <2>4, ToldMore
  <2> HIDE DEF u
  <2>6. Ending' BY <2>1, <2>2, <2>5 DEF Ending
  <2>7. LastTold(musicEvents', musicButton') = FALSE
    BY <1>1, <2>1, <2>2, <2>5 DEF LastTold, MusicTypes
  <2>8. QED BY <1>1, <2>1, <2>2, <2>5, <2>6, <2>7 DEF MusicInv, MusicTypes
<1>9. CASE U!OnEvent
  <2> DEFINE s == Tail(musicEvents)
             h == Head(musicEvents)
  <2>1. /\ musicEvents # <<>> /\ h # "ended" /\ musicEvents' = s /\ musicButton' = (h = "play")
        /\ UNCHANGED <<musicCurrent, queue, src, playing, asked, musicOdd>>
    BY <1>9 DEF U!OnEvent
  <2>2. /\ s \in Seq(MusicSaid) /\ LastTold(musicEvents, musicButton) = LastTold(s, h = "play")
        /\ \A i \in 1..Len(musicEvents) :
             musicEvents[i] = "ended" => \E j \in 1..Len(s) : s[j] = "ended"
    BY <1>1, <2>1, ToldLess
  <2> HIDE DEF s, h
  <2>3. Ending => Ending' BY <2>1, <2>2 DEF Ending
  <2>4. playing' = LastTold(musicEvents', musicButton') BY <1>2, <2>1, <2>2
  <2>5. QED BY <1>1, <2>1, <2>2, <2>3, <2>4 DEF MusicInv, MusicTypes
<1>10. CASE U!OnEnded
  <2> DEFINE s == Tail(musicEvents)
  <2>1. /\ musicEvents # <<>> /\ Head(musicEvents) = "ended" /\ musicButton' = FALSE /\ U!NextTrack(s)
    BY <1>10 DEF U!OnEnded
  <2>2. s \in Seq(MusicSaid) /\ LastTold(musicEvents, musicButton) = LastTold(s, Head(musicEvents) = "play")
    BY <1>1, <2>1, ToldLess
  <2>3. (Head(musicEvents) = "play") = FALSE BY <2>1
  <2>4. playing = LastTold(s, musicButton') BY <1>2, <2>1, <2>2, <2>3
  <2> HIDE DEF s
  <2>5. QED BY <1>5, <2>1, <2>2, <2>4
<1>11. CASE U!PatchTrack
  <2>1. /\ musicCurrent # None /\ musicCurrent' = musicCurrent /\ src' = musicCurrent' /\ playing' = TRUE
        /\ musicEvents' = <<"play">> /\ musicOdd' = (IF asked THEN musicOdd ELSE {"tags"})
        /\ UNCHANGED <<queue, musicButton, asked>>
    BY <1>11 DEF U!PatchTrack, U!Loaded
  <2>2. <<"play">> \in Seq(MusicSaid) /\ Len(<<"play">>) = 1 /\ <<"play">>[1] = "play" /\ <<"play">> # <<>>
    BY DEF MusicSaid
  <2>3. LastTold(musicEvents', musicButton') = TRUE BY <2>1, <2>2 DEF LastTold
  <2>4. musicOdd' = {} => asked = TRUE BY <1>1, <2>1 DEF MusicTypes
  <2>5. QED BY <1>1, <2>1, <2>2, <2>3, <2>4 DEF MusicInv, MusicTypes
<1>12. CASE U!NoTags
  <2>1. UNCHANGED <<musicCurrent, queue, src, playing, musicEvents, musicButton, asked, musicOdd>>
    BY <1>12 DEF U!NoTags
  <2>2. QED BY <2>1 DEF MusicInv, MusicTypes, Ending
<1>13. QED BY <1>3, <1>4, <1>6, <1>7, <1>8, <1>9, <1>10, <1>11, <1>12 DEF U!Next

-----------------------------------------------------------------------------
(* Toasts and banners (Alerts).                                                               *)

(* Each chat has its cells, and what is shown of it is what was told last.                      *)
AlertInv ==
  /\ toasts = [c \in Chats |-> toasts[c]] /\ alertLast = [c \in Chats |-> alertLast[c]]
  /\ banner = [c \in Chats |-> banner[c]] /\ told = [c \in Chats |-> told[c]] /\ ends \in [Chats -> Nat]
  /\ \A c \in Chats : told[c] \in {None, "active", "ended"}
  /\ A!AlertsTrue

(* It holds at the start.                                                                     *)
LEMMA AlertInit == ASSUME A!Init PROVE AlertInv
BY AlertsAssumption DEF A!Init, AlertInv, A!AlertsTrue, A!AlertsConstants

(* Each step of the alerts keeps it.                                                          *)
LEMMA AlertStep == ASSUME AlertInv, A!Next PROVE AlertInv'
<1>. USE AlertsAssumption DEF AlertInv, A!AlertsTrue, A!AlertsConstants
<1>1. CASE A!ListLoaded \/ A!Hide
  BY <1>1 DEF A!ListLoaded, A!Hide, A!call, A!toast
<1>2. ASSUME NEW c \in Chats, A!NewMessage(c) PROVE AlertInv'
  BY <1>2 DEF A!NewMessage, A!call
<1>3. ASSUME NEW m, toasts' = A!Without(m), gone' = gone \cup {m}, UNCHANGED <<alertLast, A!call>>
      PROVE  AlertInv'
  BY <1>3 DEF A!Without, A!call
<1>4. ASSUME NEW c \in Chats, A!ClickToast(c) PROVE AlertInv' BY <1>3, <1>4 DEF A!ClickToast
<1>13. ASSUME NEW c \in Chats, A!Escape(c) PROVE AlertInv' BY <1>3, <1>13 DEF A!Escape, A!Dismiss
<1>5. ASSUME NEW m \in 0..alertN, A!Elapse(m) PROVE AlertInv' BY <1>3, <1>5 DEF A!Elapse, A!Dismiss
<1>6. ASSUME NEW m \in 0..alertN, NEW c \in Chats, A!ClickNote(m, c) PROVE AlertInv'
  <2>1. CASE toasts' = A!Without(m) /\ gone' = gone \cup {m} BY <1>3, <1>6, <2>1 DEF A!ClickNote
  <2>2. CASE UNCHANGED <<toasts, gone>> BY <1>6, <2>2 DEF A!ClickNote, A!call
  <2>3. QED BY <1>6, <2>1, <2>2 DEF A!ClickNote
<1>7. ASSUME NEW c \in Chats, A!OpenChat(c) PROVE AlertInv' BY <1>7 DEF A!OpenChat, A!call
<1>8. ASSUME NEW o, NEW m, A!Set(o, m) PROVE AlertInv' BY <1>8 DEF A!Set, A!call
<1>9. ASSUME NEW c \in Chats, A!CallActive(c) PROVE AlertInv' BY <1>9 DEF A!CallActive, A!toast
<1>10. ASSUME NEW c \in Chats, A!CallEnds(c) PROVE AlertInv'
  <2>1. /\ banner' = [banner EXCEPT ![c] = "ended"] /\ told' = [told EXCEPT ![c] = "ended"]
        /\ ends' = [ends EXCEPT ![c] = ends[c] + 1] /\ cut' = cut \ {c}
        /\ UNCHANGED <<toasts, alertLast, gone>>
    BY <1>10 DEF A!CallEnds, A!toast
  <2>2. banner' = [d \in Chats |-> banner'[d]] /\ told' = [d \in Chats |-> told'[d]] BY <2>1
  <2>3. ends' \in [Chats -> Nat] /\ ends'[c] # 0 BY <2>1
  <2>4. \A d \in Chats : d # c => banner'[d] = banner[d] /\ told'[d] = told[d] /\ ends'[d] = ends[d]
    BY <2>1
  <2>5. banner'[c] = told'[c] BY <2>1
  <2>6. QED BY <2>1, <2>2, <2>3, <2>4, <2>5
<1>11. ASSUME NEW c \in Chats, A!EndElapses(c) PROVE AlertInv'
  <2>1. /\ banner' = [banner EXCEPT ![c] = None] /\ ends' = [ends EXCEPT ![c] = ends[c] - 1]
        /\ cut' = (IF told[c] = "active" THEN cut \cup {c} ELSE cut) /\ ends[c] > 0
        /\ UNCHANGED <<toasts, alertLast, gone, told>>
    BY <1>11 DEF A!EndElapses, A!toast, A!Removed
  <2>2. banner' = [d \in Chats |-> banner'[d]] /\ ends' \in [Chats -> Nat] BY <2>1
  <2>3. \A d \in Chats : d # c => banner'[d] = banner[d] /\ ends'[d] = ends[d] BY <2>1
  <2>4. banner'[c] = None BY <2>1
  <2>5. told[c] \in {None, "active", "ended"} BY <2>1
  <2>6. QED BY <2>1, <2>2, <2>3, <2>4, <2>5
<1>12. QED BY <1>1, <1>2, <1>4, <1>5, <1>6, <1>7, <1>8, <1>9, <1>10, <1>11, <1>13 DEF A!Next

-----------------------------------------------------------------------------
(* The text in the field (Draft).                                                             *)

(* Of the text in the field: what its timer has written is what it holds. *)
DraftSaved == draftChat # None /\ ~timer /\ draftChat \notin lost => drafts[draftChat] = field

(* What was written and not sent is in the field or in its draft.                             *)
DraftInv ==
  /\ draftChat \in Chats \cup {None}
  /\ drafts = [c \in Chats |-> drafts[c]] /\ wants = [c \in Chats |-> wants[c]]
  /\ DraftSaved
  /\ T!DraftKept

(* It holds at the start.                                                                     *)
LEMMA DraftInit == ASSUME T!Init PROVE DraftInv
BY DraftAssumption DEF T!Init, DraftInv, DraftSaved, T!DraftKept, T!Blank, T!DraftConstants

(* Each step of the field keeps it.                                                           *)
LEMMA DraftStep == ASSUME DraftInv, T!Next PROVE DraftInv'
<1>. USE DraftAssumption DEF DraftInv, DraftSaved, T!DraftKept, T!DraftConstants
<1>1. ASSUME NEW x, T!Write(x), draftChat # None PROVE DraftInv'
  BY <1>1 DEF T!Write
<1>2. CASE T!Type \/ T!Erase \/ T!Insert
  BY <1>1, <1>2 DEF T!Type, T!Erase, T!Insert
<1>3. CASE T!Save BY <1>3 DEF T!Save
<1>4. CASE T!DoSend \/ T!PickSticker
  BY <1>4 DEF T!DoSend, T!PickSticker, T!Begin
<1>5. ASSUME NEW c \in Chats, T!Switch(c) PROVE DraftInv' BY <1>5 DEF T!Switch, T!Left
<1>6. ASSUME NEW c \in Chats, T!Enter(c) PROVE DraftInv' BY <1>6 DEF T!Enter
<1>7. ASSUME NEW keeps \in BOOLEAN, T!Closed(keeps) PROVE DraftInv'
  BY <1>7 DEF T!Closed, T!TooSoon
<1>8. ASSUME NEW s \in sends, T!Sent(s) PROVE DraftInv'
  BY <1>8 DEF T!Sent, T!Own, T!Cleared, T!Blank
<1>9. ASSUME NEW s \in sends, T!SendFails(s) PROVE DraftInv' BY <1>9 DEF T!SendFails
<1>10. QED BY <1>2, <1>3, <1>4, <1>5, <1>6, <1>7, <1>8, <1>9 DEF T!Next

-----------------------------------------------------------------------------
(* Files and contacts (Attach).                                                               *)

(* What may be answered, attached, on its way and at the server.                              *)
Answered == {None} \cup [n : 1..replies, of : Targets]
Kinds == {"file", "place", "contact", "poll"}
Held == [kind : Kinds, to : Targets, reply : Answered, done : SUBSET (Nat \X Nat)]
Sending == [id : 1..started, held : Held, k : Nat, n : Nat, st : {"upload", "send", "sent"}]
Posting == [id : 1..started, k : Nat, to : Targets, reply : Answered, held : Held]

(* The types of the variables.                                                                *)
AttachTypes ==
  /\ replies \in Nat /\ started \in 0..MaxTasks /\ attachChat \in Targets
  /\ menu \in {"none", "attach", "poll", "contact"} /\ pollBusy \in BOOLEAN
  /\ reply \in Answered /\ pickers \subseteq Held /\ attachTasks \subseteq Sending
  /\ log \in Seq(Posting) /\ done \subseteq Nat \X Nat
  /\ \A t \in attachTasks : t.k \in 1..t.n
  /\ shown \subseteq H!Sent

(* Nothing that is being sent has been sent in part already, or out of turn.                    *)
AttachOrder ==
  /\ \A t, u \in attachTasks : t.id = u.id => t = u
  /\ \A t \in attachTasks, m \in H!Sent : m.id = t.id =>
       m.held = t.held /\ m.k <= t.k /\ (t.st # "sent" => m.k < t.k)
  /\ \A t \in attachTasks, k \in Nat : <<t.id, k>> \in done => k < t.k
  /\ \A d \in done : d[1] \in 1..started
  /\ H!InPlace

(* No reply is held that was given before what holds it began.                                  *)
Unanswered(held) ==
  /\ held.kind = "poll" => held.reply = None
  /\ held.done \subseteq done
  /\ \A m \in H!Sent : m.reply # None /\ m.reply = held.reply => <<m.id, m.k>> \notin held.done
AttachAnswers ==
  /\ \A m \in H!Sent : m.reply # None /\ m.reply = reply => <<m.id, m.k>> \notin done
  /\ \A m \in H!Sent : m.reply = m.held.reply /\ Unanswered(m.held)
  /\ \A p \in pickers : Unanswered(p)
  /\ \A t \in attachTasks : Unanswered(t.held)

(* Files are sent in turn to the chat they were attached in, and no answer is held twice.     *)
AttachInv == AttachTypes /\ AttachOrder /\ AttachAnswers

(* It says more than the properties that are checked.                                         *)
LEMMA AttachHeld == ASSUME AttachInv PROVE H!TypeOK /\ H!InPlace /\ H!AnsweredOnce
<1>1. H!TypeOK BY DEF AttachInv, AttachTypes, H!TypeOK, Sending
<1>2. H!AnsweredOnce BY DEF AttachInv, AttachAnswers, Unanswered, H!AnsweredOnce
<1>3. QED BY <1>1, <1>2 DEF AttachInv, AttachOrder

(* It holds at the start.                                                                     *)
LEMMA AttachInit == ASSUME H!Init PROVE AttachInv
<1>. USE AttachAssumption DEF H!AttachConstants
<1>1. <<>> \in Seq(Posting) /\ H!Sent = {} BY DEF H!Init, H!Sent
<1>2. AttachTypes
  <2>1. MaxTasks \in Nat OBVIOUS
  <2>2. 0 \in 0..MaxTasks BY <2>1
  <2>3. QED BY <1>1, <2>2 DEF H!Init, AttachTypes, Answered
<1>3. AttachOrder BY <1>1 DEF H!Init, AttachOrder, H!InPlace
<1>4. AttachAnswers BY <1>1 DEF H!Init, AttachAnswers
<1>5. QED BY <1>2, <1>3, <1>4 DEF AttachInv

(* What there is stays of its kind while the counters go on.                                    *)
LEMMA AttachGrows ==
  ASSUME replies \in Nat, started \in Nat, replies' \in {replies, replies + 1},
         started' \in {started, started + 1}
  PROVE  /\ Answered \subseteq Answered' /\ Held \subseteq Held'
         /\ Sending \subseteq Sending' /\ Posting \subseteq Posting'
<1>1. 1..replies \subseteq 1..replies' /\ 1..started \subseteq 1..started' OBVIOUS
<1>2. Answered \subseteq Answered' BY <1>1 DEF Answered
<1>3. Held \subseteq Held' BY <1>2 DEF Held
<1>4. QED BY <1>1, <1>2, <1>3 DEF Sending, Posting

(* The messages there are stay of their kind.                                                 *)
LEMMA LogGrows ==
  ASSUME log \in Seq(Posting), Posting \subseteq Posting' PROVE log \in Seq(Posting')
<1> DEFINE more == Posting'
<1>1. \A i \in 1..Len(log) : log[i] \in more BY LenProperties
<1> HIDE DEF more
<1>2. QED BY <1>1, LenProperties, IsASeq DEF more

(* The messages there are, by their places.                                                   *)
LEMMA AttachSent ==
  ASSUME log \in Seq(Posting)
  PROVE  /\ H!Sent = {log[i] : i \in 1..Len(log)} /\ H!Sent \subseteq Posting
BY LenProperties DEF H!Sent

(* What is closed over now answers nothing that was answered.                                   *)
LEMMA HeldNow ==
  ASSUME AttachInv, NEW kind \in Kinds, NEW held,
         held = [kind |-> kind, to |-> attachChat, reply |-> IF kind = "poll" THEN None ELSE reply,
                 done |-> done]
  PROVE  held \in Held /\ Unanswered(held)
<1>1. held \in Held BY DEF AttachInv, AttachTypes, Held, Answered
<1>2. QED BY <1>1 DEF AttachInv, AttachAnswers, Unanswered

(* What an attachment closes over, by its kind.                                               *)
LEMMA HeldIs ==
  /\ \A kind \in Kinds \ {"poll"} :
       H!Held(kind) = [kind |-> kind, to |-> attachChat, reply |-> IF kind = "poll" THEN None ELSE reply,
                       done |-> done]
  /\ [H!Held("poll") EXCEPT !.reply = None]
       = [kind |-> "poll", to |-> attachChat, reply |-> IF "poll" = "poll" THEN None ELSE reply,
          done |-> done]
BY DEF H!Held

(* What held no answer given before holds none later: the messages are the same.                *)
LEMMA HeldStill ==
  ASSUME NEW held, Unanswered(held), log' = log, done \subseteq done' PROVE Unanswered(held)'
BY DEF Unanswered, H!Sent

(* Steps that send nothing.                                                                     *)
LEMMA AttachAside ==
  ASSUME AttachInv, UNCHANGED <<attachTasks, log, done, started>>,
         attachChat' \in Targets, menu' \in {"none", "attach", "poll", "contact"}, pollBusy' \in BOOLEAN,
         replies' \in {replies, replies + 1},
         reply' \in {reply, None} \/ (replies' = replies + 1 /\ reply' = [n |-> replies + 1, of |-> attachChat]),
         shown' \subseteq H!Sent,
         \A p \in pickers' : p \in pickers \/ (p \in Held /\ Unanswered(p))
  PROVE  AttachInv'
<1>1. replies \in Nat /\ started \in Nat /\ log \in Seq(Posting) /\ replies' \in Nat
  BY AttachAssumption DEF AttachInv, AttachTypes
<1>2. /\ Answered \subseteq Answered' /\ Held \subseteq Held'
      /\ Sending \subseteq Sending' /\ Posting \subseteq Posting'
  BY <1>1, AttachGrows
<1>3. log' \in Seq(Posting') BY <1>1, <1>2, LogGrows
<1>4. H!Sent' = H!Sent BY DEF H!Sent
<1>5. AttachTypes'
  <2>1. reply' \in Answered'
    <3>1. CASE reply' \in {reply, None} BY <1>2, <3>1 DEF AttachInv, AttachTypes, Answered
    <3>2. CASE replies' = replies + 1 /\ reply' = [n |-> replies + 1, of |-> attachChat]
      <4>1. replies + 1 \in 1..replies' BY <1>1, <3>2
      <4>2. QED BY <3>2, <4>1 DEF AttachInv, AttachTypes, Answered
    <3>3. QED BY <3>1, <3>2
  <2>2. pickers' \subseteq Held' BY <1>2 DEF AttachInv, AttachTypes
  <2>3. attachTasks' \subseteq Sending' BY <1>2 DEF AttachInv, AttachTypes
  <2>4. QED BY <1>1, <1>3, <1>4, <2>1, <2>2, <2>3 DEF AttachInv, AttachTypes
<1>6. AttachOrder'
  <2>1. H!InPlace' BY DEF AttachInv, AttachOrder, H!InPlace
  <2>2. QED BY <1>4, <2>1 DEF AttachInv, AttachOrder
<1>7. \A h : Unanswered(h) => Unanswered(h)' BY HeldStill
<1>8. ASSUME NEW m \in H!Sent, m.reply # None, m.reply = reply' PROVE <<m.id, m.k>> \notin done
  <2>1. CASE reply' \in {reply, None} BY <1>8, <2>1 DEF AttachInv, AttachAnswers
  <2>2. CASE reply' = [n |-> replies + 1, of |-> attachChat]
    <3>1. m.reply \in Answered BY <1>1, AttachSent DEF Posting
    <3>2. m.reply.n \in 1..replies BY <1>8, <3>1 DEF Answered
    <3>3. m.reply.n = replies + 1 BY <1>8, <2>2
    <3>4. QED BY <1>1, <3>2, <3>3
  <2>3. QED BY <2>1, <2>2
<1>9. AttachAnswers' BY <1>4, <1>7, <1>8 DEF AttachInv, AttachAnswers
<1>10. QED BY <1>5, <1>6, <1>9 DEF AttachInv

(* Something more is being sent.                                                                *)
LEMMA AttachBegins ==
  ASSUME AttachInv, NEW held \in Held, Unanswered(held), NEW n \in 1..MaxFiles,
         NEW s \in {"upload", "send"}, H!Begin(held, n, s), pickers' \subseteq pickers,
         pollBusy' \in BOOLEAN,
         UNCHANGED <<attachChat, reply, menu, log, shown, done, replies>>
  PROVE  AttachInv'
<1>. USE AttachAssumption DEF H!AttachConstants
<1> DEFINE new == [id |-> started + 1, held |-> held, k |-> 1, n |-> n, st |-> s]
<1>1. started < MaxTasks /\ started' = started + 1 /\ attachTasks' = attachTasks \cup {new}
  BY DEF H!Begin
<1>2. replies \in Nat /\ started \in Nat /\ log \in Seq(Posting) /\ MaxTasks \in Nat /\ n \in Nat /\ 1 \in 1..n
  <2>1. MaxTasks \in Nat /\ MaxFiles \in Nat OBVIOUS
  <2>2. QED BY <2>1 DEF AttachInv, AttachTypes
<1>3. /\ Answered \subseteq Answered' /\ Held \subseteq Held'
      /\ Sending \subseteq Sending' /\ Posting \subseteq Posting'
  BY <1>1, <1>2, AttachGrows
<1>4. log' \in Seq(Posting') BY <1>2, <1>3, LogGrows
<1>5. H!Sent' = H!Sent /\ H!Sent \subseteq Posting BY <1>2, AttachSent DEF H!Sent
<1>6. new \in Sending'
  <2>1. started + 1 \in 1..started' BY <1>1, <1>2
  <2>2. held \in Held' BY <1>3
  <2>3. QED BY <1>2, <2>1, <2>2 DEF Sending
<1>7. new.id = started + 1 /\ new.k = 1 /\ new.n = n /\ new.held = held /\ new.st # "sent" OBVIOUS
<1> HIDE DEF new
<1>8. AttachTypes'
  <2>1. started' \in 0..MaxTasks BY <1>1, <1>2
  <2>2. attachTasks' \subseteq Sending' BY <1>1, <1>3, <1>6 DEF AttachInv, AttachTypes
  <2>3. \A t \in attachTasks' : t.k \in 1..t.n BY <1>1, <1>2, <1>7 DEF AttachInv, AttachTypes
  <2>4. QED BY <1>3, <1>4, <1>5, <2>1, <2>2, <2>3 DEF AttachInv, AttachTypes
<1>9. (\A t \in attachTasks : t.id # new.id) /\ \A m \in H!Sent : m.id # new.id
  <2>1. started + 1 \notin 1..started BY <1>2
  <2>2. \A t \in attachTasks : t.id \in 1..started BY DEF AttachInv, AttachTypes, Sending
  <2>3. \A m \in H!Sent : m.id \in 1..started BY <1>5 DEF Posting
  <2>4. QED BY <1>7, <2>1, <2>2, <2>3
<1>10. \A k : <<new.id, k>> \notin done
  <2>1. started + 1 \notin 1..started BY <1>2
  <2>2. \A d \in done : d[1] \in 1..started BY DEF AttachInv, AttachOrder
  <2>3. \A k : <<new.id, k>>[1] = new.id OBVIOUS
  <2>4. QED BY <1>7, <2>1, <2>2, <2>3
<1>11. AttachOrder'
  <2>1. H!InPlace' BY DEF AttachInv, AttachOrder, H!InPlace
  <2>2. \A d \in done' : d[1] \in 1..started' BY <1>1, <1>2 DEF AttachInv, AttachOrder
  <2>3. \A t, u \in attachTasks' : t.id = u.id => t = u BY <1>1, <1>9 DEF AttachInv, AttachOrder
  <2>4. \A t \in attachTasks', m \in H!Sent' : m.id = t.id =>
          m.held = t.held /\ m.k <= t.k /\ (t.st # "sent" => m.k < t.k)
    BY <1>1, <1>5, <1>9 DEF AttachInv, AttachOrder
  <2>5. \A t \in attachTasks', k \in Nat : <<t.id, k>> \in done' => k < t.k
    BY <1>1, <1>10 DEF AttachInv, AttachOrder
  <2>6. QED BY <2>1, <2>2, <2>3, <2>4, <2>5 DEF AttachOrder
<1>12. \A h : Unanswered(h) => Unanswered(h)' BY HeldStill
<1>13. AttachAnswers' BY <1>1, <1>5, <1>7, <1>12 DEF AttachInv, AttachAnswers
<1>14. QED BY <1>8, <1>11, <1>13 DEF AttachInv

(* What is being sent gets further: to its message, to its next file, or to its end.            *)
LEMMA AttachMoves ==
  ASSUME AttachInv, NEW t \in attachTasks, NEW more \in SUBSET Sending,
         attachTasks' = (attachTasks \ {t}) \cup more, \A u, v \in more : u = v,
         \A u \in more : /\ u.id = t.id /\ u.held = t.held /\ u.k \in 1..u.n
                         /\ \/ u.k = t.k /\ t.st = "upload" /\ done' = done
                            \/ u.k = t.k + 1,
         \/ done' = done
         \/ done' = done \cup {<<t.id, t.k>>} /\ (reply' = None \/ t.held.kind = "poll"),
         reply' \in {reply, None}, menu' \in {"none", "attach", "poll", "contact"}, pollBusy' \in BOOLEAN,
         shown' \subseteq H!Sent, UNCHANGED <<attachChat, pickers, log, started, replies>>
  PROVE  AttachInv'
<1>1. /\ replies \in Nat /\ log \in Seq(Posting) /\ t \in Sending /\ t.k \in Nat /\ t.id \in 1..started
      /\ \A u \in attachTasks : u.k \in Nat
  BY DEF AttachInv, AttachTypes, Sending
<1>2. Answered' = Answered /\ Held' = Held /\ Sending' = Sending /\ Posting' = Posting
  BY DEF Answered, Held, Sending, Posting
<1>3. H!Sent' = H!Sent /\ H!Sent \subseteq Posting BY <1>1, AttachSent DEF H!Sent
<1>4. <<t.id, t.k>> \in Nat \X Nat
  <2>1. started \in Nat BY AttachAssumption DEF AttachInv, AttachTypes
  <2>2. t.id \in Nat BY <1>1, <2>1
  <2>3. QED BY <1>1, <2>2
<1>5. AttachTypes'
  <2>1. reply' \in Answered' BY <1>2 DEF AttachInv, AttachTypes, Answered
  <2>2. log' \in Seq(Posting') BY <1>1, <1>2
  <2>3. done' \subseteq Nat \X Nat BY <1>4 DEF AttachInv, AttachTypes
  <2>4. attachTasks' \subseteq Sending' /\ pickers' \subseteq Held'
    BY <1>2 DEF AttachInv, AttachTypes
  <2>5. \A u \in attachTasks' : u.k \in 1..u.n BY DEF AttachInv, AttachTypes
  <2>6. QED BY <1>3, <2>1, <2>2, <2>3, <2>4, <2>5 DEF AttachInv, AttachTypes
<1>6. AttachOrder'
  <2>1. H!InPlace' BY DEF AttachInv, AttachOrder, H!InPlace
  <2>2. \A d \in done' : d[1] \in 1..started' BY <1>1 DEF AttachInv, AttachOrder
  <2>3. \A u \in attachTasks : u # t => u.id # t.id BY DEF AttachInv, AttachOrder
  <2>4. \A u, v \in attachTasks' : u.id = v.id => u = v BY <2>3 DEF AttachInv, AttachOrder
  <2>5. ASSUME NEW u \in attachTasks', NEW m \in H!Sent', m.id = u.id
        PROVE  m.held = u.held /\ m.k <= u.k /\ (u.st # "sent" => m.k < u.k)
    <3>1. CASE u \in attachTasks BY <1>3, <2>5, <3>1 DEF AttachInv, AttachOrder
    <3>2. CASE u \in more
      <4>1. m \in H!Sent /\ m.id = t.id /\ u.held = t.held BY <1>3, <2>5, <3>2
      <4>2. m.held = t.held /\ m.k <= t.k /\ (t.st # "sent" => m.k < t.k)
        BY <4>1 DEF AttachInv, AttachOrder
      <4>3. m.k \in Nat BY <1>3, <4>1 DEF Posting
      <4>4. (u.k = t.k /\ t.st = "upload") \/ u.k = t.k + 1 BY <3>2
      <4>5. QED BY <1>1, <4>1, <4>2, <4>3, <4>4
    <3>3. QED BY <3>1, <3>2
  <2>6. ASSUME NEW u \in attachTasks', NEW k \in Nat, <<u.id, k>> \in done' PROVE k < u.k
    <3>1. CASE u \in attachTasks /\ u # t
      <4>1. u.id # t.id BY <2>3, <3>1
      <4>2. <<u.id, k>> \in done BY <2>6, <4>1
      <4>3. QED BY <3>1, <4>2 DEF AttachInv, AttachOrder
    <3>2. CASE u \in more
      <4>1. u.id = t.id BY <3>2
      <4>2. <<t.id, k>> \in done => k < t.k BY DEF AttachInv, AttachOrder
      <4>3. CASE u.k = t.k /\ done' = done BY <2>6, <4>1, <4>2, <4>3
      <4>4. CASE u.k = t.k + 1
        <5>1. k < t.k \/ k = t.k BY <2>6, <4>1, <4>2
        <5>2. QED BY <1>1, <4>4, <5>1
      <4>5. QED BY <3>2, <4>3, <4>4
    <3>3. QED BY <3>1, <3>2
  <2>7. QED BY <2>1, <2>2, <2>4, <2>5, <2>6 DEF AttachOrder
<1>7. \A h : Unanswered(h) => Unanswered(h)' BY HeldStill
<1>8. ASSUME NEW m \in H!Sent, m.reply # None, m.reply = reply' PROVE <<m.id, m.k>> \notin done'
  <2>1. reply' = reply /\ <<m.id, m.k>> \notin done BY <1>8 DEF AttachInv, AttachAnswers
  <2>2. SUFFICES ASSUME <<m.id, m.k>> = <<t.id, t.k>>, t.held.kind = "poll" PROVE FALSE
    BY <1>8, <2>1
  <2>3. m.held = t.held BY <2>2 DEF AttachInv, AttachOrder
  <2>4. m.reply = None BY <2>2, <2>3 DEF AttachInv, AttachAnswers, Unanswered
  <2>5. QED BY <1>8, <2>4
<1>9. AttachAnswers'
  <2>1. \A m \in H!Sent' : m.reply = m.held.reply /\ Unanswered(m.held)'
    BY <1>3, <1>7 DEF AttachInv, AttachAnswers
  <2>2. \A p \in pickers' : Unanswered(p)' BY <1>7 DEF AttachInv, AttachAnswers
  <2>3. \A u \in attachTasks' : Unanswered(u.held)' BY <1>7 DEF AttachInv, AttachAnswers
  <2>4. QED BY <1>3, <1>8, <2>1, <2>2, <2>3 DEF AttachAnswers
<1>10. QED BY <1>5, <1>6, <1>9 DEF AttachInv

(* A message reaches the server.                                                                *)
LEMMA AttachPosts == ASSUME AttachInv, NEW t \in attachTasks, H!Posts(t),
                            UNCHANGED <<attachChat, switches, replies, reply, menu, pollBusy, pickers,
                                        shown, done, started>>
                     PROVE  AttachInv'
<1> DEFINE m == [id |-> t.id, k |-> t.k, to |-> t.held.to, reply |-> t.held.reply, held |-> t.held]
           u == [t EXCEPT !.st = "sent"]
<1>1. t.st = "send" /\ log' = Append(log, m) /\ attachTasks' = (attachTasks \ {t}) \cup {u}
  BY DEF H!Posts, H!Target
<1>2. /\ replies \in Nat /\ log \in Seq(Posting) /\ t \in Sending /\ t.k \in 1..t.n /\ t.k \in Nat
  BY DEF AttachInv, AttachTypes, Sending
<1>3. Answered' = Answered /\ Held' = Held /\ Sending' = Sending /\ Posting' = Posting
  BY DEF Answered, Held, Sending, Posting
<1>4. m \in Posting BY <1>2 DEF Posting, Sending, Held
<1>5. u \in Sending /\ u.id = t.id /\ u.k = t.k /\ u.n = t.n /\ u.held = t.held /\ u.st = "sent"
  BY <1>2 DEF Sending
<1>6. m.id = t.id /\ m.k = t.k /\ m.to = t.held.to /\ m.reply = t.held.reply /\ m.held = t.held OBVIOUS
<1> HIDE DEF m, u
<1> DEFINE n == Len(log)
<1>7. /\ log' \in Seq(Posting) /\ n \in Nat /\ Len(log') = n + 1 /\ log'[n + 1] = m
      /\ \A i \in 1..n : log'[i] = log[i]
  BY <1>1, <1>2, <1>4, AppendProperties, LenProperties
<1> HIDE DEF n
<1>8. H!Sent = {log[i] : i \in 1..n} /\ H!Sent \subseteq Posting BY <1>2, AttachSent DEF n
<1>9. H!Sent' = H!Sent \cup {m}
  <2>1. H!Sent' = {log'[i] : i \in 1..Len(log')} BY <1>7, LenProperties DEF H!Sent
  <2>2. 1..Len(log') = 1..n \cup {n + 1} BY <1>7
  <2>3. QED BY <1>7, <1>8, <2>1, <2>2
<1>10. AttachTypes'
  <2>1. attachTasks' \subseteq Sending' BY <1>1, <1>3, <1>5 DEF AttachInv, AttachTypes
  <2>2. \A v \in attachTasks' : v.k \in 1..v.n BY <1>1, <1>2, <1>5 DEF AttachInv, AttachTypes
  <2>3. QED BY <1>3, <1>7, <1>9, <2>1, <2>2 DEF AttachInv, AttachTypes
<1>11. \A l \in H!Sent : l.id = t.id => l.held = t.held /\ l.k < t.k
  BY <1>1 DEF AttachInv, AttachOrder
<1>12. AttachOrder'
  <2>1. H!InPlace'
    <3>1. DOMAIN log = 1..n /\ DOMAIN log' = 1..(n + 1) BY <1>2, <1>7, LenProperties DEF n
    <3>2. ASSUME NEW i \in 1..(n + 1) PROVE log'[i].to = log'[i].held.to
      <4>1. CASE i = n + 1 BY <1>6, <1>7, <4>1
      <4>2. CASE i # n + 1
        <5>1. i \in 1..n /\ log'[i] = log[i] BY <1>7, <4>2
        <5>2. QED BY <3>1, <5>1 DEF AttachInv, AttachOrder, H!InPlace
      <4>3. QED BY <4>1, <4>2
    <3>3. ASSUME NEW i \in 1..(n + 1), NEW j \in 1..(n + 1), i < j, log'[i].id = log'[j].id
          PROVE  log'[i].k < log'[j].k
      <4>1. i \in 1..n /\ log'[i] = log[i] BY <1>7, <3>3
      <4>2. CASE j = n + 1
        <5>1. log[i] \in H!Sent /\ log[i].id = t.id BY <1>6, <1>7, <1>8, <3>3, <4>1, <4>2
        <5>2. QED BY <1>6, <1>7, <1>11, <4>1, <4>2, <5>1
      <4>3. CASE j # n + 1
        <5>1. j \in 1..n /\ log'[j] = log[j] BY <1>7, <4>3
        <5>2. QED BY <3>1, <3>3, <4>1, <5>1 DEF AttachInv, AttachOrder, H!InPlace
      <4>4. QED BY <4>2, <4>3
    <3>4. QED BY <3>1, <3>2, <3>3 DEF H!InPlace
  <2>2. \A v \in attachTasks : v # t => v.id # t.id BY DEF AttachInv, AttachOrder
  <2>3. \A v, w \in attachTasks' : v.id = w.id => v = w
    BY <1>1, <1>5, <2>2 DEF AttachInv, AttachOrder
  <2>4. ASSUME NEW v \in attachTasks', NEW l \in H!Sent', l.id = v.id
        PROVE  l.held = v.held /\ l.k <= v.k /\ (v.st # "sent" => l.k < v.k)
    <3>1. CASE v = u
      <4>1. l.held = t.held /\ (l.k = t.k \/ l.k < t.k) BY <1>5, <1>6, <1>9, <1>11, <2>4, <3>1
      <4>2. l.k \in Nat BY <1>2, <1>4, <1>8, <1>9 DEF Posting
      <4>3. QED BY <1>2, <1>5, <3>1, <4>1, <4>2
    <3>2. CASE v # u
      <4>1. v \in attachTasks /\ v.id # t.id BY <1>1, <2>2, <3>2
      <4>2. l \in H!Sent BY <1>6, <1>9, <2>4, <4>1
      <4>3. QED BY <2>4, <4>1, <4>2 DEF AttachInv, AttachOrder
    <3>3. QED BY <3>1, <3>2
  <2>5. \A v \in attachTasks', k \in Nat : <<v.id, k>> \in done' => k < v.k
    BY <1>1, <1>5 DEF AttachInv, AttachOrder
  <2>6. QED BY <2>1, <2>3, <2>4, <2>5 DEF AttachInv, AttachOrder
<1>13. <<m.id, m.k>> \notin done
  <2>1. <<t.id, t.k>> \in done => t.k < t.k BY <1>2 DEF AttachInv, AttachOrder
  <2>2. QED BY <1>2, <1>6, <2>1
<1>14. ASSUME NEW h, Unanswered(h) PROVE Unanswered(h)'
  BY <1>9, <1>13, <1>14 DEF Unanswered
<1>15. AttachAnswers'
  <2>1. Unanswered(t.held) BY DEF AttachInv, AttachAnswers
  <2>2. \A l \in H!Sent' : l.reply = l.held.reply /\ Unanswered(l.held)'
    BY <1>6, <1>9, <1>14, <2>1 DEF AttachInv, AttachAnswers
  <2>3. \A l \in H!Sent' : l.reply # None /\ l.reply = reply' => <<l.id, l.k>> \notin done'
    BY <1>9, <1>13 DEF AttachInv, AttachAnswers
  <2>4. \A p \in pickers' : Unanswered(p)' BY <1>14 DEF AttachInv, AttachAnswers
  <2>5. \A v \in attachTasks' : Unanswered(v.held)'
    BY <1>1, <1>5, <1>14, <2>1 DEF AttachInv, AttachAnswers
  <2>6. QED BY <2>2, <2>3, <2>4, <2>5 DEF AttachAnswers
<1>16. QED BY <1>10, <1>12, <1>15 DEF AttachInv

(* Each step of the attachments keeps it.                                                     *)
LEMMA AttachStep == ASSUME AttachInv, H!Next PROVE AttachInv'
<1>. USE AttachAssumption DEF H!AttachConstants, H!screen, H!sent
<1>1. /\ attachChat \in Targets /\ menu \in {"none", "attach", "poll", "contact"} /\ pollBusy \in BOOLEAN
      /\ shown \subseteq H!Sent /\ replies \in Nat /\ started \in Nat /\ attachTasks \subseteq Sending
      /\ pickers \subseteq Held
  BY DEF AttachInv, AttachTypes
<1>2. CASE H!Open
  <2>1. shown' \subseteq H!Sent BY <1>2 DEF H!Open
  <2>2. QED BY <1>1, <1>2, <2>1, AttachAside DEF H!Open
<1>3. CASE H!Answer
  <2>1. /\ replies' = replies + 1 /\ reply' = [n |-> replies + 1, of |-> attachChat]
        /\ UNCHANGED <<attachChat, menu, pollBusy, pickers, attachTasks, log, shown, done, started>>
    BY <1>3 DEF H!Answer
  <2>2. QED BY <1>1, <2>1, AttachAside
<1>4. CASE H!Unanswer BY <1>1, <1>4, AttachAside DEF H!Unanswer
<1>5. CASE H!Menu BY <1>1, <1>5, AttachAside DEF H!Menu
<1>6. CASE H!Dialog BY <1>1, <1>6, AttachAside DEF H!Dialog
<1>7. \A kind \in Kinds \ {"poll"} : H!Held(kind) \in Held /\ Unanswered(H!Held(kind))
  BY HeldNow, HeldIs
<1>8. CASE H!Pick
  <2>1. PICK kind \in {"file", "place"} : pickers' = pickers \cup {H!Held(kind)} BY <1>8 DEF H!Pick
  <2>2. kind \in Kinds \ {"poll"} BY DEF Kinds
  <2>3. \A p \in pickers' : p \in pickers \/ (p \in Held /\ Unanswered(p)) BY <1>7, <2>1, <2>2
  <2>4. QED BY <1>1, <1>8, <2>3, AttachAside DEF H!Pick
<1>9. CASE H!Picked
  <2>1. PICK p \in pickers, n \in 1..MaxFiles :
          /\ pickers' = pickers \ {p}
          /\ H!Begin(p, n, IF p.kind = "place" THEN "send" ELSE "upload")
    BY <1>9 DEF H!Picked
  <2>2. p \in Held /\ Unanswered(p) BY <1>1 DEF AttachInv, AttachAnswers
  <2> DEFINE s == IF p.kind = "place" THEN "send" ELSE "upload"
  <2>3. s \in {"upload", "send"} /\ H!Begin(p, n, s) BY <2>1
  <2> HIDE DEF s
  <2>4. QED BY <1>1, <1>9, <2>1, <2>2, <2>3, AttachBegins DEF H!Picked
<1>10. CASE H!Unpicked BY <1>1, <1>10, AttachAside DEF H!Unpicked
<1>11. CASE H!Drop
  <2>1. PICK n \in 1..MaxFiles : H!Begin(H!Held("file"), n, "upload") BY <1>11 DEF H!Drop
  <2>2. "file" \in Kinds \ {"poll"} BY DEF Kinds
  <2> DEFINE h == H!Held("file")
  <2>3. h \in Held /\ Unanswered(h) /\ H!Begin(h, n, "upload") BY <1>7, <2>1, <2>2
  <2> HIDE DEF h
  <2>4. QED BY <1>1, <1>11, <2>3, AttachBegins DEF H!Drop
<1>12. 1 \in 1..MaxFiles
  <2>1. MaxFiles \in Nat \ {0} OBVIOUS
  <2>2. QED BY <2>1
<1>13. CASE H!Contact
  <2>1. "contact" \in Kinds \ {"poll"} BY DEF Kinds
  <2> DEFINE h == H!Held("contact")
  <2>2. h \in Held /\ Unanswered(h) /\ H!Begin(h, 1, "send") BY <1>7, <1>13, <2>1 DEF H!Contact
  <2> HIDE DEF h
  <2>3. QED BY <1>1, <1>12, <1>13, <2>2, AttachBegins DEF H!Contact
<1>14. CASE H!Poll
  <2> DEFINE h == [H!Held("poll") EXCEPT !.reply = None]
  <2>1. H!Begin(h, 1, "send") BY <1>14 DEF H!Poll
  <2>2. h = [kind |-> "poll", to |-> attachChat, reply |-> IF "poll" = "poll" THEN None ELSE reply,
             done |-> done]
    BY HeldIs
  <2> HIDE DEF h
  <2>3. "poll" \in Kinds BY DEF Kinds
  <2>4. h \in Held /\ Unanswered(h) BY <2>2, <2>3, HeldNow
  <2>5. QED BY <1>1, <1>12, <1>14, <2>1, <2>4, AttachBegins DEF H!Poll
<1>15. CASE H!Uploaded
  <2>1. PICK t \in attachTasks : /\ t.st = "upload"
                                 /\ attachTasks' = (attachTasks \ {t}) \cup {[t EXCEPT !.st = "send"]}
    BY <1>15 DEF H!Uploaded
  <2> DEFINE u == [t EXCEPT !.st = "send"]
  <2>2. u \in Sending /\ u.id = t.id /\ u.held = t.held /\ u.k = t.k /\ u.n = t.n
    BY <1>1 DEF Sending
  <2>3. attachTasks' = (attachTasks \ {t}) \cup {u} BY <2>1
  <2> HIDE DEF u
  <2>4. t.k \in 1..t.n BY DEF AttachInv, AttachTypes
  <2> DEFINE more == {u}
  <2>5. /\ more \in SUBSET Sending /\ \A v, w \in more : v = w
        /\ attachTasks' = (attachTasks \ {t}) \cup more
        /\ \A v \in more : v.id = t.id /\ v.held = t.held /\ v.k \in 1..v.n /\ v.k = t.k
    BY <2>2, <2>3, <2>4
  <2> HIDE DEF more
  <2>6. QED BY <1>1, <1>15, <2>1, <2>5, AttachMoves DEF H!Uploaded
<1>16. CASE H!Posted BY <1>16, AttachPosts DEF H!Posted
<1>17. ASSUME NEW t \in attachTasks, H!Goes(t)
       PROVE  \E more \in SUBSET Sending :
                /\ attachTasks' = (attachTasks \ {t}) \cup more /\ \A u, v \in more : u = v
                /\ \A u \in more : u.id = t.id /\ u.held = t.held /\ u.k \in 1..u.n /\ u.k = t.k + 1
  <2> DEFINE u == [t EXCEPT !.k = t.k + 1, !.st = "upload"]
             v == [t EXCEPT !.k = t.k + 1]
  <2>1. t \in Sending /\ t.k \in Nat /\ t.n \in Nat /\ t.k \in 1..t.n
    BY <1>1 DEF Sending, AttachInv, AttachTypes
  <2>2. CASE t.k < t.n
    <3>1. attachTasks' = (attachTasks \ {t}) \cup {u} BY <1>17, <2>2 DEF H!Goes
    <3>2. v \in Sending /\ v.id = t.id /\ v.held = t.held /\ v.k = t.k + 1 /\ v.n = t.n
      BY <2>1 DEF Sending
    <3>3. u = [v EXCEPT !.st = "upload"] OBVIOUS
    <3> HIDE DEF u, v
    <3>4. u \in Sending /\ u.id = t.id /\ u.held = t.held /\ u.k = t.k + 1 /\ u.n = t.n
      BY <3>2, <3>3 DEF Sending
    <3>5. u.k \in 1..u.n BY <2>1, <2>2, <3>4
    <3> DEFINE more == {u}
    <3>6. /\ more \in SUBSET Sending /\ \A x, y \in more : x = y
          /\ attachTasks' = (attachTasks \ {t}) \cup more
          /\ \A x \in more : x.id = t.id /\ x.held = t.held /\ x.k \in 1..x.n /\ x.k = t.k + 1
      BY <3>1, <3>4, <3>5
    <3> HIDE DEF more
    <3>7. QED BY <3>6
  <2>3. CASE ~(t.k < t.n)
    <3>1. attachTasks' = attachTasks \ {t} BY <1>17, <2>3 DEF H!Goes
    <3>2. WITNESS {} \in SUBSET Sending
    <3>3. QED BY <3>1
  <2>4. QED BY <2>2, <2>3
<1>18. CASE H!Answered
  <2>1. PICK t \in attachTasks :
          /\ H!Goes(t) /\ H!onClearReply(t) /\ H!Closes(t)
          /\ pollBusy' = (pollBusy /\ t.held.kind # "poll") /\ done' = done \cup {<<t.id, t.k>>}
          /\ shown' = IF t.held.kind = "poll" THEN shown
                      ELSE shown \cup {m \in H!Sent : m.id = t.id /\ m.k = t.k}
    BY <1>18 DEF H!Answered
  <2>2. PICK more \in SUBSET Sending :
          /\ attachTasks' = (attachTasks \ {t}) \cup more /\ \A u, v \in more : u = v
          /\ \A u \in more : u.id = t.id /\ u.held = t.held /\ u.k \in 1..u.n /\ u.k = t.k + 1
    BY <1>17, <2>1
  <2>3. /\ reply' \in {reply, None} /\ (reply' = None \/ t.held.kind = "poll")
        /\ menu' \in {"none", "attach", "poll", "contact"} /\ pollBusy' \in BOOLEAN
        /\ shown' \subseteq H!Sent
        /\ UNCHANGED <<attachChat, pickers, log, started, replies>>
    BY <1>1, <1>18, <2>1 DEF H!Answered, H!onClearReply, H!Closes
  <2>4. QED BY <2>1, <2>2, <2>3, AttachMoves
<1>19. CASE H!Failed
  <2>1. PICK t \in attachTasks :
          /\ H!Goes(t) /\ pollBusy' = (pollBusy /\ t.held.kind # "poll")
          /\ IF t.held.kind = "contact" THEN H!Closes(t) ELSE UNCHANGED menu
    BY <1>19 DEF H!Failed
  <2>2. PICK more \in SUBSET Sending :
          /\ attachTasks' = (attachTasks \ {t}) \cup more /\ \A u, v \in more : u = v
          /\ \A u \in more : u.id = t.id /\ u.held = t.held /\ u.k \in 1..u.n /\ u.k = t.k + 1
    BY <1>17, <2>1
  <2>3. /\ menu' \in {"none", "attach", "poll", "contact"} /\ pollBusy' \in BOOLEAN
        /\ UNCHANGED <<attachChat, reply, pickers, log, shown, done, started, replies>>
    BY <1>1, <1>19, <2>1 DEF H!Failed, H!Closes
  <2>4. QED BY <1>1, <2>2, <2>3, AttachMoves
<1>20. QED
  BY <1>2, <1>3, <1>4, <1>5, <1>6, <1>8, <1>9, <1>10, <1>11, <1>13, <1>14, <1>15, <1>16, <1>18, <1>19
  DEF H!Next

-----------------------------------------------------------------------------
(* The recorder (Recorder).                                                                   *)

(* The types of the variables.                                                                *)
RecStates == {"asked", "on", "stopping", "ended", "failed"}
Recording == [st : RecStates, mode : {"voice", "video"}]
Asked == 1..recorderN
RecorderTypes ==
  /\ recorderN \in 0..MaxRecs /\ recs \in [Asked -> Recording] /\ mode \in {"voice", "video"}
  /\ recorderCurrent \in Asked \cup {None} /\ stream \in Asked \cup {None} /\ flips \subseteq Asked

(* A recording that met no other has the recorder of the field, its array and its bar for itself. *)
Alone(r) ==
  /\ \A q \in R!Running : q = r
  /\ chunks \subseteq {r}
  /\ recs[r].st = "on" => bar /\ recorderCurrent = r
FilesPure == \A f \in files : f.data \cap recorderOdd = {} /\ f.of \notin recorderOdd => f.data \subseteq {f.of}

(* What is on is of a recording that runs, or could not be started.                           *)
Lit == \A r \in live \ recorderOdd : r \in R!Running \/ (r \in Asked /\ recs[r].st = "failed")

(* Of recordings that met no other: what is on is of one that runs or could not be started,   *)
(* and files are of one only.                                                                 *)
RecorderInv ==
  /\ RecorderTypes
  /\ Lit
  /\ \A r \in R!Running : r \in recorderOdd \/ Alone(r)
  /\ FilesPure

(* It holds at the start.                                                                     *)
LEMMA RecorderInit == ASSUME R!Init PROVE RecorderInv
BY RecorderAssumption
  DEF R!Init, RecorderInv, Lit, RecorderTypes, R!Running, FilesPure, Asked, R!RecorderConstants

(* So the microphone is on for what the bar shows.                                            *)
LEMMA RecorderHeld == ASSUME RecorderInv PROVE R!MicHeld
BY DEF RecorderInv, Lit, R!MicHeld, R!Running, R!St, Alone, FilesPure

(* Each step keeps the types.                                                                 *)
LEMMA RecorderTypesStep == ASSUME RecorderTypes, R!Next PROVE RecorderTypes'
<1>. USE RecorderAssumption DEF RecorderTypes, R!RecorderConstants, R!Same, Asked
<1>1. CASE R!Press BY <1>1 DEF R!Press
<1>2. CASE R!Tap BY <1>2 DEF R!Tap
<1>3. CASE R!SlideOff BY <1>3 DEF R!SlideOff
<1>4. CASE R!Start
  <2>1. /\ recorderN' = recorderN + 1 /\ recorderN < MaxRecs
        /\ UNCHANGED <<mode, recorderCurrent, stream, flips>>
        /\ recs' = [r \in DOMAIN recs \cup {recorderN'} |->
                      IF r = recorderN' THEN [st |-> "asked", mode |-> mode] ELSE recs[r]]
    BY <1>4 DEF R!Start
  <2>2. DOMAIN recs \cup {recorderN'} = 1..recorderN' BY <2>1
  <2>3. [st |-> "asked", mode |-> mode] \in Recording BY DEF Recording, RecStates
  <2>4. recs' \in [1..recorderN' -> Recording] BY <2>1, <2>2, <2>3
  <2>5. QED BY <2>1, <2>4
<1>5. ASSUME NEW r, NEW s \in RecStates, R!Becomes(r, s) PROVE recs' \in [Asked -> Recording]
  BY <1>5 DEF R!Becomes, Recording
<1>6. {"on", "stopping", "ended", "failed"} \subseteq RecStates BY DEF RecStates
<1>7. CASE R!StopAndSend BY <1>5, <1>6, <1>7 DEF R!StopAndSend
<1>8. CASE R!Cancel BY <1>6, <1>8 DEF R!Cancel, R!Released, Recording
<1>9. CASE R!Limit BY <1>5, <1>6, <1>9 DEF R!Limit
<1>10. CASE R!Flip BY <1>10 DEF R!Flip
<1>11. CASE R!Leave BY <1>11 DEF R!Leave
<1>12. ASSUME NEW r \in DOMAIN recs, R!Granted(r) PROVE RecorderTypes'
  BY <1>5, <1>6, <1>12 DEF R!Granted
<1>13. ASSUME NEW r \in DOMAIN recs, R!Denied(r) PROVE RecorderTypes'
  BY <1>5, <1>6, <1>13 DEF R!Denied
<1>14. ASSUME NEW r \in DOMAIN recs, R!Data(r) PROVE RecorderTypes' BY <1>14 DEF R!Data
<1>15. ASSUME NEW r \in DOMAIN recs, NEW t \in BOOLEAN, R!Ended(r, t) PROVE RecorderTypes'
  BY <1>5, <1>6, <1>15 DEF R!Ended
<1>16. ASSUME NEW r \in flips, NEW g \in BOOLEAN, NEW e \in BOOLEAN, R!Flipped(r, g, e)
       PROVE  RecorderTypes'
  BY <1>5, <1>6, <1>16 DEF R!Flipped
<1>17. ASSUME NEW r \in DOMAIN recs, NEW t \in BOOLEAN, R!Unmade(r, t) PROVE RecorderTypes'
  BY <1>5, <1>6, <1>17 DEF R!Unmade
<1>18. QED
  BY <1>1, <1>2, <1>3, <1>4, <1>7, <1>8, <1>9, <1>10, <1>11, <1>12, <1>13, <1>14, <1>15, <1>16,
     <1>17 DEF R!Next

(* Each step of the recorder keeps it.                                                        *)
LEMMA RecorderStep == ASSUME RecorderInv, R!Next PROVE RecorderInv'
<1>. USE RecorderAssumption DEF R!RecorderConstants, R!Same, R!St, Asked
<1>1. RecorderTypes /\ RecorderTypes' BY RecorderTypesStep DEF RecorderInv
<1>2. \A r : r \in R!Running <=> r \in 1..recorderN /\ recs[r].st \in {"on", "stopping"}
  BY <1>1 DEF RecorderTypes, R!Running
<1>3. \A r : r \in R!Running' <=> r \in 1..recorderN' /\ recs'[r].st \in {"on", "stopping"}
  BY <1>1 DEF RecorderTypes, R!Running
<1>4. CASE R!Press \/ R!Tap \/ R!SlideOff \/ R!Flip
  BY <1>1, <1>4 DEF R!Press, R!Tap, R!SlideOff, R!Flip, RecorderInv, Lit, R!Running, FilesPure, Alone
<1>5. CASE R!Leave
  BY <1>1, <1>5 DEF R!Leave, RecorderInv, Lit, R!Running, FilesPure
<1>6. CASE R!Start
  <2>1. R!Running' = R!Running
    <3>1. /\ recorderN' = recorderN + 1 /\ recorderN \in Nat
          /\ recs' = [r \in DOMAIN recs \cup {recorderN'} |->
                        IF r = recorderN' THEN [st |-> "asked", mode |-> mode] ELSE recs[r]]
      BY <1>1, <1>6 DEF R!Start, RecorderTypes
    <3>2. recs'[recorderN'].st = "asked" /\ \A r \in 1..recorderN : recs'[r] = recs[r]
      BY <1>1, <3>1 DEF RecorderTypes
    <3>3. 1..recorderN' = 1..recorderN \cup {recorderN'} BY <3>1
    <3>4. QED BY <1>2, <1>3, <3>2, <3>3
  <2>2. (\A r \in 1..recorderN : recs'[r] = recs[r]) /\ 1..recorderN \subseteq 1..recorderN'
    BY <1>1, <1>6 DEF R!Start, RecorderTypes
  <2>3. UNCHANGED <<live, recorderOdd, files, chunks, bar, recorderCurrent>>
    BY <1>6 DEF R!Start
  <2>4. \A r \in R!Running : r \in 1..recorderN BY <1>2
  <2>5. Lit' BY <2>1, <2>2, <2>3 DEF RecorderInv, Lit
  <2>6. QED BY <1>1, <2>1, <2>2, <2>3, <2>4, <2>5 DEF RecorderInv, Lit, FilesPure, Alone
<1>7. ASSUME NEW r \in 1..recorderN, NEW s, R!Becomes(r, s), recorderN' = recorderN,
             s \in RecStates
      PROVE  /\ recs'[r].st = s /\ \A q \in 1..recorderN : q # r => recs'[q] = recs[q]
             /\ s \in {"on", "stopping"} => R!Running' = R!Running \cup {r}
             /\ s \notin {"on", "stopping"} => R!Running' = R!Running \ {r}
  <2>1. recs'[r].st = s /\ \A q \in 1..recorderN : q # r => recs'[q] = recs[q]
    BY <1>1, <1>7 DEF R!Becomes, RecorderTypes, Recording
  <2>2. QED BY <1>2, <1>3, <1>7, <2>1
<1>8. {"on", "stopping", "ended", "failed"} \subseteq RecStates BY DEF RecStates
<1>9. CASE R!StopAndSend
  <2>1. CASE R!On
    <3>1. recorderCurrent \in R!Running /\ recorderCurrent \in 1..recorderN /\ recs[recorderCurrent].st = "on"
      BY <1>1, <1>2, <2>1 DEF R!On, RecorderTypes
    <3>2. /\ R!Becomes(recorderCurrent, "stopping")
          /\ UNCHANGED <<recorderN, chunks, recorderCurrent, live, files, recorderOdd>>
      BY <1>9, <2>1 DEF R!StopAndSend
    <3>3. recs'[recorderCurrent].st = "stopping" /\ R!Running' = R!Running \cup {recorderCurrent}
          /\ \A q \in 1..recorderN : q # recorderCurrent => recs'[q] = recs[q]
      BY <1>7, <1>8, <3>1, <3>2
    <3>4. R!Running' = R!Running BY <3>1, <3>3
    <3>5. ASSUME NEW r \in R!Running PROVE r \in recorderOdd' \/ Alone(r)'
      BY <1>2, <3>1, <3>2, <3>3, <3>4, <3>5 DEF RecorderInv, Lit, Alone
    <3>6. Lit' BY <3>1, <3>2, <3>3, <3>4 DEF RecorderInv, Lit
    <3>7. QED BY <1>1, <3>2, <3>4, <3>5, <3>6 DEF RecorderInv, FilesPure
  <2>2. CASE ~R!On
    <3>1. UNCHANGED <<recs, recorderN, chunks, recorderCurrent, live, files, recorderOdd>>
      BY <1>9, <2>2 DEF R!StopAndSend
    <3>2. \A r \in R!Running : r \in recorderOdd \/ recs[r].st # "on"
      BY <1>1, <1>2, <2>2 DEF R!On, RecorderInv, Lit, Alone, RecorderTypes
    <3>3. QED BY <1>1, <3>1, <3>2 DEF RecorderInv, Lit, FilesPure, Alone, R!Running
  <2>3. QED BY <2>1, <2>2
<1>10. CASE R!Cancel
  <2>1. CASE R!On
    <3>1. recorderCurrent \in R!Running /\ recorderCurrent \in 1..recorderN /\ recs[recorderCurrent].st = "on"
      BY <1>1, <1>2, <2>1 DEF R!On, RecorderTypes
    <3>2. /\ R!Becomes(recorderCurrent, "stopping") /\ chunks' = {}
          /\ live' = live \ {recorderCurrent} /\ UNCHANGED <<recorderN, files, recorderOdd>>
      BY <1>10, <2>1 DEF R!Cancel, R!Released, R!Becomes
    <3>3. recs'[recorderCurrent].st = "stopping" /\ R!Running' = R!Running
          /\ \A q \in 1..recorderN : q # recorderCurrent => recs'[q] = recs[q]
      BY <1>7, <1>8, <3>1, <3>2
    <3>4. ASSUME NEW r \in R!Running PROVE r \in recorderOdd' \/ Alone(r)'
      BY <1>2, <3>1, <3>2, <3>3, <3>4 DEF RecorderInv, Lit, Alone
    <3>5. Lit' BY <3>1, <3>2, <3>3 DEF RecorderInv, Lit
    <3>6. QED BY <1>1, <3>2, <3>3, <3>4, <3>5 DEF RecorderInv, FilesPure
  <2>2. CASE ~R!On
    <3>1. UNCHANGED <<recs, recorderN, chunks, recorderCurrent, live, files, recorderOdd>>
      BY <1>10, <2>2 DEF R!Cancel
    <3>2. \A r \in R!Running : r \in recorderOdd \/ recs[r].st # "on"
      BY <1>1, <1>2, <2>2 DEF R!On, RecorderInv, Lit, Alone, RecorderTypes
    <3>3. QED BY <1>1, <3>1, <3>2 DEF RecorderInv, Lit, FilesPure, Alone, R!Running
  <2>3. QED BY <2>1, <2>2
<1>11. CASE R!Limit
  <2>1. CASE R!On
    <3>1. recorderCurrent \in R!Running /\ recorderCurrent \in 1..recorderN /\ recs[recorderCurrent].st = "on"
      BY <1>1, <1>2, <2>1 DEF R!On, RecorderTypes
    <3>2. /\ R!Becomes(recorderCurrent, "stopping")
          /\ UNCHANGED <<recorderN, chunks, live, files, recorderOdd>>
      BY <1>11, <2>1 DEF R!Limit
    <3>3. recs'[recorderCurrent].st = "stopping" /\ R!Running' = R!Running
          /\ \A q \in 1..recorderN : q # recorderCurrent => recs'[q] = recs[q]
      BY <1>7, <1>8, <3>1, <3>2
    <3>4. ASSUME NEW r \in R!Running PROVE r \in recorderOdd' \/ Alone(r)'
      BY <1>2, <3>1, <3>2, <3>3, <3>4 DEF RecorderInv, Lit, Alone
    <3>5. Lit' BY <3>1, <3>2, <3>3 DEF RecorderInv, Lit
    <3>6. QED BY <1>1, <3>2, <3>3, <3>4, <3>5 DEF RecorderInv, FilesPure
  <2>2. CASE ~R!On
    <3>1. UNCHANGED <<recs, bar, recorderN, chunks, recorderCurrent, live, files, recorderOdd>>
      BY <1>11, <2>2 DEF R!Limit
    <3>2. QED BY <1>1, <3>1 DEF RecorderInv, Lit, FilesPure, Alone, R!Running
  <2>3. QED BY <2>1, <2>2
<1>12. ASSUME NEW r \in 1..recorderN, R!Granted(r) PROVE RecorderInv'
  <2>1. /\ recs'[r].st = "on" /\ R!Running' = R!Running \cup {r}
        /\ \A q \in 1..recorderN : q # r => recs'[q] = recs[q]
    BY <1>7, <1>8, <1>12 DEF R!Granted
  <2>2. /\ live' = live \cup {r} /\ chunks' = {} /\ recorderCurrent' = r /\ bar' = TRUE
        /\ recorderOdd \subseteq recorderOdd' /\ files' = files
        /\ R!Running # {} => R!Running \cup {r} \subseteq recorderOdd'
    BY <1>12 DEF R!Granted
  <2>3. recorderN' = recorderN /\ recs[r].st = "asked" BY <1>12 DEF R!Granted
  <2>4. Lit' BY <2>1, <2>2, <2>3 DEF RecorderInv, Lit
  <2>5. QED BY <1>1, <2>1, <2>2, <2>4 DEF RecorderInv, Lit, FilesPure, Alone
<1>13. ASSUME NEW r \in 1..recorderN, R!Denied(r) PROVE RecorderInv'
  <2>1. r \notin R!Running BY <1>2, <1>13 DEF R!Denied
  <2>2. /\ R!Running' = R!Running /\ \A q \in 1..recorderN : q # r => recs'[q] = recs[q]
    BY <1>7, <1>8, <1>13, <2>1 DEF R!Denied
  <2>3. /\ UNCHANGED <<recorderN, bar, chunks, recorderCurrent, live, files, recorderOdd>>
        /\ recs[r].st = "asked"
    BY <1>13 DEF R!Denied
  <2>4. Lit' BY <2>2, <2>3 DEF RecorderInv, Lit
  <2>5. QED BY <1>1, <1>2, <2>1, <2>2, <2>3, <2>4 DEF RecorderInv, Lit, FilesPure, Alone
<1>14. ASSUME NEW r \in 1..recorderN, R!Data(r) PROVE RecorderInv'
  <2>1. r \in R!Running BY <1>2, <1>14 DEF R!Data
  <2>2. QED BY <1>1, <1>14, <2>1 DEF R!Data, RecorderInv, Lit, FilesPure, Alone, R!Running
<1>15. ASSUME NEW r \in 1..recorderN, NEW t \in BOOLEAN, R!Ended(r, t) PROVE RecorderInv'
  <2>1. r \in R!Running BY <1>2, <1>15 DEF R!Ended
  <2>2. /\ R!Running' = R!Running \ {r} /\ \A q \in 1..recorderN : q # r => recs'[q] = recs[q]
    BY <1>7, <1>8, <1>15 DEF R!Ended
  <2>3. /\ live' = live \ {r} /\ chunks' \subseteq chunks \cup {r}
        /\ files' \subseteq files \cup {[of |-> r, data |-> chunks']}
        /\ UNCHANGED <<recorderN, bar, recorderCurrent, recorderOdd>>
    BY <1>15 DEF R!Ended
  <2>4. r \in recorderOdd \/ chunks' \subseteq {r} BY <2>1, <2>3 DEF RecorderInv, Lit, Alone
  <2>5. FilesPure' BY <2>3, <2>4 DEF RecorderInv, FilesPure
  <2>6. ASSUME NEW q \in R!Running' PROVE q \in recorderOdd'
    BY <2>1, <2>2, <2>3, <2>6 DEF RecorderInv, Lit, Alone
  <2>7. Lit' BY <1>2, <2>1, <2>2, <2>3 DEF RecorderInv, Lit
  <2>8. QED BY <1>1, <2>2, <2>3, <2>5, <2>6, <2>7 DEF RecorderInv
<1>16. ASSUME NEW r \in flips, NEW g \in BOOLEAN, NEW e \in BOOLEAN, R!Flipped(r, g, e)
       PROVE  RecorderInv'
  <2>1. r \in 1..recorderN BY <1>1 DEF RecorderTypes
  <2>2. CASE ~g BY <1>1, <1>16, <2>2 DEF R!Flipped, RecorderInv, Lit, FilesPure, Alone, R!Running
  <2>3. CASE g
    <3>1. /\ live' = live \cup {r} /\ recorderOdd' = recorderOdd \cup {r}
          /\ UNCHANGED <<bar, chunks, recorderCurrent, files, recorderN>>
          /\ (R!St(r) = "on" /\ R!Becomes(r, "stopping")) \/ recs' = recs
      BY <1>16, <2>3 DEF R!Flipped
    <3>2. R!Running' = R!Running /\ \A q \in 1..recorderN : q # r => recs'[q] = recs[q]
      BY <1>2, <1>3, <1>7, <1>8, <2>1, <3>1
    <3>3. QED BY <1>1, <1>2, <3>1, <3>2 DEF RecorderInv, Lit, FilesPure, Alone
  <2>4. QED BY <2>2, <2>3
<1>17. ASSUME NEW r \in 1..recorderN, NEW t \in BOOLEAN, R!Unmade(r, t) PROVE RecorderInv'
  <2>1. r \notin R!Running BY <1>2, <1>17 DEF R!Unmade
  <2>2. /\ R!Running' = R!Running /\ \A q \in 1..recorderN : q # r => recs'[q] = recs[q]
        /\ recs'[r].st = "failed"
    BY <1>7, <1>8, <1>17, <2>1 DEF R!Unmade
  <2>3. /\ chunks' \subseteq chunks /\ live' = live \cup {r}
        /\ UNCHANGED <<bar, recorderN, recorderCurrent, files, recorderOdd>>
    BY <1>17 DEF R!Unmade
  <2>4. QED BY <1>1, <1>2, <2>1, <2>2, <2>3 DEF RecorderInv, Lit, FilesPure, Alone
<1>18. DOMAIN recs = 1..recorderN BY <1>1 DEF RecorderTypes
<1>19. QED
  BY <1>4, <1>5, <1>6, <1>9, <1>10, <1>11, <1>12, <1>13, <1>14, <1>15, <1>16, <1>17, <1>18
    DEF R!Next

-----------------------------------------------------------------------------
(* Reactions and votes (Reactions).                                                           *)

(* Lists of reactions, the last one told, and votes on their way.                             *)
Lists == [E!Users -> Emojis \cup {None}]
Newest == IF inbox = <<>> THEN reacts ELSE inbox[Len(inbox)]
Steady == reactOdd \cap {"untold", "overtaken", "device"} = {}
Votings == reactTasks \ E!ReactTasks

(* The types of the variables.                                                                *)
AnswerTypes ==
  /\ placed \in Lists /\ reacts \in Lists /\ inbox \in Seq(Lists) /\ local \in [Emojis -> Int]
  /\ \A t \in E!ReactTasks :
       /\ t = [op |-> t.op, emoji |-> t.emoji, n |-> t.n, st |-> t.st, list |-> t.list]
       /\ t.emoji \in Emojis /\ t.list \in Lists
  /\ \A t \in Votings : t = [op |-> "vote", options |-> t.options, st |-> t.st]

(* The list told last is that of the server, or a request has yet to tell; and a click is      *)
(* counted beside a list only until a list that came after it is there.                        *)
ReactTold ==
  Steady =>
    /\ Newest = placed \/ E!ReactTasks # {}
    /\ reacts = E!Nobody \/ (\A e \in Emojis : local[e] = 0) \/ E!ReactTasks # {} \/ inbox # <<>>

(* One vote at a time, after which the bubble reads the poll.                                   *)
VoteTold ==
  /\ \A t, u \in Votings : t = u
  /\ Votings # {} => voting
  /\ "votes" \in reactOdd \/ votes = {None} \/ votes = mine \/ \E t \in Votings : t.st = "counted"

(* With nothing under way, the bubble has what the server has.                                *)
AnswersInv == AnswerTypes /\ ReactTold /\ VoteTold

(* The cardinality Reactions speaks of is that of these modules.                              *)
LEMMA AnswerCardinality == \A some : E!Cardinality(some) = Cardinality(some)
BY DEF E!Cardinality, Cardinality

(* It says more than the property that is checked.                                            *)
LEMMA AnswersHeld == ASSUME AnswersInv PROVE E!AnswersTrue
<1>. USE ReactionsAssumption DEF E!ReactionsConstants
<1>1. ASSUME ~voting, votes # {None}, "votes" \notin reactOdd PROVE votes = mine
  BY <1>1 DEF AnswersInv, VoteTold
<1>2. ASSUME E!ReactTasks = {}, inbox = <<>>, Steady, NEW e \in Emojis, reacts # E!Nobody \/ local[e] <= 0
      PROVE  E!Count(e) = Cardinality(E!Given(placed, e)) /\ (E!HasMine(e) <=> placed["me"] = e)
  <2>1. reacts = placed /\ (reacts = E!Nobody \/ local[e] = 0)
    BY <1>2 DEF AnswersInv, ReactTold, Newest
  <2> DEFINE g == E!Given(placed, e)
             k == Cardinality(g)
  <2>2. IsFiniteSet(g) /\ k \in Nat /\ (k = 0 <=> g = {})
    <3>1. IsFiniteSet(E!Users)
      <4>1. IsFiniteSet({"me"}) BY FS_Singleton
      <4>2. IsFiniteSet({"me"} \cup {"peer"}) BY <4>1, FS_AddElement
      <4>3. {"me"} \cup {"peer"} = E!Users BY DEF E!Users
      <4>4. QED BY <4>2, <4>3
    <3>2. g \subseteq E!Users BY DEF E!Given
    <3>3. IsFiniteSet(g) BY <3>1, <3>2, FS_Subset
    <3>4. QED BY <3>3, FS_CardinalityType, FS_EmptySet
  <2>3. "me" \in g <=> placed["me"] = e BY DEF E!Given, E!Users
  <2>4. E!Given(reacts, e) = g BY <2>1
  <2>5. reacts = E!Nobody => g = {} BY <2>1 DEF E!Given, E!Nobody
  <2> HIDE DEF g
  <2>6. local[e] \in Int BY DEF AnswersInv, AnswerTypes
  <2>7. E!Count(e) = k
    <3>1. E!Count(e) = IF k + local[e] > 0 THEN k + local[e] ELSE 0
      BY <2>4, AnswerCardinality DEF E!Count
    <3>2. local[e] = 0 \/ (k = 0 /\ local[e] <= 0) BY <1>2, <2>1, <2>2, <2>5
    <3> HIDE DEF k
    <3>3. QED BY <2>2, <2>6, <3>1, <3>2
  <2>8. E!HasMine(e) <=> "me" \in g
    <3>1. CASE g = {} BY <2>2, <2>7, <3>1 DEF E!HasMine
    <3>2. CASE g # {}
      <4>1. local[e] = 0 /\ k > 0 BY <1>2, <2>1, <2>2, <2>5, <3>2
      <4>2. QED BY <2>4, <2>7, <4>1 DEF E!HasMine
    <3>3. QED BY <3>1, <3>2
  <2>9. QED BY <2>3, <2>7, <2>8 DEF g
<1>3. Steady <=> reactOdd \cap {"untold", "overtaken", "device"} = {} BY DEF Steady
<1>4. QED BY <1>1, <1>2, <1>3, AnswerCardinality DEF E!AnswersTrue

(* It holds at the start.                                                                     *)
LEMMA AnswersInit == ASSUME E!Init PROVE AnswersInv
<1>1. E!Nobody \in Lists /\ <<>> \in Seq(Lists) /\ E!ReactTasks = {} /\ Votings = {}
  BY DEF E!Init, E!Nobody, Lists, E!ReactTasks, Votings
<1>2. QED BY <1>1 DEF E!Init, AnswersInv, AnswerTypes, ReactTold, VoteTold, Newest

(* A step of the votes leaves the reactions as they are.                                      *)
LEMMA OfVotes ==
  ASSUME AnswersInv, UNCHANGED <<placed, reacts, local, inbox>>, E!ReactTasks' = E!ReactTasks,
         Steady' => Steady
  PROVE  /\ placed' \in Lists /\ reacts' \in Lists /\ inbox' \in Seq(Lists) /\ local' \in [Emojis -> Int]
         /\ \A t \in E!ReactTasks' :
              /\ t = [op |-> t.op, emoji |-> t.emoji, n |-> t.n, st |-> t.st, list |-> t.list]
              /\ t.emoji \in Emojis /\ t.list \in Lists
         /\ ReactTold'
BY DEF AnswersInv, AnswerTypes, ReactTold, Newest

(* A step of the reactions leaves the votes as they are.                                      *)
LEMMA OfReactions ==
  ASSUME AnswersInv, UNCHANGED <<mine, votes, voting>>, Votings' = Votings,
         "votes" \in reactOdd => "votes" \in reactOdd'
  PROVE  /\ \A t \in Votings' : t = [op |-> "vote", options |-> t.options, st |-> t.st]
         /\ VoteTold'
BY DEF AnswersInv, AnswerTypes, VoteTold

(* Each step of the reactions and the votes keeps it.                                         *)
LEMMA AnswersStep == ASSUME AnswersInv, E!Next PROVE AnswersInv'
<1>. USE ReactionsAssumption DEF E!ReactionsConstants
<1>1. /\ AnswerTypes /\ ReactTold /\ VoteTold
      /\ placed \in Lists /\ reacts \in Lists /\ inbox \in Seq(Lists) /\ local \in [Emojis -> Int]
      /\ E!Nobody \in Lists
  BY DEF AnswersInv, AnswerTypes, Lists, E!Nobody
<1>2. ASSUME NEW op \in {"add", "remove"}, NEW e \in Emojis, NEW by \in Int, E!Click(op, e, by)
      PROVE  AnswersInv'
  <2> DEFINE x == [op |-> op, emoji |-> e, n |-> clicks', st |-> "sent", list |-> E!Nobody]
  <2>1. /\ reactTasks' = reactTasks \cup {x} /\ local' = [local EXCEPT ![e] = local[e] + by]
        /\ UNCHANGED <<placed, reacts, inbox, mine, votes, voting, reactOdd>>
    BY <1>2 DEF E!Click, E!pollVars
  <2>2. x.op # "vote" OBVIOUS
  <2>3. E!ReactTasks' = E!ReactTasks \cup {x} BY <2>1, <2>2 DEF E!ReactTasks
  <2>4. Votings' = Votings BY <2>1, <2>2, <2>3 DEF Votings, E!ReactTasks
  <2>5. local' \in [Emojis -> Int] BY <1>1, <2>1
  <2>6. \A t \in E!ReactTasks' :
          /\ t = [op |-> t.op, emoji |-> t.emoji, n |-> t.n, st |-> t.st, list |-> t.list]
          /\ t.emoji \in Emojis /\ t.list \in Lists
    BY <1>1, <2>3 DEF AnswerTypes
  <2>7. ReactTold' BY <2>3 DEF ReactTold
  <2>8. QED BY <1>1, <2>1, <2>4, <2>5, <2>6, <2>7, OfReactions DEF AnswersInv, AnswerTypes
<1>3. ASSUME NEW e \in Emojis, E!addReaction(e) \/ E!RemoveMine(e) PROVE AnswersInv'
  BY <1>2, <1>3 DEF E!addReaction, E!RemoveMine
<1>4. ASSUME NEW u \in E!Users, NEW e \in Emojis \cup {None}, E!OtherPlaces(u, e) PROVE AnswersInv'
  <2>1. /\ placed' = [placed EXCEPT ![u] = e] /\ inbox' = Append(inbox, placed')
        /\ UNCHANGED <<reacts, local, reactTasks, mine, votes, voting>>
        /\ reactOdd \subseteq reactOdd'
    BY <1>4 DEF E!OtherPlaces, E!pollVars
  <2>2. placed' \in Lists BY <1>1, <2>1 DEF Lists
  <2>3. inbox' \in Seq(Lists) /\ inbox' # <<>> /\ inbox'[Len(inbox')] = placed' BY <1>1, <2>1, <2>2
  <2>4. ReactTold' BY <2>3 DEF ReactTold, Newest
  <2>5. E!ReactTasks' = E!ReactTasks /\ Votings' = Votings BY <2>1 DEF E!ReactTasks, Votings
  <2>6. QED BY <1>1, <2>1, <2>2, <2>3, <2>4, <2>5, OfReactions DEF AnswersInv, AnswerTypes
(* A request on its way gets further.                                                           *)
<1>5. ASSUME NEW t \in E!ReactTasks, NEW u, u.op = t.op, reactTasks' = (reactTasks \ {t}) \cup {u}
      PROVE  E!ReactTasks' = (E!ReactTasks \ {t}) \cup {u} /\ Votings' = Votings
  BY <1>5 DEF E!ReactTasks, Votings
<1>6. ASSUME NEW t \in E!ReactTasks, reactTasks' = reactTasks \ {t}
      PROVE  E!ReactTasks' = E!ReactTasks \ {t} /\ Votings' = Votings
  BY <1>6 DEF E!ReactTasks, Votings
<1>7. ASSUME NEW t \in E!ReactTasks, E!Placed(t) PROVE AnswersInv'
  <2> DEFINE u == [t EXCEPT !.st = "placed"]
  <2>1. /\ placed' = [placed EXCEPT !["me"] = IF t.op = "add" THEN t.emoji ELSE None]
        /\ reactTasks' = (reactTasks \ {t}) \cup {u}
        /\ UNCHANGED <<reacts, local, inbox, mine, votes, voting, reactOdd>>
    BY <1>7 DEF E!Placed, E!pollVars
  <2>2. /\ t = [op |-> t.op, emoji |-> t.emoji, n |-> t.n, st |-> t.st, list |-> t.list]
        /\ t.emoji \in Emojis /\ t.list \in Lists
    BY <1>1 DEF AnswerTypes
  <2>3. u = [op |-> t.op, emoji |-> t.emoji, n |-> t.n, st |-> "placed", list |-> t.list] BY <2>2
  <2> HIDE DEF u
  <2>4. E!ReactTasks' = (E!ReactTasks \ {t}) \cup {u} /\ Votings' = Votings BY <1>5, <2>1, <2>3
  <2>5. \A v \in E!ReactTasks' :
          /\ v = [op |-> v.op, emoji |-> v.emoji, n |-> v.n, st |-> v.st, list |-> v.list]
          /\ v.emoji \in Emojis /\ v.list \in Lists
    BY <1>1, <2>2, <2>3, <2>4 DEF AnswerTypes
  <2>6. placed' \in Lists BY <1>1, <2>1, <2>2 DEF Lists
  <2>7. ReactTold' BY <2>4 DEF ReactTold
  <2>8. QED BY <1>1, <2>1, <2>4, <2>5, <2>6, <2>7, OfReactions DEF AnswersInv, AnswerTypes
<1>8. ASSUME NEW t \in E!ReactTasks, E!ListRead(t) PROVE AnswersInv'
  <2> DEFINE u == [t EXCEPT !.st = "read", !.list = placed]
  <2>1. /\ reactTasks' = (reactTasks \ {t}) \cup {u}
        /\ UNCHANGED <<placed, reacts, local, inbox, mine, votes, voting, reactOdd>>
    BY <1>8 DEF E!ListRead, E!pollVars, E!reactVars
  <2>2. /\ t = [op |-> t.op, emoji |-> t.emoji, n |-> t.n, st |-> t.st, list |-> t.list]
        /\ t.emoji \in Emojis /\ t.list \in Lists
    BY <1>1 DEF AnswerTypes
  <2>3. u = [op |-> t.op, emoji |-> t.emoji, n |-> t.n, st |-> "read", list |-> placed]
    <3> DEFINE v == [t EXCEPT !.st = "read"]
    <3>1. v = [op |-> t.op, emoji |-> t.emoji, n |-> t.n, st |-> "read", list |-> t.list] BY <2>2
    <3>2. u = [v EXCEPT !.list = placed] OBVIOUS
    <3> HIDE DEF v, u
    <3>3. [v EXCEPT !.list = placed]
            = [op |-> t.op, emoji |-> t.emoji, n |-> t.n, st |-> "read", list |-> placed]
      BY <3>1
    <3>4. QED BY <3>2, <3>3
  <2> HIDE DEF u
  <2>4. E!ReactTasks' = (E!ReactTasks \ {t}) \cup {u} /\ Votings' = Votings BY <1>5, <2>1, <2>3
  <2>5. \A v \in E!ReactTasks' :
          /\ v = [op |-> v.op, emoji |-> v.emoji, n |-> v.n, st |-> v.st, list |-> v.list]
          /\ v.emoji \in Emojis /\ v.list \in Lists
    BY <1>1, <2>2, <2>3, <2>4 DEF AnswerTypes
  <2>6. ReactTold' BY <2>4 DEF ReactTold
  <2>7. QED BY <1>1, <2>1, <2>4, <2>5, <2>6, OfReactions DEF AnswersInv, AnswerTypes
<1>9. ASSUME NEW t \in E!ReactTasks, E!Told(t) PROVE AnswersInv'
  <2>1. /\ reactTasks' = reactTasks \ {t} /\ inbox' = Append(inbox, t.list)
        /\ reactOdd \subseteq reactOdd' /\ (t.list # placed => "overtaken" \in reactOdd')
        /\ UNCHANGED <<placed, reacts, local, mine, votes, voting>>
    BY <1>9 DEF E!Told, E!pollVars
  <2>2. t.list \in Lists BY <1>1 DEF AnswerTypes
  <2>3. inbox' \in Seq(Lists) /\ inbox' # <<>> /\ inbox'[Len(inbox')] = t.list BY <1>1, <2>1, <2>2
  <2>4. Steady' => t.list = placed BY <2>1 DEF Steady
  <2>5. ReactTold' BY <2>1, <2>3, <2>4 DEF ReactTold, Newest
  <2>6. E!ReactTasks' = E!ReactTasks \ {t} /\ Votings' = Votings BY <1>6, <2>1
  <2>7. QED BY <1>1, <2>1, <2>3, <2>5, <2>6, OfReactions DEF AnswersInv, AnswerTypes
<1>10. ASSUME NEW t \in E!ReactTasks, E!Untold(t) PROVE AnswersInv'
  <2>1. /\ reactTasks' = reactTasks \ {t} /\ reactOdd' = reactOdd \cup {"untold"}
        /\ UNCHANGED <<placed, reacts, local, inbox, mine, votes, voting>>
    BY <1>10 DEF E!Untold, E!pollVars, E!reactVars
  <2>2. E!ReactTasks' = E!ReactTasks \ {t} /\ Votings' = Votings BY <1>6, <2>1
  <2>3. ReactTold' BY <2>1 DEF ReactTold, Steady
  <2>4. QED BY <1>1, <2>1, <2>2, <2>3, OfReactions DEF AnswersInv, AnswerTypes
<1>11. CASE E!handleReactionUpdate
  <2>1. /\ inbox # <<>> /\ inbox' = Tail(inbox) /\ reacts' = Head(inbox)
        /\ local' = (IF reacts' = E!Nobody THEN local ELSE [e \in Emojis |-> 0])
        /\ UNCHANGED <<placed, reactTasks, mine, votes, voting, reactOdd>>
    BY <1>11 DEF E!handleReactionUpdate, E!LocalAfter, E!pollVars
  <2>2. E!ReactTasks' = E!ReactTasks /\ Votings' = Votings BY <2>1 DEF E!ReactTasks, Votings
  <2>3. reacts' \in Lists /\ inbox' \in Seq(Lists) /\ local' \in [Emojis -> Int] BY <1>1, <2>1
  <2>4. Newest' = Newest
    <3> DEFINE n == Len(inbox)
    <3>1. /\ n \in Nat /\ n # 0 /\ Len(inbox') = n - 1 /\ reacts' = inbox[1]
          /\ \A i \in 1..Len(inbox') : inbox'[i] = inbox[i + 1]
      <4>1. n \in Nat /\ n # 0 BY <1>1, <2>1, EmptySeq
      <4>2. QED BY <1>1, <2>1, <4>1, HeadTailProperties
    <3>2. Newest = inbox[n] BY <2>1 DEF Newest
    <3>3. CASE n = 1
      <4>1. inbox' = <<>> BY <2>3, <3>1, <3>3, EmptySeq
      <4>2. QED BY <3>1, <3>2, <3>3, <4>1 DEF Newest
    <3>4. CASE n # 1
      <4>1. n - 1 \in 1..Len(inbox') /\ n - 1 + 1 = n BY <3>1, <3>4
      <4>2. inbox'[n - 1] = inbox[n] BY <3>1, <4>1
      <4>3. Len(<<>>) = 0 BY EmptySeq
      <4>4. inbox' # <<>> BY <3>1, <3>4, <4>3
      <4>5. QED BY <3>1, <3>2, <4>2, <4>4 DEF Newest
    <3>5. QED BY <3>3, <3>4
  <2>5. reacts' = E!Nobody \/ \A e \in Emojis : local'[e] = 0 BY <2>1
  <2>6. E!Nobody' = E!Nobody /\ Steady' = Steady BY <2>1 DEF E!Nobody, Steady
  <2>7. ReactTold' BY <1>1, <2>1, <2>2, <2>4, <2>5, <2>6 DEF ReactTold
  <2>8. QED BY <1>1, <2>1, <2>2, <2>3, <2>7, OfReactions DEF AnswersInv, AnswerTypes
<1>12. CASE E!PollLoaded
  <2>1. votes' = mine /\ UNCHANGED <<placed, reacts, local, inbox, reactTasks, mine, voting, reactOdd>>
    BY <1>12 DEF E!PollLoaded, E!reactVars
  <2>2. E!ReactTasks' = E!ReactTasks /\ Votings' = Votings BY <2>1 DEF E!ReactTasks, Votings
  <2>3. VoteTold' BY <1>1, <2>1, <2>2 DEF VoteTold
  <2>4. Steady' => Steady BY <2>1 DEF Steady
  <2>5. \A t \in Votings' : t = [op |-> "vote", options |-> t.options, st |-> t.st]
    BY <1>1, <2>2 DEF AnswerTypes
  <2>6. QED BY <2>1, <2>2, <2>3, <2>4, <2>5, OfVotes DEF AnswersInv, AnswerTypes
<1>13. ASSUME NEW o \in Options, E!handleVote(o) PROVE AnswersInv'
  <2> DEFINE x == [op |-> "vote", options |-> E!ToSend(o), st |-> "sent"]
  <2>1. /\ ~voting /\ voting' = TRUE /\ reactTasks' = reactTasks \cup {x}
        /\ UNCHANGED <<placed, reacts, local, inbox, mine, votes, reactOdd>>
    BY <1>13 DEF E!handleVote, E!reactVars
  <2>2. x.op = "vote" /\ x = [op |-> "vote", options |-> x.options, st |-> x.st] OBVIOUS
  <2> HIDE DEF x
  <2>3. E!ReactTasks' = E!ReactTasks BY <2>1, <2>2 DEF E!ReactTasks
  <2>4. Votings = {} BY <1>1, <2>1 DEF VoteTold
  <2>5. Votings' = {x} BY <2>1, <2>2, <2>3, <2>4 DEF Votings, E!ReactTasks
  <2>6. VoteTold' BY <1>1, <2>1, <2>4, <2>5 DEF VoteTold
  <2>7. Steady' => Steady BY <2>1 DEF Steady
  <2>8. QED BY <2>1, <2>2, <2>3, <2>5, <2>6, <2>7, OfVotes DEF AnswersInv, AnswerTypes
<1>14. ASSUME NEW t \in Votings, NEW ok \in BOOLEAN, E!Voted(t, ok) PROVE AnswersInv'
  <2>1. /\ t.op = "vote" /\ t.st = "sent" /\ Votings = {t}
        /\ UNCHANGED <<placed, reacts, local, inbox, votes, reactOdd>>
    BY <1>1, <1>14 DEF E!Voted, E!reactVars, VoteTold
  <2>2. Steady' => Steady BY <2>1 DEF Steady
  <2>3. CASE ok
    <3> DEFINE u == [t EXCEPT !.st = "counted"]
    <3>1. reactTasks' = (reactTasks \ {t}) \cup {u} /\ UNCHANGED voting
      BY <1>14, <2>3 DEF E!Voted
    <3>2. u = [op |-> "vote", options |-> t.options, st |-> "counted"] BY <1>1 DEF AnswerTypes
    <3> HIDE DEF u
    <3>3. E!ReactTasks' = E!ReactTasks BY <2>1, <3>1, <3>2 DEF E!ReactTasks
    <3>4. Votings' = {u} BY <2>1, <3>1, <3>2, <3>3 DEF Votings, E!ReactTasks
    <3>5. VoteTold' BY <1>1, <2>1, <3>1, <3>2, <3>4 DEF VoteTold
    <3>6. QED BY <2>1, <2>2, <3>2, <3>3, <3>4, <3>5, OfVotes DEF AnswersInv, AnswerTypes
  <2>4. CASE ~ok
    <3>1. reactTasks' = reactTasks \ {t} /\ voting' = FALSE /\ UNCHANGED mine
      BY <1>14, <2>4 DEF E!Voted
    <3>2. E!ReactTasks' = E!ReactTasks BY <2>1, <3>1 DEF E!ReactTasks
    <3>3. Votings' = {} BY <2>1, <3>1, <3>2 DEF Votings
    <3>4. VoteTold' BY <1>1, <2>1, <3>1, <3>3 DEF VoteTold
    <3>5. QED BY <2>1, <2>2, <3>2, <3>3, <3>4, OfVotes DEF AnswersInv, AnswerTypes
  <2>5. QED BY <2>3, <2>4
<1>15. ASSUME NEW t \in Votings, NEW ok \in BOOLEAN, E!Counted(t, ok) PROVE AnswersInv'
  <2>1. /\ t.op = "vote" /\ Votings = {t} /\ reactTasks' = reactTasks \ {t} /\ voting' = FALSE
        /\ votes' = mine \/ "votes" \in reactOdd'
        /\ mine' = mine
        /\ reactOdd' \in {reactOdd \ {"votes"}, reactOdd \cup {"votes"}}
        /\ UNCHANGED <<placed, reacts, local, inbox>>
    BY <1>1, <1>15 DEF E!Counted, E!reactVars, VoteTold
  <2>2. Steady' => Steady BY <2>1 DEF Steady
  <2>3. E!ReactTasks' = E!ReactTasks BY <2>1 DEF E!ReactTasks
  <2>4. Votings' = {} BY <2>1, <2>3 DEF Votings
  <2>5. mine' = mine BY <1>15 DEF E!Counted
  <2>6. VoteTold' BY <2>1, <2>4, <2>5 DEF VoteTold
  <2>7. QED BY <2>1, <2>2, <2>3, <2>4, <2>6, OfVotes DEF AnswersInv, AnswerTypes
<1>16. QED
  BY <1>3, <1>4, <1>7, <1>8, <1>9, <1>10, <1>11, <1>12, <1>13, <1>14, <1>15 DEF E!Next, Votings

-----------------------------------------------------------------------------
(* My stickers (Stickers): the packs and stickers at the server, the calls, the stickers made  *)
(* on old counts (crowded), what the panel shows, the libraries asked for, the addresses known *)
(* here (cached), the upload, and why the panel may be wrong (stickersOdd).                    *)

(* No number of a pack or of a sticker, at the server or known here, is above b.               *)
Within(b) ==
  /\ b \in Nat /\ packs \subseteq 0..b /\ cached \subseteq 0..b
  /\ \A s \in stickers : s.id \in 0..b
  /\ \A c \in stickerCalls : \A s \in c.did : s.id \in 0..b
  /\ \A a \in libraries : a.got # <<>> => \A s \in a.got[1].stickers : s.id \in 0..b
Numbers == (\E b \in Nat : Within(b)) /\ \A s \in stickers : s.pack \in packs

(* The panel: my library was asked for, or will be, since the last call of the panel wrote to  *)
(* it; or what it shows is there.                                                              *)
Wrote == \E c \in stickerCalls : c.op \in K!PanelOps /\ c.wrote
Awaited == Wrote \/ \E a \in libraries : a.n = stickersAsked
Reading(a) ==
  /\ a \in [n : {a.n}, pack : {a.pack}, upload : {a.upload}, got : {a.got}, stale : {a.stale}]
  /\ a.n \in 0..stickersAsked /\ a.stale \subseteq {"mine", "others", "cut"}
  /\ a.got = <<>> => a.stale = {}
  /\ a.got # <<>> /\ a.stale = {} => a.got = <<K!Library>>
  /\ a.stale = {"mine"} => a.n < stickersAsked \/ Wrote
PanelInv ==
  /\ uploading \in BOOLEAN /\ stickersAsked \in Nat /\ stickersNewest \in 0..stickersAsked
  /\ stickersOdd \subseteq {"mine", "others", "failed", "late", "cut"}
  /\ \A a \in libraries : Reading(a)
  /\ stickersNewest = stickersAsked \/ \E a \in libraries : a.n = stickersAsked
  /\ stickersOdd \subseteq {"mine"} => Awaited
         \/ (stickersShown = K!Library /\ \A s \in stickers : s.id \in cached)

(* The calls: what one is, and what its counts still say if nobody wrote since.                *)
Singles == {"create", "one"}
Copying == {"copy", "all"}
Calling(c) ==
  /\ c \in [id : {c.id}, op : {c.op}, pack : {c.pack}, arg : {c.arg}, st : {c.st}, copy : {c.copy},
            dirty : BOOLEAN, did : {c.did}, wrote : BOOLEAN]
  /\ c.id \in 2..stickersMade /\ c.op \in K!PanelOps \cup {"one"} \cup Copying
  /\ c.st \in {"count", "place", "default", "copy", "write", "done"}
  /\ c.op = "create" => c.arg = 1 - c.id
  /\ c.op = "one" => c.arg \in Nat
  /\ c.op \in Copying => c.arg \in Seq(DOMAIN Theirs) /\ c.arg # <<>>
  /\ c.st = "count" => c.op \in Singles \cup Copying \cup {"pack"}
  /\ c.st \in {"place", "default"} => c.op \in Singles
  /\ c.st = "copy" => c.op \in Copying
  /\ c.st = "write" /\ c.op \in Copying => c.copy \subseteq K!Media(Head(c.arg))
Counted(c) ==
  /\ c.op = "create" /\ c.st # "done" => c.arg \notin K!MyMedia
  /\ c.op \in Singles /\ c.st \in {"place", "default", "write"} /\ ~c.dirty
       => Cardinality(stickers) < maxStickersPerUser /\ c.arg \notin K!MyMedia
  /\ c.op \in Copying /\ c.st = "write" /\ ~c.dirty
       => /\ c.copy \cap K!MyMedia = {}
          /\ c.copy = {} \/ Cardinality(stickers) + Cardinality(c.copy) <= maxStickersPerUser
CallsInv ==
  /\ stickersMade \in Nat \ {0} /\ IsFiniteSet(stickers)
  /\ \A s \in stickers : s.media \in Nat \/ s.media \in (1 - stickersMade)..0
  /\ \A c \in stickerCalls : Calling(c) /\ Counted(c)
  /\ \A c, d \in stickerCalls : c.id = d.id => c = d
LimitInv ==
  /\ Cardinality({s \in stickers : s.id \notin crowded}) <= maxStickersPerUser
  /\ \A s, t \in stickers : s.media = t.media /\ s.id < t.id => t.id \in crowded
StickersInv == Numbers /\ PanelInv /\ CallsInv /\ LimitInv

(* The packs that are counted, and the calls that may make one without an old count.            *)
Plain(some, old) == {p \in some : -p \notin old}
Roomy(c) == c.op \in Copying \cup {"pack"} /\ c.st \in {"copy", "write"} /\ ~c.dirty
First(c) == c.st = "default" /\ ~c.dirty
PacksInv ==
  /\ IsFiniteSet(packs)
  /\ Cardinality(Plain(packs, crowded)) <= maxPacksPerUser
  /\ \A c \in stickerCalls : Roomy(c) => Cardinality(Plain(packs, crowded)) < maxPacksPerUser
  /\ \A c \in stickerCalls : First(c) => packs = {}

LEMMA StickerCardinality == \A some : K!Cardinality(some) = Cardinality(some)
BY DEF K!Cardinality, Cardinality
LEMMA StickersTold == K!StickersConstants
BY StickersAssumption

(* It holds at the start, and says what is checked.                                            *)
LEMMA StickersInit == ASSUME K!Init PROVE StickersInv
<1>1. /\ packs \in {{}, {1}} /\ stickers = {} /\ stickerCalls = {}
             /\ libraries = {K!Ask(1, 0, FALSE)} /\ cached = {} /\ uploading = FALSE
      /\ stickersOdd = {} /\ stickersMade = 1 /\ stickersAsked = 1 /\ stickersNewest = 0
  BY DEF K!Init
<1>2. PICK a : a = K!Ask(1, 0, FALSE) OBVIOUS
<1>3. /\ libraries = {a} /\ a = [n |-> 1, pack |-> 0, upload |-> FALSE, got |-> <<>>, stale |-> {}]
  BY <1>1, <1>2 DEF K!Ask
<1>4. Numbers
  <2>1. \A b \in libraries : b.got = <<>> BY <1>3
  <2>2. packs \subseteq 0..1 /\ cached \subseteq 0..1 BY <1>1
  <2>3. Within(1) BY <1>1, <2>1, <2>2 DEF Within
  <2>4. QED BY <1>1, <2>3 DEF Numbers
<1>5. PanelInv
  <2>1. Reading(a) BY <1>1, <1>3 DEF Reading
  <2>2. a \in libraries /\ a.n = stickersAsked BY <1>1, <1>3
  <2>3. stickersOdd \subseteq {} /\ stickersNewest \in 0..stickersAsked /\ stickersAsked \in Nat BY <1>1
  <2>4. QED BY <1>1, <1>3, <2>1, <2>2, <2>3 DEF PanelInv, Awaited
<1>6. IsFiniteSet(stickers) /\ Cardinality(stickers) = 0 BY <1>1, FS_EmptySet
<1>7. CallsInv BY <1>1, <1>6 DEF CallsInv
<1>8. LimitInv
  <2>1. {s \in stickers : s.id \notin crowded} = stickers BY <1>1
  <2>2. maxStickersPerUser \in Nat BY StickersTold DEF K!StickersConstants
  <2>3. QED BY <1>1, <1>6, <2>1, <2>2 DEF LimitInv
<1>9. QED BY <1>4, <1>5, <1>7, <1>8 DEF StickersInv

LEMMA PacksInit == ASSUME K!Init PROVE PacksInv
<1>1. packs \in {{}, {1}} /\ stickerCalls = {} /\ crowded = {} BY DEF K!Init
<1>2. Plain(packs, crowded) = packs BY <1>1 DEF Plain
<1>3. IsFiniteSet(packs) /\ Cardinality(packs) \in {0, 1}
  <2>1. CASE packs = {} BY <2>1, FS_EmptySet
  <2>2. CASE packs = {1} BY <2>2, FS_Singleton
  <2>3. QED BY <1>1, <2>1, <2>2
<1>4. Cardinality(packs) <= maxPacksPerUser BY <1>3, StickersTold DEF K!StickersConstants
<1>5. QED BY <1>1, <1>2, <1>3, <1>4 DEF PacksInv

LEMMA StickersHeld == ASSUME StickersInv, PacksInv PROVE K!TypeOK /\ K!LimitRaced /\ K!PanelTrue
<1>1. PICK b \in Nat : Within(b) BY DEF StickersInv, Numbers
<1>2. K!TypeOK
  <2>1. packs \subseteq Nat /\ cached \subseteq Nat /\ \A s \in stickers : s.pack \in packs /\ s.id \in Nat
    BY <1>1 DEF Within, StickersInv, Numbers
  <2>2. uploading \in BOOLEAN /\ stickersOdd \subseteq {"mine", "others", "failed", "late", "cut"}
    BY DEF StickersInv, PanelInv
  <2>3. \A c \in stickerCalls : c.st \in {"count", "place", "default", "copy", "write", "done"}
    BY DEF StickersInv, CallsInv, Calling
  <2>4. QED BY <2>1, <2>2, <2>3 DEF K!TypeOK
<1>3. K!LimitRaced BY StickerCardinality DEF StickersInv, LimitInv, PacksInv, Plain, K!LimitRaced
<1>4. K!PanelTrue BY DEF StickersInv, PanelInv, Awaited, Wrote, K!PanelTrue
<1>5. QED BY <1>2, <1>3, <1>4

-----------------------------------------------------------------------------
(* A new number is above all there are.                                                        *)
LEMMA GreatestNumber == ASSUME NEW b \in Nat, NEW some \in SUBSET (0..b), some # {}
                        PROVE  \E n \in some : \A m \in some : n >= m
<1> DEFINE above == {n \in Nat : \A m \in some : n >= m}
<1>1. b \in above /\ above \subseteq Nat OBVIOUS
<1>2. PICK n \in above : \A m \in above : <<m, n>> \notin OpToRel(<, Nat)
  BY <1>1, NatLessThanWellFounded, WFMin
<1>3. \A m \in above : ~(m < n) BY <1>1, <1>2 DEF OpToRel
<1>4. ASSUME n \notin some PROVE FALSE
  <2>1. n \in Nat /\ \A m \in some : n > m BY <1>4
  <2>2. PICK m \in some : TRUE OBVIOUS
  <2>3. m \in Nat /\ n > m BY <2>1
  <2>4. n - 1 \in above BY <2>1, <2>3
  <2>5. QED BY <1>3, <2>1, <2>4
<1>5. QED BY <1>4

LEMMA NewNumber == ASSUME NEW b \in Nat, Within(b)
                   PROVE  \E n \in 1..b + 1 : n = K!NewId /\ n \notin packs /\ \A s \in stickers : s.id < n
<1> DEFINE all == {0} \union packs \union {s.id : s \in stickers} \union cached \union UNION {{s.id : s \in c.did} : c \in stickerCalls}
<1>1. all \in SUBSET (0..b) /\ all # {}
  <2>1. packs \subseteq 0..b /\ cached \subseteq 0..b /\ {s.id : s \in stickers} \subseteq 0..b BY DEF Within
  <2>2. \A c \in stickerCalls : {s.id : s \in c.did} \subseteq 0..b BY DEF Within
  <2>3. UNION {{s.id : s \in c.did} : c \in stickerCalls} \subseteq 0..b BY <2>2
  <2>4. 0 \in 0..b OBVIOUS
  <2>5. QED BY <2>1, <2>3, <2>4
<1>2. PICK m \in all : \A n \in all : m >= n BY <1>1, GreatestNumber
<1>3. K!Max(all) \in all /\ \A n \in all : K!Max(all) >= n BY <1>2 DEF K!Max
<1>4. K!NewId = 1 + K!Max(all) BY DEF K!NewId
<1>5. PICK n : n = K!Max(all) OBVIOUS
<1>6. n \in 0..b BY <1>1, <1>3, <1>5
<1>7. \A s \in stickers : s.id \in all BY DEF all
<1>8. \A p \in packs : p \in all BY DEF all
<1>9. 1 + n \in 1..b + 1 /\ 1 + n \notin packs /\ \A s \in stickers : s.id < 1 + n
  <2> HIDE DEF all
  <2>1. \A p \in all : p \in Nat /\ p <= n BY <1>1, <1>3, <1>5, <1>6
  <2>2. QED BY <1>6, <1>7, <1>8, <2>1
<1>10. QED BY <1>4, <1>5, <1>9

-----------------------------------------------------------------------------
(* The panel.  What changes nothing it goes by keeps it.                                       *)
LEMMA PanelQuiet ==
  ASSUME PanelInv, UNCHANGED <<packs, stickers, stickersShown, libraries, stickersOdd,
                               stickersAsked, stickersNewest>>, uploading' \in BOOLEAN,
         \A s \in stickers : s.id \in cached => s.id \in cached', Wrote => Wrote'
  PROVE  PanelInv'
<1>1. K!Library' = K!Library BY DEF K!Library
<1>2. Awaited => Awaited' BY DEF Awaited
<1>3. \A a \in libraries' : Reading(a)' BY <1>1 DEF PanelInv, Reading
<1>4. QED BY <1>1, <1>2, <1>3 DEF PanelInv

(* A library asked for is one to come.                                                         *)
LEMMA PanelAsks ==
  ASSUME PanelInv, NEW pack, NEW upload, K!Refresh(pack, upload),
      UNCHANGED <<packs, stickers, stickersShown, uploading, stickersOdd, stickersNewest>>
  PROVE  PanelInv'
<1>1. PICK a : a = K!Ask(stickersAsked + 1, pack, upload) OBVIOUS
<1>2. a = [n |-> stickersAsked + 1, pack |-> pack, upload |-> upload, got |-> <<>>, stale |-> {}]
  BY <1>1 DEF K!Ask
<1>3. stickersAsked' = stickersAsked + 1 /\ libraries' = libraries \cup {a} BY <1>1 DEF K!Refresh
<1>4. stickersAsked \in Nat /\ stickersAsked' \in Nat BY <1>3 DEF PanelInv
<1>5. a.n = stickersAsked' /\ a \in libraries' BY <1>2, <1>3
<1>6. Reading(a)' BY <1>2, <1>3, <1>4 DEF Reading
<1>7. K!Library' = K!Library BY DEF K!Library
<1>8. \A c \in libraries : Reading(c)'
  <2>1. SUFFICES ASSUME NEW c \in libraries PROVE Reading(c)' OBVIOUS
  <2>2. Reading(c) BY DEF PanelInv
  <2>3. c.n \in 0..stickersAsked' /\ c.n < stickersAsked' BY <1>3, <1>4, <2>2 DEF Reading
  <2>4. QED BY <1>7, <2>2, <2>3 DEF Reading
<1>9. Awaited' BY <1>5 DEF Awaited
<1>10. stickersNewest' \in 0..stickersAsked' BY <1>3, <1>4 DEF PanelInv
<1>11. QED BY <1>3, <1>4, <1>5, <1>6, <1>8, <1>9, <1>10 DEF PanelInv

(* The server answers with what it has.                                                        *)
LEMMA PanelServed == ASSUME PanelInv, K!Served PROVE PanelInv'
<1>1. PICK a \in libraries :
        /\ a.got = <<>> /\ libraries' = (libraries \ {a}) \cup {[a EXCEPT !.got = <<K!Library>>]}
        /\ UNCHANGED <<packs, stickers, stickerCalls, crowded, stickersShown, packShown, uploading,
                       cached, packsMine, importing, packsAll, stickersOdd, stickersMade,
                       stickersAsked, stickersNewest, stickersLoaded>>
  BY DEF K!Served, K!server, K!panel
<1>2. PICK b : b = [a EXCEPT !.got = <<K!Library>>] OBVIOUS
<1>3. Reading(a) BY DEF PanelInv
<1>4. /\ b \in [n : {a.n}, pack : {a.pack}, upload : {a.upload}, got : {<<K!Library>>}, stale : {a.stale}]
      /\ b.n = a.n /\ b.got = <<K!Library>> /\ b.stale = {}
  BY <1>1, <1>2, <1>3 DEF Reading
<1>5. K!Library' = K!Library /\ Wrote' = Wrote BY <1>1 DEF K!Library, Wrote
<1>6. Reading(b)' BY <1>1, <1>3, <1>4, <1>5 DEF Reading
<1>7. \A c \in libraries : Reading(c)' BY <1>1, <1>5 DEF PanelInv, Reading
<1>8. libraries' = (libraries \ {a}) \cup {b} BY <1>1, <1>2
<1>9. \A c \in libraries : \E d \in libraries' : d.n = c.n BY <1>4, <1>8
<1>10. Awaited => Awaited' BY <1>1, <1>5, <1>9 DEF Awaited
<1>11. QED BY <1>1, <1>5, <1>6, <1>7, <1>8, <1>9, <1>10 DEF PanelInv

(* A library asked for after the last call is what the panel shows then.                       *)
LEMMA PanelLoaded == ASSUME PanelInv, K!Loaded PROVE PanelInv'
<1>1. PICK a \in libraries :
        /\ libraries' = libraries \ {a} /\ uploading' = (uploading /\ ~a.upload)
        /\ stickersNewest' = (IF a.n > stickersNewest THEN a.n ELSE stickersNewest)
        /\ \/ /\ a.got # <<>> /\ stickersShown' = a.got[1]
              /\ cached' = cached \cup {s.id : s \in a.got[1].stickers}
              /\ stickersOdd' = a.stale \cup (IF a.n < stickersNewest THEN {"late"} ELSE {})
           \/ stickersOdd' = {"failed"}
        /\ UNCHANGED <<packs, stickers, stickerCalls, stickersAsked>>
  BY DEF K!Loaded, K!server, K!mergeServerStickers
<1>2. Reading(a) /\ a.n \in 0..stickersAsked /\ stickersAsked \in Nat
    /\ stickersNewest \in 0..stickersAsked
  BY DEF PanelInv, Reading
<1>3. K!Library' = K!Library /\ Wrote' = Wrote BY <1>1 DEF K!Library, Wrote
<1>4. \A c \in libraries' : Reading(c)' BY <1>1, <1>3 DEF PanelInv, Reading
<1>5. stickersNewest' \in 0..stickersAsked' BY <1>1, <1>2
<1>6. uploading' \in BOOLEAN BY <1>1
<1>7. stickersNewest' = stickersAsked' \/ \E c \in libraries' : c.n = stickersAsked'
  <2>1. CASE stickersNewest = stickersAsked BY <1>1, <1>2, <2>1
  <2>2. CASE a.n = stickersAsked BY <1>1, <1>2, <2>2
  <2>3. CASE stickersNewest # stickersAsked /\ a.n # stickersAsked
    <3>1. PICK c \in libraries : c.n = stickersAsked BY <2>3 DEF PanelInv
    <3>2. QED BY <1>1, <2>3, <3>1
  <2>4. QED BY <2>1, <2>2, <2>3
<1>8. stickersOdd' \subseteq {"mine", "others", "failed", "late", "cut"} BY <1>1, <1>2 DEF Reading
<1>9. ASSUME stickersOdd' \subseteq {"mine"}, ~Awaited'
      PROVE  stickersShown' = K!Library' /\ \A s \in stickers' : s.id \in cached'
  <2>1. /\ a.got # <<>> /\ stickersShown' = a.got[1] /\ cached' = cached \cup {s.id : s \in a.got[1].stickers}
        /\ stickersOdd' = a.stale \cup (IF a.n < stickersNewest THEN {"late"} ELSE {})
    BY <1>1, <1>9
  <2>2. a.stale \subseteq {"mine"} /\ ~(a.n < stickersNewest) BY <1>9, <2>1
  <2>3. ~Wrote /\ \A c \in libraries' : c.n # stickersAsked BY <1>1, <1>3, <1>9 DEF Awaited
  <2>4. a.n = stickersAsked
    <3>1. CASE stickersNewest = stickersAsked BY <1>2, <2>2, <3>1
    <3>2. CASE stickersNewest # stickersAsked
      <4>1. PICK c \in libraries : c.n = stickersAsked BY <3>2 DEF PanelInv
      <4>2. QED BY <1>1, <2>3, <4>1
    <3>3. QED BY <3>1, <3>2
  <2>5. a.stale # {"mine"} BY <1>2, <2>3, <2>4 DEF Reading
  <2>6. a.stale = {} BY <2>2, <2>5
  <2>7. a.got = <<K!Library>> BY <1>2, <2>1, <2>6 DEF Reading
  <2>8. a.got[1] = K!Library /\ K!Library.stickers = stickers BY <2>7 DEF K!Library
  <2>9. QED BY <1>1, <1>3, <2>1, <2>8
<1>10. stickersAsked' \in Nat BY <1>1, <1>2
<1>11. QED BY <1>4, <1>5, <1>6, <1>7, <1>8, <1>9, <1>10 DEF PanelInv

(* What is written, or lost, marks the libraries that lack it.                                 *)
LEMMA PanelStale ==
  ASSUME PanelInv, NEW why \in {"mine", "others", "cut"}, K!Stale(why),
      UNCHANGED <<stickersAsked, stickersNewest>>,
         uploading' \in BOOLEAN, why = "mine" => Wrote'
  PROVE  PanelInv'
<1>1. /\ libraries' = {IF a.got = <<>> THEN a ELSE [a EXCEPT !.stale = @ \cup {why}] : a \in libraries}
      /\ stickersOdd' = stickersOdd \cup {why}
  BY DEF K!Stale
<1>2. ASSUME NEW b \in libraries' PROVE Reading(b)'
  <2>1. PICK a \in libraries : b = IF a.got = <<>> THEN a ELSE [a EXCEPT !.stale = @ \cup {why}] BY <1>1
  <2>2. Reading(a) BY DEF PanelInv
  <2>3. CASE a.got = <<>>
    <3>1. b = a /\ b.stale = {} BY <2>1, <2>2, <2>3 DEF Reading
    <3>2. QED BY <2>2, <2>3, <3>1 DEF Reading
  <2>4. CASE a.got # <<>>
    <3>1. PICK stale : stale = a.stale \cup {why} OBVIOUS
    <3>2. b = [a EXCEPT !.stale = stale] BY <2>1, <2>4, <3>1
    <3>3. /\ b \in [n : {a.n}, pack : {a.pack}, upload : {a.upload}, got : {a.got}, stale : {stale}]
          /\ b.n = a.n /\ b.got = a.got /\ b.stale = stale
      BY <2>2, <3>2 DEF Reading
    <3>4. stale \subseteq {"mine", "others", "cut"} /\ why \in stale BY <2>2, <3>1 DEF Reading
    <3>5. stale = {"mine"} => Wrote' BY <3>4
    <3>6. QED BY <2>2, <2>4, <3>3, <3>4, <3>5 DEF Reading
  <2>5. QED BY <2>3, <2>4
<1>3. \A a \in libraries : \E b \in libraries' : b.n = a.n
  <2>1. SUFFICES ASSUME NEW a \in libraries PROVE \E b \in libraries' : b.n = a.n OBVIOUS
  <2>2. PICK b : b = IF a.got = <<>> THEN a ELSE [a EXCEPT !.stale = @ \cup {why}] OBVIOUS
  <2>3. b \in libraries' BY <1>1, <2>2
  <2>4. a \in [n : {a.n}, pack : {a.pack}, upload : {a.upload}, got : {a.got}, stale : {a.stale}]
    BY DEF PanelInv, Reading
  <2>5. b.n = a.n BY <2>2, <2>4
  <2>6. QED BY <2>3, <2>5
<1>4. stickersNewest' = stickersAsked' \/ \E b \in libraries' : b.n = stickersAsked' BY <1>3 DEF PanelInv
<1>5. stickersOdd' \subseteq {"mine", "others", "failed", "late", "cut"} BY <1>1 DEF PanelInv
<1>6. stickersOdd' \subseteq {"mine"} => Awaited' BY <1>1 DEF Awaited
<1>7. stickersAsked' \in Nat /\ stickersNewest' \in 0..stickersAsked' BY DEF PanelInv
<1>8. QED BY <1>2, <1>4, <1>5, <1>6, <1>7 DEF PanelInv
-----------------------------------------------------------------------------
(* The numbers.  A step that neither writes nor brings a number that is nowhere keeps them.    *)
LEMMA NumbersStay ==
  ASSUME Numbers, UNCHANGED <<packs, stickers>>,
         \A n \in cached' : \/ n \in cached \/ \E s \in stickers : n = s.id
                            \/ \E c \in stickerCalls : \E s \in c.did : n = s.id
                            \/ \E a \in libraries : a.got # <<>> /\ \E s \in a.got[1].stickers : n = s.id,
         \A c \in stickerCalls' : c.did = {} \/ \E d \in stickerCalls : c.did = d.did,
         \A a \in libraries' : a.got = <<>> \/ a.got[1].stickers = stickers
                        \/ \E b \in libraries : b.got # <<>> /\ a.got[1].stickers = b.got[1].stickers
  PROVE  Numbers'
<1>1. PICK b \in Nat : Within(b) BY DEF Numbers
<1>2. Within(b)'
  <2>1. cached' \subseteq 0..b BY <1>1 DEF Within
  <2>2. ASSUME NEW c \in stickerCalls', NEW s \in c.did PROVE s.id \in 0..b BY <1>1, <2>2 DEF Within
  <2>3. ASSUME NEW a \in libraries', a.got # <<>>, NEW s \in a.got[1].stickers PROVE s.id \in 0..b
    BY <1>1, <2>3 DEF Within
  <2>4. QED BY <1>1, <2>1, <2>2, <2>3 DEF Within
<1>3. QED BY <1>2 DEF Numbers

(* The calls.  One more, one that goes on and one less.                                        *)
LEMMA CallsBegin ==
  ASSUME CallsInv, NEW op \in K!PanelOps \cup {"one"} \cup Copying, NEW pack, NEW arg, K!Call(op, pack, arg),
         op = "create" => arg = -stickersMade, op = "one" => arg \in Nat,
         op \in Copying => arg \in Seq(DOMAIN Theirs) /\ arg # <<>>
  PROVE  CallsInv'
<1>1. PICK phase : phase = IF op \in K!PanelOps \ {"create", "pack"} THEN "write" ELSE "count" OBVIOUS
<1>2. PICK c : c = [id |-> stickersMade + 1, op |-> op, pack |-> pack, arg |-> arg, st |-> phase, copy |-> {},
                    dirty |-> FALSE, did |-> {}, wrote |-> FALSE]
  OBVIOUS
<1>3. stickersMade' = stickersMade + 1 /\ stickerCalls' = stickerCalls \cup {c} /\ stickers' = stickers
  BY <1>1, <1>2 DEF K!Call, K!server
<1>4. /\ c \in [id : {c.id}, op : {c.op}, pack : {c.pack}, arg : {c.arg}, st : {c.st}, copy : {c.copy},
                dirty : BOOLEAN, did : {c.did}, wrote : BOOLEAN]
      /\ c.id = stickersMade + 1 /\ c.op = op /\ c.arg = arg /\ c.st = phase
  BY <1>2
<1>5. stickersMade \in Nat \ {0} /\ stickersMade' \in Nat \ {0} BY <1>3 DEF CallsInv
<1>6. op \in Singles \cup Copying => phase = "count" BY <1>1 DEF Singles, Copying, K!PanelOps
<1>7. phase \in {"count", "write"} BY <1>1
<1>8. c.id \in 2..stickersMade' /\ (op = "create" => arg = 1 - c.id) BY <1>3, <1>4, <1>5
<1>9. Calling(c)'
  <2>1. phase \notin {"place", "default", "copy"} BY <1>7
  <2>2. c.st = "write" /\ c.op \in Copying => FALSE BY <1>4, <1>6
  <2>3. c.st = "count" => c.op \in Singles \cup Copying \cup {"pack"}
    BY <1>1, <1>4 DEF K!PanelOps, Singles, Copying
  <2>4. QED BY <1>4, <1>7, <1>8, <2>1, <2>2, <2>3 DEF Calling
<1>10. K!MyMedia' = K!MyMedia BY <1>3 DEF K!MyMedia
<1>11. op = "create" => arg \notin K!MyMedia BY <1>5 DEF CallsInv, K!MyMedia
<1>12. Counted(c)'
  <2>1. c.op \in Singles \cup Copying => c.st = "count" BY <1>4, <1>6
  <2>2. QED BY <1>4, <1>10, <1>11, <2>1 DEF Counted
<1>13. \A d \in stickerCalls : d.id <= stickersMade /\ Calling(d)' /\ Counted(d)'
  <2>1. SUFFICES ASSUME NEW d \in stickerCalls PROVE d.id <= stickersMade /\ Calling(d)' /\ Counted(d)' OBVIOUS
  <2>2. Calling(d) /\ Counted(d) BY DEF CallsInv
  <2>3. d.id \in 2..stickersMade /\ d.id \in 2..stickersMade' BY <1>3, <1>5, <2>2 DEF Calling
  <2>4. Calling(d)' BY <2>2, <2>3 DEF Calling
  <2>5. Counted(d)' BY <1>3, <1>10, <2>2 DEF Counted
  <2>6. QED BY <1>5, <2>3, <2>4, <2>5
<1>14. \A d, e \in stickerCalls' : d.id = e.id => d = e
  <2>1. \A d \in stickerCalls : d.id # c.id
    <3>1. SUFFICES ASSUME NEW d \in stickerCalls PROVE d.id # c.id OBVIOUS
    <3>2. d.id \in 2..stickersMade BY DEF CallsInv, Calling
    <3>3. QED BY <1>4, <1>5, <3>2
  <2>2. QED BY <1>3, <2>1 DEF CallsInv
<1>15. \A s \in stickers' : s.media \in Nat \/ s.media \in (1 - stickersMade')..0 BY <1>3, <1>5 DEF CallsInv
<1>16. QED BY <1>3, <1>5, <1>9, <1>12, <1>13, <1>14, <1>15 DEF CallsInv

LEMMA CallsGoOn ==
  ASSUME CallsInv, NEW c \in stickerCalls, NEW d, d.id = c.id, Calling(d), Counted(d),
         stickerCalls' = (stickerCalls \ {c}) \cup {d}, UNCHANGED <<stickers, stickersMade>>
  PROVE  CallsInv'
<1>1. K!MyMedia' = K!MyMedia BY DEF K!MyMedia
<1>2. \A e \in stickerCalls' : Calling(e) /\ Counted(e) BY DEF CallsInv
<1>3. \A e \in stickerCalls' : Calling(e)' BY <1>2 DEF Calling
<1>4. \A e \in stickerCalls' : Counted(e)' BY <1>1, <1>2 DEF Counted
<1>5. \A e, q \in stickerCalls' : e.id = q.id => e = q
  <2>1. \A e \in stickerCalls \ {c} : e.id # c.id BY DEF CallsInv
  <2>2. \A e \in stickerCalls \ {c} : e.id # d.id BY <2>1
  <2>3. QED BY <2>2 DEF CallsInv
<1>6. QED BY <1>3, <1>4, <1>5 DEF CallsInv

LEMMA CallsStay ==
  ASSUME CallsInv, stickerCalls' \subseteq stickerCalls, UNCHANGED <<stickers, stickersMade>>
  PROVE  CallsInv'
<1>1. K!MyMedia' = K!MyMedia BY DEF K!MyMedia
<1>2. \A e \in stickerCalls' : Calling(e)' /\ Counted(e)' BY <1>1 DEF CallsInv, Calling, Counted
<1>3. QED BY <1>2 DEF CallsInv

LEMMA LimitStays == ASSUME LimitInv, UNCHANGED <<stickers, crowded>> PROVE LimitInv'
BY DEF LimitInv

-----------------------------------------------------------------------------
(* The steps that neither write nor read the server.                                           *)
LEMMA StickersOpen == ASSUME StickersInv, K!Open PROVE StickersInv'
<1>1. /\ K!Refresh(0, FALSE) /\ UNCHANGED <<packs, stickers, stickerCalls, crowded, stickersShown,
                                            cached, uploading, stickersOdd, stickersMade, stickersNewest>>
  BY DEF K!Open, K!server, K!panel
<1>2. PanelInv' BY <1>1, PanelAsks DEF StickersInv
<1>3. libraries' = libraries \cup {K!Ask(stickersAsked + 1, 0, FALSE)}
    /\ K!Ask(stickersAsked + 1, 0, FALSE).got = <<>>
  BY <1>1 DEF K!Refresh, K!Ask
<1>4. Numbers' BY <1>1, <1>3, NumbersStay DEF StickersInv
<1>5. CallsInv' BY <1>1, CallsStay DEF StickersInv
<1>6. LimitInv' BY <1>1, LimitStays DEF StickersInv
<1>7. QED BY <1>2, <1>4, <1>5, <1>6 DEF StickersInv

LEMMA StickersServed == ASSUME StickersInv, K!Served PROVE StickersInv'
<1>1. PanelInv' BY PanelServed DEF StickersInv
<1>2. PICK a \in libraries :
        /\ libraries' = (libraries \ {a}) \cup {[a EXCEPT !.got = <<K!Library>>]}
        /\ UNCHANGED <<packs, stickers, stickerCalls, crowded, cached, stickersMade>>
  BY DEF K!Served, K!server
<1>3. PICK b : b = [a EXCEPT !.got = <<K!Library>>] OBVIOUS
<1>4. a \in [n : {a.n}, pack : {a.pack}, upload : {a.upload}, got : {a.got}, stale : {a.stale}]
  BY DEF StickersInv, PanelInv, Reading
<1>5. b.got = <<K!Library>> BY <1>3, <1>4
<1>6. b.got[1].stickers = stickers BY <1>5 DEF K!Library
<1>7. libraries' = (libraries \ {a}) \cup {b} BY <1>2, <1>3
<1>8. \A d \in libraries' : d.got = <<>> \/ d.got[1].stickers = stickers
                     \/ \E e \in libraries : e.got # <<>> /\ d.got[1].stickers = e.got[1].stickers
  BY <1>6, <1>7
<1>9. Numbers' BY <1>2, <1>8, NumbersStay DEF StickersInv
<1>10. CallsInv' BY <1>2, CallsStay DEF StickersInv
<1>11. LimitInv' BY <1>2, LimitStays DEF StickersInv
<1>12. QED BY <1>1, <1>9, <1>10, <1>11 DEF StickersInv

LEMMA StickersLoaded == ASSUME StickersInv, K!Loaded PROVE StickersInv'
<1>1. PanelInv' BY PanelLoaded DEF StickersInv
<1>2. PICK a \in libraries : libraries' = libraries \ {a}
    /\ UNCHANGED <<packs, stickers, stickerCalls, crowded, stickersMade>>
                             /\ \/ a.got # <<>> /\ cached' = cached \cup {s.id : s \in a.got[1].stickers}
                                \/ cached' = cached
  BY DEF K!Loaded, K!server, K!mergeServerStickers
<1>3. \A n \in cached' : \/ n \in cached
                         \/ \E d \in libraries : d.got # <<>> /\ \E s \in d.got[1].stickers : n = s.id
  BY <1>2
<1>4. Numbers' BY <1>2, <1>3, NumbersStay DEF StickersInv
<1>5. CallsInv' BY <1>2, CallsStay DEF StickersInv
<1>6. LimitInv' BY <1>2, LimitStays DEF StickersInv
<1>7. QED BY <1>1, <1>4, <1>5, <1>6 DEF StickersInv

(* What is chosen, and what the list of packs knows, matters to none of it.                    *)
LEMMA StickersLook ==
  ASSUME StickersInv, UNCHANGED <<packs, stickers, stickerCalls, crowded, stickersShown, libraries,
                                  cached, uploading, stickersOdd, stickersMade, stickersAsked, stickersNewest>>
  PROVE  StickersInv'
<1>1. Wrote' = Wrote BY DEF Wrote
<1>2. uploading' \in BOOLEAN BY DEF StickersInv, PanelInv
<1>3. PanelInv' BY <1>1, <1>2, PanelQuiet DEF StickersInv
<1>4. Numbers' BY NumbersStay DEF StickersInv
<1>5. CallsInv' BY CallsStay DEF StickersInv
<1>6. LimitInv' BY LimitStays DEF StickersInv
<1>7. QED BY <1>3, <1>4, <1>5, <1>6 DEF StickersInv

LEMMA StickersHydrate == ASSUME StickersInv, K!Hydrate PROVE StickersInv'
<1>1. PICK t \in stickers :
        /\ cached' = cached \cup {s.id : s \in {t}}
        /\ UNCHANGED <<packs, stickers, stickerCalls, crowded, stickersShown, libraries, uploading,
                       stickersOdd, stickersMade, stickersAsked, stickersNewest>>
  BY DEF K!Hydrate, K!mergeServerStickers, K!server, K!panel
<1>2. cached' = cached \cup {t.id} BY <1>1
<1>3. Wrote' = Wrote BY <1>1 DEF Wrote
<1>4. uploading' \in BOOLEAN BY <1>1 DEF StickersInv, PanelInv
<1>5. PanelInv' BY <1>1, <1>2, <1>3, <1>4, PanelQuiet DEF StickersInv
<1>6. Numbers' BY <1>1, <1>2, NumbersStay DEF StickersInv
<1>7. CallsInv' BY <1>1, CallsStay DEF StickersInv
<1>8. LimitInv' BY <1>1, LimitStays DEF StickersInv
<1>9. QED BY <1>5, <1>6, <1>7, <1>8 DEF StickersInv

(* A call begins.                                                                              *)
LEMMA StickersBegin ==
  ASSUME StickersInv, NEW op \in K!PanelOps \cup {"one"} \cup Copying, NEW pack, NEW arg, K!Call(op, pack, arg),
         op = "create" => arg = -stickersMade, op = "one" => arg \in Nat,
         op \in Copying => arg \in Seq(DOMAIN Theirs) /\ arg # <<>>, uploading' \in BOOLEAN
  PROVE  StickersInv'
<1>1. CallsInv' BY CallsBegin DEF StickersInv
<1>2. PICK phase : phase = IF op \in K!PanelOps \ {"create", "pack"} THEN "write" ELSE "count" OBVIOUS
<1>3. PICK c : c = [id |-> stickersMade + 1, op |-> op, pack |-> pack, arg |-> arg, st |-> phase, copy |-> {},
                    dirty |-> FALSE, did |-> {}, wrote |-> FALSE]
  OBVIOUS
<1>4. stickerCalls' = stickerCalls \cup {c} /\ c.did = {}
    /\ UNCHANGED <<packs, stickers, crowded, stickersShown, libraries, cached, stickersOdd,
                   stickersAsked, stickersNewest>>
  BY <1>2, <1>3 DEF K!Call, K!server
<1>5. Wrote => Wrote' BY <1>4 DEF Wrote
<1>6. PanelInv' BY <1>4, <1>5, PanelQuiet DEF StickersInv
<1>7. Numbers' BY <1>4, NumbersStay DEF StickersInv
<1>8. LimitInv' BY <1>4, LimitStays DEF StickersInv
<1>9. QED BY <1>1, <1>6, <1>7, <1>8 DEF StickersInv

LEMMA StickersCall ==
  ASSUME StickersInv, K!Upload \/ K!NewPack \/ K!RenamePack \/ K!DeletePack \/ K!DeleteSticker
                      \/ K!ImportOne \/ K!ImportPack \/ K!ImportAll
  PROVE  StickersInv'
<1>1. uploading \in BOOLEAN /\ Theirs \in Seq(Seq(Nat))
  BY StickersTold DEF StickersInv, PanelInv, K!StickersConstants
<1>2. CASE K!Upload
  <2>1. K!Call("create", K!Selected, -stickersMade) /\ uploading' \in BOOLEAN BY <1>2 DEF K!Upload
  <2>2. "create" \in K!PanelOps /\ "create" \notin Copying BY DEF K!PanelOps, Copying
  <2>3. PICK pack : pack = K!Selected OBVIOUS
  <2>4. QED BY <2>1, <2>2, <2>3, StickersBegin
<1>3. ASSUME NEW op \in {"pack", "rename", "dropPack", "drop"}, NEW pack, NEW arg, K!Manage(op, pack, arg)
      PROVE  StickersInv'
  <2>1. K!Call(op, pack, arg) /\ uploading' \in BOOLEAN BY <1>1, <1>3 DEF K!Manage
  <2>2. op \in K!PanelOps /\ op \notin Copying /\ op # "create" /\ op # "one"
    BY DEF K!PanelOps, Copying
  <2>3. QED BY <2>1, <2>2, StickersBegin
<1>4. CASE K!NewPack BY <1>3, <1>4 DEF K!NewPack
<1>5. CASE K!RenamePack
  <2>1. PICK pack : pack = K!Selected OBVIOUS
  <2>2. K!Manage("rename", pack, 0) BY <1>5, <2>1 DEF K!RenamePack
  <2>3. QED BY <1>3, <2>2
<1>6. CASE K!DeletePack
  <2>1. PICK pack : pack = K!Selected OBVIOUS
  <2>2. K!Manage("dropPack", pack, 0) BY <1>6, <2>1 DEF K!DeletePack
  <2>3. QED BY <1>3, <2>2
<1>7. CASE K!DeleteSticker
  <2>1. PICK s \in stickersShown.stickers : K!Manage("drop", s.pack, s.id) BY <1>7 DEF K!DeleteSticker
  <2>2. QED BY <1>3, <2>1
<1>8. CASE K!ImportOne
  <2>1. PICK nth \in DOMAIN Theirs : \E m \in K!Media(nth) : K!Call("one", 0, m) /\ uploading' = uploading
    BY <1>8 DEF K!ImportOne
  <2>2. PICK m \in K!Media(nth) : K!Call("one", 0, m) /\ uploading' = uploading BY <2>1
  <2>3. Theirs[nth] \in Seq(Nat) BY <1>1
  <2>4. m \in Nat BY <2>3 DEF K!Media
  <2>5. "one" \notin Copying /\ uploading' \in BOOLEAN BY <1>1, <2>2 DEF Copying
  <2>6. QED BY <2>2, <2>4, <2>5, StickersBegin
<1>9. CASE K!ImportPack
  <2>1. PICK nth \in DOMAIN Theirs : K!Call("copy", 0, <<nth>>) /\ uploading' = uploading
    BY <1>9 DEF K!ImportPack
  <2>2. <<nth>> \in Seq(DOMAIN Theirs) /\ <<nth>> # <<>> BY <2>1
  <2>3. "copy" \in Copying /\ uploading' \in BOOLEAN BY <1>1, <2>1 DEF Copying
  <2>4. QED BY <2>1, <2>2, <2>3, StickersBegin
<1>10. CASE K!ImportAll
  <2>1. PICK arg : arg = [i \in 1..Len(Theirs) |-> i] OBVIOUS
  <2>2. K!Call("all", 0, arg) /\ uploading' = uploading /\ Theirs # <<>> BY <1>10, <2>1 DEF K!ImportAll
  <2>3. DOMAIN Theirs = 1..Len(Theirs) /\ Len(Theirs) \in Nat /\ Len(Theirs) # 0 BY <1>1, <2>2
  <2>4. arg \in Seq(DOMAIN Theirs) /\ Len(arg) = Len(Theirs) BY <2>1, <2>3
  <2>5. arg # <<>> BY <2>3, <2>4
  <2>6. "all" \in Copying /\ uploading' \in BOOLEAN BY <1>1, <2>2 DEF Copying
  <2>7. QED BY <2>2, <2>4, <2>5, <2>6, StickersBegin
<1>11. QED BY <1>2, <1>4, <1>5, <1>6, <1>7, <1>8, <1>9, <1>10
-----------------------------------------------------------------------------
(* The steps of a call at the server.                                                          *)
LEMMA CallShape ==
  ASSUME NEW c, Calling(c)
  PROVE  c \in [id : {c.id}, op : {c.op}, pack : {c.pack}, arg : {c.arg}, st : {c.st}, copy : {c.copy},
                dirty : BOOLEAN, did : {c.did}, wrote : BOOLEAN]
BY DEF Calling

(* A step that only moves one call on.                                                         *)
LEMMA StickersGoOn ==
  ASSUME StickersInv, NEW c \in stickerCalls, NEW d, d.id = c.id, d.op = c.op, d.wrote = c.wrote, d.did = c.did,
         Calling(d), Counted(d), stickerCalls' = (stickerCalls \ {c}) \cup {d},
         UNCHANGED <<packs, stickers, crowded, stickersShown, libraries, cached, uploading,
                     stickersOdd, stickersMade, stickersAsked, stickersNewest>>
  PROVE  StickersInv'
<1>1. CallsInv' BY CallsGoOn DEF StickersInv
<1>2. Wrote => Wrote' BY DEF Wrote
<1>3. uploading' \in BOOLEAN BY DEF StickersInv, PanelInv
<1>4. PanelInv' BY <1>2, <1>3, PanelQuiet DEF StickersInv
<1>5. Numbers' BY NumbersStay DEF StickersInv
<1>6. LimitInv' BY LimitStays DEF StickersInv
<1>7. QED BY <1>1, <1>4, <1>5, <1>6 DEF StickersInv

LEMMA StickersCounts == ASSUME StickersInv, K!Counts PROVE StickersInv'
<1>1. PICK c \in stickerCalls :
        /\ c.st = "count" /\ K!MayInsert(c)
        /\ stickerCalls' = (stickerCalls \ {c}) \cup
             {[c EXCEPT !.dirty = FALSE,
                        !.st = IF c.op = "pack" THEN "write"
                               ELSE IF c.op \in {"create", "one"} THEN "place" ELSE "copy"]}
        /\ UNCHANGED <<packs, stickers, crowded, stickersShown, libraries, cached, uploading,
                       stickersOdd, stickersMade, stickersAsked, stickersNewest>>
  BY DEF K!Counts, K!server, K!panel, K!Quiet, K!Others
<1>2. Calling(c) /\ Counted(c) BY DEF StickersInv, CallsInv
<1>3. PICK phase : phase = IF c.op = "pack" THEN "write"
                     ELSE IF c.op \in {"create", "one"} THEN "place" ELSE "copy" OBVIOUS
<1>4. PICK d : d = [c EXCEPT !.dirty = FALSE, !.st = phase] OBVIOUS
<1>5. stickerCalls' = (stickerCalls \ {c}) \cup {d} BY <1>1, <1>3, <1>4
<1>6. /\ d \in [id : {c.id}, op : {c.op}, pack : {c.pack}, arg : {c.arg}, st : {phase}, copy : {c.copy},
                dirty : {FALSE}, did : {c.did}, wrote : BOOLEAN]
      /\ d.id = c.id /\ d.op = c.op /\ d.pack = c.pack /\ d.arg = c.arg /\ d.st = phase /\ d.copy = c.copy
      /\ d.did = c.did /\ d.wrote = c.wrote
  <2>1. c \in [id : {c.id}, op : {c.op}, pack : {c.pack}, arg : {c.arg}, st : {c.st}, copy : {c.copy},
               dirty : BOOLEAN, did : {c.did}, wrote : BOOLEAN]
    BY <1>2, CallShape
  <2>2. d \in [id : {c.id}, op : {c.op}, pack : {c.pack}, arg : {c.arg}, st : {phase}, copy : {c.copy},
               dirty : {FALSE}, did : {c.did}, wrote : BOOLEAN]
    BY <1>4, <2>1
  <2>3. d.wrote = c.wrote BY <1>4, <2>1
  <2>4. QED BY <2>2, <2>3
<1>7. c.op \in {"create", "one", "pack", "copy", "all"}
      /\ (c.op \in Singles => Cardinality(stickers) < maxStickersPerUser)
      /\ (c.op = "one" => c.arg \notin K!MyMedia)
  <2>1. CASE c.op = "create" BY <1>1, <2>1, StickerCardinality DEF K!MayInsert
  <2>2. CASE c.op = "one" BY <1>1, <2>2, StickerCardinality DEF K!MayInsert
  <2>3. CASE c.op \in {"pack", "copy", "all"} BY <2>3 DEF Singles
  <2>4. c.op \in {"create", "one", "pack", "copy", "all"} BY <1>1, <1>2 DEF Calling, Singles, Copying
  <2>5. QED BY <2>1, <2>2, <2>3, <2>4
<1>8. Calling(d)
  <2>1. phase \in {"write", "place", "copy"} /\ (phase = "place" => c.op \in Singles)
        /\ (phase = "copy" => c.op \in Copying) /\ (phase = "write" => c.op \notin Copying)
    BY <1>3, <1>7 DEF Singles, Copying
  <2>2. QED BY <1>2, <1>6, <2>1 DEF Calling
<1>9. Counted(d)
  <2>1. c.op = "create" => c.arg \notin K!MyMedia BY <1>1, <1>2 DEF Counted
  <2>2. c.op \in Singles => c.arg \notin K!MyMedia BY <1>7, <2>1 DEF Singles
  <2>3. ~(c.op \in Copying /\ phase = "write") BY <1>3 DEF Copying
  <2>4. QED BY <1>6, <1>7, <2>1, <2>2, <2>3 DEF Counted
<1>10. QED BY <1>1, <1>5, <1>6, <1>8, <1>9, StickersGoOn

LEMMA StickersPlaces == ASSUME StickersInv, K!Places PROVE StickersInv'
<1>1. PICK c \in stickerCalls :
        /\ c.st = "place"
        /\ stickerCalls' = (stickerCalls \ {c}) \cup
             {IF c.pack = 0 /\ packs = {} THEN [c EXCEPT !.st = "default"]
              ELSE [c EXCEPT !.st = "write", !.pack = IF c.pack = 0 THEN K!Oldest(packs) ELSE c.pack]}
        /\ UNCHANGED <<packs, stickers, crowded, stickersShown, libraries, cached, uploading,
                       stickersOdd, stickersMade, stickersAsked, stickersNewest>>
  BY DEF K!Places, K!server, K!panel, K!Quiet, K!Others
<1>2. Calling(c) /\ Counted(c) BY DEF StickersInv, CallsInv
<1>3. PICK pack : pack = IF c.pack = 0 THEN K!Oldest(packs) ELSE c.pack OBVIOUS
<1>4. PICK d : d = IF c.pack = 0 /\ packs = {} THEN [c EXCEPT !.st = "default"]
                   ELSE [c EXCEPT !.st = "write", !.pack = pack] OBVIOUS
<1>5. stickerCalls' = (stickerCalls \ {c}) \cup {d} BY <1>1, <1>3, <1>4
<1>6. /\ d \in [id : {c.id}, op : {c.op}, pack : {d.pack}, arg : {c.arg}, st : {d.st}, copy : {c.copy},
                dirty : BOOLEAN, did : {c.did}, wrote : BOOLEAN]
      /\ d.id = c.id /\ d.op = c.op /\ d.arg = c.arg /\ d.st \in {"default", "write"} /\ d.copy = c.copy
      /\ d.dirty = c.dirty /\ d.did = c.did /\ d.wrote = c.wrote
  <2>1. c \in [id : {c.id}, op : {c.op}, pack : {c.pack}, arg : {c.arg}, st : {c.st}, copy : {c.copy},
               dirty : BOOLEAN, did : {c.did}, wrote : BOOLEAN]
    BY <1>2, CallShape
  <2>2. \E phase \in {"default", "write"} : \E p :
          /\ d \in [id : {c.id}, op : {c.op}, pack : {p}, arg : {c.arg}, st : {phase}, copy : {c.copy},
                    dirty : BOOLEAN, did : {c.did}, wrote : BOOLEAN]
          /\ d.dirty = c.dirty /\ d.wrote = c.wrote
    <3>1. CASE c.pack = 0 /\ packs = {}
      <4>1. d = [c EXCEPT !.st = "default"] BY <1>4, <3>1
      <4>2. d \in [id : {c.id}, op : {c.op}, pack : {c.pack}, arg : {c.arg}, st : {"default"},
                   copy : {c.copy}, dirty : BOOLEAN, did : {c.did}, wrote : BOOLEAN]
        BY <2>1, <4>1
      <4>3. d.dirty = c.dirty /\ d.wrote = c.wrote BY <2>1, <4>1
      <4>4. QED BY <4>2, <4>3
    <3>2. CASE ~(c.pack = 0 /\ packs = {})
      <4>1. d = [c EXCEPT !.st = "write", !.pack = pack] BY <1>4, <3>2
      <4>2. d \in [id : {c.id}, op : {c.op}, pack : {pack}, arg : {c.arg}, st : {"write"},
                   copy : {c.copy}, dirty : BOOLEAN, did : {c.did}, wrote : BOOLEAN]
        BY <2>1, <4>1
      <4>3. d.dirty = c.dirty /\ d.wrote = c.wrote BY <2>1, <4>1
      <4>4. QED BY <4>2, <4>3
    <3>3. QED BY <3>1, <3>2
  <2>3. QED BY <2>2
<1>7. c.op \in Singles /\ c.op \notin Copying BY <1>1, <1>2 DEF Calling, Singles, Copying
<1>8. Calling(d) BY <1>2, <1>6, <1>7 DEF Calling
<1>9. Counted(d) BY <1>1, <1>2, <1>6, <1>7 DEF Counted
<1>10. QED BY <1>1, <1>5, <1>6, <1>8, <1>9, StickersGoOn

(* A pack has finitely many media.                                                             *)
LEMMA MediaFinite == ASSUME NEW nth \in DOMAIN Theirs PROVE IsFiniteSet(K!Media(nth))
<1>1. PICK list : list = Theirs[nth] OBVIOUS
<1>2. list \in Seq(Nat) /\ Len(list) \in Nat /\ DOMAIN list = 1..Len(list)
  BY <1>1, StickersTold DEF K!StickersConstants
<1>3. PICK f : f = [i \in 1..Len(list) |-> list[i]] OBVIOUS
<1>4. f \in Surjection(1..Len(list), K!Media(nth)) BY <1>1, <1>3 DEF Surjection, K!Media
<1>5. IsFiniteSet(1..Len(list)) BY <1>2, FS_Interval
<1>6. QED BY <1>4, <1>5, FS_Surjection

(* The rows that find room are no more than the room there is: those before the last of them   *)
(* are fewer.                                                                                  *)
LEMMA RoomFits ==
  ASSUME NEW nth \in DOMAIN Theirs, NEW list \in SUBSET K!Media(nth), IsFiniteSet(stickers)
  PROVE  \E some \in SUBSET list :
           /\ some = K!Room(list, nth)
           /\ some = {} \/ Cardinality(stickers) + Cardinality(some) <= maxStickersPerUser
<1> DEFINE media == Theirs[nth]
           Before(m) == {k \in list : \E i, j \in DOMAIN media : i < j /\ media[i] = k /\ media[j] = m}
           room == {m \in list : Cardinality(Before(m)) < maxStickersPerUser - Cardinality(stickers)}
<1>1. K!Room(list, nth) = room BY StickerCardinality DEF K!Room
<1>2. media \in Seq(Nat) /\ DOMAIN media = 1..Len(media) /\ Len(media) \in Nat /\ maxStickersPerUser \in Nat
  BY StickersTold DEF K!StickersConstants
<1>3. IsFiniteSet(list) /\ IsFiniteSet(room)
  <2>1. IsFiniteSet(K!Media(nth)) BY MediaFinite
  <2>2. QED BY <2>1, FS_Subset
<1>4. CASE room # {}
  <2> DEFINE at == {i \in 1..Len(media) : media[i] \in room}
  <2>1. at \in SUBSET (0..Len(media)) /\ at # {}
    <3>1. PICK m \in room : TRUE BY <1>4
    <3>2. PICK i \in 1..Len(media) : media[i] = m BY <3>1 DEF K!Media
    <3>3. i \in at BY <3>1, <3>2
    <3>4. at \subseteq 0..Len(media) BY <1>2
    <3>5. QED BY <3>3, <3>4
  <2>2. PICK n \in at : \A i \in at : n >= i BY <1>2, <2>1, GreatestNumber
  <2>3. PICK m : m = media[n] OBVIOUS
  <2>4. m \in room /\ m \in list BY <2>2, <2>3
  <2>5. room \ {m} \subseteq Before(m)
    <3>1. SUFFICES ASSUME NEW k \in room, k # m PROVE k \in Before(m) OBVIOUS
    <3>2. PICK i \in 1..Len(media) : media[i] = k BY <3>1 DEF K!Media
    <3>3. i \in at BY <3>1, <3>2
    <3>4. i < n BY <1>2, <2>2, <2>3, <3>1, <3>2, <3>3
    <3>5. QED BY <1>2, <2>2, <2>3, <3>1, <3>2, <3>4
  <2>6. IsFiniteSet(Before(m)) BY <1>3, FS_Subset
  <2>7. Cardinality(room \ {m}) <= Cardinality(Before(m)) BY <2>5, <2>6, FS_Subset
  <2>8. Cardinality(room \ {m}) = Cardinality(room) - 1 BY <1>3, <2>4, FS_RemoveElement
  <2>9. Cardinality(Before(m)) < maxStickersPerUser - Cardinality(stickers) BY <2>4
  <2>10. Cardinality(room) \in Nat /\ Cardinality(Before(m)) \in Nat /\ Cardinality(stickers) \in Nat
    BY <1>3, <2>6, FS_CardinalityType
  <2> HIDE DEF Before, room
  <2>11. Cardinality(stickers) + Cardinality(room) <= maxStickersPerUser BY <1>2, <2>7, <2>8, <2>9, <2>10
  <2>12. room \in SUBSET list BY DEF room
  <2>13. QED BY <1>1, <2>11, <2>12
<1>5. QED BY <1>1, <1>4

LEMMA StickersCopies == ASSUME StickersInv, K!Copies PROVE StickersInv'
<1>1. PICK c \in stickerCalls :
        /\ c.st = "copy"
        /\ stickerCalls' = (stickerCalls \ {c}) \cup
             {[c EXCEPT !.st = "write", !.copy = K!Room(K!Fresh(Head(c.arg)), Head(c.arg))]}
        /\ UNCHANGED <<packs, stickers, crowded, stickersShown, libraries, cached, uploading,
                       stickersOdd, stickersMade, stickersAsked, stickersNewest>>
  BY DEF K!Copies, K!server, K!panel, K!Quiet, K!Others
<1>2. Calling(c) /\ Counted(c) /\ IsFiniteSet(stickers) BY DEF StickersInv, CallsInv
<1>3. c.op \in Copying /\ c.op \notin Singles /\ c.op # "create"
  BY <1>1, <1>2 DEF Calling, Singles, Copying
<1>4. c.arg \in Seq(DOMAIN Theirs) /\ c.arg # <<>> BY <1>2, <1>3 DEF Calling
<1>5. PICK nth : nth = Head(c.arg) OBVIOUS
<1>6. nth \in DOMAIN Theirs BY <1>4, <1>5
<1>7. PICK list : list = K!Fresh(nth) OBVIOUS
<1>8. list \subseteq K!Media(nth) /\ list \cap K!MyMedia = {} BY <1>7 DEF K!Fresh
<1>9. PICK some \in SUBSET list :
        /\ some = K!Room(list, nth)
        /\ some = {} \/ Cardinality(stickers) + Cardinality(some) <= maxStickersPerUser
  BY <1>2, <1>6, <1>8, RoomFits
<1>10. PICK d : d = [c EXCEPT !.st = "write", !.copy = some] OBVIOUS
<1>11. stickerCalls' = (stickerCalls \ {c}) \cup {d} BY <1>1, <1>5, <1>7, <1>9, <1>10
<1>12. /\ d \in [id : {c.id}, op : {c.op}, pack : {c.pack}, arg : {c.arg}, st : {"write"}, copy : {some},
                 dirty : BOOLEAN, did : {c.did}, wrote : BOOLEAN]
       /\ d.id = c.id /\ d.op = c.op /\ d.pack = c.pack /\ d.arg = c.arg /\ d.st = "write" /\ d.copy = some
       /\ d.dirty = c.dirty /\ d.did = c.did /\ d.wrote = c.wrote
  <2>1. c \in [id : {c.id}, op : {c.op}, pack : {c.pack}, arg : {c.arg}, st : {c.st}, copy : {c.copy},
               dirty : BOOLEAN, did : {c.did}, wrote : BOOLEAN]
    BY <1>2, CallShape
  <2>2. d \in [id : {c.id}, op : {c.op}, pack : {c.pack}, arg : {c.arg}, st : {"write"}, copy : {some},
               dirty : BOOLEAN, did : {c.did}, wrote : BOOLEAN]
    BY <1>10, <2>1
  <2>3. d.dirty = c.dirty /\ d.wrote = c.wrote BY <1>10, <2>1
  <2>4. QED BY <2>2, <2>3
<1>13. Calling(d) BY <1>2, <1>3, <1>5, <1>8, <1>9, <1>12 DEF Calling
<1>14. Counted(d) BY <1>3, <1>8, <1>9, <1>12 DEF Counted
<1>15. QED BY <1>1, <1>11, <1>12, <1>13, <1>14, StickersGoOn
-----------------------------------------------------------------------------
(* What a call writes: rows with numbers above all others, each of a media of its own, that I  *)
(* have not and that find room unless its counts were old.                                     *)
Inserts(c, rows, n, top) ==
  /\ Within(top) /\ n \in 0..top /\ IsFiniteSet(rows)
  /\ \A r \in rows : /\ r.id \in 0..top /\ \A s \in stickers : s.id < r.id
                     /\ r.media \in Nat \/ (r.media = 1 - c.id /\ r.media \in (1 - stickersMade)..0)
                     /\ ~c.dirty => r.media \notin K!MyMedia
                     /\ r.pack = IF c.op \in Copying THEN n ELSE c.pack
  /\ \A r, q \in rows : r.media = q.media => r = q
  /\ ~c.dirty => rows = {} \/ Cardinality(stickers) + Cardinality(rows) <= maxStickersPerUser

LEMMA Higher == ASSUME NEW b \in Nat, Within(b), NEW top \in Nat, b <= top PROVE Within(top)
<1>1. 0..b \subseteq 0..top OBVIOUS
<1>2. packs \subseteq 0..top /\ cached \subseteq 0..top BY <1>1 DEF Within
<1>3. \A s \in stickers : s.id \in 0..top BY <1>1 DEF Within
<1>4. \A c \in stickerCalls : \A s \in c.did : s.id \in 0..top BY <1>1 DEF Within
<1>5. \A a \in libraries : a.got # <<>> => \A s \in a.got[1].stickers : s.id \in 0..top BY <1>1 DEF Within
<1>6. QED BY <1>2, <1>3, <1>4, <1>5 DEF Within

(* With no row, a number for a pack.                                                           *)
LEMMA InsertsNone == ASSUME StickersInv, NEW c PROVE \E n, top \in Nat : n = K!NewId /\ Inserts(c, {}, n, top)
<1>1. PICK b \in Nat : Within(b) BY DEF StickersInv, Numbers
<1>2. PICK n \in 1..b + 1 : n = K!NewId BY <1>1, NewNumber
<1>3. b + 1 \in Nat /\ n \in Nat /\ n \in 0..b + 1 BY <1>2
<1>4. Within(b + 1) BY <1>1, <1>3, Higher
<1>5. IsFiniteSet({}) BY FS_EmptySet
<1>6. Inserts(c, {}, n, b + 1) BY <1>3, <1>4, <1>5 DEF Inserts
<1>7. QED BY <1>2, <1>3, <1>6

LEMMA InsertsOne ==
  ASSUME StickersInv, NEW c \in stickerCalls, c.st = "write", c.op \in Singles
  PROVE  \E n, top \in Nat : n = K!NewId /\ Inserts(c, K!Rows(c), n, top)
<1>1. PICK b \in Nat : Within(b) BY DEF StickersInv, Numbers
<1>2. PICK n \in 1..b + 1 : n = K!NewId /\ \A s \in stickers : s.id < n BY <1>1, NewNumber
<1>3. b + 1 \in Nat /\ n \in Nat /\ n \in 0..b + 1 BY <1>2
<1>4. Within(b + 1) BY <1>1, <1>3, Higher
<1>5. PICK row : row = [id |-> n, pack |-> c.pack, media |-> c.arg] OBVIOUS
<1>6. row.id = n /\ row.pack = c.pack /\ row.media = c.arg BY <1>5
<1>7. K!Rows(c) = {row} BY <1>2, <1>5 DEF K!Rows, Singles
<1>8. IsFiniteSet({row}) /\ Cardinality({row}) = 1 BY FS_Singleton
<1>9. Calling(c) /\ Counted(c) /\ stickersMade \in Nat \ {0} /\ IsFiniteSet(stickers)
  BY DEF StickersInv, CallsInv
<1>10. c.arg \in Nat \/ (c.arg = 1 - c.id /\ c.arg \in (1 - stickersMade)..0)
  <2>1. CASE c.op = "create"
    <3>1. c.arg = 1 - c.id /\ c.id \in 2..stickersMade BY <1>9, <2>1 DEF Calling
    <3>2. QED BY <1>9, <3>1
  <2>2. CASE c.op = "one" BY <1>9, <2>2 DEF Calling
  <2>3. QED BY <2>1, <2>2 DEF Singles
<1>11. ~c.dirty => c.arg \notin K!MyMedia /\ Cardinality(stickers) < maxStickersPerUser
  BY <1>9 DEF Counted
<1>12. ~c.dirty => Cardinality(stickers) + Cardinality({row}) <= maxStickersPerUser
  <2>1. Cardinality(stickers) \in Nat /\ maxStickersPerUser \in Nat
    BY <1>9, FS_CardinalityType, StickersTold DEF K!StickersConstants
  <2>2. QED BY <1>8, <1>11, <2>1
<1>13. c.op \notin Copying BY DEF Singles, Copying
<1>14. Inserts(c, {row}, n, b + 1)
  BY <1>2, <1>3, <1>4, <1>6, <1>8, <1>10, <1>11, <1>12, <1>13 DEF Inserts
<1>15. QED BY <1>2, <1>3, <1>7, <1>14

LEMMA InsertsCopies ==
  ASSUME StickersInv, NEW c \in stickerCalls, c.st = "write", c.op \in Copying
  PROVE  \E n, top \in Nat : n = K!NewId /\ Inserts(c, K!Rows(c), n, top)
<1>1. PICK b \in Nat : Within(b) BY DEF StickersInv, Numbers
<1>2. PICK n \in 1..b + 1 : n = K!NewId /\ \A s \in stickers : s.id < n BY <1>1, NewNumber
<1>3. Calling(c) /\ Counted(c) /\ IsFiniteSet(stickers) BY DEF StickersInv, CallsInv
<1>4. PICK nth : nth = Head(c.arg) OBVIOUS
<1>5. c.arg \in Seq(DOMAIN Theirs) /\ c.arg # <<>> /\ c.copy \subseteq K!Media(nth)
  BY <1>3, <1>4 DEF Calling
<1>6. nth \in DOMAIN Theirs /\ Theirs \in Seq(Seq(Nat))
  BY <1>4, <1>5, StickersTold DEF K!StickersConstants
<1>7. PICK list : list = Theirs[nth] OBVIOUS
<1>8. list \in Seq(Nat) /\ Len(list) \in Nat /\ DOMAIN list = 1..Len(list) BY <1>6, <1>7
<1>9. PICK at : at = [m \in c.copy |-> CHOOSE i \in DOMAIN list : list[i] = m] OBVIOUS
<1>10. \A m \in c.copy : at[m] \in 1..Len(list) /\ m \in Nat
  <2>1. SUFFICES ASSUME NEW m \in c.copy PROVE at[m] \in 1..Len(list) /\ m \in Nat OBVIOUS
  <2>2. \E i \in DOMAIN list : list[i] = m BY <1>5, <1>7, <1>8 DEF K!Media
  <2>3. at[m] \in DOMAIN list /\ list[at[m]] = m BY <1>9, <2>2
  <2>4. QED BY <1>8, <2>3
<1>11. PICK rows : rows = {[id |-> n + at[m], pack |-> n, media |-> m] : m \in c.copy} OBVIOUS
<1>12. K!Rows(c) = rows
  <2> DEFINE place(m) == CHOOSE i \in DOMAIN Theirs[Head(c.arg)] : Theirs[Head(c.arg)][i] = m
  <2>1. \A m \in c.copy : at[m] = place(m) BY <1>4, <1>7, <1>9
  <2>2. K!Rows(c) = {[id |-> n + place(m), pack |-> n, media |-> m] : m \in c.copy}
    BY <1>2 DEF K!Rows, Copying
  <2> HIDE DEF place
  <2>3. QED BY <1>11, <2>1, <2>2
<1>13. PICK top : top = b + 1 + Len(list) OBVIOUS
<1>14. top \in Nat /\ b <= top /\ n \in Nat /\ n \in 0..top BY <1>2, <1>8, <1>13
<1>15. Within(top) BY <1>1, <1>14, Higher
<1>16. ASSUME NEW r \in rows
       PROVE  r.media \in c.copy /\ r.media \in Nat /\ r.id = n + at[r.media] /\ r.pack = n /\ r.id \in 0..top
              /\ \A s \in stickers : s.id < r.id
  <2>1. PICK m \in c.copy : r = [id |-> n + at[m], pack |-> n, media |-> m] BY <1>11
  <2>2. r.media = m /\ r.id = n + at[m] /\ r.pack = n BY <2>1
  <2>3. at[m] \in 1..Len(list) /\ m \in Nat BY <1>10
  <2>4. r.id \in 0..top /\ n < r.id BY <1>2, <1>8, <1>13, <2>2, <2>3
  <2>5. \A s \in stickers : s.id \in Nat BY <1>1 DEF Within
  <2>6. \A s \in stickers : s.id < r.id BY <1>2, <1>14, <2>4, <2>5
  <2>7. QED BY <2>2, <2>3, <2>4, <2>6
<1>17. ASSUME NEW r \in rows, NEW q \in rows, r.media = q.media PROVE r = q
  <2>1. PICK m \in c.copy : r = [id |-> n + at[m], pack |-> n, media |-> m] BY <1>11
  <2>2. PICK k \in c.copy : q = [id |-> n + at[k], pack |-> n, media |-> k] BY <1>11
  <2>3. r.media = m /\ q.media = k BY <2>1, <2>2
  <2>4. QED BY <1>17, <2>1, <2>2, <2>3
<1>18. IsFiniteSet(c.copy)
  <2>1. IsFiniteSet(K!Media(nth)) BY <1>6, MediaFinite
  <2>2. QED BY <1>5, <2>1, FS_Subset
<1>19. IsFiniteSet(rows) /\ Cardinality(rows) <= Cardinality(c.copy)
  <2>1. PICK f : f = [m \in c.copy |-> [id |-> n + at[m], pack |-> n, media |-> m]] OBVIOUS
  <2>2. f \in Surjection(c.copy, rows) BY <1>11, <2>1 DEF Surjection
  <2>3. QED BY <1>18, <2>2, FS_Surjection
<1>20. ~c.dirty => rows = {} \/ Cardinality(stickers) + Cardinality(rows) <= maxStickersPerUser
  <2>1. /\ Cardinality(stickers) \in Nat /\ Cardinality(rows) \in Nat /\ Cardinality(c.copy) \in Nat
        /\ maxStickersPerUser \in Nat
    BY <1>3, <1>18, <1>19, FS_CardinalityType, StickersTold DEF K!StickersConstants
  <2>2. ~c.dirty => c.copy = {} \/ Cardinality(stickers) + Cardinality(c.copy) <= maxStickersPerUser
    BY <1>3 DEF Counted
  <2>3. c.copy = {} => rows = {} BY <1>11
  <2>4. QED BY <1>19, <2>1, <2>2, <2>3
<1>21. ~c.dirty => c.copy \cap K!MyMedia = {} BY <1>3 DEF Counted
<1>22. Inserts(c, rows, n, top) BY <1>14, <1>15, <1>16, <1>17, <1>19, <1>20, <1>21 DEF Inserts
<1>23. QED BY <1>2, <1>12, <1>14, <1>22
-----------------------------------------------------------------------------
(* What a call wrote makes the counts of the others old, and its own rows keep the limit.      *)
LEMMA StaleAnswers ==
  ASSUME PanelInv, NEW why, K!Stale(why)
  PROVE  \A a \in libraries' : \E b \in libraries : a.got = b.got
<1>1. SUFFICES ASSUME NEW a \in libraries' PROVE \E b \in libraries : a.got = b.got OBVIOUS
<1>2. PICK b \in libraries : a = IF b.got = <<>> THEN b ELSE [b EXCEPT !.stale = @ \cup {why}]
  BY DEF K!Stale
<1>3. b \in [n : {b.n}, pack : {b.pack}, upload : {b.upload}, got : {b.got}, stale : {b.stale}]
  BY DEF PanelInv, Reading
<1>4. a.got = b.got
  <2>1. CASE b.got = <<>> BY <1>2, <2>1
  <2>2. CASE b.got # <<>>
    <3>1. PICK stale : stale = b.stale \cup {why} OBVIOUS
    <3>2. a = [b EXCEPT !.stale = stale] BY <1>2, <2>2, <3>1
    <3>3. QED BY <1>3, <3>2
  <2>3. QED BY <2>1, <2>2
<1>5. QED BY <1>4

LEMMA OthersOld ==
  ASSUME CallsInv, NEW c \in stickerCalls, NEW e \in K!Dirtied(K!Others(c))
  PROVE  /\ Calling(e) /\ e.dirty = TRUE /\ e.id # c.id
         /\ \E g \in stickerCalls : g # c /\ e.id = g.id /\ e.op = g.op /\ e.st = g.st /\ e.arg = g.arg
                          /\ e.did = g.did /\ e.wrote = g.wrote
<1>1. PICK g \in stickerCalls : g # c /\ e = [g EXCEPT !.dirty = TRUE] BY DEF K!Dirtied, K!Others
<1>2. Calling(g) BY DEF CallsInv
<1>3. g \in [id : {g.id}, op : {g.op}, pack : {g.pack}, arg : {g.arg}, st : {g.st}, copy : {g.copy},
             dirty : BOOLEAN, did : {g.did}, wrote : BOOLEAN]
  BY <1>2, CallShape
<1>4. e \in [id : {g.id}, op : {g.op}, pack : {g.pack}, arg : {g.arg}, st : {g.st}, copy : {g.copy},
             dirty : {TRUE}, did : {g.did}, wrote : BOOLEAN]
  BY <1>1, <1>3
<1>5. e.wrote = g.wrote BY <1>1, <1>3
<1>6. Calling(e) BY <1>2, <1>4 DEF Calling
<1>7. e.dirty = TRUE /\ e.id = g.id BY <1>4
<1>8. g.id # c.id BY <1>1 DEF CallsInv
<1>9. QED BY <1>1, <1>4, <1>5, <1>6, <1>7, <1>8

LEMMA CallsOld ==
  ASSUME CallsInv, NEW c \in stickerCalls, NEW d, d.id = c.id, Calling(d), Counted(d)',
         NEW rows, IsFiniteSet(rows), stickers' = stickers \cup rows, stickersMade' = stickersMade,
         \A r \in rows : r.media \in Nat \/ (r.media = 1 - c.id /\ r.media \in (1 - stickersMade)..0),
         stickerCalls' = K!Dirtied(K!Others(c)) \cup {d}
  PROVE  CallsInv'
<1>1. IsFiniteSet(stickers') BY FS_Union DEF CallsInv
<1>2. \A s \in stickers' : s.media \in Nat \/ s.media \in (1 - stickersMade')..0 BY DEF CallsInv
<1>3. ASSUME NEW e \in K!Dirtied(K!Others(c)) PROVE Calling(e)' /\ Counted(e)'
  <2>1. Calling(e) /\ e.dirty = TRUE /\ e.id # c.id BY OthersOld
  <2>2. Calling(e)' BY <2>1 DEF Calling
  <2>3. ASSUME e.op = "create", e.st # "done" PROVE e.arg \notin K!MyMedia'
    <3>1. PICK g \in stickerCalls : g # c /\ e.id = g.id /\ e.op = g.op /\ e.st = g.st /\ e.arg = g.arg
                          /\ e.did = g.did /\ e.wrote = g.wrote
      BY OthersOld
    <3>2. e.arg \notin K!MyMedia BY <2>3, <3>1 DEF CallsInv, Counted
    <3>3. e.arg = 1 - e.id /\ e.id \in 2..stickersMade BY <2>1, <2>3 DEF Calling
    <3>4. c.id \in 2..stickersMade /\ stickersMade \in Nat BY DEF CallsInv, Calling
    <3>5. \A r \in rows : r.media # e.arg BY <2>1, <3>3, <3>4
    <3>6. QED BY <3>2, <3>5 DEF K!MyMedia
  <2>4. Counted(e)' BY <2>1, <2>3 DEF Counted
  <2>5. QED BY <2>2, <2>4
<1>4. Calling(d)' BY DEF Calling
<1>5. \A e, g \in stickerCalls' : e.id = g.id => e = g
  <2>1. ASSUME NEW e \in K!Dirtied(K!Others(c)) PROVE e.id # d.id
    <3>1. e.id # c.id BY OthersOld
    <3>2. QED BY <3>1
  <2>2. ASSUME NEW e \in K!Dirtied(K!Others(c)), NEW g \in K!Dirtied(K!Others(c)), e.id = g.id
        PROVE  e = g
    <3>1. PICK p \in stickerCalls : e = [p EXCEPT !.dirty = TRUE] BY DEF K!Dirtied, K!Others
    <3>2. PICK q \in stickerCalls : g = [q EXCEPT !.dirty = TRUE] BY DEF K!Dirtied, K!Others
    <3>3. /\ p \in [id : {p.id}, op : {p.op}, pack : {p.pack}, arg : {p.arg}, st : {p.st}, copy : {p.copy},
                    dirty : BOOLEAN, did : {p.did}, wrote : BOOLEAN]
          /\ q \in [id : {q.id}, op : {q.op}, pack : {q.pack}, arg : {q.arg}, st : {q.st}, copy : {q.copy},
                    dirty : BOOLEAN, did : {q.did}, wrote : BOOLEAN]
      BY CallShape DEF CallsInv
    <3>4. e.id = p.id BY <3>1, <3>3
    <3>5. g.id = q.id BY <3>2, <3>3
    <3>6. p = q BY <2>2, <3>4, <3>5 DEF CallsInv
    <3>7. QED BY <3>1, <3>2, <3>6
  <2>3. QED BY <2>1, <2>2
<1>6. stickersMade' \in Nat \ {0} BY DEF CallsInv
<1>7. QED BY <1>1, <1>2, <1>3, <1>4, <1>5, <1>6 DEF CallsInv

LEMMA LimitInserts ==
  ASSUME StickersInv, NEW c \in stickerCalls, NEW rows, NEW n, NEW top \in Nat, Inserts(c, rows, n, top),
         stickers' = stickers \cup rows,
         crowded \subseteq crowded', c.dirty => \A r \in rows : r.id \in crowded'
  PROVE  LimitInv'
<1> DEFINE old == {s \in stickers : s.id \notin crowded}
           new == {s \in stickers' : s.id \notin crowded'}
<1>1. /\ IsFiniteSet(stickers) /\ IsFiniteSet(rows) /\ IsFiniteSet(old)
             /\ Cardinality(old) <= maxStickersPerUser
      /\ \A s, t \in stickers : s.media = t.media /\ s.id < t.id => t.id \in crowded
  BY FS_Subset DEF StickersInv, CallsInv, LimitInv, Inserts
<1>2. c.dirty \in BOOLEAN BY DEF StickersInv, CallsInv, Calling
<1>3. Cardinality(new) <= maxStickersPerUser
  <2>1. CASE c.dirty \/ rows = {}
    <3>1. new \subseteq old BY <1>2, <2>1
    <3>2. Cardinality(new) <= Cardinality(old) BY <1>1, <3>1, FS_Subset
    <3>3. IsFiniteSet(new) BY <1>1, <3>1, FS_Subset
    <3>4. Cardinality(new) \in Nat /\ Cardinality(old) \in Nat /\ maxStickersPerUser \in Nat
      BY <1>1, <3>3, FS_CardinalityType, StickersTold DEF K!StickersConstants
    <3> HIDE DEF new, old
    <3>5. QED BY <1>1, <3>2, <3>4
  <2>2. CASE ~c.dirty /\ rows # {}
    <3>1. Cardinality(stickers) + Cardinality(rows) <= maxStickersPerUser BY <2>2 DEF Inserts
    <3>2. new \subseteq stickers \cup rows OBVIOUS
    <3>3. IsFiniteSet(stickers \cup rows) /\ IsFiniteSet(stickers \cap rows) BY <1>1, FS_Union, FS_Intersection
    <3>4. Cardinality(stickers \cup rows) = Cardinality(stickers) + Cardinality(rows) - Cardinality(stickers \cap rows)
      BY <1>1, FS_Union
    <3>5. IsFiniteSet(new) /\ Cardinality(new) <= Cardinality(stickers \cup rows) BY <3>2, <3>3, FS_Subset
    <3>6. /\ Cardinality(new) \in Nat /\ Cardinality(stickers \cup rows) \in Nat
                 /\ Cardinality(stickers) \in Nat
          /\ Cardinality(rows) \in Nat /\ Cardinality(stickers \cap rows) \in Nat /\ maxStickersPerUser \in Nat
      BY <1>1, <3>3, <3>5, FS_CardinalityType, StickersTold DEF K!StickersConstants
    <3> HIDE DEF new
    <3>7. QED BY <3>1, <3>4, <3>5, <3>6
  <2>3. QED BY <2>1, <2>2
<1>4. ASSUME NEW s \in stickers', NEW t \in stickers', s.media = t.media, s.id < t.id PROVE t.id \in crowded'
  <2>1. \A q \in stickers : q.id \in Nat BY DEF Inserts, Within
  <2>2. \A r \in rows : r.id \in Nat /\ \A q \in stickers : q.id < r.id BY DEF Inserts
  <2>3. CASE s \in rows /\ t \in rows BY <1>4, <2>2, <2>3 DEF Inserts
  <2>4. CASE s \in rows /\ t \in stickers BY <1>4, <2>1, <2>2, <2>4
  <2>5. CASE s \in stickers /\ t \in stickers BY <1>1, <1>4, <2>5
  <2>6. CASE s \in stickers /\ t \in rows
    <3>1. CASE c.dirty BY <2>6, <3>1
    <3>2. CASE ~c.dirty
      <4>1. t.media \notin K!MyMedia BY <2>6, <3>2 DEF Inserts
      <4>2. QED BY <1>4, <2>6, <4>1 DEF K!MyMedia
    <3>3. QED BY <3>1, <3>2
  <2>7. QED BY <2>3, <2>4, <2>5, <2>6
<1>5. QED BY <1>3, <1>4 DEF LimitInv
-----------------------------------------------------------------------------
LEMMA StickersInsert ==
  ASSUME StickersInv, NEW c \in stickerCalls, NEW rows, NEW n, NEW top \in Nat, Inserts(c, rows, n, top),
         NEW d, d.id = c.id, d.op = c.op, d.wrote = TRUE, d.did = c.did \/ d.did = c.did \cup rows,
         Calling(d), Counted(d)', stickerCalls' = K!Dirtied(K!Others(c)) \cup {d},
             stickers' = stickers \cup rows,
         packs \subseteq packs', packs' \subseteq packs \cup {n}, \A r \in rows : r.pack \in packs',
         crowded \subseteq crowded', c.dirty => \A r \in rows : r.id \in crowded', K!Aged(c),
         UNCHANGED <<stickersShown, cached, uploading, stickersMade, stickersAsked, stickersNewest>>
  PROVE  StickersInv'
<1>1. LimitInv' BY LimitInserts
<1>2. /\ IsFiniteSet(rows)
      /\ \A r \in rows : r.media \in Nat \/ (r.media = 1 - c.id /\ r.media \in (1 - stickersMade)..0)
  BY DEF Inserts
<1>3. CallsInv' BY <1>2, CallsOld DEF StickersInv
<1>4. PICK why \in {"mine", "others"} : K!Stale(why) /\ (why = "mine" => c.op \in K!PanelOps)
  <2>1. CASE c.op \in K!PanelOps BY <2>1 DEF K!Aged
  <2>2. CASE c.op \notin K!PanelOps BY <2>2 DEF K!Aged
  <2>3. QED BY <2>1, <2>2
<1>5. why = "mine" => Wrote' BY <1>4 DEF Wrote
<1>6. uploading' \in BOOLEAN /\ why \in {"mine", "others", "cut"} BY DEF StickersInv, PanelInv
<1>7. PanelInv' BY <1>4, <1>5, <1>6, PanelStale DEF StickersInv
<1>8. Numbers'
  <2>1. \A a \in libraries' : \E b \in libraries : a.got = b.got BY <1>4, StaleAnswers DEF StickersInv
  <2>2. Within(top) /\ n \in 0..top /\ \A r \in rows : r.id \in 0..top BY DEF Inserts
  <2>3. packs' \subseteq 0..top /\ cached' \subseteq 0..top BY <2>2 DEF Within
  <2>4. \A s \in stickers' : s.id \in 0..top BY <2>2 DEF Within
  <2>5. ASSUME NEW e \in stickerCalls' PROVE \A s \in e.did : s.id \in 0..top
    <3>1. CASE e = d BY <2>2, <3>1 DEF Within
    <3>2. CASE e \in K!Dirtied(K!Others(c))
      <4>1. PICK g \in stickerCalls : g # c /\ e.id = g.id /\ e.op = g.op /\ e.st = g.st /\ e.arg = g.arg
                            /\ e.did = g.did /\ e.wrote = g.wrote
        BY <3>2, OthersOld DEF StickersInv
      <4>2. QED BY <2>2, <4>1 DEF Within
    <3>3. QED BY <3>1, <3>2
  <2>6. ASSUME NEW a \in libraries', a.got # <<>> PROVE \A s \in a.got[1].stickers : s.id \in 0..top
    <3>1. PICK b \in libraries : a.got = b.got BY <2>1
    <3>2. QED BY <2>2, <2>6, <3>1 DEF Within
  <2>7. Within(top)' BY <2>3, <2>4, <2>5, <2>6 DEF Within
  <2>8. \A s \in stickers' : s.pack \in packs' BY DEF StickersInv, Numbers
  <2>9. QED BY <2>7, <2>8 DEF Numbers
<1>9. QED BY <1>1, <1>3, <1>7, <1>8 DEF StickersInv

(* A call that takes away leaves the counts right.                                             *)
LEMMA StickersDelete ==
  ASSUME StickersInv, NEW c \in stickerCalls, c.op \in K!PanelOps, NEW d, d.id = c.id, d.op = c.op,
      d.wrote = TRUE,
         d.did = c.did, d.st = "done", Calling(d), stickerCalls' = (stickerCalls \ {c}) \cup {d},
             stickers' \subseteq stickers,
         packs' \subseteq packs, \A s \in stickers' : s.pack \in packs', crowded' = crowded, K!Aged(c),
         UNCHANGED <<stickersShown, cached, uploading, stickersMade, stickersAsked, stickersNewest>>
  PROVE  StickersInv'
<1>1. /\ IsFiniteSet(stickers) /\ IsFiniteSet(stickers') /\ Cardinality(stickers) \in Nat
             /\ Cardinality(stickers') \in Nat
      /\ Cardinality(stickers') <= Cardinality(stickers) /\ maxStickersPerUser \in Nat
  BY FS_Subset, FS_CardinalityType, StickersTold DEF StickersInv, CallsInv, K!StickersConstants
<1>2. K!MyMedia' \subseteq K!MyMedia BY DEF K!MyMedia
<1>3. CallsInv'
  <2>1. ASSUME NEW e \in stickerCalls PROVE Calling(e)' /\ Counted(e)'
    <3>1. Calling(e) /\ Counted(e) BY DEF StickersInv, CallsInv
    <3>2. Calling(e)' BY <3>1 DEF Calling
    <3>3. e.op \in Singles /\ e.st \in {"place", "default", "write"} /\ ~e.dirty
            => Cardinality(stickers') < maxStickersPerUser /\ e.arg \notin K!MyMedia'
      <4>1. SUFFICES ASSUME e.op \in Singles, e.st \in {"place", "default", "write"}, ~e.dirty
                     PROVE  Cardinality(stickers') < maxStickersPerUser /\ e.arg \notin K!MyMedia'
        OBVIOUS
      <4>2. Cardinality(stickers) < maxStickersPerUser /\ e.arg \notin K!MyMedia BY <3>1, <4>1 DEF Counted
      <4>3. Cardinality(stickers') < maxStickersPerUser BY <1>1, <4>2
      <4>4. QED BY <1>2, <4>2, <4>3
    <3>4. e.op \in Copying /\ e.st = "write" /\ ~e.dirty
            => /\ e.copy \cap K!MyMedia' = {}
               /\ e.copy = {} \/ Cardinality(stickers') + Cardinality(e.copy) <= maxStickersPerUser
      <4>1. SUFFICES ASSUME e.op \in Copying, e.st = "write", ~e.dirty
                     PROVE  /\ e.copy \cap K!MyMedia' = {}
                            /\ e.copy = {} \/ Cardinality(stickers') + Cardinality(e.copy) <= maxStickersPerUser
        OBVIOUS
      <4>2. /\ e.copy \cap K!MyMedia = {}
            /\ e.copy = {} \/ Cardinality(stickers) + Cardinality(e.copy) <= maxStickersPerUser
        BY <3>1, <4>1 DEF Counted
      <4>3. IsFiniteSet(e.copy)
        <5>1. e.copy \subseteq K!Media(Head(e.arg)) /\ e.arg \in Seq(DOMAIN Theirs) /\ e.arg # <<>>
          BY <3>1, <4>1 DEF Calling
        <5>2. PICK nth : nth = Head(e.arg) OBVIOUS
        <5>3. nth \in DOMAIN Theirs /\ e.copy \subseteq K!Media(nth) BY <5>1, <5>2
        <5>4. IsFiniteSet(K!Media(nth)) BY <5>3, MediaFinite
        <5>5. QED BY <5>3, <5>4, FS_Subset
      <4>4. Cardinality(e.copy) \in Nat BY <4>3, FS_CardinalityType
      <4>5. e.copy = {} \/ Cardinality(stickers') + Cardinality(e.copy) <= maxStickersPerUser
        BY <1>1, <4>2, <4>4
      <4>6. QED BY <1>2, <4>2, <4>5
    <3>5. e.op = "create" /\ e.st # "done" => e.arg \notin K!MyMedia' BY <1>2, <3>1 DEF Counted
    <3>6. Counted(e)' BY <3>3, <3>4, <3>5 DEF Counted
    <3>7. QED BY <3>2, <3>6
  <2>2. Calling(d)' BY DEF Calling
  <2>3. Counted(d)' BY DEF Counted
  <2>4. \A e, g \in stickerCalls' : e.id = g.id => e = g
    <3>1. \A e, g \in stickerCalls : e.id = g.id => e = g BY DEF StickersInv, CallsInv
    <3>2. \A e \in stickerCalls \ {c} : e.id # d.id BY <3>1
    <3>3. QED BY <3>1, <3>2
  <2>5. \A s \in stickers' : s.media \in Nat \/ s.media \in (1 - stickersMade')..0 BY DEF StickersInv, CallsInv
  <2>6. stickersMade' \in Nat \ {0} BY DEF StickersInv, CallsInv
  <2>7. QED BY <1>1, <2>1, <2>2, <2>3, <2>4, <2>5, <2>6 DEF CallsInv
<1>4. LimitInv'
  <2> DEFINE old == {s \in stickers : s.id \notin crowded}
             new == {s \in stickers' : s.id \notin crowded'}
  <2>1. new \subseteq old /\ IsFiniteSet(old) BY <1>1, FS_Subset
  <2>2. IsFiniteSet(new) /\ Cardinality(new) <= Cardinality(old) BY <2>1, FS_Subset
  <2>3. Cardinality(old) <= maxStickersPerUser BY DEF StickersInv, LimitInv
  <2>4. Cardinality(new) \in Nat /\ Cardinality(old) \in Nat BY <2>1, <2>2, FS_CardinalityType
  <2>5. \A s, t \in stickers' : s.media = t.media /\ s.id < t.id => t.id \in crowded'
    BY DEF StickersInv, LimitInv
  <2>6. Cardinality(new) <= maxStickersPerUser
    <3> HIDE DEF new, old
    <3>1. QED BY <1>1, <2>2, <2>3, <2>4
  <2>7. QED BY <2>5, <2>6 DEF LimitInv
<1>5. K!Stale("mine") BY DEF K!Aged
<1>6. Wrote' /\ uploading' \in BOOLEAN BY DEF Wrote, StickersInv, PanelInv
<1>7. PanelInv' BY <1>5, <1>6, PanelStale DEF StickersInv
<1>8. Numbers'
  <2>1. \A a \in libraries' : \E b \in libraries : a.got = b.got BY <1>5, StaleAnswers DEF StickersInv
  <2>2. PICK b \in Nat : Within(b) BY DEF StickersInv, Numbers
  <2>3. packs' \subseteq 0..b /\ cached' \subseteq 0..b /\ \A s \in stickers' : s.id \in 0..b BY <2>2 DEF Within
  <2>4. \A e \in stickerCalls' : \A s \in e.did : s.id \in 0..b BY <2>2 DEF Within
  <2>5. ASSUME NEW a \in libraries', a.got # <<>> PROVE \A s \in a.got[1].stickers : s.id \in 0..b
    <3>1. PICK p \in libraries : a.got = p.got BY <2>1
    <3>2. QED BY <2>2, <2>5, <3>1 DEF Within
  <2>6. Within(b)' BY <2>2, <2>3, <2>4, <2>5 DEF Within
  <2>7. QED BY <2>6 DEF Numbers
<1>9. QED BY <1>3, <1>4, <1>7, <1>8 DEF StickersInv
-----------------------------------------------------------------------------
(* The steps that write, and the answers.                                                      *)
LEMMA StickersDefaultPack == ASSUME StickersInv, K!DefaultPack PROVE StickersInv'
<1>1. PICK c \in stickerCalls :
        /\ c.st = "default" /\ packs' = packs \cup {K!NewId}
        /\ stickerCalls' = K!Dirtied(K!Others(c))
                   \cup {[c EXCEPT !.st = "write", !.pack = K!NewId, !.wrote = TRUE]}
        /\ crowded' = IF c.dirty THEN crowded \cup {-K!NewId} ELSE crowded
        /\ K!Aged(c) /\ UNCHANGED <<stickers, stickersShown, cached, uploading,
                                    stickersMade, stickersAsked, stickersNewest>>
  BY DEF K!DefaultPack, K!Quiet, K!panel
<1>2. Calling(c) /\ Counted(c) BY DEF StickersInv, CallsInv
<1>3. PICK rows, n, top : /\ rows = {} /\ n \in Nat /\ top \in Nat /\ n = K!NewId
                          /\ Inserts(c, rows, n, top)
  BY InsertsNone
<1>4. PICK d : d = [c EXCEPT !.st = "write", !.pack = n, !.wrote = TRUE] OBVIOUS
<1>5. c \in [id : {c.id}, op : {c.op}, pack : {c.pack}, arg : {c.arg}, st : {c.st}, copy : {c.copy},
             dirty : BOOLEAN, did : {c.did}, wrote : BOOLEAN]
  BY <1>2, CallShape
<1>6. d \in [id : {c.id}, op : {c.op}, pack : {n}, arg : {c.arg}, st : {"write"}, copy : {c.copy},
             dirty : BOOLEAN, did : {c.did}, wrote : {TRUE}]
  BY <1>4, <1>5
<1>7. d.dirty = c.dirty BY <1>4, <1>5
<1>8. c.op \in Singles /\ c.op \notin Copying BY <1>1, <1>2 DEF Calling, Singles, Copying
<1>9. Calling(d) BY <1>2, <1>6, <1>8 DEF Calling
<1>10. Counted(d) BY <1>1, <1>2, <1>6, <1>7, <1>8 DEF Counted
<1>11. K!MyMedia' = K!MyMedia BY <1>1 DEF K!MyMedia
<1>12. Counted(d)' BY <1>1, <1>10, <1>11 DEF Counted
<1>13. stickerCalls' = K!Dirtied(K!Others(c)) \cup {d} /\ packs' = packs \cup {n} BY <1>1, <1>3, <1>4
<1>14. stickers' = stickers \cup rows
    /\ crowded \subseteq crowded' /\ \A r \in rows : r.id \in crowded'
  BY <1>1, <1>3
<1>15. d.id = c.id /\ d.op = c.op /\ d.wrote = TRUE /\ d.did = c.did BY <1>6
<1>16. packs \subseteq packs' /\ packs' \subseteq packs \cup {n} BY <1>13
<1>17. \A r \in rows : r.pack \in packs' BY <1>3
<1>18. K!Aged(c) /\ UNCHANGED <<stickersShown, cached, uploading, stickersMade, stickersAsked, stickersNewest>>
  BY <1>1
<1>19. QED BY <1>3, <1>9, <1>12, <1>13, <1>14, <1>15, <1>16, <1>17, <1>18, StickersInsert

LEMMA StickersWrite == ASSUME StickersInv, K!Write PROVE StickersInv'
<1>1. PICK c \in stickerCalls :
        LET more == c.op = "all" /\ Len(c.arg) > 1
            d == [c EXCEPT !.st = IF more THEN "count" ELSE "done",
                           !.arg = IF more THEN Tail(c.arg) ELSE c.arg,
                           !.did = @ \cup K!Rows(c), !.copy = {}, !.wrote = TRUE] IN
        /\ c.st = "write" /\ K!Writes(c)
        /\ stickerCalls' = (IF c.op \in {"drop", "dropPack", "rename"} THEN K!Others(c)
                  ELSE K!Dirtied(K!Others(c))) \cup {d}
        /\ crowded' = IF c.dirty THEN crowded \cup {r.id : r \in K!Rows(c)} \cup {-p : p \in packs' \ packs}
                      ELSE crowded
        /\ K!Aged(c) /\ K!Quiet
  BY DEF K!Write
<1>2. UNCHANGED <<stickersShown, cached, uploading, stickersMade, stickersAsked, stickersNewest>>
  BY <1>1 DEF K!Quiet, K!panel
<1>3. Calling(c) /\ Counted(c) BY DEF StickersInv, CallsInv
<1>4. PICK rows : rows = K!Rows(c) OBVIOUS
<1>5. PICK phase : phase = IF c.op = "all" /\ Len(c.arg) > 1 THEN "count" ELSE "done" OBVIOUS
<1>6. PICK arg : arg = IF c.op = "all" /\ Len(c.arg) > 1 THEN Tail(c.arg) ELSE c.arg OBVIOUS
<1>7. PICK did : did = c.did \cup rows OBVIOUS
<1>8. PICK d : d = [c EXCEPT !.st = phase, !.arg = arg, !.did = did, !.copy = {}, !.wrote = TRUE] OBVIOUS
<1>9. /\ c.st = "write" /\ K!Writes(c)
      /\ stickerCalls' = (IF c.op \in {"drop", "dropPack", "rename"} THEN K!Others(c)
                ELSE K!Dirtied(K!Others(c))) \cup {d}
      /\ crowded' = IF c.dirty THEN crowded \cup {r.id : r \in rows} \cup {-p : p \in packs' \ packs}
                    ELSE crowded
      /\ K!Aged(c)
  BY <1>1, <1>4, <1>5, <1>6, <1>7, <1>8
<1>10. c \in [id : {c.id}, op : {c.op}, pack : {c.pack}, arg : {c.arg}, st : {c.st}, copy : {c.copy},
              dirty : BOOLEAN, did : {c.did}, wrote : BOOLEAN]
  BY <1>3, CallShape
<1>11. d \in [id : {c.id}, op : {c.op}, pack : {c.pack}, arg : {arg}, st : {phase}, copy : {{}},
              dirty : BOOLEAN, did : {did}, wrote : {TRUE}]
  BY <1>8, <1>10
<1>12. d.id = c.id /\ d.op = c.op /\ d.st = phase /\ d.arg = arg /\ d.did = did /\ d.copy = {} /\ d.wrote = TRUE
  BY <1>11
<1>13. Calling(d)
  <2>1. c.op # "all" => arg = c.arg /\ phase = "done" BY <1>5, <1>6
  <2>2. c.op \in Copying => arg \in Seq(DOMAIN Theirs) /\ arg # <<>>
    <3>1. SUFFICES ASSUME c.op \in Copying PROVE arg \in Seq(DOMAIN Theirs) /\ arg # <<>> OBVIOUS
    <3>2. c.arg \in Seq(DOMAIN Theirs) /\ c.arg # <<>> BY <1>3, <3>1 DEF Calling
    <3>3. CASE c.op = "all" /\ Len(c.arg) > 1
      <4>1. arg = Tail(c.arg) BY <1>6, <3>3
      <4>2. PICK some : some = DOMAIN Theirs OBVIOUS
      <4>3. PICK list \in Seq(some) : list = c.arg BY <3>2, <4>2
      <4>4. Len(list) > 1 /\ list # <<>> /\ arg = Tail(list) BY <3>3, <4>1, <4>3
      <4>5. arg \in Seq(some) /\ Len(arg) = Len(list) - 1 BY <4>4
      <4>6. Len(arg) # 0 BY <4>4, <4>5
      <4>7. QED BY <4>2, <4>5, <4>6
    <3>4. CASE ~(c.op = "all" /\ Len(c.arg) > 1) BY <1>6, <3>2, <3>4
    <3>5. QED BY <3>3, <3>4
  <2>3. phase \in {"count", "done"} /\ (phase = "count" => c.op \in Copying) BY <1>5 DEF Copying
  <2>4. QED BY <1>3, <1>11, <1>12, <2>1, <2>2, <2>3 DEF Calling
<1>14. Counted(d)'
  <2>1. d.st \in {"count", "done"} /\ (d.op # "all" => d.st = "done") BY <1>5, <1>12
  <2>2. QED BY <2>1 DEF Counted
<1>15. ASSUME c.op \in Singles \cup Copying PROVE StickersInv'
  <2>1. PICK n, top \in Nat : n = K!NewId /\ Inserts(c, rows, n, top)
    <3>1. CASE c.op \in Singles BY <1>4, <1>9, <3>1, InsertsOne
    <3>2. CASE c.op \in Copying BY <1>4, <1>9, <3>2, InsertsCopies
    <3>3. QED BY <1>15, <3>1, <3>2
  <2>2. stickers' = stickers \cup rows /\ packs \subseteq packs' /\ packs' \subseteq packs \cup {n}
      /\ \A r \in rows : r.pack \in packs'
    <3>1. CASE c.op \in Singles
      <4>1. c.pack \in packs /\ stickers' = stickers \cup rows /\ packs' = packs
        BY <1>4, <1>9, <3>1 DEF K!Writes, Singles
      <4>2. c.op \notin Copying BY <3>1 DEF Singles, Copying
      <4>3. \A r \in rows : r.pack = c.pack BY <2>1, <4>2 DEF Inserts
      <4>4. QED BY <4>1, <4>3
    <3>2. CASE c.op \in Copying
      <4>1. stickers' = stickers \cup rows /\ packs' = IF c.copy = {} THEN packs ELSE packs \cup {n}
        BY <1>4, <1>9, <2>1, <3>2 DEF K!Writes, Copying
      <4>2. \A r \in rows : r.pack = n BY <2>1, <3>2 DEF Inserts
      <4>3. c.copy = {} => rows = {} BY <1>4, <3>2 DEF K!Rows, Copying
      <4>4. QED BY <4>1, <4>2, <4>3
    <3>3. QED BY <1>15, <3>1, <3>2
  <2>3. stickerCalls' = K!Dirtied(K!Others(c)) \cup {d} BY <1>9, <1>15 DEF Singles, Copying
  <2>4. d.did = c.did \cup rows BY <1>7, <1>12
  <2>5. crowded \subseteq crowded' /\ (c.dirty => \A r \in rows : r.id \in crowded') BY <1>9
  <2>6. QED BY <1>2, <1>9, <1>12, <1>13, <1>14, <2>1, <2>2, <2>3, <2>4, <2>5, StickersInsert
<1>16. CASE c.op = "pack"
  <2>1. rows = {} BY <1>4, <1>16 DEF K!Rows
  <2>2. PICK n, top \in Nat : n = K!NewId /\ Inserts(c, {}, n, top) BY InsertsNone
  <2>3. packs' = packs \cup {n} /\ stickers' = stickers BY <1>9, <1>16, <2>2 DEF K!Writes
  <2>4. packs \subseteq packs' /\ packs' \subseteq packs \cup {n} /\ stickers' = stickers \cup {} BY <2>3
  <2>5. stickerCalls' = K!Dirtied(K!Others(c)) \cup {d} BY <1>9, <1>16
  <2>6. d.did = c.did BY <1>7, <1>12, <2>1
  <2>7. crowded \subseteq crowded' BY <1>9
  <2>8. QED BY <1>2, <1>9, <1>12, <1>13, <1>14, <2>2, <2>4, <2>5, <2>6, <2>7, StickersInsert
<1>17. CASE c.op \in {"rename", "dropPack", "drop"}
  <2>1. rows = {} /\ d.st = "done" BY <1>4, <1>5, <1>12, <1>17 DEF K!Rows
  <2>2. c.op \in K!PanelOps BY <1>17 DEF K!PanelOps
  <2>3. stickerCalls' = (stickerCalls \ {c}) \cup {d} BY <1>9, <1>17 DEF K!Others
  <2>4. crowded' = crowded
    <3>1. packs' \subseteq packs BY <1>9, <1>17 DEF K!Writes
    <3>2. {r.id : r \in rows} = {} /\ {-p : p \in packs' \ packs} = {} BY <2>1, <3>1
    <3>3. QED BY <1>9, <3>2
  <2>5. d.did = c.did BY <1>7, <1>12, <2>1
  <2>6. stickers' \subseteq stickers /\ packs' \subseteq packs /\ \A s \in stickers' : s.pack \in packs'
    <3>1. \A s \in stickers : s.pack \in packs BY DEF StickersInv, Numbers
    <3>2. CASE c.op = "rename" BY <1>9, <3>1, <3>2 DEF K!Writes
    <3>3. CASE c.op = "dropPack" BY <1>9, <3>1, <3>3 DEF K!Writes
    <3>4. CASE c.op = "drop" BY <1>9, <3>1, <3>4 DEF K!Writes
    <3>5. QED BY <1>17, <3>2, <3>3, <3>4
  <2>7. QED BY <1>2, <1>9, <1>12, <1>13, <2>1, <2>2, <2>3, <2>4, <2>5, <2>6, StickersDelete
<1>18. c.op \in K!PanelOps \cup {"one"} \cup Copying BY <1>3 DEF Calling
<1>19. QED BY <1>15, <1>16, <1>17, <1>18 DEF K!PanelOps, Singles

LEMMA StickersAnswer == ASSUME StickersInv, K!Answer PROVE StickersInv'
<1>1. PICK c \in stickerCalls :
        /\ c.st = "done" /\ stickerCalls' = stickerCalls \ {c}
        /\ cached' = (cached \cup {s.id : s \in c.did}) \ K!Removed(c)
        /\ IF c.op \in K!PanelOps THEN K!AfterCall(c) ELSE UNCHANGED <<libraries, stickersAsked>>
        /\ UNCHANGED <<packs, stickers, crowded, stickersShown, uploading, stickersOdd,
                       stickersMade, stickersNewest>>
  BY DEF K!Answer, K!Others, K!mergeServerStickers, K!server, K!panel
<1>2. CallsInv' BY <1>1, CallsStay DEF StickersInv
<1>3. LimitInv' BY <1>1, LimitStays DEF StickersInv
<1>4. \A n \in cached' : n \in cached \/ \E d \in stickerCalls : \E s \in d.did : n = s.id BY <1>1
<1>5. CASE c.op \in K!PanelOps
  <2>1. PICK pack : pack = IF c.op = "create" THEN c.pack ELSE 0 OBVIOUS
  <2>2. PICK upload : upload = (c.op = "create") OBVIOUS
  <2>3. K!Refresh(pack, upload) BY <1>1, <1>5, <2>1, <2>2 DEF K!AfterCall
  <2>4. PanelInv' BY <1>1, <2>3, PanelAsks DEF StickersInv
  <2>5. PICK a : a = K!Ask(stickersAsked + 1, pack, upload) OBVIOUS
  <2>6. libraries' = libraries \cup {a} /\ a.got = <<>> BY <2>3, <2>5 DEF K!Refresh, K!Ask
  <2>7. Numbers' BY <1>1, <1>4, <2>6, NumbersStay DEF StickersInv
  <2>8. QED BY <1>2, <1>3, <2>4, <2>7 DEF StickersInv
<1>6. CASE c.op \notin K!PanelOps
  <2>1. UNCHANGED <<libraries, stickersAsked>> BY <1>1, <1>6
  <2>2. K!Removed(c) = {} BY <1>6 DEF K!Removed, K!PanelOps
  <2>3. Wrote => Wrote' BY <1>1, <1>6 DEF Wrote
  <2>4. uploading' \in BOOLEAN BY <1>1 DEF StickersInv, PanelInv
  <2>5. PanelInv' BY <1>1, <2>1, <2>2, <2>3, <2>4, PanelQuiet DEF StickersInv
  <2>6. Numbers' BY <1>1, <1>4, <2>1, NumbersStay DEF StickersInv
  <2>7. QED BY <1>2, <1>3, <2>5, <2>6 DEF StickersInv
<1>7. QED BY <1>5, <1>6

LEMMA StickersFail == ASSUME StickersInv, K!Fail PROVE StickersInv'
<1>1. PICK c \in stickerCalls :
        /\ stickerCalls' = stickerCalls \ {c} /\ uploading' = (uploading /\ c.op # "create")
        /\ IF c.wrote THEN K!Stale("cut") ELSE UNCHANGED <<libraries, stickersOdd>>
        /\ UNCHANGED <<packs, stickers, crowded, stickersShown, cached, stickersMade, stickersAsked,
                       stickersNewest>>
  BY DEF K!Fail, K!Others, K!server
<1>2. CallsInv' BY <1>1, CallsStay DEF StickersInv
<1>3. LimitInv' BY <1>1, LimitStays DEF StickersInv
<1>4. uploading' \in BOOLEAN BY <1>1
<1>5. CASE c.wrote
  <2>1. K!Stale("cut") BY <1>1, <1>5
  <2>2. PanelInv' BY <1>1, <1>4, <2>1, PanelStale DEF StickersInv
  <2>3. \A a \in libraries' : \E b \in libraries : a.got = b.got BY <2>1, StaleAnswers DEF StickersInv
  <2>4. Numbers' BY <1>1, <2>3, NumbersStay DEF StickersInv
  <2>5. QED BY <1>2, <1>3, <2>2, <2>4 DEF StickersInv
<1>6. CASE ~c.wrote
  <2>1. UNCHANGED <<libraries, stickersOdd>> BY <1>1, <1>6
  <2>2. Wrote => Wrote' BY <1>1, <1>6 DEF Wrote
  <2>3. PanelInv' BY <1>1, <1>4, <2>1, <2>2, PanelQuiet DEF StickersInv
  <2>4. Numbers' BY <1>1, <2>1, NumbersStay DEF StickersInv
  <2>5. QED BY <1>2, <1>3, <2>3, <2>4 DEF StickersInv
<1>7. QED BY <1>5, <1>6

LEMMA StickersStep == ASSUME StickersInv, K!Next PROVE StickersInv'
<1>1. CASE K!Open BY <1>1, StickersOpen
<1>2. CASE K!Served BY <1>2, StickersServed
<1>3. CASE K!Loaded BY <1>3, StickersLoaded
<1>4. CASE K!Choose
  <2>1. UNCHANGED <<packs, stickers, stickerCalls, crowded, stickersShown, libraries, cached,
                    uploading, stickersOdd, stickersMade, stickersAsked, stickersNewest>>
    BY <1>4 DEF K!Choose, K!server
  <2>2. QED BY <2>1, StickersLook
<1>5. CASE K!Upload \/ K!NewPack \/ K!RenamePack \/ K!DeletePack \/ K!DeleteSticker
           \/ K!ImportOne \/ K!ImportPack \/ K!ImportAll
  BY <1>5, StickersCall
<1>6. CASE K!Counts BY <1>6, StickersCounts
<1>7. CASE K!Places BY <1>7, StickersPlaces
<1>8. CASE K!DefaultPack BY <1>8, StickersDefaultPack
<1>9. CASE K!Copies BY <1>9, StickersCopies
<1>10. CASE K!Write BY <1>10, StickersWrite
<1>11. CASE K!Answer BY <1>11, StickersAnswer
<1>12. CASE K!Fail BY <1>12, StickersFail
<1>13. CASE K!List
  <2>1. UNCHANGED <<packs, stickers, stickerCalls, crowded, stickersShown, libraries, cached,
                    uploading, stickersOdd, stickersMade, stickersAsked, stickersNewest>>
    BY <1>13 DEF K!List, K!server, K!panel
  <2>2. QED BY <2>1, StickersLook
<1>14. CASE K!Hydrate BY <1>14, StickersHydrate
<1>15. QED
  BY <1>1, <1>2, <1>3, <1>4, <1>5, <1>6, <1>7, <1>8, <1>9, <1>10, <1>11, <1>12, <1>13, <1>14
  DEF K!Next

(* The packs: those that are counted become no more, or there was room for one.                *)
LEMMA PacksKeep ==
  ASSUME PacksInv, packs' \subseteq packs, crowded \subseteq crowded',
         \A e \in stickerCalls' : Roomy(e) => (\E g \in stickerCalls : Roomy(g))
                                    \/ Cardinality(Plain(packs, crowded)) < maxPacksPerUser,
         \A e \in stickerCalls' : First(e) => packs' = {}
  PROVE  PacksInv'
<1>1. PICK old, new : old = Plain(packs, crowded) /\ new = Plain(packs', crowded') OBVIOUS
<1>2. new \subseteq old /\ old \subseteq packs BY <1>1 DEF Plain
<1>3. IsFiniteSet(packs') /\ IsFiniteSet(old) BY <1>2, FS_Subset DEF PacksInv
<1>4. IsFiniteSet(new) /\ Cardinality(new) <= Cardinality(old) BY <1>2, <1>3, FS_Subset
<1>5. Cardinality(new) \in Nat /\ Cardinality(old) \in Nat /\ maxPacksPerUser \in Nat
  BY <1>3, <1>4, FS_CardinalityType, StickersTold DEF K!StickersConstants
<1>6. Cardinality(old) <= maxPacksPerUser
      /\ \A e \in stickerCalls' : Roomy(e) => Cardinality(old) < maxPacksPerUser
  BY <1>1 DEF PacksInv
<1>7. Plain(packs, crowded)' = new /\ \A e : Roomy(e)' = Roomy(e) /\ First(e)' = First(e)
  BY <1>1 DEF Plain, Roomy, First
<1>8. Cardinality(new) <= maxPacksPerUser BY <1>4, <1>5, <1>6
<1>9. ASSUME NEW e \in stickerCalls', Roomy(e) PROVE Cardinality(new) < maxPacksPerUser
  <2>1. Cardinality(old) < maxPacksPerUser BY <1>6, <1>9
  <2>2. QED BY <1>4, <1>5, <2>1
<1>10. QED BY <1>3, <1>7, <1>8, <1>9 DEF PacksInv

LEMMA PacksGrow ==
  ASSUME PacksInv, NEW n, packs' \subseteq packs \cup {n}, crowded \subseteq crowded',
         Cardinality(Plain(packs, crowded)) < maxPacksPerUser \/ Plain(packs', crowded') \subseteq packs,
         \A e \in stickerCalls' : ~Roomy(e) /\ ~First(e)
  PROVE  PacksInv'
<1>1. PICK old, new : old = Plain(packs, crowded) /\ new = Plain(packs', crowded') OBVIOUS
<1>2. new \subseteq old \cup {n} /\ old \subseteq packs /\ (new \subseteq packs => new \subseteq old)
  BY <1>1 DEF Plain
<1>3. IsFiniteSet(old) /\ IsFiniteSet(packs \cup {n}) BY <1>2, FS_Subset, FS_AddElement DEF PacksInv
<1>4. IsFiniteSet(packs') BY <1>3, FS_Subset
<1>5. IsFiniteSet(old \cup {n}) /\ Cardinality(old \cup {n}) <= Cardinality(old) + 1
  <2>1. Cardinality(old) \in Nat BY <1>3, FS_CardinalityType
  <2>2. CASE n \in old
    <3>1. old \cup {n} = old BY <2>2
    <3>2. QED BY <1>3, <2>1, <3>1
  <2>3. CASE n \notin old
    <3>1. IsFiniteSet(old \cup {n}) /\ Cardinality(old \cup {n}) = Cardinality(old) + 1
      BY <1>3, <2>3, FS_AddElement
    <3>2. QED BY <2>1, <3>1
  <2>4. QED BY <2>2, <2>3
<1>6. IsFiniteSet(new) /\ Cardinality(new) <= Cardinality(old \cup {n})
      /\ (new \subseteq packs => Cardinality(new) <= Cardinality(old))
  BY <1>2, <1>3, <1>5, FS_Subset
<1>7. /\ Cardinality(new) \in Nat /\ Cardinality(old) \in Nat /\ Cardinality(old \cup {n}) \in Nat
      /\ maxPacksPerUser \in Nat
  BY <1>3, <1>5, <1>6, FS_CardinalityType, StickersTold DEF K!StickersConstants
<1>8. Cardinality(old) <= maxPacksPerUser
      /\ (Cardinality(old) < maxPacksPerUser \/ new \subseteq packs)
  BY <1>1 DEF PacksInv
<1>9. Cardinality(new) <= maxPacksPerUser
  <2>1. CASE Cardinality(old) < maxPacksPerUser BY <1>5, <1>6, <1>7, <2>1
  <2>2. CASE new \subseteq packs BY <1>6, <1>7, <1>8, <2>2
  <2>3. QED BY <1>8, <2>1, <2>2
<1>10. Plain(packs, crowded)' = new /\ \A e : Roomy(e)' = Roomy(e) /\ First(e)' = First(e)
  BY <1>1 DEF Plain, Roomy, First
<1>11. QED BY <1>4, <1>9, <1>10 DEF PacksInv

(* A step that neither writes a pack nor gives a call room.                                    *)
LEMMA PacksStay ==
  ASSUME PacksInv, UNCHANGED <<packs, crowded>>,
         \A e \in stickerCalls' : e \in stickerCalls \/ (~Roomy(e) /\ ~First(e))
  PROVE  PacksInv'
<1>1. \A e \in stickerCalls' : First(e) => packs' = {} BY DEF PacksInv
<1>2. QED BY <1>1, PacksKeep

LEMMA PacksCall ==
  ASSUME PacksInv, K!Upload \/ K!NewPack \/ K!RenamePack \/ K!DeletePack \/ K!DeleteSticker
                   \/ K!ImportOne \/ K!ImportPack \/ K!ImportAll
  PROVE  PacksInv'
<1>1. ASSUME NEW op, NEW pack, NEW arg, K!Call(op, pack, arg) PROVE PacksInv'
  <2>1. PICK phase : phase = IF op \in K!PanelOps \ {"create", "pack"} THEN "write" ELSE "count" OBVIOUS
  <2>2. PICK c : c = [id |-> stickersMade + 1, op |-> op, pack |-> pack, arg |-> arg, st |-> phase,
                      copy |-> {}, dirty |-> FALSE, did |-> {}, wrote |-> FALSE]
    OBVIOUS
  <2>3. stickerCalls' = stickerCalls \cup {c} /\ UNCHANGED <<packs, crowded>>
    BY <1>1, <2>1, <2>2 DEF K!Call, K!server
  <2>4. c.op = op /\ c.st = phase BY <2>2
  <2>5. ~Roomy(c) /\ ~First(c) BY <2>1, <2>4 DEF Roomy, First, Copying, K!PanelOps
  <2>6. QED BY <2>3, <2>5, PacksStay
<1>2. CASE K!Upload
  <2>1. PICK pack, arg : pack = K!Selected /\ arg = -stickersMade OBVIOUS
  <2>2. QED BY <1>1, <1>2, <2>1 DEF K!Upload
<1>3. ASSUME NEW op, NEW pack, NEW arg, K!Manage(op, pack, arg) PROVE PacksInv' BY <1>1, <1>3 DEF K!Manage
<1>4. CASE K!NewPack BY <1>3, <1>4 DEF K!NewPack
<1>5. CASE K!RenamePack \/ K!DeletePack
  <2>1. PICK pack : pack = K!Selected OBVIOUS
  <2>2. K!Manage("rename", pack, 0) \/ K!Manage("dropPack", pack, 0)
    BY <1>5, <2>1 DEF K!RenamePack, K!DeletePack
  <2>3. QED BY <1>3, <2>2
<1>6. CASE K!DeleteSticker
  <2>1. PICK s \in stickersShown.stickers : K!Manage("drop", s.pack, s.id) BY <1>6 DEF K!DeleteSticker
  <2>2. QED BY <1>3, <2>1
<1>7. CASE K!ImportOne
  <2>1. \E m : K!Call("one", 0, m) BY <1>7 DEF K!ImportOne
  <2>2. QED BY <1>1, <2>1
<1>8. CASE K!ImportPack
  <2>1. \E arg : K!Call("copy", 0, arg) BY <1>8 DEF K!ImportPack
  <2>2. QED BY <1>1, <2>1
<1>9. CASE K!ImportAll
  <2>1. \E arg : K!Call("all", 0, arg) BY <1>9 DEF K!ImportAll
  <2>2. QED BY <1>1, <2>1
<1>10. QED BY <1>2, <1>4, <1>5, <1>6, <1>7, <1>8, <1>9

LEMMA PacksCount == ASSUME StickersInv, PacksInv, K!Counts PROVE PacksInv'
<1>1. PICK c \in stickerCalls :
        /\ c.st = "count" /\ K!MayInsert(c) /\ UNCHANGED <<packs, crowded>>
        /\ stickerCalls' = (stickerCalls \ {c}) \cup
             {[c EXCEPT !.dirty = FALSE,
                        !.st = IF c.op = "pack" THEN "write"
                               ELSE IF c.op \in {"create", "one"} THEN "place" ELSE "copy"]}
  BY DEF K!Counts, K!server, K!Others
<1>2. PICK phase : phase = IF c.op = "pack" THEN "write"
                     ELSE IF c.op \in {"create", "one"} THEN "place" ELSE "copy" OBVIOUS
<1>3. PICK d : d = [c EXCEPT !.dirty = FALSE, !.st = phase] OBVIOUS
<1>4. stickerCalls' = (stickerCalls \ {c}) \cup {d} BY <1>1, <1>2, <1>3
<1>5. Calling(c) BY DEF StickersInv, CallsInv
<1>6. d.op = c.op /\ d.st = phase BY <1>3, <1>5, CallShape
<1>7. ~First(d) BY <1>2, <1>6 DEF First
<1>8. Roomy(d) => Cardinality(Plain(packs, crowded)) < maxPacksPerUser
  <2>1. SUFFICES ASSUME Roomy(d) PROVE Cardinality(Plain(packs, crowded)) < maxPacksPerUser OBVIOUS
  <2>2. c.op \in {"pack", "copy", "all"} BY <1>6, <2>1 DEF Roomy, Copying
  <2>3. Cardinality(packs) < maxPacksPerUser BY <1>1, <2>2, StickerCardinality DEF K!MayInsert
  <2>4. PICK old : old = Plain(packs, crowded) OBVIOUS
  <2>5. old \subseteq packs BY <2>4 DEF Plain
  <2>6. IsFiniteSet(packs) /\ IsFiniteSet(old) /\ Cardinality(old) <= Cardinality(packs)
    BY <2>5, FS_Subset DEF PacksInv
  <2>7. Cardinality(old) \in Nat /\ Cardinality(packs) \in Nat /\ maxPacksPerUser \in Nat
    BY <2>6, FS_CardinalityType, StickersTold DEF K!StickersConstants
  <2>8. QED BY <2>3, <2>4, <2>6, <2>7
<1>9. \A e \in stickerCalls' : First(e) => packs' = {} BY <1>1, <1>4, <1>7 DEF PacksInv
<1>10. QED BY <1>1, <1>4, <1>8, <1>9, PacksKeep

LEMMA PacksPlace == ASSUME StickersInv, PacksInv, K!Places PROVE PacksInv'
<1>1. PICK c \in stickerCalls :
        /\ c.st = "place" /\ UNCHANGED <<packs, crowded>>
        /\ stickerCalls' = (stickerCalls \ {c}) \cup
             {IF c.pack = 0 /\ packs = {} THEN [c EXCEPT !.st = "default"]
              ELSE [c EXCEPT !.st = "write", !.pack = IF c.pack = 0 THEN K!Oldest(packs) ELSE c.pack]}
  BY DEF K!Places, K!server, K!Others
<1>2. PICK pack : pack = IF c.pack = 0 THEN K!Oldest(packs) ELSE c.pack OBVIOUS
<1>3. PICK d : d = IF c.pack = 0 /\ packs = {} THEN [c EXCEPT !.st = "default"]
                   ELSE [c EXCEPT !.st = "write", !.pack = pack] OBVIOUS
<1>4. stickerCalls' = (stickerCalls \ {c}) \cup {d} BY <1>1, <1>2, <1>3
<1>5. Calling(c) BY DEF StickersInv, CallsInv
<1>6. d.op = c.op /\ (d.st = "default" => packs = {}) BY <1>3, <1>5, CallShape
<1>7. ~Roomy(d) BY <1>1, <1>5, <1>6 DEF Roomy, Calling, Singles, Copying
<1>8. \A e \in stickerCalls' : First(e) => packs' = {} BY <1>1, <1>4, <1>6 DEF PacksInv, First
<1>9. QED BY <1>1, <1>4, <1>7, <1>8, PacksKeep

LEMMA PacksCopy == ASSUME StickersInv, PacksInv, K!Copies PROVE PacksInv'
<1>1. PICK c \in stickerCalls :
        /\ c.st = "copy" /\ UNCHANGED <<packs, crowded>>
        /\ stickerCalls' = (stickerCalls \ {c}) \cup
             {[c EXCEPT !.st = "write", !.copy = K!Room(K!Fresh(Head(c.arg)), Head(c.arg))]}
  BY DEF K!Copies, K!server, K!Others
<1>2. PICK some : some = K!Room(K!Fresh(Head(c.arg)), Head(c.arg)) OBVIOUS
<1>3. PICK d : d = [c EXCEPT !.st = "write", !.copy = some] OBVIOUS
<1>4. stickerCalls' = (stickerCalls \ {c}) \cup {d} BY <1>1, <1>2, <1>3
<1>5. Calling(c) BY DEF StickersInv, CallsInv
<1>6. d.op = c.op /\ d.st = "write" /\ d.dirty = c.dirty BY <1>3, <1>5, CallShape
<1>7. Roomy(d) => Roomy(c) BY <1>1, <1>6 DEF Roomy
<1>8. ~First(d) BY <1>6 DEF First
<1>9. \A e \in stickerCalls' : First(e) => packs' = {} BY <1>1, <1>4, <1>8 DEF PacksInv
<1>10. \A e \in stickerCalls' : Roomy(e) => \E g \in stickerCalls : Roomy(g) BY <1>4, <1>7
<1>11. QED BY <1>1, <1>9, <1>10, PacksKeep

LEMMA PacksFirst == ASSUME StickersInv, PacksInv, K!DefaultPack PROVE PacksInv'
<1>1. PICK c \in stickerCalls :
        /\ c.st = "default" /\ packs' = packs \cup {K!NewId}
        /\ stickerCalls' = K!Dirtied(K!Others(c))
                   \cup {[c EXCEPT !.st = "write", !.pack = K!NewId, !.wrote = TRUE]}
        /\ crowded' = IF c.dirty THEN crowded \cup {-K!NewId} ELSE crowded
  BY DEF K!DefaultPack
<1>2. PICK n : n = K!NewId OBVIOUS
<1>3. PICK d : d = [c EXCEPT !.st = "write", !.pack = n, !.wrote = TRUE] OBVIOUS
<1>4. stickerCalls' = K!Dirtied(K!Others(c)) \cup {d} BY <1>1, <1>2, <1>3
<1>5. Calling(c) BY DEF StickersInv, CallsInv
<1>6. d.op = c.op /\ d.st = "write" BY <1>3, <1>5, CallShape
<1>7. ~Roomy(d) /\ ~First(d) BY <1>1, <1>5, <1>6 DEF Roomy, First, Calling, Singles, Copying
<1>8. \A e \in K!Dirtied(K!Others(c)) : e.dirty = TRUE BY OthersOld DEF StickersInv
<1>9. \A e \in stickerCalls' : ~Roomy(e) /\ ~First(e) BY <1>4, <1>7, <1>8 DEF Roomy, First
<1>10. packs' = packs \cup {n} /\ crowded \subseteq crowded' BY <1>1, <1>2
<1>11. CASE c.dirty
  <2>1. crowded' = crowded \cup {-n} BY <1>1, <1>2, <1>11
  <2>2. Plain(packs', crowded') \subseteq packs BY <1>10, <2>1 DEF Plain
  <2>3. QED BY <1>9, <1>10, <2>2, PacksGrow
<1>12. CASE ~c.dirty
  <2>1. packs = {} BY <1>1, <1>12 DEF PacksInv, First
  <2>2. Plain(packs, crowded) = {} BY <2>1 DEF Plain
  <2>3. Cardinality(Plain(packs, crowded)) < maxPacksPerUser
    BY <2>2, FS_EmptySet, StickersTold DEF K!StickersConstants
  <2>4. QED BY <1>9, <1>10, <2>3, PacksGrow
<1>13. QED BY <1>11, <1>12

LEMMA PacksWrite == ASSUME StickersInv, PacksInv, K!Write PROVE PacksInv'
<1>1. PICK c \in stickerCalls :
        LET more == c.op = "all" /\ Len(c.arg) > 1
            d == [c EXCEPT !.st = IF more THEN "count" ELSE "done",
                           !.arg = IF more THEN Tail(c.arg) ELSE c.arg,
                           !.did = @ \cup K!Rows(c), !.copy = {}, !.wrote = TRUE] IN
        /\ c.st = "write" /\ K!Writes(c)
        /\ stickerCalls' = (IF c.op \in {"drop", "dropPack", "rename"} THEN K!Others(c)
                  ELSE K!Dirtied(K!Others(c))) \cup {d}
        /\ crowded' = IF c.dirty THEN crowded \cup {r.id : r \in K!Rows(c)} \cup {-p : p \in packs' \ packs}
                      ELSE crowded
  BY DEF K!Write
<1>2. PICK rows, phase, arg, did :
        /\ rows = K!Rows(c) /\ did = c.did \cup rows
        /\ phase = (IF c.op = "all" /\ Len(c.arg) > 1 THEN "count" ELSE "done")
        /\ arg = IF c.op = "all" /\ Len(c.arg) > 1 THEN Tail(c.arg) ELSE c.arg
  OBVIOUS
<1>3. PICK d : d = [c EXCEPT !.st = phase, !.arg = arg, !.did = did, !.copy = {}, !.wrote = TRUE] OBVIOUS
<1>4. stickerCalls' = (IF c.op \in {"drop", "dropPack", "rename"} THEN K!Others(c)
                       ELSE K!Dirtied(K!Others(c))) \cup {d}
  BY <1>1, <1>2, <1>3
<1>5. crowded' = IF c.dirty THEN crowded \cup {r.id : r \in rows} \cup {-p : p \in packs' \ packs} ELSE crowded
  BY <1>1, <1>2
<1>6. crowded \subseteq crowded' BY <1>5
<1>7. Calling(c) BY DEF StickersInv, CallsInv
<1>8. d.st = phase BY <1>3, <1>7, CallShape
<1>9. ~Roomy(d) /\ ~First(d) BY <1>2, <1>8 DEF Roomy, First
<1>10. CASE c.op \in {"drop", "dropPack", "rename"}
  <2>1. packs' \subseteq packs BY <1>1, <1>10 DEF K!Writes
  <2>2. stickerCalls' = (stickerCalls \ {c}) \cup {d} BY <1>4, <1>10 DEF K!Others
  <2>3. \A e \in stickerCalls' : First(e) => packs' = {} BY <1>9, <2>1, <2>2 DEF PacksInv
  <2>4. \A e \in stickerCalls' : Roomy(e) => \E g \in stickerCalls : Roomy(g) BY <1>9, <2>2
  <2>5. QED BY <1>6, <2>1, <2>3, <2>4, PacksKeep
<1>11. CASE c.op \notin {"drop", "dropPack", "rename"}
  <2>1. stickerCalls' = K!Dirtied(K!Others(c)) \cup {d} BY <1>4, <1>11
  <2>2. \A e \in K!Dirtied(K!Others(c)) : e.dirty = TRUE BY OthersOld DEF StickersInv
  <2>3. \A e \in stickerCalls' : ~Roomy(e) /\ ~First(e) BY <1>9, <2>1, <2>2 DEF Roomy, First
  <2>4. PICK n : n = K!NewId OBVIOUS
  <2>5. c.op \in Singles \cup Copying \cup {"pack"} BY <1>7, <1>11 DEF Calling, K!PanelOps, Singles, Copying
  <2>6. packs' \subseteq packs \cup {n} /\ (c.op \in Singles => packs' = packs)
    BY <1>1, <2>4, <2>5 DEF K!Writes, Singles, Copying
  <2>7. CASE c.dirty
    <3>1. \A p \in packs' \ packs : -p \in crowded' BY <1>5, <2>7
    <3>2. Plain(packs', crowded') \subseteq packs BY <3>1 DEF Plain
    <3>3. QED BY <1>6, <2>3, <2>6, <3>2, PacksGrow
  <2>8. CASE ~c.dirty /\ c.op \in Singles
    <3>1. Plain(packs', crowded') \subseteq packs BY <2>6, <2>8 DEF Plain
    <3>2. QED BY <1>6, <2>3, <2>6, <3>1, PacksGrow
  <2>9. CASE ~c.dirty /\ c.op \notin Singles
    <3>1. Roomy(c) BY <1>1, <2>5, <2>9 DEF Roomy
    <3>2. Cardinality(Plain(packs, crowded)) < maxPacksPerUser BY <3>1 DEF PacksInv
    <3>3. QED BY <1>6, <2>3, <2>6, <3>2, PacksGrow
  <2>10. QED BY <2>7, <2>8, <2>9
<1>12. QED BY <1>10, <1>11

LEMMA PacksStep == ASSUME StickersInv, PacksInv, K!Next PROVE PacksInv'
<1>1. CASE UNCHANGED <<packs, crowded>> /\ stickerCalls' \subseteq stickerCalls
  BY <1>1, PacksStay
<1>2. CASE K!Open \/ K!Served \/ K!Loaded \/ K!Choose \/ K!List \/ K!Hydrate
  BY <1>1, <1>2 DEF K!Open, K!Served, K!Loaded, K!Choose, K!List, K!Hydrate, K!server
<1>3. CASE K!Answer \/ K!Fail
  <2>1. UNCHANGED <<packs, crowded>> /\ stickerCalls' \subseteq stickerCalls
    BY <1>3 DEF K!Answer, K!Fail, K!Others, K!server
  <2>2. QED BY <1>1, <2>1
<1>4. CASE K!Upload \/ K!NewPack \/ K!RenamePack \/ K!DeletePack \/ K!DeleteSticker
           \/ K!ImportOne \/ K!ImportPack \/ K!ImportAll
  BY <1>4, PacksCall
<1>5. CASE K!Counts BY <1>5, PacksCount
<1>6. CASE K!Places BY <1>6, PacksPlace
<1>7. CASE K!DefaultPack BY <1>7, PacksFirst
<1>8. CASE K!Copies BY <1>8, PacksCopy
<1>9. CASE K!Write BY <1>9, PacksWrite
<1>10. QED BY <1>2, <1>3, <1>4, <1>5, <1>6, <1>7, <1>8, <1>9 DEF K!Next

-----------------------------------------------------------------------------
(* Private chats and votes at the server (Dialogs): the chats there are, the requests that     *)
(* look for one (lookups) and the keys looked for twice; the votes of a user (ballots), the     *)
(* transactions (polls), and the vote committed last with whether it ran alone.                *)
Row == [saved : BOOLEAN, who : SUBSET Talkers, in : SUBSET Talkers]
Request == {N!Idle} \cup [pc : {"insert"}, key : N!Keys] \cup [pc : {"member"}, chat : 1..Len(chats)]
(* A request is to insert what nobody else is to insert, and what there is not; the member of  *)
(* saved messages follows their chat.                                                          *)
Once ==
  /\ chats \in Seq(Row) /\ \A i \in 1..Len(chats) : chats[i].in \subseteq chats[i].who
  /\ DOMAIN lookups = Requests /\ \A r \in Requests : lookups[r] \in Request
  /\ \A r \in Requests : lookups[r].pc = "member" => chats[lookups[r].chat].saved
  /\ \A r, q \in Requests : lookups[r].pc = "insert" /\ lookups[q].pc = "insert"
            /\ lookups[r].key = lookups[q].key
                              => r = q \/ lookups[r].key \in twice
  /\ \A r \in Requests, k \in N!Keys :
       lookups[r].pc = "insert" /\ lookups[r].key = k /\ k \notin twice => N!Found(k) = {}
  /\ \A k \in N!Keys \ twice : \A i, j \in N!Found(k) : i = j

(* A transaction that ran alone so far is the only one, and has seen the votes there are.      *)
Ballots ==
  /\ DOMAIN polls = Voters
  /\ \A v \in Voters : polls[v] = N!Idle
                       \/ polls[v] \in [pc : {"delete", "insert"}, options : SUBSET Options,
                                       rows : {polls[v].rows},
                                     new : {polls[v].new}, alone : BOOLEAN]
  /\ \A v \in N!Running : polls[v].alone => polls[v].rows = ballots /\ \A w \in N!Running : w = v
  /\ N!LastVoteCounts
DialogsInv == Once /\ Ballots

(* It holds at the start, and says what is checked.                                           *)
LEMMA DialogsInit == ASSUME N!Init PROVE DialogsInv
<1>1. /\ chats = <<>> /\ lookups = [r \in Requests |-> N!Idle] /\ twice = {} /\ ballots = {}
      /\ polls = [v \in Voters |-> N!Idle] /\ ballot = {} /\ mixed = FALSE
  BY DEF N!Init
<1>2. \A r \in Requests : lookups[r] = N!Idle /\ lookups[r].pc = "idle" BY <1>1 DEF N!Idle
<1>3. \A k : N!Found(k) = {} BY <1>1 DEF N!Found, N!Of
<1>4. chats \in Seq(Row) /\ Len(chats) = 0 BY <1>1
<1>5. \A r \in Requests : lookups[r] \in Request BY <1>2 DEF Request
<1>6. Once BY <1>1, <1>2, <1>3, <1>4, <1>5 DEF Once
<1>7. N!Running = {} BY <1>1 DEF N!Running
<1>8. Ballots BY <1>1, <1>7 DEF Ballots, N!LastVoteCounts
<1>9. QED BY <1>6, <1>8 DEF DialogsInv

LEMMA ChatCardinality == \A some : N!Cardinality(some) = Cardinality(some)
BY DEF N!Cardinality, Cardinality
LEMMA DialogsHeld == ASSUME DialogsInv PROVE N!OnceForEach /\ N!LastVoteCounts
<1>1. ASSUME NEW k \in N!Keys \ twice PROVE Cardinality({i \in N!Of(k) : k.saved \/ N!Whole(i)}) <= 1
  <2>1. N!Found(k) = {i \in N!Of(k) : k.saved \/ N!Whole(i)} BY DEF N!Found
  <2>2. \A i, j \in N!Found(k) : i = j BY DEF DialogsInv, Once
  <2>3. CASE N!Found(k) = {}
    <3>1. Cardinality(N!Found(k)) = 0 BY <2>3, FS_EmptySet
    <3>2. QED BY <2>1, <3>1
  <2>4. CASE N!Found(k) # {}
    <3>1. PICK i : i \in N!Found(k) BY <2>4
    <3>2. N!Found(k) = {i} BY <2>2, <3>1
    <3>3. Cardinality(N!Found(k)) = 1 BY <3>2, FS_Singleton
    <3>4. QED BY <2>1, <3>3
  <2>5. QED BY <2>3, <2>4
<1>2. N!OnceForEach BY <1>1, ChatCardinality DEF N!OnceForEach
<1>3. QED BY <1>2 DEF DialogsInv, Ballots

(* The chats and the votes have nothing to do with each other.                                 *)
LEMMA OnceStays == ASSUME Once, UNCHANGED <<chats, lookups, twice>> PROVE Once'
BY DEF Once, Request, Row, N!Found, N!Of, N!Whole
LEMMA BallotsStay == ASSUME Ballots, UNCHANGED <<ballots, polls, ballot, mixed>> PROVE Ballots'
BY DEF Ballots, N!Running, N!LastVoteCounts

(* A key is what its chats say of it.                                                          *)
LEMMA KeyShape == ASSUME NEW k \in N!Keys
                  PROVE  k \in [saved : BOOLEAN, who : SUBSET Talkers]
BY DEF N!Keys

LEMMA AskFacts ==
  ASSUME Once, NEW r \in Requests
  PROVE  /\ lookups[r].pc = "insert" => /\ lookups[r] = [pc |-> "insert", key |-> lookups[r].key]
                                        /\ lookups[r].key \in N!Keys
         /\ lookups[r].pc = "member" => lookups[r].chat \in 1..Len(chats)
<1>1. lookups[r] \in Request BY DEF Once
<1>2. CASE lookups[r] = N!Idle BY <1>2 DEF N!Idle
<1>3. CASE lookups[r] \in [pc : {"insert"}, key : N!Keys] BY <1>3
<1>4. CASE lookups[r] \in [pc : {"member"}, chat : 1..Len(chats)] BY <1>4
<1>5. QED BY <1>1, <1>2, <1>3, <1>4 DEF Request

LEMMA OnceLook ==
  ASSUME Once, NEW r \in Requests, NEW k \in N!Keys, NEW fails \in BOOLEAN, N!Look(r, k, fails)
  PROVE  Once'
<1>1. PICK a : a = [pc |-> "insert", key |-> k] OBVIOUS
<1>2. a \in [pc : {"insert"}, key : N!Keys] /\ a.pc = "insert" /\ a.key = k BY <1>1
<1>3. /\ lookups' = [lookups EXCEPT ![r] = IF N!Found(k) = {} \/ fails THEN a ELSE N!Idle] /\ chats' = chats
      /\ twice' = twice \cup IF fails \/ a \in {lookups[q] : q \in Requests} THEN {k} ELSE {}
  BY <1>1 DEF N!Look, N!To, N!chatVars
<1>4. DOMAIN lookups' = Requests /\ lookups'[r] = (IF N!Found(k) = {} \/ fails THEN a ELSE N!Idle)
      /\ \A q \in Requests : q # r => lookups'[q] = lookups[q]
  BY <1>3 DEF Once
<1>5. N!Idle.pc = "idle" BY DEF N!Idle
<1>6. \A q \in Requests : lookups'[q] \in Request'
  <2>1. \A q \in Requests : lookups[q] \in Request' BY <1>3 DEF Once, Request
  <2>2. N!Idle \in Request' /\ a \in Request' BY <1>2 DEF Request
  <2>3. QED BY <1>4, <2>1, <2>2
<1>7. \A q \in Requests : lookups'[q].pc = "member" => chats'[lookups'[q].chat].saved
  BY <1>2, <1>3, <1>4, <1>5 DEF Once
<1>8. \A key : N!Found(key)' = N!Found(key) BY <1>3 DEF N!Found, N!Of, N!Whole
<1>9. twice \subseteq twice' BY <1>3
<1>10. \A q \in Requests : q # r /\ lookups[q].pc = "insert" /\ lookups[q].key = k => k \in twice'
  <2>1. ASSUME NEW q \in Requests, lookups[q].pc = "insert", lookups[q].key = k
        PROVE a \in {lookups[p] : p \in Requests}
    BY <1>1, <2>1, AskFacts
  <2>2. QED BY <1>3, <2>1
<1>11. \A p, q \in Requests : lookups'[p].pc = "insert" /\ lookups'[q].pc = "insert"
          /\ lookups'[p].key = lookups'[q].key
                               => p = q \/ lookups'[p].key \in twice'
  <2>1. \A p, q \in Requests : p # r /\ q # r /\ lookups[p].pc = "insert" /\ lookups[q].pc = "insert"
                               /\ lookups[p].key = lookups[q].key => p = q \/ lookups[p].key \in twice'
    BY <1>9 DEF Once
  <2>2. lookups'[r].pc = "insert" => lookups'[r].key = k BY <1>2, <1>4, <1>5
  <2>3. QED BY <1>4, <1>10, <2>1, <2>2
<1>12. ASSUME NEW q \in Requests, NEW c \in N!Keys, lookups'[q].pc = "insert", lookups'[q].key = c,
          c \notin twice'
       PROVE  N!Found(c)' = {}
  <2>1. CASE q = r
    <3>1. c = k /\ lookups'[r] = a BY <1>2, <1>4, <1>5, <1>12, <2>1
    <3>2. N!Found(k) = {} \/ fails BY <1>2, <1>4, <1>5, <1>12, <2>1
    <3>3. ~fails BY <1>3, <1>12, <3>1
    <3>4. QED BY <1>8, <3>1, <3>2, <3>3
  <2>2. CASE q # r
    <3>1. lookups[q].pc = "insert" /\ lookups[q].key = c /\ c \notin twice BY <1>4, <1>9, <1>12, <2>2
    <3>2. QED BY <1>8, <3>1 DEF Once
  <2>3. QED BY <2>1, <2>2
<1>14. \A c \in N!Keys \ twice' : \A i, j \in N!Found(c)' : i = j BY <1>8, <1>9 DEF Once
<1>15. chats' \in Seq(Row) /\ \A i \in 1..Len(chats') : chats'[i].in \subseteq chats'[i].who BY <1>3 DEF Once
<1>16. QED BY <1>4, <1>6, <1>7, <1>11, <1>12, <1>14, <1>15 DEF Once

LEMMA OnceInsert == ASSUME Once, NEW r \in Requests, N!Insert(r) PROVE Once'
<1>1. PICK k : k = lookups[r].key OBVIOUS
<1>2. lookups[r].pc = "insert" /\ k \in N!Keys /\ k \in [saved : BOOLEAN, who : SUBSET Talkers]
  BY <1>1, AskFacts, KeyShape DEF N!Insert
<1>3. PICK row : row = [saved |-> k.saved, who |-> k.who, in |-> IF k.saved THEN {} ELSE k.who] OBVIOUS
<1>4. row \in Row /\ row.saved = k.saved /\ row.who = k.who /\ (~k.saved => row.in = row.who)
  BY <1>2, <1>3 DEF Row
<1>5. chats' = Append(chats, row) /\ twice' = twice
      /\ lookups' = [lookups EXCEPT ![r] = IF k.saved THEN [pc |-> "member", chat |-> Len(chats')] ELSE N!Idle]
  BY <1>1, <1>3 DEF N!Insert, N!To
<1>6. chats \in Seq(Row) BY DEF Once
<1>7. /\ chats' \in Seq(Row) /\ Len(chats') = Len(chats) + 1 /\ Len(chats) \in Nat /\ chats'[Len(chats')] = row
      /\ \A i \in 1..Len(chats) : chats'[i] = chats[i]
  BY <1>4, <1>5, <1>6
<1>8. PICK a : a = IF k.saved THEN [pc |-> "member", chat |-> Len(chats')] ELSE N!Idle OBVIOUS
<1>9. a \in Request' /\ a.pc # "insert" /\ (a.pc = "member" => chats'[a.chat].saved)
  <2>1. CASE k.saved
    <3>1. a.pc = "member" /\ a.chat = Len(chats') /\ a \in [pc : {"member"}, chat : 1..Len(chats')]
      BY <1>7, <1>8, <2>1
    <3>2. chats'[a.chat].saved BY <1>4, <1>7, <2>1, <3>1
    <3>3. a \in Request' BY <3>1 DEF Request
    <3>4. QED BY <3>1, <3>2, <3>3
  <2>2. CASE ~k.saved
    <3>1. a = N!Idle BY <1>8, <2>2
    <3>2. a.pc = "idle" BY <3>1 DEF N!Idle
    <3>3. QED BY <3>1, <3>2 DEF Request
  <2>3. QED BY <2>1, <2>2
<1>10. DOMAIN lookups' = Requests /\ lookups'[r] = a /\ \A q \in Requests : q # r => lookups'[q] = lookups[q]
  BY <1>5, <1>8 DEF Once
<1>11. \A q \in Requests : lookups'[q] \in Request'
  <2>1. \A q \in Requests : lookups[q] \in Request' BY <1>7 DEF Once, Request
  <2>2. QED BY <1>9, <1>10, <2>1
<1>12. \A q \in Requests : lookups'[q].pc = "member" => chats'[lookups'[q].chat].saved
  <2>1. \A q \in Requests : lookups[q].pc = "member" => lookups[q].chat \in 1..Len(chats)
            /\ chats[lookups[q].chat].saved
    BY AskFacts DEF Once
  <2>2. QED BY <1>7, <1>9, <1>10, <2>1
<1>13. \A p, q \in Requests : lookups'[p].pc = "insert" /\ lookups'[q].pc = "insert"
          /\ lookups'[p].key = lookups'[q].key
                               => p = q \/ lookups'[p].key \in twice'
  BY <1>5, <1>9, <1>10 DEF Once
<1>14. \A c \in N!Keys : \A i \in N!Found(c)' : i \in N!Found(c) \/ (c = k /\ i = Len(chats'))
  <2>1. SUFFICES ASSUME NEW c \in N!Keys, NEW i \in N!Found(c)'
                 PROVE  i \in N!Found(c) \/ (c = k /\ i = Len(chats'))
    OBVIOUS
  <2>2. i \in 1..Len(chats') /\ chats'[i].saved = c.saved /\ chats'[i].who = c.who
        /\ (c.saved \/ chats'[i].in = chats'[i].who)
    BY <1>7, <2>1 DEF N!Found, N!Of, N!Whole
  <2>3. CASE i = Len(chats')
    <3>1. c.saved = k.saved /\ c.who = k.who BY <1>4, <1>7, <2>2, <2>3
    <3>2. c \in [saved : BOOLEAN, who : SUBSET Talkers] BY KeyShape
    <3>3. c = k BY <1>2, <3>1, <3>2
    <3>4. QED BY <2>3, <3>3
  <2>4. CASE i # Len(chats')
    <3>1. i \in 1..Len(chats) /\ chats'[i] = chats[i] BY <1>7, <2>2, <2>4
    <3>2. QED BY <1>6, <2>2, <3>1 DEF N!Found, N!Of, N!Whole
  <2>5. QED BY <2>3, <2>4
<1>15. ASSUME NEW q \in Requests, NEW c \in N!Keys, lookups'[q].pc = "insert", lookups'[q].key = c,
          c \notin twice'
       PROVE  N!Found(c)' = {}
  <2>1. q # r /\ lookups[q].pc = "insert" /\ lookups[q].key = c /\ c \notin twice BY <1>5, <1>9, <1>10, <1>15
  <2>2. N!Found(c) = {} BY <2>1 DEF Once
  <2>3. c # k BY <1>1, <1>2, <2>1 DEF Once
  <2>4. QED BY <1>14, <2>2, <2>3
<1>16. ASSUME NEW c \in N!Keys \ twice', NEW i \in N!Found(c)', NEW j \in N!Found(c)' PROVE i = j
  <2>1. c \in N!Keys /\ c \notin twice BY <1>5
  <2>2. \A x, y \in N!Found(c) : x = y BY <2>1 DEF Once
  <2>3. c = k => N!Found(c) = {} BY <1>1, <1>2, <2>1 DEF Once
  <2>4. (i \in N!Found(c) \/ (c = k /\ i = Len(chats'))) /\ (j \in N!Found(c) \/ (c = k /\ j = Len(chats')))
    BY <1>14, <2>1
  <2>5. QED BY <2>2, <2>3, <2>4
<1>17. \A i \in 1..Len(chats') : chats'[i].in \subseteq chats'[i].who
  <2>1. row.in \subseteq row.who BY <1>2, <1>3
  <2>2. \A i \in 1..Len(chats) : chats[i].in \subseteq chats[i].who BY DEF Once
  <2>3. \A i \in 1..Len(chats') : i \in 1..Len(chats) \/ i = Len(chats') BY <1>7
  <2>4. QED BY <1>7, <2>1, <2>2, <2>3
<1>18. QED BY <1>7, <1>10, <1>11, <1>12, <1>13, <1>15, <1>16, <1>17 DEF Once

(* What changes who is in a chat, and makes no private one whole again.                        *)
LEMMA OnceChanges ==
  ASSUME Once, twice' = twice, DOMAIN lookups' = Requests,
            \A q \in Requests : lookups'[q] = lookups[q] \/ lookups'[q] = N!Idle,
         NEW i \in 1..Len(chats), NEW set \in SUBSET chats[i].who, chats[i].saved \/ set \subseteq chats[i].in,
         chats' = [chats EXCEPT ![i] = [@ EXCEPT !.in = set]]
  PROVE  Once'
<1>1. PICK m : m = [chats[i] EXCEPT !.in = set] OBVIOUS
<1>2. chats \in Seq(Row) /\ chats[i] \in Row BY DEF Once
<1>3. m \in Row /\ m.saved = chats[i].saved /\ m.who = chats[i].who /\ m.in = set BY <1>1, <1>2 DEF Row
<1>4. chats' = [chats EXCEPT ![i] = m] BY <1>1
<1>5. /\ chats' \in Seq(Row) /\ Len(chats') = Len(chats) /\ Len(chats) \in Nat /\ chats'[i] = m
      /\ \A j \in 1..Len(chats) : j # i => chats'[j] = chats[j]
  BY <1>2, <1>3, <1>4, ExceptSeq
<1>6. N!Idle.pc = "idle" BY DEF N!Idle
<1>7. \A q \in Requests : lookups'[q] \in Request'
  <2>1. \A q \in Requests : lookups[q] \in Request' BY <1>5 DEF Once, Request
  <2>2. N!Idle \in Request' BY DEF Request
  <2>3. QED BY <2>1, <2>2
<1>8. \A q \in Requests : lookups'[q].pc = "member" => chats'[lookups'[q].chat].saved
  <2>1. \A q \in Requests : lookups[q].pc = "member" => lookups[q].chat \in 1..Len(chats)
            /\ chats[lookups[q].chat].saved
    BY AskFacts DEF Once
  <2>2. \A j \in 1..Len(chats) : chats'[j].saved = chats[j].saved BY <1>3, <1>5
  <2>3. QED BY <1>6, <2>1, <2>2
<1>9. \A p, q \in Requests : lookups'[p].pc = "insert" /\ lookups'[q].pc = "insert"
          /\ lookups'[p].key = lookups'[q].key
                               => p = q \/ lookups'[p].key \in twice'
  <2>1. \A q \in Requests : lookups'[q].pc = "insert" => lookups'[q] = lookups[q] BY <1>6
  <2>2. QED BY <2>1 DEF Once
<1>10. \A c \in N!Keys : N!Found(c)' \subseteq N!Found(c)
  <2>1. SUFFICES ASSUME NEW c \in N!Keys, NEW j \in N!Found(c)' PROVE j \in N!Found(c)
    OBVIOUS
  <2>2. j \in 1..Len(chats) /\ chats'[j].saved = c.saved /\ chats'[j].who = c.who
        /\ (c.saved \/ chats'[j].in = chats'[j].who)
    BY <1>5, <2>1 DEF N!Found, N!Of, N!Whole
  <2>3. chats[j].saved = c.saved /\ chats[j].who = c.who BY <1>3, <1>5, <2>2
  <2>4. CASE c.saved BY <1>2, <2>2, <2>3, <2>4 DEF N!Found, N!Of
  <2>5. CASE ~c.saved
    <3>1. chats[j].in = chats[j].who \/ (j = i /\ set = chats[i].who /\ set \subseteq chats[i].in)
      BY <1>3, <1>5, <2>2, <2>3, <2>5
    <3>2. chats[j].in = chats[j].who BY <3>1 DEF Once
    <3>3. QED BY <1>2, <2>2, <2>3, <3>2 DEF N!Found, N!Of, N!Whole
  <2>6. QED BY <2>4, <2>5
<1>11. ASSUME NEW q \in Requests, NEW c \in N!Keys, lookups'[q].pc = "insert", lookups'[q].key = c,
          c \notin twice'
       PROVE  N!Found(c)' = {}
  <2>1. lookups[q].pc = "insert" /\ lookups[q].key = c /\ c \notin twice BY <1>6, <1>11
  <2>2. N!Found(c) = {} BY <2>1 DEF Once
  <2>3. QED BY <1>10, <2>2
<1>12. \A c \in N!Keys \ twice' : \A x, y \in N!Found(c)' : x = y BY <1>10 DEF Once
<1>13. \A j \in 1..Len(chats') : chats'[j].in \subseteq chats'[j].who
  <2>1. \A j \in 1..Len(chats) : chats[j].in \subseteq chats[j].who BY DEF Once
  <2>2. QED BY <1>3, <1>5, <2>1
<1>14. QED BY <1>5, <1>7, <1>8, <1>9, <1>11, <1>12, <1>13 DEF Once

LEMMA OnceGoes ==
  ASSUME Once, NEW r \in Requests, N!InsertMember(r) \/ N!InsertFails(r)
  PROVE  Once'
<1>1. lookups' = [lookups EXCEPT ![r] = N!Idle] /\ twice' = twice BY DEF N!InsertMember, N!InsertFails, N!To
<1>2. DOMAIN lookups' = Requests /\ \A q \in Requests : lookups'[q] = lookups[q] \/ lookups'[q] = N!Idle
  BY <1>1 DEF Once
<1>3. CASE N!InsertMember(r)
  <2>. DEFINE i == lookups[r].chat
  <2>1. i \in 1..Len(chats) /\ chats[i].saved BY <1>3, AskFacts DEF N!InsertMember, Once
  <2>2. chats' = [chats EXCEPT ![i] = [@ EXCEPT !.in = chats[i].in \cup chats[i].who]]
    BY <1>3 DEF N!InsertMember
  <2>3. chats[i].in \subseteq chats[i].who BY <2>1 DEF Once
  <2>4. chats[i].in \cup chats[i].who \in SUBSET chats[i].who BY <2>3
  <2>. HIDE DEF i
  <2>5. QED BY <1>1, <1>2, <2>1, <2>2, <2>4, OnceChanges
<1>4. CASE N!InsertFails(r)
  <2>1. chats' = chats /\ lookups[r].pc \in {"insert", "member"}
    <3>1. lookups[r] # N!Idle /\ chats' = chats BY <1>4 DEF N!InsertFails
    <3>2. lookups[r] \in Request BY DEF Once
    <3>3. QED BY <3>1, <3>2 DEF Request
  <2>2. N!Idle.pc = "idle" /\ N!Idle \in Request' BY DEF N!Idle, Request
  <2>3. \A q \in Requests : lookups'[q].pc # "idle" => lookups'[q] = lookups[q] BY <1>2, <2>2
  <2>4. \A q \in Requests : lookups'[q] \in Request'
    <3>1. \A q \in Requests : lookups[q] \in Request' BY <2>1 DEF Once, Request
    <3>2. QED BY <1>2, <2>2, <3>1
  <2>5. \A c : N!Found(c)' = N!Found(c) BY <2>1 DEF N!Found, N!Of, N!Whole
  <2>6. \A q \in Requests : lookups'[q].pc = "member" => chats'[lookups'[q].chat].saved BY <2>1, <2>3 DEF Once
  <2>7. \A p, q \in Requests : lookups'[p].pc = "insert" /\ lookups'[q].pc = "insert"
            /\ lookups'[p].key = lookups'[q].key
                               => p = q \/ lookups'[p].key \in twice'
    BY <1>1, <2>3 DEF Once
  <2>8. \A q \in Requests, c \in N!Keys :
          lookups'[q].pc = "insert" /\ lookups'[q].key = c /\ c \notin twice' => N!Found(c)' = {}
    BY <1>1, <2>3, <2>5 DEF Once
  <2>9. \A c \in N!Keys \ twice' : \A x, y \in N!Found(c)' : x = y BY <1>1, <2>5 DEF Once
  <2>10. chats' \in Seq(Row) /\ \A j \in 1..Len(chats') : chats'[j].in \subseteq chats'[j].who BY <2>1 DEF Once
  <2>11. QED BY <1>2, <2>4, <2>6, <2>7, <2>8, <2>9, <2>10 DEF Once
<1>5. QED BY <1>3, <1>4

LEMMA OnceLeave ==
  ASSUME Once, NEW i \in DOMAIN chats, NEW u \in Talkers, N!Leave(i, u)
  PROVE  Once'
<1>1. i \in 1..Len(chats) BY DEF Once
<1>2. chats' = [chats EXCEPT ![i] = [@ EXCEPT !.in = chats[i].in \ {u}]] /\ lookups' = lookups /\ twice' = twice
  BY DEF N!Leave
<1>3. chats[i].in \subseteq chats[i].who BY <1>1 DEF Once
<1>4. DOMAIN lookups' = Requests /\ \A q \in Requests : lookups'[q] = lookups[q] BY <1>2 DEF Once
<1>5. chats[i].in \ {u} \in SUBSET chats[i].who /\ chats[i].in \ {u} \subseteq chats[i].in BY <1>3
<1>6. QED BY <1>1, <1>2, <1>4, <1>5, OnceChanges

(* The votes. *)
LEMMA BallotsStep ==
  ASSUME Ballots, NEW v \in Voters,
         N!Delete(v) \/ N!Commit(v) \/ N!VoteFails(v) \/ (\E os \in SUBSET Options : N!Vote(v, os))
         \/ (\E o \in Options : N!InsertVote(v, o))
  PROVE  Ballots'
<1>1. /\ DOMAIN polls = Voters
      /\ \A w \in Voters :
           polls[w] = N!Idle \/ polls[w] \in [pc : {"delete", "insert"}, options : SUBSET Options,
                                        rows : {polls[w].rows}, new : {polls[w].new}, alone : BOOLEAN]
      /\ \A w \in N!Running : polls[w].alone => polls[w].rows = ballots /\ \A x \in N!Running : x = w
      /\ ballot \subseteq ballots /\ (~mixed => ballots = ballot)
  BY DEF Ballots, N!LastVoteCounts
<1>2. N!Idle.pc = "idle" BY DEF N!Idle
<1>3. CASE N!Delete(v)
  <2>1. PICK m : m = [polls[v] EXCEPT !.pc = "insert", !.rows = N!Removed(v)] OBVIOUS
  <2>2. polls[v].pc = "delete" /\ polls' = [polls EXCEPT ![v] = m] /\ UNCHANGED <<ballots, ballot, mixed>>
    BY <1>3, <2>1 DEF N!Delete
  <2>3. polls[v] \in [pc : {"delete", "insert"}, options : SUBSET Options, rows : {polls[v].rows},
                   new : {polls[v].new}, alone : BOOLEAN]
    BY <1>1, <1>2, <2>2
  <2>4. /\ m \in [pc : {"delete", "insert"}, options : SUBSET Options, rows : {m.rows}, new : {m.new},
                  alone : BOOLEAN]
        /\ m.pc = "insert" /\ m.alone = polls[v].alone /\ m.rows = polls[v].rows \cap ballots
    BY <2>1, <2>3 DEF N!Removed
  <2>5. m # N!Idle BY <1>2, <2>4
  <2>6. polls'[v] = m /\ DOMAIN polls' = Voters /\ \A w \in Voters : w # v => polls'[w] = polls[w] BY <1>1, <2>2
  <2>7. N!Running' = N!Running /\ v \in N!Running BY <1>2, <2>2, <2>5, <2>6 DEF N!Running
  <2>8. \A w \in N!Running' : polls'[w].alone => polls'[w].rows = ballots' /\ \A x \in N!Running' : x = w
    <3>1. polls[v].alone => m.rows = ballots BY <1>1, <2>4, <2>7
    <3>2. \A w \in N!Running : w \in Voters BY DEF N!Running
    <3>3. QED BY <1>1, <2>2, <2>4, <2>6, <2>7, <3>1, <3>2
  <2>9. QED BY <1>1, <2>2, <2>4, <2>6, <2>8 DEF Ballots, N!LastVoteCounts
<1>4. CASE N!Commit(v)
  <2>1. /\ polls[v].pc = "insert" /\ polls[v].new = polls[v].options
            /\ ballots' = (ballots \ polls[v].rows) \cup polls[v].new
        /\ polls' = [polls EXCEPT ![v] = N!Idle] /\ ballot' = polls[v].options /\ mixed' = ~polls[v].alone
    BY <1>4 DEF N!Commit
  <2>2. v \in N!Running BY <1>2, <2>1 DEF N!Running
  <2>3. polls'[v] = N!Idle /\ DOMAIN polls' = Voters /\ \A w \in Voters : w # v => polls'[w] = polls[w]
    BY <1>1, <2>1
  <2>4. N!Running' = N!Running \ {v} BY <2>3 DEF N!Running
  <2>5. \A w \in N!Running' : ~polls'[w].alone BY <1>1, <2>2, <2>3, <2>4 DEF N!Running
  <2>6. ballot' \subseteq ballots' BY <2>1
  <2>7. ~mixed' => ballots' = ballot'
    <3>1. polls[v].alone => polls[v].rows = ballots BY <1>1, <2>2
    <3>2. ~mixed' => polls[v].alone BY <2>1
    <3>3. QED BY <2>1, <3>1, <3>2
  <2>8. QED BY <1>1, <2>3, <2>5, <2>6, <2>7 DEF Ballots, N!LastVoteCounts
<1>5. CASE N!VoteFails(v)
  <2>1. polls' = [polls EXCEPT ![v] = N!Idle] /\ UNCHANGED <<ballots, ballot, mixed>> BY <1>5 DEF N!VoteFails
  <2>2. polls'[v] = N!Idle /\ DOMAIN polls' = Voters /\ \A w \in Voters : w # v => polls'[w] = polls[w]
    BY <1>1, <2>1
  <2>3. N!Running' = N!Running \ {v} BY <2>2 DEF N!Running
  <2>4. QED BY <1>1, <2>1, <2>2, <2>3 DEF Ballots, N!LastVoteCounts
<1>6. CASE \E os \in SUBSET Options : N!Vote(v, os)
  <2>1. PICK os \in SUBSET Options : N!Vote(v, os) BY <1>6
  <2>2. PICK m : m = [pc |-> "delete", options |-> os, rows |-> ballots, new |-> {}, alone |-> N!Running = {}]
    OBVIOUS
  <2>3. /\ m \in [pc : {"delete", "insert"}, options : SUBSET Options, rows : {m.rows}, new : {m.new},
                  alone : BOOLEAN]
        /\ m.pc = "delete" /\ m.rows = ballots /\ m.alone = (N!Running = {})
    BY <2>2
  <2>4. /\ polls[v] = N!Idle /\ UNCHANGED <<ballots, ballot, mixed>>
        /\ polls' = [w \in Voters |-> IF w = v THEN m
                                   ELSE IF w \in N!Running THEN [polls[w] EXCEPT !.alone = FALSE] ELSE N!Idle]
    BY <2>1, <2>2 DEF N!Vote
  <2>5. polls'[v] = m /\ DOMAIN polls' = Voters BY <2>4
  <2>6. ASSUME NEW w \in Voters, w # v
        PROVE  \/ polls'[w] = N!Idle /\ w \notin N!Running
               \/ /\ polls'[w] \in [pc : {"delete", "insert"}, options : SUBSET Options,
                               rows : {polls'[w].rows},
                                 new : {polls'[w].new}, alone : BOOLEAN]
                  /\ ~polls'[w].alone /\ w \in N!Running
    <3>1. CASE w \in N!Running
      <4>1. PICK x : x = [polls[w] EXCEPT !.alone = FALSE] OBVIOUS
      <4>2. polls[w] \in [pc : {"delete", "insert"}, options : SUBSET Options, rows : {polls[w].rows},
                       new : {polls[w].new}, alone : BOOLEAN]
        BY <1>1, <3>1 DEF N!Running
      <4>3. x \in [pc : {"delete", "insert"}, options : SUBSET Options, rows : {x.rows}, new : {x.new},
                   alone : BOOLEAN] /\ ~x.alone
        BY <4>1, <4>2
      <4>4. polls'[w] = x BY <2>4, <2>6, <3>1, <4>1
      <4>5. QED BY <3>1, <4>3, <4>4
    <3>2. CASE w \notin N!Running BY <2>4, <2>6, <3>2
    <3>3. QED BY <3>1, <3>2
  <2>7. m.alone => \A w \in N!Running' : w = v
    BY <2>3, <2>6 DEF N!Running
  <2>8. \A w \in N!Running' : polls'[w].alone => w = v
    BY <2>6 DEF N!Running
  <2>9. \A w \in Voters : polls'[w] = N!Idle
           \/ polls'[w] \in [pc : {"delete", "insert"}, options : SUBSET Options, rows : {polls'[w].rows},
                          new : {polls'[w].new}, alone : BOOLEAN]
    BY <2>3, <2>5, <2>6
  <2>10. \A w \in N!Running' : polls'[w].alone => polls'[w].rows = ballots' /\ \A x \in N!Running' : x = w
    BY <2>3, <2>4, <2>5, <2>7, <2>8
  <2>11. QED BY <1>1, <2>4, <2>5, <2>9, <2>10 DEF Ballots, N!LastVoteCounts
<1>7. CASE \E o \in Options : N!InsertVote(v, o)
  <2>1. PICK o \in Options : N!InsertVote(v, o) BY <1>7
  <2>2. PICK m : m = [polls[v] EXCEPT !.new = @ \cup {o}] OBVIOUS
  <2>3. polls[v].pc = "insert" /\ polls' = [polls EXCEPT ![v] = m] /\ UNCHANGED <<ballots, ballot, mixed>>
    BY <2>1, <2>2 DEF N!InsertVote
  <2>4. polls[v] \in [pc : {"delete", "insert"}, options : SUBSET Options, rows : {polls[v].rows},
                   new : {polls[v].new}, alone : BOOLEAN]
    BY <1>1, <1>2, <2>3
  <2>5. /\ m \in [pc : {"delete", "insert"}, options : SUBSET Options, rows : {m.rows}, new : {m.new},
                  alone : BOOLEAN]
        /\ m.pc = "insert" /\ m.alone = polls[v].alone /\ m.rows = polls[v].rows
    BY <2>2, <2>3, <2>4
  <2>6. m # N!Idle BY <1>2, <2>5
  <2>7. polls'[v] = m /\ DOMAIN polls' = Voters /\ \A w \in Voters : w # v => polls'[w] = polls[w] BY <1>1, <2>3
  <2>8. N!Running' = N!Running /\ v \in N!Running BY <1>2, <2>3, <2>6, <2>7 DEF N!Running
  <2>9. \A w \in N!Running' : polls'[w].alone => polls'[w].rows = ballots' /\ \A x \in N!Running' : x = w
    BY <1>1, <2>3, <2>5, <2>7, <2>8
  <2>10. QED BY <1>1, <2>3, <2>5, <2>7, <2>9 DEF Ballots, N!LastVoteCounts
<1>8. QED BY <1>3, <1>4, <1>5, <1>6, <1>7

(* Every step keeps both. *)
LEMMA DialogsStep == ASSUME DialogsInv, N!Next PROVE DialogsInv'
<1>1. Once /\ Ballots BY DEF DialogsInv
<1>2. CASE \E r \in Requests, k \in N!Keys, fails \in BOOLEAN : N!Look(r, k, fails)
  <2>1. Once' BY <1>1, <1>2, OnceLook
  <2>2. Ballots' BY <1>1, <1>2, BallotsStay DEF N!Look, N!pollVars
  <2>3. QED BY <2>1, <2>2 DEF DialogsInv
<1>3. CASE \E r \in Requests : N!Insert(r) \/ N!InsertMember(r) \/ N!InsertFails(r)
  <2>1. Once' BY <1>1, <1>3, OnceInsert, OnceGoes
  <2>2. Ballots' BY <1>1, <1>3, BallotsStay DEF N!Insert, N!InsertMember, N!InsertFails, N!pollVars
  <2>3. QED BY <2>1, <2>2 DEF DialogsInv
<1>4. CASE \E i \in DOMAIN chats, u \in Talkers : N!Leave(i, u)
  <2>1. Once' BY <1>1, <1>4, OnceLeave
  <2>2. Ballots' BY <1>1, <1>4, BallotsStay DEF N!Leave, N!pollVars
  <2>3. QED BY <2>1, <2>2 DEF DialogsInv
<1>5. ASSUME NEW v \in Voters,
             N!Delete(v) \/ N!Commit(v) \/ N!VoteFails(v) \/ (\E os \in SUBSET Options : N!Vote(v, os))
             \/ (\E o \in Options : N!InsertVote(v, o))
      PROVE  DialogsInv'
  <2>1. Ballots' BY <1>1, <1>5, BallotsStep
  <2>2. UNCHANGED <<chats, lookups, twice>>
    BY <1>5 DEF N!Delete, N!Commit, N!VoteFails, N!Vote, N!InsertVote, N!chatVars
  <2>3. Once' BY <1>1, <2>2, OnceStays
  <2>4. QED BY <2>1, <2>3 DEF DialogsInv
<1>6. QED BY <1>2, <1>3, <1>4, <1>5 DEF N!Next

-----------------------------------------------------------------------------
(* What holds of each part, and what it keeps when another part steps.                         *)

PrefsPart == only = "prefs" => PrefsInv
DevicesPart == only = "devices" => DeviceInv
VoicesPart == only = "voices" => VoiceInv
MusicPart == only = "music" => MusicInv
AlertsPart == only = "alerts" => AlertInv
DraftPart == only = "draft" => DraftInv
AttachPart == only = "attach" => AttachInv
RecorderPart == only = "recorder" => RecorderInv
ReactionsPart == only = "reactions" => AnswersInv
StickersPart == only = "stickers" => StickersInv /\ PacksInv
DialogsPart == only = "dialogs" => DialogsInv

(* A behaviour is of one part, which begins as that part does.                                  *)
LEMMA PartBegins ==
  ASSUME DeskInit
  PROVE  /\ only = "prefs" => P!Init
         /\ only = "devices" => D!Init
         /\ only = "voices" => V!Init
         /\ only = "music" => U!Init
         /\ only = "alerts" => A!Init
         /\ only = "draft" => T!Init
         /\ only = "attach" => H!Init
         /\ only = "recorder" => R!Init
         /\ only = "reactions" => E!Init
         /\ only = "stickers" => K!Init
         /\ only = "dialogs" => N!Init
BY DEF DeskInit

(* And every step of it is one of the part, or leaves the part as it is.                        *)
LEMMA PartSteps ==
  ASSUME [DeskNext]_deskVars
  PROVE  /\ only' = only
         /\ only = "prefs" => P!Next \/ UNCHANGED prefsVars
         /\ only = "devices" => D!Next \/ UNCHANGED devicesVars
         /\ only = "voices" => V!Next \/ UNCHANGED voicesVars
         /\ only = "music" => U!Next \/ UNCHANGED musicVars
         /\ only = "alerts" => A!Next \/ UNCHANGED alertsVars
         /\ only = "draft" => T!Next \/ UNCHANGED draftVars
         /\ only = "attach" => H!Next \/ UNCHANGED attachVars
         /\ only = "recorder" => R!Next \/ UNCHANGED recorderVars
         /\ only = "reactions" => E!Next \/ UNCHANGED reactionsVars
         /\ only = "stickers" => K!Next \/ UNCHANGED stickersVars
         /\ only = "dialogs" => N!Next \/ UNCHANGED dialogsVars
<1>1. CASE DeskNext BY <1>1 DEF DeskNext, Only
<1>2. CASE UNCHANGED deskVars
  BY <1>2 DEF deskVars, settings, players, input, answers, served
<1>3. QED BY <1>1, <1>2

(* The part of the settings keeps its invariant, as do those below. *)
LEMMA PrefsAlways == DeskSpec => []PrefsPart
<1>1. DeskInit => PrefsPart BY PartBegins, PrefsInit DEF PrefsPart
<1>2. PrefsPart /\ [DeskNext]_deskVars => PrefsPart'
  <2>1. SUFFICES ASSUME PrefsPart, [DeskNext]_deskVars, only = "prefs" PROVE PrefsInv'
    BY PartSteps DEF PrefsPart
  <2>2. PrefsInv BY <2>1 DEF PrefsPart
  <2>3. CASE P!Next BY <2>2, <2>3, PrefsStep
  <2>4. CASE UNCHANGED prefsVars
    BY <2>2, <2>4 DEF prefsVars, PrefsInv, Full, Fine, P!ChoiceKept, P!Read, P!Merge
  <2>5. QED BY <2>1, <2>3, <2>4, PartSteps
<1>3. QED BY <1>1, <1>2, PTL DEF DeskSpec

(* The devices. *)
LEMMA DevicesAlways == DeskSpec => []DevicesPart
<1>1. DeskInit => DevicesPart BY PartBegins, DeviceInit DEF DevicesPart
<1>2. DevicesPart /\ [DeskNext]_deskVars => DevicesPart'
  <2>1. SUFFICES ASSUME DevicesPart, [DeskNext]_deskVars, only = "devices" PROVE DeviceInv'
    BY PartSteps DEF DevicesPart
  <2>2. DeviceInv BY <2>1 DEF DevicesPart
  <2>3. CASE D!Next BY <2>2, <2>3, DeviceStep
  <2>4. CASE UNCHANGED devicesVars
    BY <2>2, <2>4 DEF devicesVars, DeviceInv, DeviceTypes, DeviceRows, Choice, Latest, Untouched
  <2>5. QED BY <2>1, <2>3, <2>4, PartSteps
<1>3. QED BY <1>1, <1>2, PTL DEF DeskSpec

(* The voice messages. *)
LEMMA VoicesAlways == DeskSpec => []VoicesPart
<1>1. DeskInit => VoicesPart BY PartBegins, VoiceInit DEF VoicesPart
<1>2. VoicesPart /\ [DeskNext]_deskVars => VoicesPart'
  <2>1. SUFFICES ASSUME VoicesPart, [DeskNext]_deskVars, only = "voices" PROVE VoiceInv'
    BY PartSteps DEF VoicesPart
  <2>2. VoiceInv BY <2>1 DEF VoicesPart
  <2>3. CASE V!Next BY <2>2, <2>3, VoiceStep
  <2>4. CASE UNCHANGED voicesVars
    BY <2>2, <2>4 DEF voicesVars, VoiceInv, VoiceTypes, VoiceTold, Stopped, Lasting
  <2>5. QED BY <2>1, <2>3, <2>4, PartSteps
<1>3. QED BY <1>1, <1>2, PTL DEF DeskSpec

(* The player of music. *)
LEMMA MusicAlways == DeskSpec => []MusicPart
<1>1. DeskInit => MusicPart BY PartBegins, MusicInit DEF MusicPart
<1>2. MusicPart /\ [DeskNext]_deskVars => MusicPart'
  <2>1. SUFFICES ASSUME MusicPart, [DeskNext]_deskVars, only = "music" PROVE MusicInv'
    BY PartSteps DEF MusicPart
  <2>2. MusicInv BY <2>1 DEF MusicPart
  <2>3. CASE U!Next BY <2>2, <2>3, MusicStep
  <2>4. CASE UNCHANGED musicVars
    BY <2>2, <2>4 DEF musicVars, MusicInv, MusicTypes, LastTold, Ending
  <2>5. QED BY <2>1, <2>3, <2>4, PartSteps
<1>3. QED BY <1>1, <1>2, PTL DEF DeskSpec

(* Toasts and banners. *)
LEMMA AlertsAlways == DeskSpec => []AlertsPart
<1>1. DeskInit => AlertsPart BY PartBegins, AlertInit DEF AlertsPart
<1>2. AlertsPart /\ [DeskNext]_deskVars => AlertsPart'
  <2>1. SUFFICES ASSUME AlertsPart, [DeskNext]_deskVars, only = "alerts" PROVE AlertInv'
    BY PartSteps DEF AlertsPart
  <2>2. AlertInv BY <2>1 DEF AlertsPart
  <2>3. CASE A!Next BY <2>2, <2>3, AlertStep
  <2>4. CASE UNCHANGED alertsVars
    BY <2>2, <2>4 DEF alertsVars, AlertInv, A!AlertsTrue
  <2>5. QED BY <2>1, <2>3, <2>4, PartSteps
<1>3. QED BY <1>1, <1>2, PTL DEF DeskSpec

(* The text in the field. *)
LEMMA DraftAlways == DeskSpec => []DraftPart
<1>1. DeskInit => DraftPart BY PartBegins, DraftInit DEF DraftPart
<1>2. DraftPart /\ [DeskNext]_deskVars => DraftPart'
  <2>1. SUFFICES ASSUME DraftPart, [DeskNext]_deskVars, only = "draft" PROVE DraftInv'
    BY PartSteps DEF DraftPart
  <2>2. DraftInv BY <2>1 DEF DraftPart
  <2>3. CASE T!Next BY <2>2, <2>3, DraftStep
  <2>4. CASE UNCHANGED draftVars
    BY <2>2, <2>4 DEF draftVars, DraftInv, DraftSaved, T!DraftKept
  <2>5. QED BY <2>1, <2>3, <2>4, PartSteps
<1>3. QED BY <1>1, <1>2, PTL DEF DeskSpec

(* What is attached. *)
LEMMA AttachAlways == DeskSpec => []AttachPart
<1>1. DeskInit => AttachPart BY PartBegins, AttachInit DEF AttachPart
<1>2. AttachPart /\ [DeskNext]_deskVars => AttachPart'
  <2>1. SUFFICES ASSUME AttachPart, [DeskNext]_deskVars, only = "attach" PROVE AttachInv'
    BY PartSteps DEF AttachPart
  <2>2. AttachInv BY <2>1 DEF AttachPart
  <2>3. CASE H!Next BY <2>2, <2>3, AttachStep
  <2>4. CASE UNCHANGED attachVars
    <3>1. /\ UNCHANGED <<attachChat, reply, menu, pollBusy, pickers, attachTasks>>
          /\ UNCHANGED <<log, shown, done, started, replies>>
      BY <2>4 DEF attachVars
    <3>2. Held' = Held /\ Answered' = Answered BY <3>1 DEF Held, Answered
    <3>3. Sending' = Sending /\ Posting' = Posting BY <3>1, <3>2 DEF Sending, Posting
    <3>4. H!Sent' = H!Sent BY <3>1 DEF H!Sent
    <3>5. AttachTypes'
      BY <2>2, <3>1, <3>2, <3>3, <3>4 DEF AttachInv, AttachTypes
    <3>6. AttachOrder' BY <2>2, <3>1, <3>4 DEF AttachInv, AttachOrder, H!InPlace
    <3>7. AttachAnswers' BY <2>2, <3>1, <3>4 DEF AttachInv, AttachAnswers, Unanswered
    <3>8. QED BY <3>5, <3>6, <3>7 DEF AttachInv
  <2>5. QED BY <2>1, <2>3, <2>4, PartSteps
<1>3. QED BY <1>1, <1>2, PTL DEF DeskSpec

(* The recorder. *)
LEMMA RecorderAlways == DeskSpec => []RecorderPart
<1>1. DeskInit => RecorderPart BY PartBegins, RecorderInit DEF RecorderPart
<1>2. RecorderPart /\ [DeskNext]_deskVars => RecorderPart'
  <2>1. SUFFICES ASSUME RecorderPart, [DeskNext]_deskVars, only = "recorder" PROVE RecorderInv'
    BY PartSteps DEF RecorderPart
  <2>2. RecorderInv BY <2>1 DEF RecorderPart
  <2>3. CASE R!Next BY <2>2, <2>3, RecorderStep
  <2>4. CASE UNCHANGED recorderVars
    BY <2>2, <2>4
      DEF recorderVars, RecorderInv, RecorderTypes, Lit, Asked, Alone, FilesPure, R!Running, R!St
  <2>5. QED BY <2>1, <2>3, <2>4, PartSteps
<1>3. QED BY <1>1, <1>2, PTL DEF DeskSpec

(* Reactions and votes. *)
LEMMA ReactionsAlways == DeskSpec => []ReactionsPart
<1>1. DeskInit => ReactionsPart BY PartBegins, AnswersInit DEF ReactionsPart
<1>2. ReactionsPart /\ [DeskNext]_deskVars => ReactionsPart'
  <2>1. SUFFICES ASSUME ReactionsPart, [DeskNext]_deskVars, only = "reactions" PROVE AnswersInv'
    BY PartSteps DEF ReactionsPart
  <2>2. AnswersInv BY <2>1 DEF ReactionsPart
  <2>3. CASE E!Next BY <2>2, <2>3, AnswersStep
  <2>4. CASE UNCHANGED reactionsVars
    BY <2>2, <2>4
      DEF reactionsVars, AnswersInv, AnswerTypes, ReactTold, VoteTold, Lists, Newest, Steady,
       Votings, E!ReactTasks
  <2>5. QED BY <2>1, <2>3, <2>4, PartSteps
<1>3. QED BY <1>1, <1>2, PTL DEF DeskSpec

(* The stickers. *)
LEMMA StickersAlways == DeskSpec => []StickersPart
<1>1. DeskInit => StickersPart BY PartBegins, StickersInit, PacksInit DEF StickersPart
<1>2. StickersPart /\ [DeskNext]_deskVars => StickersPart'
  <2>1. SUFFICES ASSUME StickersPart, [DeskNext]_deskVars, only = "stickers"
                 PROVE  (StickersInv /\ PacksInv)'
    BY PartSteps DEF StickersPart
  <2>2. StickersInv /\ PacksInv BY <2>1 DEF StickersPart
  <2>3. CASE K!Next BY <2>2, <2>3, StickersStep, PacksStep
  <2>4. CASE UNCHANGED stickersVars BY <2>2, <2>4, StickersLook, PacksStay DEF stickersVars
  <2>5. QED BY <2>1, <2>3, <2>4, PartSteps
<1>3. QED BY <1>1, <1>2, PTL DEF DeskSpec

(* The chats and votes at the server. *)
LEMMA DialogsAlways == DeskSpec => []DialogsPart
<1>1. DeskInit => DialogsPart BY PartBegins, DialogsInit DEF DialogsPart
<1>2. DialogsPart /\ [DeskNext]_deskVars => DialogsPart'
  <2>1. SUFFICES ASSUME DialogsPart, [DeskNext]_deskVars, only = "dialogs" PROVE DialogsInv'
    BY PartSteps DEF DialogsPart
  <2>2. DialogsInv BY <2>1 DEF DialogsPart
  <2>3. CASE N!Next BY <2>2, <2>3, DialogsStep
  <2>4. CASE UNCHANGED dialogsVars
    BY <2>2, <2>4, OnceStays, BallotsStay DEF dialogsVars, DialogsInv
  <2>5. QED BY <2>1, <2>3, <2>4, PartSteps
<1>3. QED BY <1>1, <1>2, PTL DEF DeskSpec

-----------------------------------------------------------------------------
(* What was chosen last in the settings is what a window goes by and what the next one loads, *)
(* but for rows that a window which had not read them saved over (merge and partialize,       *)
(* store/index.ts); and the devices in use, and those to be loaded, are the ones applied      *)
(* last, unless a transaction was lost or raced with the load (DeviceSettingsPersistence.tsx, *)
(* deviceSettingsIDB.ts).                                                                     *)
THEOREM ChosenIsKept == DeskSpec => []ChoiceKept
<1>1. PrefsPart /\ DevicesPart => ChoiceKept
  BY DEF PrefsPart, DevicesPart, ChoiceKept, PrefsInv, DeviceInv, DeviceTypes, Choice,
                                          Latest, D!ChoiceInUse
<1>2. QED BY <1>1, PrefsAlways, DevicesAlways, PTL

(* With no event of an element left to handle, at most one voice message plays, the bar is    *)
(* its bar and its button offers a pause, and only a bar whose source was set again is of one *)
(* that does not play (onPlaying, onPause, setActive and clearIfMessage); and the element of  *)
(* the music player has the current track and plays when the button says so, as the user      *)
(* asked, unless tags came to a paused track, and no track waits while none plays (the effect *)
(* on track and musicReducer, MusicPlayerContext.tsx).                                        *)
THEOREM OneIsHeard == DeskSpec => []OneVoice
<1>1. VoicesPart /\ MusicPart => OneVoice
  BY VoiceHeld, MusicHeld DEF VoicesPart, MusicPart, OneVoice
<1>2. QED BY <1>1, VoicesAlways, MusicAlways, PTL

(* A toast is there until its own time is over or the user dismisses it, whatever became of   *)
(* the one it replaced, and the banner of a group call says what was told last, or nothing    *)
(* once the eight seconds after an end are over, be it of a call that began meanwhile         *)
(* (Toast.tsx; onGroupCallUpdate, App.tsx).                                                   *)
THEOREM AlertsAreTrue == DeskSpec => []AlertsTrue
<1>1. AlertsPart => AlertsTrue BY DEF AlertsPart, AlertsTrue, AlertInv
<1>2. QED BY <1>1, AlertsAlways, PTL

(* What the user wrote in a chat and has not sent is in its field or in its draft, through    *)
(* changes of the chat, failing sends and loads of the window, but for what a send under way  *)
(* cleared and what a field taken down too soon had (the effects on chatId and text, doSend   *)
(* and onPick, MessageInput.tsx).                                                             *)
THEOREM DraftIsKept == DeskSpec => []DraftKept
<1>1. DraftPart => DraftKept BY DEF DraftPart, DraftKept, DraftInv
<1>2. QED BY <1>1, DraftAlways, PTL

(* A file goes to the chat it was attached in and after those before it, and two attachments  *)
(* answer one message only if each began before the other was answered (sendFileAsMessage and *)
(* the pickers, MessageInput.tsx).                                                            *)
THEOREM FilesGoInPlace == DeskSpec => []InPlace
<1>1. AttachPart => InPlace BY AttachHeld DEF AttachPart, InPlace
<1>2. QED BY <1>1, AttachAlways, PTL

(* Of recordings that met no other, change of the camera or loss of the field, the microphone *)
(* and the camera are on only while the bar shows it, it is about to end or its recorder      *)
(* could not be made or started, when nothing stops them; and its file holds its own data     *)
(* only (startRecording, stopRecording, MessageInput.tsx).                                    *)
THEOREM MicIsHeld == DeskSpec => []MicHeld
<1>1. RecorderPart => MicHeld BY RecorderHeld DEF RecorderPart, MicHeld
<1>2. QED BY <1>1, RecorderAlways, PTL

(* With nothing under way a bubble counts each reaction as the server does and marks the own  *)
(* one, and the votes of its poll are those of the server, unless a request failed or its     *)
(* event was lost, a list came after a newer one, another device reacted, or the poll was not *)
(* read after a vote, and but for own additions no list has answered (MessageBubble.tsx;      *)
(* handleVote, PollBubble.tsx).                                                               *)
THEOREM AnswersAreTrue == DeskSpec => []AnswersTrue
<1>1. ReactionsPart => AnswersTrue BY AnswersHeld DEF ReactionsPart, AnswersTrue
<1>2. QED BY <1>1, ReactionsAlways, PTL

(* My packs and stickers at the server pass their limits, and I have one media twice, only by   *)
(* calls that wrote after another had written since their counts, and, all at rest, the panel   *)
(* shows my library and has its addresses unless the list of packs wrote since, or a load was   *)
(* lost or late; two users have one private chat, and a user one of saved messages, unless two  *)
(* requests looked for it at a time; and the last vote of a user counts unless it crossed       *)
(* another (userstickers/service.go, StickerPanel.tsx, stickers.ts; CreatePrivateChat and       *)
(* VotePoll, messaging/service.go).                                                             *)
THEOREM LimitHeld == DeskSpec => []LimitRaced
<1>1. StickersPart /\ DialogsPart => LimitRaced
  BY StickersHeld, DialogsHeld DEF StickersPart, DialogsPart, LimitRaced
<1>2. QED BY <1>1, StickersAlways, DialogsAlways, PTL
=============================================================================
