-------------------------------- MODULE MCDesk --------------------------------
(* Small sets for the parts of the window.  A behaviour is of one part of Desk or of Places,    *)
(* and of the rest there is nothing.                                                            *)
EXTENDS Desk, Places

CONSTANTS c1, c2, x1, x2, v1, v2, w1, w2, i1, i2, f1, o1, p1

Symmetry == Permutations({x1, x2})

MCEarlier == {<<"notificationPrefs", "vibrate", 2>>, <<"privacyPrefs", "hideEmail", 2>>}
MCChosen == MCEarlier \cup {<<"chatBg", "", 2>>, <<"privacyPrefs", "calls", 3>>,
                           <<"callAudioPrefs", "normalizeVolume", 2>>}
MCTheirs == <<<<1, 2>>, <<2>>>>
MCSort(chat) == IF chat = c1 THEN "p" ELSE "g"
MCKind(chat) == IF chat = c1 THEN 3 ELSE 1      \* c1 is the saved messages
MCTypeOf == (c1 :> 1) @@ (c2 :> 2)
MCRoleOf == (c1 :> 2) @@ (c2 :> 2)
MCOf == [m \in 1..4 |-> IF m = 4 THEN c2 ELSE c1]

deskAbsent == /\ only = None /\ prefsAbsent /\ devicesAbsent /\ voicesAbsent /\ musicAbsent
              /\ alertsAbsent /\ draftAbsent /\ attachAbsent /\ recorderAbsent
              /\ reactionsAbsent /\ stickersAbsent /\ dialogsAbsent
placesAbsent == /\ place = Nil /\ s1 = Nil /\ s2 = Nil /\ s3 = Nil /\ s4 = Nil /\ s5 = Nil
                /\ s6 = Nil /\ s7 = Nil /\ s8 = Nil /\ Free9

Init == (DeskInit /\ placesAbsent) \/ (deskAbsent /\ PlacesInit)
Next == (DeskNext /\ UNCHANGED placesVars) \/ (UNCHANGED deskVars /\ PlacesNext)
Spec == Init /\ [][Next]_<<deskVars, placesVars>>

(* The bounds on what the parts collect. *)
ListOdd == s8
Editor == s8
Found == s4
FolderMoves == s9
Replying == s5
Rounds == s8
Gone == s9
Forwarding == s6
LoadAsks(kind) == s10[<<kind, c1>>] + s10[<<kind, c2>>]
Strays == s12
InfoTasks == s6
Silent == s7
InfoElses == s8
InfoLate == s9
StoryAsks == s5
StoryOdd == s13
Bound ==
  /\ only = "alerts" => alertN = 0 \/ calls = 0
  /\ only = "draft" => mount <= 2
  /\ only = "attach" => /\ Cardinality(pickers) + started <= 2
                        /\ switches + replies = 2 => started <= 1
  /\ only = "stickers" => Cardinality(libraries) <= 2 /\ (stickersLoaded > 0 => stickersMade <= 2)
  /\ only = "dialogs" => lookedUp = 0 \/ voted = 0
  /\ place = "list" => Cardinality(ListOdd) <= 1
  /\ place = "info" => /\ (\E t \in InfoTasks : t.op = "act") => Silent = {} /\ InfoElses = 0
                       /\ InfoElses = 1 => InfoLate = {}
                       /\ Cardinality(Silent) + Cardinality(InfoLate) <= 2
  /\ place = "folders" => Cardinality(Editor.draft.types) <= 1 /\ (Found = {c1, c2} \/ FolderMoves = 0)
  /\ place = "selection" =>
       LoadAsks("load") + LoadAsks("more") + Cardinality(Gone) + Cardinality(Strays)
         + Cardinality(Rounds) + (IF Forwarding = <<>> THEN 0 ELSE 1)
         + (IF Replying = Nil THEN 0 ELSE 1) <= 2
  /\ place = "stories" => Cardinality(StoryAsks) <= 2 /\ Cardinality(StoryOdd) <= 1
==============================================================================
