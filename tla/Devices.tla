------------------------------- MODULE Devices -------------------------------
(***************************************************************************)
(* The camera, microphone and speaker chosen: DevicesSection of            *)
(* SettingsPanel.tsx, devicePrefs of the store, which persist writes to    *)
(* localStorage at once, and the copy in IndexedDB that                    *)
(* DeviceSettingsPersistence.tsx keeps with deviceSettingsIDB.ts, read     *)
(* once, after hydration, and written after each change.  All three ids go *)
(* the same way, so one stands for each: None is "", the default device.   *)
(***************************************************************************)
EXTENDS Naturals, Sequences

CONSTANTS Ids, None,
          MaxApplied, MaxLoaded, \* bounds for TLC: choices applied, windows loaded
          MaxTasks               \* bound for TLC: transactions under way
DevicesConstants == None \notin Ids /\ {MaxApplied, MaxLoaded, MaxTasks} \subseteq Nat
Absent == <<>> \* no row in IndexedDB

VARIABLES
  prefs,   \* devicePrefs of the store
  disk,    \* what persist saved of it
  idb,     \* the row of IndexedDB: Absent or <<id>>
  tasks,   \* transactions asked for and not complete, in the order asked
  read,    \* the first load of IndexedDB: <<"asked">>, <<"absent">>, <<"row", id>>, <<"done">>
  draft,   \* of DevicesSection; None while it is closed
  section,
  n, loaded, \* counters for the bounds
  chosen,  \* history: what the user applied last
  odd      \* history: a transaction was "lost", a choice "raced" with the first load
vars == <<prefs, disk, idb, tasks, read, draft, section, n, loaded, chosen, odd>>

Init == /\ idb \in {Absent} \cup {<<i>> : i \in Ids \cup {None}} /\ disk = (IF idb = Absent THEN None ELSE idb[1])
        /\ prefs = disk /\ chosen = disk /\ tasks = <<>> /\ read = <<"asked">> /\ section = FALSE
        /\ draft = None /\ n = 0 /\ loaded = 0 /\ odd = {}
-----------------------------------------------------------------------------
Saved(v) == IF v = prefs THEN <<>> ELSE <<<<v>>>>
(* A set of the store: the section copies it into its draft (and forgets that it was applied), *)
(* and the subscriber of DeviceSettingsPersistence saves a change.                             *)
SetDevicePrefs(v, before) ==
  /\ prefs' = v /\ disk' = v
  /\ tasks' = before \o Saved(v)
  /\ draft' = (IF section THEN v ELSE None)

OpenSection == /\ ~section /\ section' = TRUE /\ draft' = prefs
               /\ UNCHANGED <<prefs, disk, idb, tasks, read, n, loaded, chosen, odd>>
CloseSection == /\ section /\ section' = FALSE /\ draft' = None
                /\ UNCHANGED <<prefs, disk, idb, tasks, read, n, loaded, chosen, odd>>
ChooseDevice(i) == /\ section /\ draft' = i
                   /\ UNCHANGED <<prefs, disk, idb, tasks, read, section, n, loaded, chosen, odd>>
CancelDraft == ChooseDevice(prefs) /\ draft # prefs

(* A choice made before the first load is done with may be undone by it.                       *)
Raced == IF read = <<"done">> THEN {} ELSE {"raced"}
Applying(v, before) ==
  /\ section /\ n < MaxApplied /\ n' = n + 1 /\ chosen' = v
  /\ Len(tasks) < MaxTasks /\ SetDevicePrefs(v, before)
  /\ odd' = odd \cup Raced
  /\ UNCHANGED <<idb, read, section, loaded>>
Apply == draft # prefs /\ Applying(draft, tasks)
(* The row is deleted and, where that is a change, the defaults are saved after it.            *)
Reset == Applying(None, Append(tasks, Absent))
-----------------------------------------------------------------------------
(* IndexedDB serves the transactions in turn, the first load before all; a failed one is not   *)
(* heard of.                                                                                   *)
Complete == /\ tasks # <<>> /\ read # <<"asked">> /\ tasks' = Tail(tasks)
            /\ \/ idb' = Head(tasks) /\ UNCHANGED odd
               \/ idb' = idb /\ odd' = odd \cup IF idb = Head(tasks) THEN {} ELSE {"lost"}
            /\ UNCHANGED <<prefs, disk, read, draft, section, n, loaded, chosen>>
(* The first load reads the row; where that fails, nothing follows.                            *)
ReadRow == /\ read = <<"asked">>
           /\ \/ read' = (IF idb = Absent THEN <<"done">> ELSE <<"row", idb[1]>>) /\ UNCHANGED odd
              \/ read' = <<"done">> /\ odd' = odd \cup {"lost"}
           /\ UNCHANGED <<prefs, disk, idb, tasks, draft, section, n, loaded, chosen>>

(* An id of the row comes before the store's.                                                  *)
Merged(id) == IF id # None THEN id ELSE prefs
MergeIdb == /\ read[1] = "row" /\ read' = <<"done">>
            /\ IF Merged(read[2]) = prefs THEN UNCHANGED <<prefs, disk, tasks, draft>>
               ELSE Len(tasks) < MaxTasks /\ SetDevicePrefs(Merged(read[2]), tasks)
            /\ UNCHANGED <<idb, section, n, loaded, chosen, odd>>

(* The window is loaded again, at any moment: what IndexedDB has not served is lost, and       *)
(* localStorage may have been cleared by the platform.                                         *)
Load == /\ loaded < MaxLoaded /\ loaded' = loaded + 1
        /\ disk' \in {disk, None} /\ prefs' = disk' /\ tasks' = <<>> /\ read' = <<"asked">>
        /\ section' = FALSE /\ draft' = None
        /\ odd' = odd \cup (IF tasks = <<>> THEN {} ELSE {"lost"})
        /\ UNCHANGED <<idb, n, chosen>>

Next == OpenSection \/ CloseSection \/ (\E i \in Ids \cup {None} : ChooseDevice(i)) \/ CancelDraft
        \/ Apply \/ Reset \/ Complete \/ ReadRow \/ MergeIdb \/ Load
Spec == Init /\ [][Next]_vars
-----------------------------------------------------------------------------
(* Once the first load is done with, the devices in use are the ones the user applied last,    *)
(* whatever became of localStorage, unless a transaction on IndexedDB was lost or the choice   *)
(* raced with that load; and with no transaction under way a new window will use them, too.    *)
(* (DeviceSettingsPersistence.tsx, deviceSettingsIDB.ts and DevicesSection.)                   *)
ChoiceInUse ==
  odd = {} => /\ read = <<"done">> => prefs = chosen
              /\ tasks = <<>> => idb = <<chosen>> \/ (idb = Absent /\ chosen = None)
=============================================================================
