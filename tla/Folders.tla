------------------------------- MODULE Folders -------------------------------
(***************************************************************************)
(* The tabs and folders over the list of chats: DialogList.tsx, its filter *)
(* (the memo "filtered"), the tabs of its header, and the editor of a      *)
(* folder.  The chats themselves come and go under it.                     *)
(***************************************************************************)
EXTENDS Naturals, FiniteSets

CONSTANTS Names, Chats, None,
          TypeOf(_),    \* 0 private, 1 group, 2 channel, 3 the saved messages
          MaxMoves      \* bound for TLC: chats that come, go, or are archived
FoldersConstants == /\ Names \cap {None, "new", "all", "private", "group", "channel"} = {} /\ MaxMoves \in Nat
                    /\ \A c \in Chats : TypeOf(c) \in 0..3

BuiltIn == {"all", "private", "group", "channel"}
TypeTab == [private |-> 0, group |-> 1, channel |-> 2]

VARIABLES
  here, archived, pinned, found, \* the chats of the list; of them, marked; whose name the search meets
  folders,        \* chatFolders: what a folder holds, by name
  tab, filter,    \* activeFolder; "all" or "archive"
  editor,         \* editFolder: whose it is ("new" or a name), and the draft
  n
vars == <<here, archived, pinned, found, folders, tab, filter, editor, n>>

Nothing == [types |-> {}, chats |-> {}]
Closed == [of |-> None, draft |-> Nothing]
Init == /\ here \in SUBSET Chats /\ archived \in SUBSET here /\ pinned \in SUBSET here /\ found = Chats
        /\ folders = [x \in {} |-> Nothing] /\ tab = "all" /\ filter = "all" /\ editor = Closed /\ n = 0

(* The chats a tab lets through.  A tab that is neither built in nor a folder narrows nothing. *)
InTab(c) == CASE tab \in DOMAIN folders -> c \in folders[tab].chats \/ TypeOf(c) \in folders[tab].types
              [] tab \in DOMAIN TypeTab -> TypeOf(c) = TypeTab[tab]
              [] OTHER -> TRUE
Listed == {c \in here \cap found : (filter = "archive" => c \in archived) /\ InTab(c)}
Section(name) ==
  CASE name = "saved" -> {c \in Listed : TypeOf(c) = 3 /\ filter = "all" /\ tab = "all"}
    [] name = "archived" -> {c \in Listed \cap archived : TypeOf(c) # 3}
    [] name = "pinned" -> {c \in Listed \cap (pinned \ archived) : TypeOf(c) # 3}
    [] name = "unpinned" -> {c \in Listed \ (pinned \cup archived) : TypeOf(c) # 3}
(* The archive shows its section alone; elsewhere that section is a line that opens it.        *)
Shown == IF filter = "archive" THEN Section("archived")
         ELSE UNION {Section(s) : s \in {"saved", "pinned", "unpinned"}}
-----------------------------------------------------------------------------
lists == <<here, archived, pinned>>
(* Another answer of getChats.                                                                 *)
ChatsCome == /\ n < MaxMoves /\ n' = n + 1 /\ here' \in SUBSET Chats
             /\ archived' \in SUBSET here' /\ pinned' \in SUBSET here'
             /\ UNCHANGED <<found, folders, tab, filter, editor>>
Search == /\ found' \in SUBSET Chats /\ found' # found /\ UNCHANGED <<lists, folders, tab, filter, editor, n>>

ChooseTab(t) == /\ editor = Closed /\ t \in BuiltIn \cup DOMAIN folders
                /\ tab' = t /\ filter' = "all" /\ UNCHANGED <<lists, found, folders, editor, n>>
OpenArchive == /\ filter = "all" /\ Section("archived") # {} /\ filter' = "archive"
               /\ UNCHANGED <<lists, found, folders, tab, editor, n>>
LeaveArchive == filter = "archive" /\ filter' = "all" /\ UNCHANGED <<lists, found, folders, tab, editor, n>>

EditFolder(f) == /\ editor = Closed /\ f \in DOMAIN folders \cup {"new"}
                 /\ editor' = [of |-> f, draft |-> IF f = "new" THEN Nothing ELSE folders[f]]
                 /\ UNCHANGED <<lists, found, folders, tab, filter, n>>
CloseEditor == /\ editor # Closed /\ editor' = Closed
               /\ UNCHANGED <<lists, found, folders, tab, filter, n>>
Toggled(s, x) == IF x \in s THEN s \ {x} ELSE s \cup {x}
TickType(t) == /\ editor # Closed /\ editor' = [editor EXCEPT !.draft.types = Toggled(@, t)]
               /\ UNCHANGED <<lists, found, folders, tab, filter, n>>
(* The rows of the editor.                                                                     *)
Offers == {c \in here : TypeOf(c) # 3}
TickChat(c) == /\ editor # Closed /\ c \in Offers
               /\ editor' = [editor EXCEPT !.draft.chats = Toggled(@, c)]
               /\ UNCHANGED <<lists, found, folders, tab, filter, n>>
(* A new folder becomes the tab; its id is new, the name may be any.                           *)
SaveFolder == /\ editor # Closed /\ editor' = Closed
              /\ \E f \in IF editor.of = "new" THEN Names \ DOMAIN folders ELSE {editor.of} :
                   /\ folders' = [x \in DOMAIN folders \cup {f} |-> IF x = f THEN editor.draft ELSE folders[x]]
                   /\ tab' = (IF editor.of = "new" THEN f ELSE tab)
              /\ UNCHANGED <<lists, found, filter, n>>
TabAfter == IF tab = editor.of THEN "all" ELSE tab
DeleteFolder == /\ editor.of \in DOMAIN folders /\ editor' = Closed /\ tab' = TabAfter
                /\ folders' = [x \in DOMAIN folders \ {editor.of} |-> folders[x]]
                /\ UNCHANGED <<lists, found, filter, n>>

Next == \/ ChatsCome \/ Search \/ OpenArchive \/ LeaveArchive \/ CloseEditor \/ SaveFolder \/ DeleteFolder
        \/ \E t \in BuiltIn \cup Names : ChooseTab(t)
        \/ \E f \in Names \cup {"new"} : EditFolder(f)
        \/ \E t \in 0..2 : TickType(t)
        \/ \E c \in Chats : TickChat(c)
Spec == Init /\ [][Next]_vars
-----------------------------------------------------------------------------
(* A chat the user put into a folder is under that folder's tab, or in the archive it leads    *)
(* to, whatever else was marked, made or deleted meanwhile, and the tab that narrows the list  *)
(* is built in or one of the folders there are: the compact sidebar narrows by it too and only *)
(* hides the tabs. (The memo "filtered" and the folder editor of DialogList.tsx, 460.)         *)
FolderShows ==
  /\ tab \in BuiltIn \cup DOMAIN folders
  /\ tab \in DOMAIN folders =>
       \A c \in folders[tab].chats \cap here \cap found : c \in Shown \cup Section("archived")
                                                           \/ (filter = "archive" /\ c \notin archived)
=============================================================================
