------------------------------- MODULE Layout -------------------------------
(***************************************************************************)
(* What the window shows: MainLayout.tsx with the flags of its panels, its *)
(* bottom bar and its widths, the menu and the items of DialogList.tsx,    *)
(* and the panels for favourites, contacts and the profile.                *)
(***************************************************************************)
EXTENDS Naturals

CONSTANTS Chats, None,
          MaxSlides \* bound for TLC: panels sliding out at a time
LayoutConstants == None \notin Chats /\ MaxSlides \in Nat

Widths == {"phone", "narrow", "mid", "wide"} \* below 768, to 1024, below 1280, from 1280

VARIABLES
  width,
  settings, favorites, profile, \* showSettings, showFavorites, showMobileProfile
  rootTab,                      \* of the bottom bar
  chat,                         \* currentChatId
  slides,                       \* timers of panels sliding out
  asked,                        \* history: what the user asked to see last
  odd                           \* history: what befell it: "covered", "undone", "slid"
vars == <<width, settings, favorites, profile, rootTab, chat, slides, asked, odd>>

(* The main area.                                                                              *)
Panel == IF settings THEN "settings" ELSE IF favorites THEN "favorites"
         ELSE IF profile /\ width = "phone" THEN "profile"
         ELSE IF rootTab = "contacts" THEN "contacts" ELSE "chat"
(* showChat: a phone has room for the list or for the main area.                               *)
ShowChat == settings \/ favorites \/ profile \/ rootTab = "contacts" \/ (rootTab = "chats" /\ chat # None)
Views == IF width = "phone" /\ ~ShowChat THEN {"list"}
         ELSE {Panel} \cup (IF width = "phone" THEN {} ELSE {"list"})
                      \cup (IF width = "wide" /\ settings THEN {"chat"} ELSE {})

Init == /\ width \in Widths /\ settings = FALSE /\ favorites = FALSE /\ profile = FALSE
        /\ rootTab = "chats" /\ chat = None /\ slides = 0 /\ asked = "list" /\ odd = {}
-----------------------------------------------------------------------------
Flags(s, f, p) == settings' = s /\ favorites' = f /\ profile' = p
Asks(v) == asked' = v /\ odd' = {}

(* The menu over the list.                                                                     *)
OpenSettings == /\ "list" \in Views /\ Flags(TRUE, FALSE, FALSE) /\ Asks("settings")
                /\ UNCHANGED <<width, rootTab, chat, slides>>
OpenFavorites == /\ "list" \in Views /\ Flags(FALSE, TRUE, FALSE) /\ Asks("favorites")
                 /\ rootTab' = (IF width = "phone" THEN "chats" ELSE rootTab)
                 /\ UNCHANGED <<width, chat, slides>>

(* Mutant: the settings stay where they are. *)
SlideOutNever == UNCHANGED <<settings, favorites, slides>>
(* closeSettingsOrPanelForChatSelect: beside a list the settings slide out first.              *)
SlideOut == \/ favorites /\ favorites' = FALSE /\ UNCHANGED <<settings, slides>>
            \/ /\ ~favorites /\ settings /\ width = "mid" /\ slides < MaxSlides
               /\ slides' = slides + 1 /\ UNCHANGED <<settings, favorites>>
            \/ /\ ~favorites /\ (width # "mid" \/ ~settings)
               /\ settings' = FALSE /\ UNCHANGED <<favorites, slides>>
(* An item of the list, a hit, or a chat just made.                                            *)
SelectChat(c) == /\ "list" \in Views /\ chat' = c /\ SlideOut /\ Asks("chat")
                 /\ UNCHANGED <<width, profile, rootTab>>
SlideEnds == /\ slides > 0 /\ slides' = slides - 1 /\ settings' = FALSE
             /\ odd' = odd \cup IF settings /\ asked = "settings" THEN {"slid"} ELSE {}
             /\ UNCHANGED <<width, favorites, profile, rootTab, chat, asked>>

HandleBack == Flags(FALSE, FALSE, FALSE) /\ chat' = None /\ rootTab' = "chats"
Back == width = "phone" /\ Panel = "chat" /\ HandleBack /\ Asks("list") /\ UNCHANGED <<width, slides>>
(* The arrow of the settings, of the favourites or of the contacts: beside a list, that of the *)
(* contacts does nothing.                                                                      *)
ClosePanel ==
  /\ Panel \in {"settings", "favorites", "contacts"}
  /\ IF width = "phone" THEN HandleBack /\ Asks("list")
     ELSE IF Panel = "contacts" THEN UNCHANGED <<settings, favorites, profile, rootTab, chat, asked, odd>>
     ELSE /\ Flags(settings /\ Panel # "settings", favorites /\ Panel # "favorites", profile)
          /\ Asks("chat") /\ UNCHANGED <<rootTab, chat>>
  /\ UNCHANGED <<width, slides>>

SelectFavorite(c) == /\ Panel = "favorites" /\ chat' = c /\ favorites' = FALSE /\ Asks("chat")
                     /\ UNCHANGED <<width, settings, profile, rootTab, slides>>
(* handleSelect opens the chat and then calls onClose, which on a phone goes back to the list. *)
SelectContact(c) ==
  /\ Panel = "contacts" /\ asked' = "chat"
  /\ IF width = "phone" THEN HandleBack /\ odd' = {"undone"}
     ELSE chat' = c /\ odd' = {} /\ UNCHANGED <<settings, favorites, profile, rootTab>>
  /\ UNCHANGED <<width, slides>>

(* The bottom bar.                                                                             *)
ChooseTab(t) == /\ width = "phone" /\ rootTab' = t /\ Flags(FALSE, FALSE, t = "profile")
                /\ Asks(IF t # "chats" THEN t ELSE IF chat = None THEN "list" ELSE "chat")
                /\ UNCHANGED <<width, chat, slides>>
ProfileSettings == /\ Panel = "profile" /\ Flags(TRUE, favorites, FALSE) /\ rootTab' = "chats"
                   /\ Asks("settings") /\ UNCHANGED <<width, chat, slides>>
CloseProfile == /\ Panel = "profile" /\ Flags(settings, favorites, FALSE) /\ rootTab' = "chats"
                /\ Asks(IF chat = None THEN "list" ELSE "chat") /\ UNCHANGED <<width, chat, slides>>

(* A notification, a toast or a link opens a chat: no panel is closed for it.                  *)
OpenElsewhere(c) == /\ chat' = c /\ asked' = "chat"
                    /\ odd' = IF Panel = "chat" THEN {} ELSE {"covered"}
                    /\ UNCHANGED <<width, settings, favorites, profile, rootTab, slides>>
Resize(w) == /\ w # width /\ width' = w
             /\ UNCHANGED <<settings, favorites, profile, rootTab, chat, slides>>
             /\ asked' \in Views' /\ odd' = {}

Next == \/ OpenSettings \/ OpenFavorites \/ SlideEnds \/ Back \/ ClosePanel
        \/ ProfileSettings \/ CloseProfile
        \/ \E c \in Chats : SelectChat(c) \/ SelectFavorite(c) \/ SelectContact(c) \/ OpenElsewhere(c)
        \/ \E t \in {"chats", "contacts", "profile"} : ChooseTab(t)
        \/ \E w \in Widths : Resize(w)
Spec == Init /\ [][Next]_vars
-----------------------------------------------------------------------------
(* What the user asked to see last is on the screen.  It is not while the settings slide out   *)
(* over it, when a chat was opened from outside under a panel or from the contacts of a phone, *)
(* when the timer of an earlier slide closed settings opened since, or while a tab of the      *)
(* bottom bar is still chosen after the window was resized: beside a list nothing then closes  *)
(* the contacts.  (MainLayout.tsx, its flags, timer and closeSettingsOrPanelForChatSelect.)    *)
AskedIsShown == \/ asked \in Views
                \/ slides > 0 /\ asked = "chat"
                \/ odd # {}
                \/ rootTab # "chats" /\ asked = "chat"
=============================================================================
