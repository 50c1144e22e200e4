---------------------------- MODULE PlacesProofs ----------------------------
(* What the panels, lists and strips of the window promise, and the chats and votes at the    *)
(* server: for every set of chats, folders, tabs, pages, options and users, and any number of  *)
(* requests under way.                                                                        *)
EXTENDS Places, SequenceTheorems, FiniteSetTheorems, TLAPS

-----------------------------------------------------------------------------
(* The panels over each other (Layout): s1 is the width, s2 to s4 the settings, the favourites *)
(* and the profile, s5 the bottom bar, s6 the chat, s7 the slides, s8 what was asked, s9 odd.  *)
LayoutTypes ==
  /\ s1 \in L!Widths /\ s2 \in BOOLEAN /\ s3 \in BOOLEAN /\ s4 \in BOOLEAN
  /\ s5 \in {"chats", "contacts", "profile"} /\ s7 \in Nat
  /\ s8 \in {"list", "settings", "favorites", "chat", "contacts", "profile"}
(* The settings and the favourites are not open together, nor the profile without its tab; and *)
(* what waits for the end of a slide is only hidden by the settings that slide.                *)
LayoutInv ==
  /\ LayoutTypes
  /\ ~(s2 /\ s3)
  /\ s4 => s5 = "profile"
  /\ \/ s8 \in L!Views
     \/ s7 > 0 /\ s8 = "chat" /\ s2 /\ s1 = "mid"
     \/ s9 # {}
     \/ s5 # "chats" /\ s8 = "chat"

(* It holds at the start.                                                                     *)
LEMMA LayoutInit == ASSUME L!Init PROVE LayoutInv
BY DEF L!Init, LayoutInv, LayoutTypes, L!Views, L!ShowChat, L!Panel, L!Widths

LEMMA LayoutHeld == ASSUME LayoutInv PROVE L!AskedIsShown
BY DEF LayoutInv, L!AskedIsShown

(* And every step keeps it.                                                                   *)
LEMMA LayoutStep == ASSUME LayoutInv, L!Next PROVE LayoutInv'
<1>1. CASE L!SlideEnds
  <2>1. \A p, q : p # {} => p \cup q # {} OBVIOUS
  <2>2. s9 # {} => s9' # {} BY <1>1, <2>1 DEF L!SlideEnds
  <2>3. s2 /\ s8 = "settings" => s9' # {} BY <1>1 DEF L!SlideEnds
  <2>4. s7 > 0 /\ s7' = s7 - 1 /\ s2' = FALSE /\ UNCHANGED <<s1, s3, s4, s5, s6, s8>>
    BY <1>1 DEF L!SlideEnds
  <2>5. LayoutTypes BY DEF LayoutInv
  <2>6. LayoutTypes'
    <3>1. s7' \in Nat BY <2>4, <2>5 DEF LayoutTypes
    <3>2. s1' \in L!Widths BY <2>4, <2>5 DEF LayoutTypes
    <3>3. s2' \in BOOLEAN /\ s3' \in BOOLEAN /\ s4' \in BOOLEAN BY <2>4, <2>5 DEF LayoutTypes
    <3>4. s8' \in {"list", "settings", "favorites", "chat", "contacts", "profile"} BY <2>4, <2>5 DEF LayoutTypes
    <3>5. s5' \in {"chats", "contacts", "profile"} BY <2>4, <2>5 DEF LayoutTypes
    <3>6. QED BY <3>1, <3>2, <3>3, <3>4, <3>5 DEF LayoutTypes
  <2>7. CASE ~s2
    <3>1. L!Views' = L!Views BY <2>4, <2>7 DEF L!Views, L!ShowChat, L!Panel
    <3>2. QED BY <2>2, <2>4, <2>6, <2>7, <3>1 DEF LayoutInv
  <2>8. CASE s2 /\ s8 = "settings" BY <2>3, <2>4, <2>6, <2>8 DEF LayoutInv
  <2>9. CASE s2 /\ s8 # "settings"
    <3>1. s2 /\ ~s2' /\ ~s3 /\ ~s3' /\ s5' = s5 /\ s8' = s8 BY <2>4, <2>9 DEF LayoutInv
    <3>2. s8 \in L!Views => s8 = "chat" \/ (s8 = "list" /\ s1 # "phone")
      BY <2>5, <2>9, <3>1 DEF LayoutTypes, L!Views, L!ShowChat, L!Panel
    <3>3. s8 = "list" /\ s1 # "phone" => s8' \in L!Views' BY <2>4 DEF L!Views
    <3>4. s1 # "phone" /\ s5 = "chats" => "chat" \in L!Views'
      BY <2>4, <3>1 DEF L!Views, L!Panel
    <3>5. s1 = "phone" => s8 \notin L!Views \/ s8 = "settings"
      BY <3>1 DEF L!Views, L!ShowChat, L!Panel
    <3>6. s4' => s5' = "profile" BY <2>4 DEF LayoutInv
    <3>7. QED BY <2>2, <2>4, <2>6, <2>9, <3>1, <3>2, <3>3, <3>4, <3>5, <3>6 DEF LayoutInv
  <2>10. QED BY <2>7, <2>8, <2>9
<1> USE LayoutAssumption DEF LayoutInv, LayoutTypes, L!Asks, L!Flags, L!LayoutConstants,
         L!Views, L!ShowChat, L!Panel, L!Widths
<1>3. CASE L!OpenSettings BY <1>3 DEF L!OpenSettings
<1>4. CASE L!OpenFavorites BY <1>4 DEF L!OpenFavorites
<1>6. CASE L!Back BY <1>6 DEF L!Back, L!HandleBack
<1>7. CASE L!ClosePanel BY <1>7 DEF L!ClosePanel, L!HandleBack
<1>8. CASE L!ProfileSettings BY <1>8 DEF L!ProfileSettings
<1>9. CASE L!CloseProfile BY <1>9 DEF L!CloseProfile
<1>10. ASSUME NEW c \in ChatSet, L!SelectChat(c) PROVE LayoutInv'
  <2>1. CASE s3 /\ s3' = FALSE /\ UNCHANGED <<s2, s7>> BY <1>10, <2>1 DEF L!SelectChat
  <2>2. CASE ~s3 /\ s2 /\ s1 = "mid" /\ s7' = s7 + 1 /\ UNCHANGED <<s2, s3>>
    <3>1. s7' \in Nat /\ s7' > 0 BY <2>2
    <3>2. s8' = "chat" /\ UNCHANGED <<s1, s2, s3, s4, s5>> BY <1>10, <2>2 DEF L!SelectChat
    <3> HIDE DEF L!Views, L!ShowChat, L!Panel, L!Widths
    <3>3. QED BY <2>2, <3>1, <3>2
  <2>3. CASE ~s3 /\ (s1 # "mid" \/ ~s2) /\ s2' = FALSE /\ UNCHANGED <<s3, s7>>
    BY <1>10, <2>3 DEF L!SelectChat
  <2>4. QED BY <1>10, <2>1, <2>2, <2>3 DEF L!SelectChat, L!SlideOut
<1>11. ASSUME NEW c \in ChatSet, L!SelectFavorite(c) PROVE LayoutInv' BY <1>11 DEF L!SelectFavorite
<1>12. ASSUME NEW c \in ChatSet, L!SelectContact(c) PROVE LayoutInv'
  BY <1>12 DEF L!SelectContact, L!HandleBack
<1>13. ASSUME NEW c \in ChatSet, L!OpenElsewhere(c) PROVE LayoutInv' BY <1>13 DEF L!OpenElsewhere
<1>14. ASSUME NEW t \in {"chats", "contacts", "profile"}, L!ChooseTab(t) PROVE LayoutInv'
  BY <1>14 DEF L!ChooseTab
<1>15. ASSUME NEW w \in L!Widths, L!Resize(w) PROVE LayoutInv' BY <1>15 DEF L!Resize
<1>16. QED
  <2> HIDE LayoutAssumption DEF LayoutInv, LayoutTypes, L!Asks, L!Flags, L!LayoutConstants,
            L!Views, L!ShowChat, L!Panel, L!Widths
  <2> QED
    BY <1>1, <1>3, <1>4, <1>6, <1>7, <1>8, <1>9, <1>10, <1>11, <1>12, <1>13, <1>14, <1>15
    DEF L!Next

-----------------------------------------------------------------------------
(* The panel on a chat (InfoPanel): s1 is the chat it is on, s2 the mount, s3 what it shows,   *)
(* s5 its bell, s6 the requests, s7 the silent chats, s9 what is late and s10 unsure.          *)

(* A load is of the chat that is open, an answer that no change overtook is true.              *)
InfoShape(t) == t \in [op : {t.op}, chat : {t.chat}, mount : {t.mount}, arg : {t.arg}, id : {t.id},
                       served : BOOLEAN, past : BOOLEAN]
InfoRequest(t) ==
  /\ InfoShape(t) /\ t.chat \in ChatSet
  /\ t.op \in {"chat", "members"} => t.chat = s1
  /\ t.op = "tab" => t.arg \in Tabs /\ s1 # Nil
  /\ t.served /\ ~t.past => (t.arg = "silence" <=> t.chat \in s7)
Bell == s1 # Nil /\ s3["chat"] # Nil /\ ~s10 /\ I!Told => (s5 <=> s3["chat"] \in s7)
InfoTypes == /\ s1 \in ChatSet \cup {Nil} /\ s3 \in [I!Pieces -> ChatSet \cup {Nil}]
             /\ s4 \in Tabs \cup {"members"} /\ s5 \in BOOLEAN /\ s10 \in BOOLEAN
InfoInv ==
  /\ InfoTypes
  /\ \A t \in s6 : InfoRequest(t)
  /\ s1 # Nil => \A p \in I!Pieces \ s9 : s3[p] \in {s1, Nil}
  /\ Bell

(* It holds at the start, and says what is checked.                                           *)
LEMMA InfoInit == ASSUME I!Init PROVE InfoInv
BY DEF I!Init, InfoInv, InfoTypes, Bell, I!Told
LEMMA InfoHeld == ASSUME InfoInv PROVE I!PanelHere
<1>1. "chat" \in I!Pieces BY DEF I!Pieces
<1>2. QED BY <1>1 DEF InfoInv, InfoTypes, Bell, I!PanelHere

(* A request begins, for the chat the panel is on then.                                       *)
LEMMA InfoBegins ==
  ASSUME NEW op, NEW c \in ChatSet, NEW arg, NEW m, op \in {"chat", "members"} => c = s1',
         op = "tab" => arg \in Tabs /\ s1' # Nil, NEW t, t = I!Task(op, c, arg, m)
  PROVE  InfoRequest(t)' /\ t.op = op /\ ~t.served
BY DEF I!Task, InfoRequest, InfoShape

(* A request that is served is the same but for that.                                         *)
LEMMA InfoServed ==
  ASSUME NEW t, InfoShape(t), NEW s, s = [t EXCEPT !.served = TRUE]
  PROVE  /\ InfoShape(s) /\ s.op = t.op /\ s.chat = t.chat /\ s.mount = t.mount /\ s.arg = t.arg
         /\ s.served = TRUE /\ s.past = t.past
BY DEF InfoShape

(* A request for another chat under way keeps what it says of its own.                        *)
LEMMA InfoOvertaken ==
  ASSUME NEW c, NEW t, InfoRequest(t), s1' = s1,
         \A d \in ChatSet : d # c => (d \in s7' <=> d \in s7),
         NEW s, s = IF t.chat = c /\ t.served THEN [t EXCEPT !.past = TRUE] ELSE t
  PROVE  /\ InfoRequest(s)' /\ s.op = t.op /\ s.chat = t.chat /\ s.mount = t.mount
         /\ s.served = t.served
<1>1. CASE t.chat = c /\ t.served
  <2>1. /\ InfoShape(s) /\ s.op = t.op /\ s.chat = t.chat /\ s.mount = t.mount /\ s.arg = t.arg
        /\ s.served = t.served /\ s.past = TRUE
    BY <1>1 DEF InfoRequest, InfoShape
  <2>2. QED BY <2>1 DEF InfoRequest
<1>2. CASE ~(t.chat = c /\ t.served) BY <1>2 DEF InfoRequest
<1>3. QED BY <1>1, <1>2

(* Every step keeps it.                                                                       *)
LEMMA InfoStep == ASSUME InfoInv, I!Next PROVE InfoInv'
<1>1. /\ Nil \notin ChatSet /\ {"chat", "members", "invite"} \cap Tabs = {}
      /\ "chat" \in I!Pieces /\ "members" \in I!Pieces /\ "invite" \in I!Pieces
      /\ \A p \in Tabs : p \in I!Pieces /\ p \notin {"chat", "members", "invite"}
  BY InfoPanelAssumption DEF I!InfoPanelConstants, I!Pieces
<1>2. /\ \A t \in s6 : InfoRequest(t)
      /\ s1 # Nil => \A p \in I!Pieces \ s9 : s3[p] \in {s1, Nil}
      /\ InfoTypes /\ Bell
  BY DEF InfoInv
(* Nothing the invariant speaks of changes but the requests, and no press of the bell that is served. *)
<1>3. ASSUME UNCHANGED <<s1, s2, s3, s4, s5, s7, s9, s10>>, \A t \in s6' : InfoRequest(t)',
             \A t \in s6 : t.op = "mute" /\ t.served => t \in s6'
      PROVE  InfoInv'
  <2>1. I!Told' => I!Told BY <1>3 DEF I!Told
  <2>2. Bell' BY <1>2, <1>3, <2>1 DEF Bell
  <2>3. InfoTypes' BY <1>2, <1>3 DEF InfoTypes
  <2>4. QED BY <1>2, <1>3, <2>2, <2>3 DEF InfoInv
<1>4. ASSUME UNCHANGED <<s1, s7>>, NEW t \in s6 PROVE InfoRequest(t)'
  BY <1>2, <1>4 DEF InfoRequest
<1>5. CASE I!Close
  <2>1. s1' = Nil /\ UNCHANGED <<s3, s4, s5, s7, s10>> /\ s6' = {t \in s6 : t.op \in {"mute", "act"}}
    BY <1>5 DEF I!Close
  <2>2. \A t \in s6' : InfoRequest(t)' BY <1>2, <2>1 DEF InfoRequest
  <2>3. InfoTypes' /\ Bell' BY <1>2, <2>1 DEF InfoTypes, Bell
  <2>4. QED BY <2>1, <2>2, <2>3 DEF InfoInv
<1>6. CASE I!Mute
  <2>1. PICK arg : s6' = s6 \cup {I!Task("mute", s1, arg, s2)} /\ s1 # Nil
    BY <1>6 DEF I!Mute, I!Ready
  <2>2. UNCHANGED <<s1, s2, s3, s4, s5, s7, s9, s10>> BY <1>6 DEF I!Mute
  <2>3. s1 \in ChatSet BY <1>2, <2>1 DEF InfoTypes
  <2>4. \A t \in s6' : InfoRequest(t)' BY <1>4, <2>1, <2>2, <2>3, InfoBegins
  <2>5. QED BY <1>3, <2>1, <2>2, <2>4
<1>7. ASSUME NEW k \in I!Acts, I!Act(k) PROVE InfoInv'
  <2>1. s6' = s6 \cup {I!Task("act", s1, I!Into(k), s2)} /\ s1 # Nil
    BY <1>7 DEF I!Act, I!Ready
  <2>2. UNCHANGED <<s1, s2, s3, s4, s5, s7, s9, s10>> BY <1>7 DEF I!Act
  <2>3. s1 \in ChatSet BY <1>2, <2>1 DEF InfoTypes
  <2>4. \A t \in s6' : InfoRequest(t)' BY <1>4, <2>1, <2>2, <2>3, InfoBegins
  <2>5. QED BY <1>3, <2>1, <2>2, <2>4
<1>8. ASSUME NEW u \in Tabs \cup {"members"}, I!ChooseTab(u) PROVE InfoInv'
  <2>1. /\ s1 # Nil /\ s4' = u /\ UNCHANGED <<s1, s2, s3, s5, s7, s9, s10>>
        /\ s6' = s6 \cup (IF u = "members" THEN {} ELSE {I!Task("tab", s1, u, s2)})
    BY <1>8 DEF I!ChooseTab
  <2>2. s1 \in ChatSet BY <1>2, <2>1 DEF InfoTypes
  <2>3. \A t \in s6' : InfoRequest(t)' BY <1>4, <2>1, <2>2, InfoBegins
  <2>4. I!Told' => I!Told BY <2>1 DEF I!Told
  <2>5. Bell' /\ InfoTypes' BY <1>2, <2>1, <2>4 DEF Bell, InfoTypes
  <2>6. QED BY <1>2, <2>1, <2>3, <2>5 DEF InfoInv
<1>9. ASSUME NEW c \in ChatSet, NEW u, NEW m, u \in Tabs \cup {"members"}, s1' = c
      PROVE  \A t \in I!Loads(c, u, m) : InfoRequest(t)'
  <2>1. ASSUME NEW t, t = I!Task("chat", c, "", m) PROVE InfoRequest(t)'
    BY <1>9, <2>1 DEF I!Task, InfoRequest, InfoShape
  <2>2. ASSUME NEW t, u # "members", t = I!Task("tab", c, u, m) PROVE InfoRequest(t)'
    BY <1>1, <1>9, <2>2 DEF I!Task, InfoRequest, InfoShape
  <2>3. QED BY <2>1, <2>2 DEF I!Loads
<1>10. ASSUME NEW c \in ChatSet, I!Show(c) PROVE InfoInv'
  <2>1. /\ s1 = Nil /\ s1' = c /\ s4' \in Tabs /\ s3' = [p \in I!Pieces |-> Nil] /\ s5' = FALSE
        /\ s6' = s6 \cup I!Loads(c, s4', s2') /\ s10' = FALSE /\ s7' = s7
    BY <1>10 DEF I!Show
  <2>2. \A t \in s6 : InfoRequest(t)' BY <1>1, <1>2, <2>1 DEF InfoRequest
  <2>3. \A t \in s6' : InfoRequest(t)' BY <1>9, <2>1, <2>2
  <2>4. InfoTypes' /\ Bell' BY <1>1, <2>1 DEF InfoTypes, Bell
  <2>5. QED BY <2>1, <2>3, <2>4 DEF InfoInv
<1>11. ASSUME NEW c \in ChatSet, I!OpenChat(c) PROVE InfoInv'
  <2>1. /\ s1 # Nil /\ s1' = c /\ UNCHANGED <<s2, s3, s4, s5, s7, s10>>
        /\ s6' = I!Cancelled(s6) \cup I!Loads(c, s4, s2)
        /\ s9' = {p \in I!Pieces : s3[p] \notin {Nil, c}}
    BY <1>11 DEF I!OpenChat
  <2>2. \A t \in I!Cancelled(s6) : InfoRequest(t)' BY <1>1, <1>2, <2>1 DEF InfoRequest, I!Cancelled
  <2>3. \A t \in s6' : InfoRequest(t)' BY <1>2, <1>9, <2>1, <2>2 DEF InfoTypes
  <2>4. I!Told' => I!Told BY <2>1 DEF I!Told, I!Cancelled
  <2>5. InfoTypes' /\ Bell' BY <1>2, <2>1, <2>4 DEF InfoTypes, Bell
  <2>6. QED BY <2>1, <2>3, <2>5 DEF InfoInv
(* An answer takes a request away and changes at most a list or a link.                       *)
<1>12. ASSUME NEW t \in s6, t.op # "mute", s6' = s6 \ {t}, UNCHANGED <<s1, s2, s4, s5, s7, s10>>,
              InfoTypes', s3'["chat"] = s3["chat"],
              s1 # Nil => \A p \in I!Pieces \ s9' : s3'[p] \in {s1, Nil}
       PROVE  InfoInv'
  <2>1. I!Told' => I!Told BY <1>12 DEF I!Told
  <2>2. Bell' BY <1>2, <1>12, <2>1 DEF Bell
  <2>3. \A s \in s6' : InfoRequest(s)' BY <1>4, <1>12
  <2>4. QED BY <1>12, <2>2, <2>3 DEF InfoInv
<1>13. ASSUME NEW p \in I!Pieces, p # "chat", NEW c \in ChatSet \cup {Nil}, I!Takes(p, c), s1' = s1,
              UNCHANGED <<s4, s5, s10>>
       PROVE  /\ InfoTypes' /\ s3'["chat"] = s3["chat"]
              /\ s1 # Nil => \A q \in I!Pieces \ s9' : s3'[q] \in {s1, Nil}
  BY <1>1, <1>2, <1>13 DEF I!Takes, InfoTypes
<1>14. ASSUME NEW t \in s6, I!MembersLoaded(t) PROVE InfoInv'
  <2>1. /\ t.op = "members" /\ s6' = s6 \ {t} /\ s3' = [s3 EXCEPT !["members"] = t.chat]
        /\ s9' = s9 \ {"members"} /\ UNCHANGED <<s1, s2, s4, s5, s7, s10>>
    BY <1>14 DEF I!MembersLoaded
  <2>2. t.chat = s1 /\ t.chat \in ChatSet BY <1>2, <2>1 DEF InfoRequest
  <2>3. InfoTypes' /\ s3'["chat"] = s3["chat"] BY <1>1, <1>2, <2>1, <2>2 DEF InfoTypes
  <2>4. s1 # Nil => \A p \in I!Pieces \ s9' : s3'[p] \in {s1, Nil}
    BY <1>1, <1>2, <2>1, <2>2 DEF InfoTypes
  <2>5. QED BY <1>12, <2>1, <2>3, <2>4
<1>15. ASSUME NEW t \in s6, NEW ok \in BOOLEAN, I!TabLoaded(t, ok) PROVE InfoInv'
  <2>1. /\ t.op = "tab" /\ s6' = s6 \ {t} /\ I!Takes(t.arg, IF ok THEN t.chat ELSE Nil)
        /\ UNCHANGED <<s1, s2, s4, s5, s7, s10>>
    BY <1>15 DEF I!TabLoaded
  <2>2. t.arg \in Tabs /\ t.chat \in ChatSet BY <1>2, <2>1 DEF InfoRequest
  <2>3. QED BY <1>1, <1>12, <1>13, <2>1, <2>2
<1>16. ASSUME NEW t \in s6, NEW ok \in BOOLEAN, I!ActDone(t, ok) PROVE InfoInv'
  <2>1. t.op = "act" /\ s6' = s6 \ {t} /\ UNCHANGED <<s1, s2, s4, s5, s7, s10>>
    BY <1>16 DEF I!ActDone
  <2>2. t.chat \in ChatSet BY <1>2 DEF InfoRequest
  <2>3. CASE I!Takes("invite", t.chat) BY <1>1, <1>12, <1>13, <2>1, <2>2, <2>3
  <2>4. CASE UNCHANGED s3 /\ s9 \subseteq s9'
    <3>1. InfoTypes' BY <1>2, <2>1, <2>4 DEF InfoTypes
    <3>2. QED BY <1>2, <1>12, <2>1, <2>4, <3>1
  <2>5. QED BY <1>16, <2>3, <2>4 DEF I!ActDone
<1>17. ASSUME NEW t \in s6, NEW found \in BOOLEAN, I!ChatLoaded(t, found) PROVE InfoInv'
  <2>1. /\ t.op = "chat" /\ (found => t.served) /\ UNCHANGED <<s1, s2, s4, s7>>
        /\ s6' = (s6 \ {t}) \cup {I!Task("members", t.chat, "", s2)}
    BY <1>17 DEF I!ChatLoaded
  <2>2. InfoRequest(t) /\ t.chat = s1 /\ t.chat \in ChatSet BY <1>2, <2>1 DEF InfoRequest
  <2>3. \A s \in s6' : InfoRequest(s)'
    <3>1. \A s \in s6 : InfoRequest(s)' BY <1>4, <2>1
    <3>2. ASSUME NEW s, s = I!Task("members", t.chat, "", s2) PROVE InfoRequest(s)'
      BY <2>1, <2>2, <3>2 DEF I!Task, InfoRequest, InfoShape
    <3>3. QED BY <2>1, <3>1, <3>2
  <2>4. CASE ~found
    <3>1. UNCHANGED <<s3, s5, s9, s10>> BY <1>17, <2>4 DEF I!ChatLoaded
    <3>2. QED BY <1>3, <2>1, <2>3, <3>1
  <2>5. CASE found
    <3> DEFINE ps == {"chat"} \cup (IF t.chat \in Invite THEN {"invite"} ELSE {})
    <3>1. /\ s3' = [p \in I!Pieces |-> IF p \in ps THEN t.chat ELSE s3[p]]
          /\ s9' = s9 \ ps /\ s5' = (t.arg = "silence") /\ s10' = t.past
      BY <1>17, <2>5 DEF I!ChatLoaded
    <3>2. s3'["chat"] = t.chat BY <1>1, <3>1
    <3>7. t.served /\ (~t.past => (t.arg = "silence" <=> t.chat \in s7))
      BY <2>1, <2>2, <2>5 DEF InfoRequest
    <3>8. ~s10' => (s5' <=> t.chat \in s7') BY <2>1, <3>1, <3>7
    <3>3. Bell' BY <3>2, <3>8 DEF Bell
    <3>4. InfoTypes' BY <1>2, <2>1, <2>2, <3>1 DEF InfoTypes, InfoRequest, InfoShape
    <3>5. \A p \in I!Pieces \ s9' : s3'[p] \in {s1', Nil} \/ s1' = Nil
      BY <1>2, <2>1, <2>2, <3>1
    <3>6. QED BY <2>3, <3>3, <3>4, <3>5 DEF InfoInv
  <2>6. QED BY <2>4, <2>5
<1>18. ASSUME NEW t \in s6, NEW ok \in BOOLEAN, I!MuteDone(t, ok) PROVE InfoInv'
  <2>1. /\ t.op = "mute" /\ (ok => t.served) /\ s6' = s6 \ {t}
        /\ UNCHANGED <<s1, s2, s3, s4, s7, s9>>
    BY <1>18 DEF I!MuteDone
  <2>2. InfoRequest(t) BY <1>2
  <2>3. \A s \in s6' : InfoRequest(s)' BY <1>4, <2>1
  <2>4. InfoTypes' BY <1>2, <1>18, <2>1, <2>2 DEF InfoTypes, I!MuteDone, InfoRequest
  <2>5. CASE s1 = Nil BY <1>2, <2>1, <2>3, <2>4, <2>5 DEF InfoInv, Bell
  <2>6. CASE s1 # Nil /\ t.mount = s2 /\ ok
    <3>1. s5' = (t.arg = "silence") /\ s10' = (t.past \/ t.chat # s3["chat"])
      BY <1>18, <2>6 DEF I!MuteDone
    <3>2. Bell' BY <2>1, <2>2, <2>6, <3>1 DEF Bell, InfoRequest
    <3>3. QED BY <1>2, <2>1, <2>3, <2>4, <3>2 DEF InfoInv
  <2>7. CASE s1 # Nil /\ ~(t.mount = s2 /\ ok)
    <3>1. s5' = s5 /\ (~s10' => ~s10 /\ (t.mount = s2 => ~(t.served /\ t.chat = s3["chat"])))
      BY <1>2, <1>18, <2>7 DEF I!MuteDone, InfoTypes
    <3>2. ~s10' /\ I!Told' => I!Told BY <2>1, <3>1 DEF I!Told
    <3>3. Bell' BY <1>2, <2>1, <3>1, <3>2 DEF Bell
    <3>4. QED BY <1>2, <2>1, <2>3, <2>4, <3>3 DEF InfoInv
  <2>8. QED BY <2>5, <2>6, <2>7
<1>19. ASSUME NEW t \in s6, I!ChatRead(t) PROVE InfoInv'
  <2> DEFINE said == IF t.chat \in s7 THEN "silence" ELSE "sound"
             r == [t EXCEPT !.served = TRUE, !.arg = said]
  <2>1. /\ t.op = "chat" /\ s6' = (s6 \ {t}) \cup {r}
        /\ UNCHANGED <<s1, s2, s3, s4, s5, s7, s9, s10>>
    BY <1>19 DEF I!ChatRead
  <2>5. InfoRequest(t) BY <1>2
  <2>6. /\ InfoShape(r) /\ r.op = t.op /\ r.chat = t.chat /\ r.mount = t.mount
        /\ r.served = TRUE /\ r.past = t.past /\ r.arg = said
    <3>1. InfoShape(t) BY <2>5 DEF InfoRequest
    <3> HIDE DEF said
    <3>2. PICK arg : arg = said OBVIOUS
    <3>3. PICK s : s = [t EXCEPT !.served = TRUE, !.arg = arg] OBVIOUS
    <3>4. s = r BY <3>2, <3>3
    <3>5. /\ InfoShape(s) /\ s.op = t.op /\ s.chat = t.chat /\ s.mount = t.mount
          /\ s.served = TRUE /\ s.past = t.past /\ s.arg = arg
      BY <3>1, <3>3 DEF InfoShape
    <3> HIDE DEF r
    <3>6. QED BY <3>2, <3>4, <3>5
  <2> HIDE DEF r
  <2>2. \A s : s = r => InfoRequest(s)' BY <2>1, <2>5, <2>6 DEF InfoRequest
  <2>3. \A s \in s6' : InfoRequest(s)' BY <1>4, <2>1, <2>2
  <2>4. QED BY <1>3, <2>1, <2>3
<1>20. ASSUME NEW t \in s6, I!MuteChat(t) PROVE InfoInv'
  <2> DEFINE r == [t EXCEPT !.served = TRUE]
  <2>1. /\ t.op = "mute" /\ ~t.served /\ UNCHANGED <<s1, s2, s3, s4, s5, s9>>
        /\ s6' = I!Overtaken(t.chat, s6 \ {t}) \cup {r}
        /\ s7' = IF t.arg = "silence" THEN s7 \cup {t.chat} ELSE s7 \ {t.chat}
        /\ s10' = (s10 \/ (t.mount # s2 /\ t.chat = s3["chat"]))
    BY <1>20 DEF I!MuteChat, I!Set
  <2>2. InfoRequest(t) /\ \A d \in ChatSet : d # t.chat => (d \in s7' <=> d \in s7) BY <1>2, <2>1
  <2>3. /\ InfoRequest(r)' /\ r.op = "mute" /\ r.chat = t.chat /\ r.mount = t.mount /\ r.served
        /\ t.chat \in s7' <=> t.arg = "silence"
    <3>1. /\ InfoShape(r) /\ r.op = t.op /\ r.chat = t.chat /\ r.mount = t.mount
          /\ r.served = TRUE /\ r.past = t.past /\ r.arg = t.arg
      <4>1. InfoShape(t) BY <2>2 DEF InfoRequest
      <4>2. QED BY <4>1, InfoServed
    <3>2. t.chat \in s7' <=> t.arg = "silence" BY <2>1
    <3> HIDE DEF r
    <3>3. \A s : s = r => InfoRequest(s)'
      BY <2>1, <2>2, <3>1, <3>2 DEF InfoRequest
    <3>4. QED BY <2>1, <3>1, <3>2, <3>3
  <2>4. ASSUME NEW s \in I!Overtaken(t.chat, s6 \ {t}) PROVE InfoRequest(s)'
    <3>1. PICK q \in s6 : s = IF q.chat = t.chat /\ q.served THEN [q EXCEPT !.past = TRUE] ELSE q
      BY <2>4 DEF I!Overtaken
    <3>2. QED BY <1>2, <2>1, <2>2, <3>1, InfoOvertaken
  <2>5. ASSUME NEW s \in s6 \ {t}
        PROVE  \E q \in s6' : /\ q.op = s.op /\ q.chat = s.chat /\ q.mount = s.mount
                              /\ q.served = s.served
    <3>1. PICK q : q = IF s.chat = t.chat /\ s.served THEN [s EXCEPT !.past = TRUE] ELSE s OBVIOUS
    <3>4. q \in I!Overtaken(t.chat, s6 \ {t}) BY <3>1 DEF I!Overtaken
    <3>2. q \in s6' BY <2>1, <3>4
    <3>5. InfoRequest(s) BY <1>2
    <3>6. q.op = s.op /\ q.chat = s.chat /\ q.mount = s.mount /\ q.served = s.served
      BY <2>1, <2>2, <3>1, <3>5, InfoOvertaken
    <3>3. QED BY <3>2, <3>6
  <2>6. I!Told' => I!Told /\ ~(t.mount = s2 /\ t.chat = s3["chat"])
    <3>1. r \in s6' BY <2>1
    <3>2. I!Told' => ~(t.mount = s2 /\ t.chat = s3["chat"]) BY <2>1, <2>3, <3>1 DEF I!Told
    <3>3. ASSUME I!Told', NEW s \in s6, s.op = "mute", s.mount = s2, s.chat = s3["chat"]
          PROVE  ~s.served
      <4>1. CASE s = t BY <2>1, <4>1
      <4>2. CASE s # t
        <5>1. PICK q \in s6' : q.op = s.op /\ q.chat = s.chat /\ q.mount = s.mount /\ q.served = s.served
          BY <2>5, <4>2
        <5>2. QED BY <2>1, <3>3, <5>1 DEF I!Told
      <4>3. QED BY <4>1, <4>2
    <3>4. QED BY <3>2, <3>3 DEF I!Told
  <2>7. InfoTypes' BY <1>2, <2>1 DEF InfoTypes
  <2>8. Bell' BY <1>2, <2>1, <2>2, <2>6, <1>1 DEF Bell, InfoTypes
  <2>9. QED BY <1>2, <2>1, <2>3, <2>4, <2>7, <2>8 DEF InfoInv
<1>21. ASSUME NEW c \in ChatSet, I!MuteElsewhere(c) PROVE InfoInv'
  <2>1. /\ UNCHANGED <<s1, s2, s3, s4, s5, s9>> /\ s6' = I!Overtaken(c, s6)
        /\ s7' = IF c \notin s7 THEN s7 \cup {c} ELSE s7 \ {c}
        /\ s10' = (s10 \/ c = s3["chat"])
    BY <1>21 DEF I!MuteElsewhere, I!Set
  <2>2. \A d \in ChatSet : d # c => (d \in s7' <=> d \in s7) BY <2>1
  <2>3. ASSUME NEW s \in s6' PROVE InfoRequest(s)'
    <3>1. PICK q \in s6 : s = IF q.chat = c /\ q.served THEN [q EXCEPT !.past = TRUE] ELSE q
      BY <2>1, <2>3 DEF I!Overtaken
    <3>2. QED BY <1>2, <2>1, <2>2, <3>1, InfoOvertaken
  <2>4. ASSUME NEW s \in s6
        PROVE  \E q \in s6' : /\ q.op = s.op /\ q.chat = s.chat /\ q.mount = s.mount
                              /\ q.served = s.served
    <3>1. PICK q : q = IF s.chat = c /\ s.served THEN [s EXCEPT !.past = TRUE] ELSE s OBVIOUS
    <3>2. q \in s6' BY <2>1, <2>4, <3>1 DEF I!Overtaken
    <3>3. QED BY <1>2, <2>1, <2>2, <3>1, <3>2, InfoOvertaken
  <2>5. I!Told' => I!Told BY <2>1, <2>4 DEF I!Told
  <2>6. InfoTypes' BY <1>2, <2>1 DEF InfoTypes
  <2>7. Bell' BY <1>1, <1>2, <2>1, <2>2, <2>5 DEF Bell, InfoTypes
  <2>8. QED BY <1>2, <2>1, <2>3, <2>6, <2>7 DEF InfoInv
<1>22. QED
  BY <1>5, <1>6, <1>7, <1>8, <1>10, <1>11, <1>14, <1>15, <1>16, <1>17, <1>18, <1>19, <1>20, <1>21
  DEF I!Next

-----------------------------------------------------------------------------
(* The list of chats (ChatList): s1 is the log, s2 the copy, s3 the list, s4 the loads, s5 the *)
(* operations, s6 the events under way and s8 the oddities.                                    *)
ListLoad(l) == l \in [n : {l.n}, for : {"list", "chat"}, at : {"asked", "served", "presence"},
                      snap : Nat \cup {Nil}]
ListTypes ==
  /\ s1 \in Seq(C!Own \cup {"peer"}) /\ s6 \in Nat
  /\ s2 \in {Nil} \cup 0..Len(s1) /\ s3 \in {Nil} \cup 0..Len(s1)
  /\ \A l \in s4 : ListLoad(l) /\ (l.at = "served" => l.snap \in 0..Len(s1))
  /\ \A o \in s5 : o \in [kind : C!Own, served : BOOLEAN]

(* A load that will bring the first i changes to the list; with no request failed, event lost  *)
(* or answer late, what brings the newest one, and what brings one that was made here.         *)
Sure == {"late", "failed", "unheard"} \cap s8 = {}
Loading(l, i) == l.for = "list" /\ (l.at = "asked" \/ (l.at = "served" /\ l.snap >= i))
Brought == \/ "cached" \in s8 \/ s6 > 0 \/ s3 = Len(s1)
           \/ \E l \in s4 : Loading(l, Len(s1))
           \/ \E o \in s5 : o.served
Comes(i) == \/ s3 # Nil /\ i <= s3
            \/ \E l \in s4 : Loading(l, i)
            \/ \E o \in s5 : o.kind = "made" /\ o.served
ListInv ==
  /\ ListTypes
  /\ Sure => /\ s3 # Nil \/ \E l \in s4 : Loading(l, 0)
             /\ Brought
             /\ \A i \in DOMAIN s1 : s1[i] = "made" => Comes(i)

(* It holds at the start, and says what is checked.                                           *)
LEMMA ListInit == ASSUME C!Init PROVE ListInv
<1>1. s1 = <<>> /\ s2 = Nil /\ s3 = Nil /\ s5 = {} /\ s6 = 0 /\ s8 = {} BY DEF C!Init
<1>2. s4 = {[n |-> 0, for |-> "list", at |-> "asked", snap |-> Nil]} BY DEF C!Init
<1>3. \A l \in s4 : ListLoad(l) /\ l.at = "asked" /\ l.for = "list" BY <1>2 DEF ListLoad
<1>4. ListTypes BY <1>1, <1>3 DEF ListTypes
<1>5. \E l \in s4 : \A i : Loading(l, i) BY <1>2, <1>3 DEF Loading
<1>6. QED BY <1>1, <1>4, <1>5 DEF ListInv, Brought

LEMMA ListHeld == ASSUME ListInv PROVE C!ListCurrent
<1>1. SUFFICES ASSUME s4 = {}, s5 = {}, s6 = 0, s8 \subseteq {"cached"}, NEW i \in DOMAIN s1, i > s3
               PROVE  "cached" \in s8 /\ s1[i] # "made"
  BY DEF C!ListCurrent
<1>2. Sure BY <1>1 DEF Sure
<1>3. s3 # Nil /\ s3 \in Nat BY <1>1, <1>2 DEF ListInv, ListTypes
<1>4. i \in 1..Len(s1) BY DEF ListInv, ListTypes
<1>5. "cached" \in s8 BY <1>1, <1>2, <1>3, <1>4 DEF ListInv, Brought
<1>6. s1[i] # "made" BY <1>1, <1>2, <1>3, <1>4 DEF ListInv, Comes
<1>7. QED BY <1>5, <1>6

(* What loadChats leaves: a request for the list, or the copy in the list.                     *)
LEMMA ListLoads ==
  ASSUME ListTypes, NEW kept \in {Nil} \cup 0..Len(s1), C!LoadChats(kept)
  PROVE  /\ s2' = kept /\ s4 \subseteq s4'
         /\ \A l \in s4' : ListLoad(l) /\ (l.at = "served" => l.snap \in 0..Len(s1))
         /\ s8 \subseteq s8'
         /\ \/ kept = Nil /\ s3' = s3 /\ \E l \in s4' : l.for = "list" /\ l.at = "asked"
            \/ /\ s3' = kept /\ kept \in 0..Len(s1) /\ kept # Nil
               /\ kept < Len(s1) => "cached" \in s8'
               /\ s3 # Nil /\ kept < s3 => "late" \in s8'
<1>1. ASSUME NEW at \in {"asked", "presence"}
      PROVE  /\ ListLoad(C!Request("list", at)) /\ C!Request("list", at).at = at
             /\ C!Request("list", at).for = "list"
  BY DEF C!Request, ListLoad
<1>2. CASE kept = Nil
  <2>1. s4' = s4 \cup {C!Request("list", "asked")} /\ s3' = s3 /\ s8' = s8 /\ s2' = kept
    BY <1>2 DEF C!LoadChats
  <2>2. QED BY <1>1, <1>2, <2>1 DEF ListTypes
<1>3. CASE kept # Nil
  <2>1. /\ s4' = s4 \cup {C!Request("list", "presence")} /\ s3' = kept /\ s2' = kept
        /\ s8' = s8 \cup (IF kept < Len(s1) THEN {"cached"} ELSE {})
                    \cup (IF s3 # Nil /\ kept < s3 THEN {"late"} ELSE {})
    BY <1>3 DEF C!LoadChats
  <2>2. \A l \in s4' : ListLoad(l) /\ (l.at = "served" => l.snap \in 0..Len(s1))
    BY <1>1, <2>1 DEF ListTypes
  <2>3. QED BY <1>3, <2>1, <2>2
<1>4. QED BY <1>2, <1>3

(* With nothing new it keeps the invariant, if no operation ends that made a chat and was not  *)
(* followed by a request.                                                                      *)
LEMMA ListAgain ==
  ASSUME ListInv, NEW kept \in {Nil} \cup 0..Len(s1), C!LoadChats(kept), s1' = s1, s6' \in Nat,
         s5' \subseteq s5, kept # Nil => \A o \in s5 \ s5' : o.kind # "made"
  PROVE  ListInv'
<1>1. /\ s2' = kept /\ s4 \subseteq s4'
      /\ \A l \in s4' : ListLoad(l) /\ (l.at = "served" => l.snap \in 0..Len(s1))
      /\ s8 \subseteq s8'
      /\ \/ kept = Nil /\ s3' = s3 /\ \E l \in s4' : l.for = "list" /\ l.at = "asked"
         \/ /\ s3' = kept /\ kept \in 0..Len(s1) /\ kept # Nil
            /\ kept < Len(s1) => "cached" \in s8'
            /\ s3 # Nil /\ kept < s3 => "late" \in s8'
  BY ListLoads DEF ListInv
<1>2. ListTypes' BY <1>1 DEF ListInv, ListTypes, ListLoad
<1>3. Sure' => Sure BY <1>1 DEF Sure
<1>4. CASE s3' = s3 /\ \E l \in s4' : l.for = "list" /\ l.at = "asked"
  <2>1. \E l \in s4' : \A i : Loading(l, i) BY <1>4 DEF Loading
  <2>2. Brought' /\ \A i : Comes(i)' BY <2>1 DEF Brought, Comes, Loading
  <2>3. \E l \in s4' : Loading(l, 0) BY <2>1
  <2>4. QED BY <1>2, <2>2, <2>3 DEF ListInv, Loading
<1>5. CASE /\ s3' = kept /\ kept \in 0..Len(s1) /\ kept # Nil
           /\ kept < Len(s1) => "cached" \in s8'
           /\ s3 # Nil /\ kept < s3 => "late" \in s8'
  <2>1. Brought' BY <1>5 DEF Brought, ListInv, ListTypes
  <2>2. ASSUME Sure', NEW i \in DOMAIN s1, s1[i] = "made" PROVE Comes(i)'
    <3>1. Comes(i) BY <1>3, <2>2 DEF ListInv
    <3>2. CASE s3 # Nil /\ i <= s3
      <4>1. s3 \in Nat /\ i \in Nat /\ kept \in Nat BY <3>2, <1>5 DEF ListInv, ListTypes
      <4>2. "late" \notin s8' BY <2>2 DEF Sure
      <4>3. i <= kept BY <1>5, <3>2, <4>1, <4>2
      <4>4. QED BY <1>5, <4>3 DEF Comes
    <3>3. CASE \E l \in s4 : Loading(l, i) BY <1>1, <3>3 DEF Comes, Loading
    <3>4. CASE \E o \in s5 : o.kind = "made" /\ o.served BY <1>5, <3>4 DEF Comes
    <3>5. QED BY <3>1, <3>2, <3>3, <3>4 DEF Comes
  <2>3. s3' # Nil BY <1>5
  <2>4. QED BY <1>2, <2>1, <2>2, <2>3 DEF ListInv
<1>6. QED BY <1>1, <1>4, <1>5

(* Every step keeps it.                                                                       *)
LEMMA ListStep == ASSUME ListInv, C!Next PROVE ListInv'
<1>1. ListTypes BY DEF ListInv
<1>2. CASE C!Refresh
  <2>1. C!LoadChats(s2) /\ s1' = s1 /\ s5' = s5 /\ s6' = s6 BY <1>2 DEF C!Refresh
  <2>2. QED BY <1>1, <2>1, ListAgain DEF ListTypes
<1>3. CASE C!Hear
  <2>1. C!LoadChats(s2) /\ s1' = s1 /\ s5' = s5 /\ s6 > 0 /\ s6' = s6 - 1 BY <1>3 DEF C!Hear
  <2>2. s6' \in Nat /\ s2 \in {Nil} \cup 0..Len(s1) BY <1>1, <2>1 DEF ListTypes
  <2>3. QED BY <2>1, <2>2, ListAgain
<1>4. ASSUME NEW o \in s5, C!Done(o) PROVE ListInv'
  <2>1. /\ C!LoadChats(C!Invalidates(o.kind)) /\ s1' = s1 /\ s5' = s5 \ {o} /\ s6' = s6
    BY <1>4 DEF C!Done
  <2>2. C!Invalidates(o.kind) \in {Nil} \cup 0..Len(s1) BY <1>1 DEF ListTypes, C!Invalidates
  <2>3. C!Invalidates(o.kind) # Nil => o.kind # "made" BY DEF C!Invalidates
  <2>4. QED BY <1>1, <2>1, <2>2, <2>3, ListAgain DEF ListTypes
<1>5. CASE C!OpenChat
  <2>1. /\ s2' = Nil /\ s4' = s4 \cup {C!Request("chat", "asked")}
        /\ UNCHANGED <<s1, s3, s5, s6, s8>>
    BY <1>5 DEF C!OpenChat
  <2>2. ListLoad(C!Request("chat", "asked")) /\ C!Request("chat", "asked").at = "asked"
    BY DEF C!Request, ListLoad
  <2>3. ListTypes' BY <1>1, <2>1, <2>2 DEF ListTypes
  <2>4. QED BY <2>1, <2>3 DEF ListInv, Sure, Brought, Comes, Loading
<1>6. CASE C!Expire
  <2>1. s2' = Nil /\ UNCHANGED <<s1, s3, s4, s5, s6, s8>> BY <1>6 DEF C!Expire
  <2>2. ListTypes' BY <1>1, <2>1 DEF ListTypes
  <2>3. QED BY <2>1, <2>2 DEF ListInv, Sure, Brought, Comes, Loading
<1>7. CASE C!PeerChanges
  <2>1. s1' = Append(s1, "peer") /\ s6' = s6 + 1 /\ UNCHANGED <<s2, s3, s4, s5, s8>>
    BY <1>7 DEF C!PeerChanges, C!reading
  <2>2. /\ s1' \in Seq(C!Own \cup {"peer"}) /\ Len(s1') = Len(s1) + 1 /\ Len(s1) \in Nat
        /\ \A i \in DOMAIN s1' : s1'[i] = "made" => i \in DOMAIN s1 /\ s1[i] = "made"
    BY <1>1, <2>1 DEF ListTypes
  <2>3. ListTypes' BY <1>1, <2>1, <2>2 DEF ListTypes
  <2>4. Brought' BY <1>1, <2>1 DEF Brought, ListTypes
  <2>5. QED BY <2>1, <2>2, <2>3, <2>4 DEF ListInv, Sure, Comes, Loading
<1>8. CASE C!Unheard
  <2>1. s6 > 0 /\ s6' = s6 - 1 /\ s8' = s8 \cup {"unheard"} /\ UNCHANGED <<s1, s2, s3, s4, s5>>
    BY <1>8 DEF C!Unheard, C!reading
  <2>2. s6' \in Nat BY <1>1, <2>1 DEF ListTypes
  <2>3. ListTypes' BY <1>1, <2>1, <2>2 DEF ListTypes
  <2>4. QED BY <2>1, <2>3 DEF ListInv, Sure
<1>9. CASE C!Open \/ C!Close
  <2>1. UNCHANGED <<s1, s2, s3, s4, s5, s6, s8>> BY <1>9 DEF C!Open, C!Close, C!reading
  <2>2. ListTypes' BY <1>1, <2>1 DEF ListTypes
  <2>3. QED BY <2>1, <2>2 DEF ListInv, Sure, Brought, Comes, Loading
<1>10. ASSUME NEW k \in C!Own, C!Ask(k) PROVE ListInv'
  <2>1. /\ s5' = s5 \cup {[kind |-> k, served |-> FALSE]} /\ UNCHANGED <<s1, s2, s3, s4, s6, s8>>
    BY <1>10 DEF C!Ask, C!reading
  <2>2. [kind |-> k, served |-> FALSE] \in [kind : C!Own, served : BOOLEAN] OBVIOUS
  <2>3. \A o \in s5' : o \in [kind : C!Own, served : BOOLEAN] BY <1>1, <2>1, <2>2 DEF ListTypes
  <2>4. ListTypes' BY <1>1, <2>1, <2>3 DEF ListTypes
  <2>5. QED BY <2>1, <2>4 DEF ListInv, Sure, Brought, Comes, Loading
<1>11. ASSUME NEW o \in s5, C!ServeOp(o) PROVE ListInv'
  <2>1. /\ ~o.served /\ s1' = Append(s1, o.kind) /\ s5' = (s5 \ {o}) \cup {[o EXCEPT !.served = TRUE]}
        /\ UNCHANGED <<s2, s3, s4, s6, s8>>
    BY <1>11 DEF C!ServeOp, C!reading
  <2>2. o \in [kind : C!Own, served : BOOLEAN] BY <1>1 DEF ListTypes
  <2>3. PICK q : q = [o EXCEPT !.served = TRUE] OBVIOUS
  <2>4. q \in [kind : C!Own, served : BOOLEAN] /\ q.kind = o.kind /\ q.served BY <2>2, <2>3
  <2>5. q \in s5' /\ \A p \in s5 : p.served => p \in s5' BY <2>1, <2>3
  <2>6. /\ s1' \in Seq(C!Own \cup {"peer"}) /\ Len(s1') = Len(s1) + 1 /\ Len(s1) \in Nat
        /\ \A i \in DOMAIN s1' : \/ i \in DOMAIN s1 /\ s1'[i] = s1[i]
                                \/ s1'[i] = o.kind
    BY <1>1, <2>1, <2>2 DEF ListTypes
  <2>7. ListTypes'
    <3>1. \A p \in s5' : p \in [kind : C!Own, served : BOOLEAN]
      BY <1>1, <2>1, <2>3, <2>4 DEF ListTypes
    <3>2. 0..Len(s1) \subseteq 0..Len(s1') BY <2>6
    <3>3. QED BY <1>1, <2>1, <2>6, <3>1, <3>2 DEF ListTypes
  <2>8. Brought' BY <2>4, <2>5 DEF Brought
  <2>9. ASSUME Sure', NEW i \in DOMAIN s1', s1'[i] = "made" PROVE Comes(i)'
    <3>1. CASE s1'[i] = o.kind BY <2>4, <2>5, <2>9, <3>1 DEF Comes
    <3>2. CASE i \in DOMAIN s1 /\ s1'[i] = s1[i]
      <4>1. Comes(i) BY <2>1, <2>9, <3>2 DEF ListInv, Sure
      <4>2. QED BY <2>1, <2>5, <4>1 DEF Comes, Loading
    <3>3. QED BY <2>6, <2>9, <3>1, <3>2
  <2>10. Sure' => (s3' # Nil \/ \E l \in s4' : Loading(l, 0))
    BY <2>1 DEF ListInv, Sure, Loading
  <2>11. QED BY <2>7, <2>8, <2>9, <2>10 DEF ListInv
<1>12. ASSUME NEW o \in s5, C!OpFails(o) PROVE ListInv'
  <2>1. /\ s5' = s5 \ {o} /\ s8' = s8 \cup (IF o.served THEN {"unheard"} ELSE {})
        /\ UNCHANGED <<s1, s2, s3, s4, s6>>
    BY <1>12 DEF C!OpFails, C!reading
  <2>2. ListTypes' BY <1>1, <2>1 DEF ListTypes
  <2>3. CASE o.served BY <2>1, <2>2, <2>3 DEF ListInv, Sure
  <2>4. CASE ~o.served BY <2>1, <2>2, <2>4 DEF ListInv, Sure, Brought, Comes, Loading
  <2>5. QED BY <2>3, <2>4
<1>13. ASSUME NEW l \in s4, C!ServeLoad(l) PROVE ListInv'
  <2>1. /\ l.at = "asked" /\ s4' = (s4 \ {l}) \cup {[l EXCEPT !.at = "served", !.snap = Len(s1)]}
        /\ UNCHANGED <<s1, s2, s3, s5, s6, s8>>
    BY <1>13 DEF C!ServeLoad, C!With
  <2>2. PICK m : m = [l EXCEPT !.at = "served", !.snap = Len(s1)] OBVIOUS
  <2>3. ListLoad(l) /\ Len(s1) \in Nat BY <1>1 DEF ListTypes
  <2>4. ListLoad(m) /\ m.for = l.for /\ m.at = "served" /\ m.snap = Len(s1) BY <2>2, <2>3 DEF ListLoad
  <2>5. ListTypes'
    <3>1. Len(s1) \in 0..Len(s1) BY <2>3
    <3>2. \A k \in s4' : ListLoad(k) /\ (k.at = "served" => k.snap \in 0..Len(s1))
      BY <1>1, <2>1, <2>2, <2>4, <3>1 DEF ListTypes
    <3>3. QED BY <1>1, <2>1, <3>2 DEF ListTypes, ListLoad
  <2>6. m \in s4' /\ \A k \in s4 : k \in s4' \/ k = l BY <2>1, <2>2
  <2>7. ASSUME NEW i \in 0..Len(s1), \E k \in s4 : Loading(k, i) PROVE \E k \in s4' : Loading(k, i)
    BY <2>3, <2>4, <2>6, <2>7 DEF Loading
  <2>8. 0 \in 0..Len(s1) /\ Len(s1) \in 0..Len(s1) /\ \A i \in DOMAIN s1 : i \in 0..Len(s1)
    BY <1>1, <2>3 DEF ListTypes
  <2>9. Brought => Brought'
    <3>1. Len(s1)' = Len(s1) BY <2>1
    <3>2. QED BY <2>1, <2>7, <2>8, <3>1 DEF Brought, Loading
  <2>10. \A i \in DOMAIN s1 : Comes(i) => Comes(i)' BY <2>1, <2>7, <2>8 DEF Comes
  <2>11. s3 # Nil \/ (\E k \in s4 : Loading(k, 0)) => s3' # Nil \/ \E k \in s4' : Loading(k, 0)
    BY <2>1, <2>7, <2>8
  <2>12. QED BY <2>1, <2>5, <2>9, <2>10, <2>11 DEF ListInv, Sure, Loading
<1>14. ASSUME NEW l \in s4, C!Loaded(l), l.for = "list" PROVE ListInv'
  <2>1. /\ l.at = "served" /\ s2' \in {l.snap, Nil} /\ s3' = l.snap
        /\ s8' = s8 \cup IF \E k \in {s2, s3} \ {Nil} : l.snap < k THEN {"late"} ELSE {}
        /\ s4' = (s4 \ {l}) \cup {[l EXCEPT !.at = "presence", !.snap = Nil]}
        /\ UNCHANGED <<s1, s5, s6>>
    BY <1>14 DEF C!Loaded, C!With
  <2>2. PICK m : m = [l EXCEPT !.at = "presence", !.snap = Nil] OBVIOUS
  <2>3. ListLoad(l) /\ l.snap \in 0..Len(s1) /\ Len(s1) \in Nat BY <1>1, <2>1 DEF ListTypes
  <2>4. ListLoad(m) /\ m.at = "presence" BY <2>2, <2>3 DEF ListLoad
  <2>5. ListTypes' BY <1>1, <2>1, <2>2, <2>3, <2>4 DEF ListTypes
  <2>6. m \in s4' /\ \A k \in s4 : k \in s4' \/ k = l BY <2>1, <2>2
  <2>7. ASSUME NEW i \in 0..Len(s1), \E k \in s4 : Loading(k, i)
        PROVE  i <= s3' \/ \E k \in s4' : Loading(k, i)
    BY <2>1, <2>3, <2>6, <2>7 DEF Loading
  <2>8. 0 \in 0..Len(s1) /\ Len(s1) \in 0..Len(s1) /\ \A i \in DOMAIN s1 : i \in 0..Len(s1)
    BY <1>1, <2>3 DEF ListTypes
  <2>9. s3' # Nil /\ s3' \in 0..Len(s1)
    BY <2>1, <2>3, ChatListAssumption DEF C!ChatListConstants
  <2>10. Sure' => Sure /\ (s3 # Nil => s3 <= s3')
    <3>1. Sure' => "late" \notin s8' BY DEF Sure
    <3>2. Sure' => Sure BY <2>1 DEF Sure
    <3>3. s3 # Nil /\ ~(s3 <= s3') => "late" \in s8'
      <4>1. s3 # Nil => s3 \in 0..Len(s1) BY <1>1 DEF ListTypes
      <4>2. s3 # Nil /\ ~(s3 <= s3') => l.snap < s3 BY <2>1, <2>9, <4>1
      <4>3. QED BY <2>1, <4>2
    <3>4. QED BY <3>1, <3>2, <3>3
  <2>11. ASSUME Sure' PROVE Brought'
    <3>1. Len(s1)' = Len(s1) /\ Brought BY <2>1, <2>10, <2>11 DEF ListInv
    <3>2. s3 = Len(s1) => s3' = Len(s1)
      BY <2>3, <2>9, <2>10, <2>11, ChatListAssumption DEF C!ChatListConstants
    <3>3. (\E k \in s4 : Loading(k, Len(s1))) => s3' = Len(s1) \/ \E k \in s4' : Loading(k, Len(s1))
      <4>1. Len(s1) <= s3' => s3' = Len(s1) BY <2>3, <2>9
      <4>2. Len(s1) \in 0..Len(s1) BY <2>3
      <4>3. (\E k \in s4 : Loading(k, Len(s1))) => Len(s1) <= s3' \/ \E k \in s4' : Loading(k, Len(s1))
        BY <2>7, <4>2
      <4>4. QED BY <4>1, <4>3
    <3>4. QED BY <2>1, <3>1, <3>2, <3>3 DEF Brought, Loading
  <2>12. ASSUME Sure', NEW i \in DOMAIN s1, s1[i] = "made" PROVE Comes(i)'
    <3>1. Comes(i) BY <2>10, <2>12 DEF ListInv
    <3>2. s3 # Nil /\ i <= s3 => i <= s3'
      <4>1. s3 # Nil => s3 \in Nat BY <1>1 DEF ListTypes
      <4>2. i \in Nat /\ s3' \in Nat BY <2>8, <2>9
      <4>3. QED BY <2>10, <2>12, <4>1, <4>2
    <3>3. QED BY <2>1, <2>7, <2>8, <2>9, <3>1, <3>2 DEF Comes
  <2>13. QED BY <2>1, <2>5, <2>9, <2>11, <2>12 DEF ListInv
<1>15. ASSUME NEW l \in s4, C!Loaded(l), l.for # "list" PROVE ListInv'
  <2>1. /\ l.at = "served" /\ s2' \in {l.snap, Nil} /\ s8 \subseteq s8' /\ s4' = s4 \ {l}
        /\ UNCHANGED <<s1, s3, s5, s6>>
    BY <1>15 DEF C!Loaded
  <2>2. l.snap \in 0..Len(s1) BY <1>1, <2>1 DEF ListTypes
  <2>3. ListTypes' BY <1>1, <2>1, <2>2 DEF ListTypes
  <2>4. \A i : (\E k \in s4 : Loading(k, i)) => \E k \in s4' : Loading(k, i)
    BY <1>15, <2>1 DEF Loading
  <2>5. Sure' => Sure BY <2>1 DEF Sure
  <2>6. Brought => Brought' BY <2>1, <2>4 DEF Brought, Loading
  <2>7. \A i : Comes(i) => Comes(i)' BY <2>1, <2>4 DEF Comes
  <2>8. QED BY <2>1, <2>3, <2>4, <2>5, <2>6, <2>7 DEF ListInv, Loading
<1>16. ASSUME NEW l \in s4, C!LoadFails(l) PROVE ListInv'
  <2>1. s4' = s4 \ {l} /\ UNCHANGED <<s1, s2, s5, s6>> BY <1>16 DEF C!LoadFails
  <2>2. CASE l.for = "list"
    <3>1. s3' = Nil /\ s8' = s8 \cup {"failed"} BY <1>16, <2>2 DEF C!LoadFails
    <3>2. ListTypes' BY <1>1, <2>1, <3>1 DEF ListTypes
    <3>3. QED BY <3>1, <3>2 DEF ListInv, Sure
  <2>3. CASE l.for # "list"
    <3>1. s3' = s3 /\ s8' = s8 BY <1>16, <2>3 DEF C!LoadFails
    <3>2. ListTypes' BY <1>1, <2>1, <3>1 DEF ListTypes
    <3>3. \A i : (\E k \in s4 : Loading(k, i)) => \E k \in s4' : Loading(k, i)
      BY <2>1, <2>3 DEF Loading
    <3>4. Brought => Brought' BY <2>1, <3>1, <3>3 DEF Brought, Loading
    <3>5. \A i : Comes(i) => Comes(i)' BY <2>1, <3>1, <3>3 DEF Comes
    <3>6. QED BY <2>1, <3>1, <3>2, <3>3, <3>4, <3>5 DEF ListInv, Sure, Loading
  <2>4. QED BY <2>2, <2>3
<1>17. ASSUME NEW l \in s4, C!PresenceCome(l) PROVE ListInv'
  <2>1. l.at = "presence" /\ s4' = s4 \ {l} /\ UNCHANGED <<s1, s2, s3, s5, s6, s8>>
    BY <1>17 DEF C!PresenceCome
  <2>2. ListTypes' BY <1>1, <2>1 DEF ListTypes
  <2>3. \A i : (\E k \in s4 : Loading(k, i)) => \E k \in s4' : Loading(k, i)
    BY <2>1 DEF Loading
  <2>4. Brought => Brought' BY <2>1, <2>3 DEF Brought, Loading
  <2>5. \A i : Comes(i) => Comes(i)' BY <2>1, <2>3 DEF Comes
  <2>6. QED BY <2>1, <2>2, <2>3, <2>4, <2>5 DEF ListInv, Sure, Loading
<1>18. QED
  BY <1>2, <1>3, <1>4, <1>5, <1>6, <1>7, <1>8, <1>9, <1>10, <1>11, <1>12, <1>13, <1>14, <1>15,
    <1>16, <1>17 DEF C!Next

-----------------------------------------------------------------------------
(* The tabs and folders over the list (Folders): s5 holds the folders, s6 the tab, s8 the      *)
(* editor.                                                                                     *)

(* What a folder has was offered by the editor, which leaves the saved messages out.           *)
FolderHolds(d) == \E ts : \E cs \in SUBSET {c \in ChatSet : Kind(c) # 3} : d = [types |-> ts, chats |-> cs]
FolderEditor == \/ s8 = F!Closed
                \/ \E of, d : of \in Names \cup {"new"} /\ s8 = [of |-> of, draft |-> d] /\ FolderHolds(d)
FoldersInv ==
  /\ s1 \subseteq ChatSet
  /\ s6 \in F!BuiltIn \cup DOMAIN s5
  /\ DOMAIN s5 \subseteq Names
  /\ \A f \in DOMAIN s5 : FolderHolds(s5[f])
  /\ FolderEditor

(* It holds at the start.                                                                     *)
LEMMA FoldersInit == ASSUME F!Init PROVE FoldersInv
<1>2. FolderEditor BY DEF F!Init, FolderEditor
<1>3. DOMAIN s5 = {} BY DEF F!Init
<1>4. QED BY <1>2, <1>3 DEF F!Init, FoldersInv, F!BuiltIn

(* The tab of a folder lets its chats through, to one section or the other.                    *)
LEMMA FoldersHeld == ASSUME FoldersInv PROVE F!FolderShows
<1>1. ASSUME s6 \in DOMAIN s5, NEW c \in s5[s6].chats \cap s1 \cap s4
      PROVE  (c \in F!Shown \cup F!Section("archived")) \/ (s7 = "archive" /\ c \notin s2)
  <2>1. Kind(c) # 3 BY <1>1 DEF FoldersInv, FolderHolds
  <2>2. s6 \notin DOMAIN F!TypeTab
    BY <1>1, FoldersAssumption DEF FoldersInv, F!TypeTab, F!FoldersConstants
  <2>3. F!InTab(c) BY <1>1, <2>2 DEF F!InTab
  <2>4. (s7 = "archive" /\ c \notin s2) \/ c \in F!Listed BY <1>1, <2>3 DEF F!Listed
  <2>5. c \in F!Listed /\ c \in s2 => c \in F!Section("archived") BY <2>1 DEF F!Section
  <2>6. c \in F!Listed /\ c \notin s2 => c \in F!Section("pinned") \/ c \in F!Section("unpinned")
    BY <2>1 DEF F!Section
  <2>7. s7 # "archive" /\ c \in F!Listed /\ c \notin s2 => c \in F!Shown BY <2>6 DEF F!Shown
  <2>8. s7 = "archive" /\ c \in F!Listed => c \in s2 BY DEF F!Listed
  <2>9. QED BY <2>4, <2>5, <2>7, <2>8
<1>2. s6 \in F!BuiltIn \cup DOMAIN s5 BY DEF FoldersInv
<1>3. QED BY <1>1, <1>2 DEF F!FolderShows

(* Every step keeps it.                                                                       *)
LEMMA FoldersStep == ASSUME FoldersInv, F!Next PROVE FoldersInv'
<1>1. /\ s1 \subseteq ChatSet /\ s6 \in F!BuiltIn \cup DOMAIN s5 /\ DOMAIN s5 \subseteq Names
      /\ \A f \in DOMAIN s5 : FolderHolds(s5[f])
  BY DEF FoldersInv
<1>2. s8 = F!Closed \/ \E of, d : of \in Names \cup {"new"} /\ s8 = [of |-> of, draft |-> d] /\ FolderHolds(d)
  BY DEF FoldersInv, FolderEditor
<1>3. s8' = s8 => FolderEditor' BY <1>2 DEF FolderEditor
<1>4. FolderHolds(F!Nothing) BY DEF FolderHolds, F!Nothing
<1>5. s8' = F!Closed => FolderEditor' BY DEF F!Closed, FolderEditor
<1>6. CASE F!ChatsCome BY <1>1, <1>3, <1>6 DEF F!ChatsCome, FoldersInv
<1>7. CASE F!Search BY <1>1, <1>3, <1>7 DEF F!Search, F!lists, FoldersInv
<1>8. CASE F!OpenArchive BY <1>1, <1>3, <1>8 DEF F!OpenArchive, F!lists, FoldersInv
<1>9. CASE F!LeaveArchive BY <1>1, <1>3, <1>9 DEF F!LeaveArchive, F!lists, FoldersInv
<1>10. CASE F!CloseEditor BY <1>1, <1>5, <1>10 DEF F!CloseEditor, F!lists, FoldersInv
<1>11. CASE F!SaveFolder
  <2>1. s8 # F!Closed /\ s8' = F!Closed /\ s1' = s1 BY <1>11 DEF F!SaveFolder, F!lists
  <2>2. PICK of, d : of \in Names \cup {"new"} /\ s8 = [of |-> of, draft |-> d] /\ FolderHolds(d)
    BY <1>2, <2>1
  <2>3. PICK f \in IF of = "new" THEN Names \ DOMAIN s5 ELSE {of} :
             /\ s5' = [x \in DOMAIN s5 \cup {f} |-> IF x = f THEN d ELSE s5[x]]
             /\ s6' = (IF of = "new" THEN f ELSE s6)
    BY <1>11, <2>2 DEF F!SaveFolder
  <2>4. f \in Names BY <2>2, <2>3
  <2>5. DOMAIN s5' = DOMAIN s5 \cup {f} BY <2>3
  <2>6. \A x \in DOMAIN s5' : FolderHolds(s5'[x]) BY <1>1, <2>2, <2>3
  <2>7. s6' \in F!BuiltIn \cup DOMAIN s5' BY <1>1, <2>3, <2>5
  <2>8. QED BY <1>1, <1>5, <2>1, <2>4, <2>5, <2>6, <2>7 DEF FoldersInv
<1>12. CASE F!DeleteFolder
  <2>1. /\ s8' = F!Closed /\ s6' = F!TabAfter /\ s1' = s1
        /\ s5' = [x \in DOMAIN s5 \ {s8.of} |-> s5[x]]
    BY <1>12 DEF F!DeleteFolder, F!lists
  <2>2. F!TabAfter \in F!BuiltIn \cup DOMAIN s5' BY <1>1, <2>1 DEF F!TabAfter, F!BuiltIn
  <2>3. \A x \in DOMAIN s5' : FolderHolds(s5'[x]) BY <1>1, <2>1
  <2>4. DOMAIN s5' \subseteq Names BY <1>1, <2>1
  <2>5. QED BY <1>1, <1>5, <2>1, <2>2, <2>3, <2>4 DEF FoldersInv
<1>13. ASSUME NEW t \in F!BuiltIn \cup Names, F!ChooseTab(t) PROVE FoldersInv'
  BY <1>1, <1>3, <1>13 DEF F!ChooseTab, F!lists, FoldersInv
<1>14. ASSUME NEW f \in Names \cup {"new"}, F!EditFolder(f) PROVE FoldersInv'
  <2>1. f \in DOMAIN s5 \cup {"new"} /\ UNCHANGED <<s1, s5, s6>>
    BY <1>14 DEF F!EditFolder, F!lists
  <2>2. s8' = [of |-> f, draft |-> IF f = "new" THEN F!Nothing ELSE s5[f]] BY <1>14 DEF F!EditFolder
  <2>3. FolderEditor' BY <1>1, <1>4, <2>1, <2>2 DEF FolderEditor
  <2>4. QED BY <1>1, <2>1, <2>3 DEF FoldersInv
<1>15. ASSUME NEW t \in 0..2, F!TickType(t) PROVE FoldersInv'
  <2>0. PICK of, d : of \in Names \cup {"new"} /\ s8 = [of |-> of, draft |-> d] /\ FolderHolds(d)
    BY <1>2, <1>15 DEF F!TickType
  <2>1. PICK cs \in SUBSET {c \in ChatSet : Kind(c) # 3} : d.chats = cs BY <2>0 DEF FolderHolds
  <2>2. PICK ts : d.types = ts /\ d = [types |-> ts, chats |-> cs] BY <2>0, <2>1 DEF FolderHolds
  <2>3. s8' = [of |-> of, draft |-> [types |-> F!Toggled(ts, t), chats |-> cs]]
    BY <1>15, <2>0, <2>2 DEF F!TickType
  <2>4. FolderEditor' BY <2>0, <2>3 DEF FolderEditor, FolderHolds
  <2>5. QED BY <1>1, <1>15, <2>4 DEF F!TickType, F!lists, FoldersInv
<1>16. ASSUME NEW c \in ChatSet, F!TickChat(c) PROVE FoldersInv'
  <2>0. PICK of, d : of \in Names \cup {"new"} /\ s8 = [of |-> of, draft |-> d] /\ FolderHolds(d)
    BY <1>2, <1>16 DEF F!TickChat
  <2>1. PICK cs \in SUBSET {e \in ChatSet : Kind(e) # 3} : d.chats = cs BY <2>0 DEF FolderHolds
  <2>2. PICK ts : d.types = ts /\ d = [types |-> ts, chats |-> cs] BY <2>0, <2>1 DEF FolderHolds
  <2>3. s8' = [of |-> of, draft |-> [types |-> ts, chats |-> F!Toggled(cs, c)]]
    BY <1>16, <2>0, <2>2 DEF F!TickChat
  <2>4. c \in F!Offers BY <1>16 DEF F!TickChat
  <2>5. c \in ChatSet /\ Kind(c) # 3 BY <2>4 DEF F!Offers
  <2>6. F!Toggled(cs, c) \in SUBSET {e \in ChatSet : Kind(e) # 3}
    BY <2>5 DEF F!Toggled
  <2>7. FolderEditor' BY <2>0, <2>3, <2>6 DEF FolderEditor, FolderHolds
  <2>8. QED BY <1>1, <1>16, <2>7 DEF F!TickChat, F!lists, FoldersInv
<1>17. QED
  BY <1>6, <1>7, <1>8, <1>9, <1>10, <1>11, <1>12, <1>13, <1>14, <1>15, <1>16 DEF F!Next

-----------------------------------------------------------------------------
(* The strip of stories (Stories): s1 to s4 are the rows, the friendship, what is kept here    *)
(* and what is shown, s5 the feeds asked for, s6 the publications, s11 the ids given, s12 what *)
(* became of them, s13 the oddities, s14 and s15 the number of the last feed asked for and     *)
(* answered.                                                                                   *)
FeedAsk(a) ==
  /\ a \in [n : 1..s14, task : 0..s11, feed : (SUBSET Y!Story) \cup {Nil}, stale : SUBSET {"others", "mine", "unread"}]
StoryTypes ==
  /\ s1 \subseteq Y!Story /\ s3 \subseteq Y!Story /\ s4 \subseteq Y!Story
  /\ s2 \in BOOLEAN /\ s7 \in BOOLEAN
  /\ s11 \in 0..MaxStories /\ s16 \in 0..StoryMoves /\ s17 \in 0..MaxAges
  /\ s14 \in Nat /\ s15 \in 0..s14
  /\ s6 \subseteq [n : 1..s11, st : {"upload", "create", "made", "refresh", "read"}]
  /\ \A a \in s5 : FeedAsk(a)
  /\ s13 \subseteq {"others", "mine", "failed", "late", "unread"}

(* A publication under way is the only one of its number, and waits for the feed if one will   *)
(* end it; a story that was made is somewhere.                                                 *)
Somewhere(n) == (\E s \in s1 \cup s3 : s.id = n) \/ n \in s12
StoryTasks ==
  /\ \A t, u \in s6 : t.n = u.n => t = u
  /\ \A t \in s6 : t.st \in {"made", "refresh"} => Somewhere(t.n)
  /\ \A a \in s5, t \in s6 : t.n = a.task => t.st = "refresh"
  /\ Y!PublishedKept

(* A feed that was read and is not stale is what it would be now; one that an own story made   *)
(* stale is followed by another; and so is what is shown.                                      *)
Following == (\E a \in s5 : a.n = s14) \/ \E t \in s6 : t.st \in {"made", "read"}
Behind(a) == "mine" \in a.stale =>
               a.n < s14 \/ "unread" \in a.stale \/ \E t \in s6 : t.st \in {"made", "read"}
Feeds ==
  /\ s15 = s14 \/ \E a \in s5 : a.n = s14
  /\ \A a \in s5 : a.feed # Nil /\ a.stale = {} => a.feed = Y!ListFeed
  /\ \A a \in s5 : a.feed = Nil => a.stale = {}
  /\ \A a \in s5 : Behind(a)
  /\ s13 \cap {"others", "failed", "late", "unread"} = {} => s4 = Y!Merge(Y!ListFeed, s3) \/ Following
StoriesInv == StoryTypes /\ StoryTasks /\ Feeds

(* It holds at the start, and says what is checked.                                           *)
LEMMA StoriesInit == ASSUME Y!Init PROVE StoriesInv
<1>1. /\ s2 = TRUE /\ s4 = {} /\ s5 = {Y!Asks(1, 0)} /\ s6 = {} /\ s7 = FALSE /\ s11 = 0 /\ s13 = {}
      /\ s14 = 1 /\ s15 = 0 /\ s16 = 0 /\ s17 = 0
  BY DEF Y!Init
<1>2. MaxStories \in Nat /\ StoryMoves \in Nat /\ MaxAges \in Nat
  BY StoriesAssumption DEF Y!StoriesConstants
<1>3. \A who \in {"me", "peer"}, k \in BOOLEAN : Y!Of(who, 0, k) \in Y!Story
  BY <1>2 DEF Y!Of, Y!Story
<1>4. s1 \subseteq Y!Story /\ s3 \subseteq Y!Story BY <1>3 DEF Y!Init
<1>5. \A a \in s5 : /\ FeedAsk(a) /\ a.n = s14 /\ a.feed = Nil /\ a.stale = {}
  <2>1. 1 \in 1..s14 /\ 0 \in 0..s11 BY <1>1
  <2>2. PICK b : b = Y!Asks(1, 0) OBVIOUS
  <2>3. /\ b \in [n : 1..s14, task : 0..s11, feed : (SUBSET Y!Story) \cup {Nil},
                  stale : SUBSET {"others", "mine", "unread"}]
        /\ b.n = 1 /\ b.feed = Nil /\ b.stale = {}
    BY <2>1, <2>2 DEF Y!Asks
  <2>4. \A a \in s5 : a = b BY <1>1, <2>2
  <2>5. FeedAsk(b) /\ b.n = s14 BY <1>1, <2>3 DEF FeedAsk
  <2>6. \A a \in s5 : FeedAsk(a) BY <2>4, <2>5 DEF FeedAsk
  <2>7. b.feed = Nil /\ b.stale = {} /\ b.n = s14 BY <2>3, <2>5
  <2>8. \A a \in s5 : a.n = s14 /\ a.feed = Nil /\ a.stale = {} BY <2>4, <2>7
  <2>9. QED BY <2>6, <2>8
<1>6. StoryTypes
  <2>1. /\ s11 \in 0..MaxStories /\ s16 \in 0..StoryMoves /\ s17 \in 0..MaxAges
        /\ s14 \in Nat /\ s15 \in 0..s14
    BY <1>1, <1>2
  <2>2. /\ s4 \subseteq Y!Story /\ s2 \in BOOLEAN /\ s7 \in BOOLEAN
        /\ s6 \subseteq [n : 1..s11, st : {"upload", "create", "made", "refresh", "read"}]
        /\ s13 \subseteq {"others", "mine", "failed", "late", "unread"}
    BY <1>1
  <2>3. QED BY <1>4, <1>5, <2>1, <2>2 DEF StoryTypes
<1>7. StoryTasks BY <1>1 DEF StoryTasks, Y!PublishedKept
<1>8. \E a \in s5 : a.n = s14 BY <1>1, <1>5
<1>9. Feeds BY <1>5, <1>8 DEF Feeds, Following, Behind
<1>10. QED BY <1>6, <1>7, <1>9 DEF StoriesInv

LEMMA StoriesHeld == ASSUME StoriesInv PROVE Y!TypeOK /\ Y!StoriesTrue /\ Y!PublishedKept
<1>1. s11 \in Nat /\ s11 <= MaxStories BY DEF StoriesInv, StoryTypes
<1>2. 1..s11 \subseteq 1..MaxStories /\ 0..s11 \subseteq 0..MaxStories
  BY <1>1, StoriesAssumption DEF Y!StoriesConstants
<1>3. \A a \in s5 : a.n \in 1..s14 /\ a.task \in 0..MaxStories
  BY <1>2 DEF StoriesInv, StoryTypes, FeedAsk
<1>4. s6 \subseteq [n : 1..MaxStories, st : {"upload", "create", "made", "refresh", "read"}]
  BY <1>2 DEF StoriesInv, StoryTypes
<1>5. Y!TypeOK BY <1>3, <1>4 DEF StoriesInv, StoryTypes, Y!TypeOK
<1>6. Y!StoriesTrue BY DEF StoriesInv, Feeds, Following, Y!StoriesTrue
<1>7. QED BY <1>5, <1>6 DEF StoriesInv, StoryTasks

(* Another feed is asked for: whatever is shown will be replaced.                              *)
LEMMA StoriesRefresh ==
  ASSUME StoriesInv, NEW n \in 0..s11, Y!Refresh(n), UNCHANGED <<s1, s2, s4, s7, s11, s13, s15, s17>>,
         s16' \in 0..StoryMoves, s3' \subseteq Y!Story,
         s6' \subseteq [n : 1..s11, st : {"upload", "create", "made", "refresh", "read"}],
         \A t, u \in s6' : t.n = u.n => t = u,
         \A t \in s6' : t.st \in {"made", "refresh"} => Somewhere(t.n)',
         \A a \in s5, t \in s6' : t.n = a.task => t.st = "refresh",
         \A t \in s6' : t.n = n => t.st = "refresh",
         Y!PublishedKept'
  PROVE  StoriesInv'
<1>1. s14' = s14 + 1 /\ s5' = s5 \cup {Y!Asks(s14 + 1, n)} BY DEF Y!Refresh
<1>2. PICK b : b = Y!Asks(s14 + 1, n) OBVIOUS
<1>3. s14 \in Nat /\ s15 \in 0..s14 /\ \A a \in s5 : FeedAsk(a) BY DEF StoriesInv, StoryTypes
<1>4. /\ b \in [n : 1..s14', task : 0..s11, feed : (SUBSET Y!Story) \cup {Nil}, stale : SUBSET {"others", "mine", "unread"}]
      /\ b.n = s14' /\ b.task = n /\ b.feed = Nil /\ b.stale = {}
  BY <1>1, <1>2, <1>3 DEF Y!Asks
<1>5. \A a \in s5 : FeedAsk(a)' /\ a.n < s14' BY <1>1, <1>3 DEF FeedAsk
<1>6. \A a \in s5' : a \in s5 \/ a = b BY <1>1, <1>2
<1>7. b \in s5' /\ s14' \in Nat /\ s15' \in 0..s14' BY <1>1, <1>2, <1>3
<1>8. \A a \in s5' : FeedAsk(a)' BY <1>4, <1>5, <1>6 DEF FeedAsk
<1>9. StoryTypes' BY <1>7, <1>8 DEF StoriesInv, StoryTypes
<1>10. StoryTasks' BY <1>4, <1>6 DEF StoryTasks
<1>11. Following' BY <1>4, <1>7 DEF Following
<1>12. Y!ListFeed' = Y!ListFeed BY DEF Y!ListFeed
<1>13. \A a \in s5' : a.feed # Nil /\ a.stale = {} => a.feed = Y!ListFeed'
  BY <1>4, <1>6, <1>12 DEF StoriesInv, Feeds
<1>14. \A a \in s5' : Behind(a)' BY <1>4, <1>5, <1>6 DEF Behind
<1>15. \A a \in s5' : a.feed = Nil => a.stale = {} BY <1>4, <1>6 DEF StoriesInv, Feeds
<1>16. Feeds' BY <1>4, <1>7, <1>11, <1>13, <1>14, <1>15 DEF Feeds
<1>17. QED BY <1>9, <1>10, <1>16 DEF StoriesInv

(* What has to do with none of this changes nothing of it.                                     *)
LEMMA StoriesStay ==
  ASSUME StoriesInv, UNCHANGED <<s1, s2, s3, s4, s5, s6, s11, s12, s13, s14, s15, s17>>,
         s7' \in BOOLEAN, s16' \in 0..StoryMoves
  PROVE  StoriesInv'
<1>1. StoryTypes' BY DEF StoriesInv, StoryTypes, FeedAsk
<1>2. StoryTasks' BY DEF StoriesInv, StoryTasks, Somewhere, Y!PublishedKept
<1>3. Feeds' BY DEF StoriesInv, Feeds, Following, Behind, Y!Merge, Y!ListFeed
<1>4. QED BY <1>1, <1>2, <1>3 DEF StoriesInv

(* Nor does it where another feed may be asked for.                                            *)
LEMMA StoriesLook ==
  ASSUME StoriesInv, UNCHANGED <<s1, s2, s3, s4, s6, s7, s11, s12, s13, s15, s17>>, s16' \in 0..StoryMoves,
         UNCHANGED <<s5, s14>> \/ Y!Refresh(0)
  PROVE  StoriesInv'
<1>1. CASE UNCHANGED <<s5, s14>>
  <2>1. s7' \in BOOLEAN BY DEF StoriesInv, StoryTypes
  <2>2. QED BY <1>1, <2>1, StoriesStay
<1>2. CASE Y!Refresh(0)
  <2>1. s11 \in Nat /\ s3' \subseteq Y!Story
        /\ s6' \subseteq [n : 1..s11, st : {"upload", "create", "made", "refresh", "read"}]
    BY DEF StoriesInv, StoryTypes
  <2>2. \A t \in s6' : t.n # 0 BY <2>1
  <2>3. StoryTasks /\ Y!PublishedKept BY DEF StoriesInv, StoryTasks
  <2>4. Y!PublishedKept' BY <2>3 DEF Y!PublishedKept
  <2>5. \A t \in s6' : t.st \in {"made", "refresh"} => Somewhere(t.n)'
    BY <2>3 DEF StoryTasks, Somewhere
  <2>6. \A t, u \in s6' : t.n = u.n => t = u BY <2>3 DEF StoryTasks
  <2>7. \A a \in s5, t \in s6' : t.n = a.task => t.st = "refresh" BY <2>3 DEF StoryTasks
  <2>8. QED BY <1>2, <2>1, <2>2, <2>4, <2>5, <2>6, <2>7, StoriesRefresh
<1>3. QED BY <1>1, <1>2

(* A publication goes on: it is still the only one of its number.                              *)
LEMMA StoryGoes ==
  ASSUME StoriesInv, NEW t \in s6, NEW phase \in {"create", "made", "refresh", "read"}, Y!At(t, phase)
  PROVE  /\ s6' \subseteq [n : 1..s11, st : {"upload", "create", "made", "refresh", "read"}]
         /\ \A v, u \in s6' : v.n = u.n => v = u
         /\ \A v \in s6' : (v \in s6 /\ v.n # t.n) \/ (v.n = t.n /\ v.st = phase)
         /\ \A v \in s6 : v = t \/ v \in s6'
         /\ \E v \in s6' : v.n = t.n /\ v.st = phase
<1>1. PICK m : m = [t EXCEPT !.st = phase] OBVIOUS
<1>2. t \in [n : 1..s11, st : {"upload", "create", "made", "refresh", "read"}]
  BY DEF StoriesInv, StoryTypes
<1>3. m \in [n : 1..s11, st : {"upload", "create", "made", "refresh", "read"}] /\ m.n = t.n /\ m.st = phase
  BY <1>1, <1>2
<1>4. s6' = (s6 \ {t}) \cup {m} BY <1>1 DEF Y!At
<1>5. \A v \in s6 : v.n = t.n => v = t BY DEF StoriesInv, StoryTasks
<1>6. \A v \in s6' : (v \in s6 /\ v.n # t.n) \/ v = m BY <1>4, <1>5
<1>7. \A v, u \in s6' : v.n = u.n => v = u
  <2>1. \A v, u \in s6 : v.n = u.n => v = u BY DEF StoriesInv, StoryTasks
  <2>2. QED BY <1>3, <1>6, <2>1
<1>8. QED BY <1>3, <1>4, <1>6, <1>7 DEF StoriesInv, StoryTypes

(* A change at the server leaves every feed that was read stale.                               *)
LEMMA StoriesAge ==
  ASSUME StoriesInv, NEW why \in {"others", "mine", "unread"}, s5' = Y!Aged(s5, why), s14' = s14,
      s11' \in Nat, s11' >= s11
  PROVE  /\ \A a \in s5' : FeedAsk(a)'
         /\ \A a \in s5' : \E b \in s5 : a.n = b.n /\ a.task = b.task
         /\ \A b \in s5 : \E a \in s5' : a.n = b.n
         /\ \A a \in s5' : a.feed # Nil => why \in a.stale
         /\ \A a \in s5' : "mine" \in a.stale =>
              why = "mine" \/ \E b \in s5 : a.n = b.n /\ "mine" \in b.stale /\ b.stale \subseteq a.stale
         /\ \A a \in s5' : a.feed = Nil => a.stale = {}
<1>1. /\ s11 \in Nat /\ s14 \in Nat
      /\ \A b \in s5 : FeedAsk(b) /\ (b.feed = Nil => b.stale = {})
  BY DEF StoriesInv, StoryTypes, Feeds
<1>2. 0..s11 \subseteq 0..s11' BY <1>1
<1>3. ASSUME NEW b \in s5, NEW a, a = IF b.feed = Nil THEN b ELSE [b EXCEPT !.stale = @ \cup {why}]
      PROVE  /\ FeedAsk(a)' /\ a.n = b.n /\ a.task = b.task
             /\ a.feed # Nil => why \in a.stale
             /\ "mine" \in a.stale => why = "mine" \/ "mine" \in b.stale
             /\ b.stale \subseteq a.stale /\ (a.feed = Nil => a.stale = {})
  <2>1. FeedAsk(b) BY <1>1
  <2>2. CASE b.feed = Nil
    <3>1. a = b BY <1>3, <2>2
    <3>2. FeedAsk(a)' BY <1>2, <2>1, <3>1 DEF FeedAsk
    <3>3. QED BY <1>1, <2>2, <3>1, <3>2
  <2>3. CASE b.feed # Nil
    <3>1. /\ a \in [n : 1..s14, task : 0..s11, feed : (SUBSET Y!Story) \cup {Nil}, stale : SUBSET {"others", "mine", "unread"}]
          /\ a.n = b.n /\ a.task = b.task /\ a.feed = b.feed /\ a.stale = b.stale \cup {why}
      BY <1>3, <2>1, <2>3 DEF FeedAsk
    <3>2. FeedAsk(a)' BY <1>2, <3>1 DEF FeedAsk
    <3>3. QED BY <2>3, <3>1, <3>2
  <2>4. QED BY <2>2, <2>3
<1>4. ASSUME NEW a \in s5'
      PROVE  \E b \in s5 : /\ FeedAsk(a)' /\ a.n = b.n /\ a.task = b.task
                           /\ a.feed # Nil => why \in a.stale
                           /\ "mine" \in a.stale => why = "mine" \/ "mine" \in b.stale
                           /\ b.stale \subseteq a.stale /\ (a.feed = Nil => a.stale = {})
  <2>1. PICK b \in s5 : a = IF b.feed = Nil THEN b ELSE [b EXCEPT !.stale = @ \cup {why}]
    BY DEF Y!Aged
  <2>2. QED BY <1>3, <2>1
<1>5. ASSUME NEW b \in s5 PROVE \E a \in s5' : a.n = b.n
  <2>1. PICK a : a = IF b.feed = Nil THEN b ELSE [b EXCEPT !.stale = @ \cup {why}] OBVIOUS
  <2>2. a \in s5' BY <2>1 DEF Y!Aged
  <2>3. QED BY <1>3, <2>1, <2>2
<1>6. QED BY <1>4, <1>5

(* Every step keeps it.                                                                        *)
LEMMA StoriesClick ==
  ASSUME StoriesInv, Y!Storage \/ Y!React \/ Y!Watch \/ Y!NextSlide \/ Y!Prev \/ Y!View
         \/ Y!Pick \/ Y!Cancel \/ Y!Close
  PROVE  StoriesInv'
<1>1. s16 \in 0..StoryMoves /\ StoryMoves \in Nat
  BY StoriesAssumption DEF StoriesInv, StoryTypes, Y!StoriesConstants
<1>2. Y!Moves \/ s16' = s16 => s16' \in 0..StoryMoves BY <1>1 DEF Y!Moves
<1>3. \A v : Y!Looks(v) => UNCHANGED <<s5, s14>> \/ Y!Refresh(0)
  <2>1. ASSUME NEW v, Y!Looks(v) PROVE UNCHANGED <<s5, s14>> \/ Y!Refresh(0)
    <3>1. CASE Y!Slide(v).by = "me" BY <2>1, <3>1 DEF Y!Looks
    <3>2. CASE Y!Slide(v).by # "me" /\ Y!Slide(v).kept BY <2>1, <3>2 DEF Y!Looks
    <3>3. CASE Y!Slide(v).by # "me" /\ ~Y!Slide(v).kept BY <2>1, <3>3 DEF Y!Looks
    <3>4. QED BY <3>1, <3>2, <3>3
  <2>2. QED BY <2>1
<1>4. CASE Y!Storage BY <1>2, <1>4, StoriesLook DEF Y!Storage
<1>5. CASE Y!React BY <1>2, <1>5, StoriesLook DEF Y!React
<1>6. CASE Y!Watch
  <2>1. \E v : Y!Looks(v) BY <1>6 DEF Y!Watch
  <2>2. UNCHANGED <<s5, s14>> \/ Y!Refresh(0) BY <1>3, <2>1
  <2>3. UNCHANGED <<s1, s2, s3, s4, s6, s7, s11, s12, s13, s15, s17>> /\ Y!Moves BY <1>6 DEF Y!Watch
  <2>4. QED BY <1>2, <2>2, <2>3, StoriesLook
<1>7. CASE Y!NextSlide
  <2>1. UNCHANGED <<s5, s14>> \/ Y!Looks(s8') BY <1>7 DEF Y!NextSlide
  <2>2. UNCHANGED <<s5, s14>> \/ Y!Refresh(0) BY <1>3, <2>1
  <2>3. UNCHANGED <<s1, s2, s3, s4, s6, s7, s11, s12, s13, s15, s16, s17>> BY <1>7 DEF Y!NextSlide
  <2>4. QED BY <1>2, <2>2, <2>3, StoriesLook
<1>8. CASE Y!Prev
  <2>1. Y!Looks(s8') BY <1>8 DEF Y!Prev
  <2>2. UNCHANGED <<s5, s14>> \/ Y!Refresh(0) BY <1>3, <2>1
  <2>3. UNCHANGED <<s1, s2, s3, s4, s6, s7, s11, s12, s13, s15, s17>> /\ Y!Moves BY <1>8 DEF Y!Prev
  <2>4. QED BY <1>2, <2>2, <2>3, StoriesLook
<1>9. CASE Y!View
  <2>1. UNCHANGED <<s5, s14>> \/ Y!Refresh(0) BY <1>9 DEF Y!View
  <2>2. UNCHANGED <<s1, s2, s3, s4, s6, s7, s11, s12, s13, s15, s16, s17>> BY <1>9 DEF Y!View
  <2>3. QED BY <1>2, <2>1, <2>2, StoriesLook
<1>10. CASE Y!Pick BY <1>2, <1>10, StoriesStay DEF Y!Pick
<1>11. CASE Y!Cancel BY <1>2, <1>11, StoriesStay DEF Y!Cancel
<1>12. CASE Y!Close
  <2>1. s7' \in BOOLEAN BY <1>12 DEF Y!Close, StoriesInv, StoryTypes
  <2>2. QED BY <1>2, <1>12, <2>1, StoriesStay DEF Y!Close
<1>13. QED BY <1>4, <1>5, <1>6, <1>7, <1>8, <1>9, <1>10, <1>11, <1>12

(* The parts of the invariant that a step reads.                                               *)
LEMMA StoryFacts ==
  ASSUME StoriesInv
  PROVE  /\ s11 \in Nat /\ s11 <= MaxStories /\ s14 \in Nat /\ s15 \in 0..s14 /\ MaxStories \in Nat
         /\ \A t \in s6 : t \in [n : 1..s11, st : {"upload", "create", "made", "refresh", "read"}]
         /\ \A a \in s5 : FeedAsk(a)
         /\ s16 \in 0..StoryMoves
         /\ \A t, u \in s6 : t.n = u.n => t = u
         /\ \A t \in s6 : t.st \in {"made", "refresh"} => Somewhere(t.n)
         /\ \A a \in s5, t \in s6 : t.n = a.task => t.st = "refresh"
         /\ \A n \in 1..s11 : Somewhere(n) \/ \E t \in s6 : t.n = n
BY StoriesAssumption DEF StoriesInv, StoryTypes, StoryTasks, Somewhere, Y!PublishedKept, Y!StoriesConstants

(* Publishing, until the row is there.                                                         *)
LEMMA StoriesSubmit == ASSUME StoriesInv, Y!Submit PROVE StoriesInv'
<1>1. PICK m : m = [n |-> s11 + 1, st |-> "upload"] OBVIOUS
<1>2. /\ s6' = s6 \cup {m} /\ s11' = s11 + 1 /\ s11 < MaxStories
      /\ UNCHANGED <<s1, s2, s3, s4, s5, s7, s12, s13, s14, s15, s16, s17>>
  BY <1>1 DEF Y!Submit
<1>3. s11 \in Nat /\ s11' \in 0..MaxStories /\ 1..s11 \subseteq 1..s11' /\ 0..s11 \subseteq 0..s11'
  BY <1>2, StoryFacts
<1>4. m \in [n : 1..s11', st : {"upload", "create", "made", "refresh", "read"}]
      /\ m.n = s11 + 1 /\ m.st = "upload"
  BY <1>1, <1>2, <1>3
<1>5. \A t \in s6 : t.n \in 1..s11 /\ t \in [n : 1..s11', st : {"upload", "create", "made", "refresh", "read"}]
  BY <1>3, StoryFacts
<1>6. \A a \in s5 : FeedAsk(a)' /\ a.task \in 0..s11
  <2>1. \A a \in s5 : FeedAsk(a) BY StoryFacts
  <2>2. s14' = s14 BY <1>2
  <2>3. QED BY <1>3, <2>1, <2>2 DEF FeedAsk
<1>7. StoryTypes' BY <1>2, <1>3, <1>4, <1>5, <1>6 DEF StoriesInv, StoryTypes
<1>8. \A t, u \in s6' : t.n = u.n => t = u
  <2>1. \A t \in s6 : t.n # m.n BY <1>3, <1>4, <1>5
  <2>2. \A t, u \in s6 : t.n = u.n => t = u BY StoryFacts
  <2>3. QED BY <1>2, <2>1, <2>2
<1>9. \A t \in s6' : t.st \in {"made", "refresh"} => Somewhere(t.n)'
  <2>1. \A t \in s6' : t.st \in {"made", "refresh"} => t \in s6 BY <1>2, <1>4
  <2>2. QED BY <1>2, <2>1, StoryFacts DEF Somewhere
<1>10. \A a \in s5', t \in s6' : t.n = a.task => t.st = "refresh"
  <2>1. \A a \in s5 : a.task # m.n BY <1>3, <1>4, <1>6
  <2>2. QED BY <1>2, <2>1, StoryFacts
<1>11. Y!PublishedKept'
  <2>1. ASSUME NEW n \in 1..s11' PROVE Somewhere(n) \/ \E t \in s6' : t.n = n
    <3>1. n \in 1..s11 \/ n = m.n BY <1>2, <1>3, <1>4
    <3>2. QED BY <1>2, <3>1, StoryFacts
  <2>2. QED BY <1>2, <2>1 DEF Y!PublishedKept, Somewhere
<1>12. StoryTasks' BY <1>8, <1>9, <1>10, <1>11 DEF StoryTasks
<1>13. Feeds'
  <2>1. \A t \in s6 : t \in s6' BY <1>2
  <2>2. Y!ListFeed' = Y!ListFeed /\ Y!Merge(Y!ListFeed, s3)' = Y!Merge(Y!ListFeed, s3)
    BY <1>2 DEF Y!Merge, Y!ListFeed
  <2>3. Following => Following' BY <1>2, <2>1 DEF Following
  <2>4. \A a \in s5' : Behind(a)' BY <1>2, <2>1 DEF StoriesInv, Feeds, Behind
  <2>5. QED BY <1>2, <2>2, <2>3, <2>4 DEF StoriesInv, Feeds
<1>14. QED BY <1>7, <1>12, <1>13 DEF StoriesInv

LEMMA StoriesUploaded == ASSUME StoriesInv, Y!Uploaded PROVE StoriesInv'
<1>1. PICK t \in s6 : /\ t.st = "upload" /\ Y!At(t, "create")
                      /\ UNCHANGED <<s1, s2, s3, s4, s5, s7, s11, s12, s13, s14, s15, s16, s17>>
  BY DEF Y!Uploaded
<1>2. /\ s6' \subseteq [n : 1..s11, st : {"upload", "create", "made", "refresh", "read"}]
      /\ \A v, u \in s6' : v.n = u.n => v = u
      /\ \A v \in s6' : (v \in s6 /\ v.n # t.n) \/ (v.n = t.n /\ v.st = "create")
      /\ \A v \in s6 : v = t \/ v \in s6'
      /\ \E v \in s6' : v.n = t.n /\ v.st = "create"
  BY <1>1, StoryGoes
<1>3. StoryTypes' BY <1>1, <1>2 DEF StoriesInv, StoryTypes, FeedAsk
<1>4. \A v \in s6' : v.st \in {"made", "refresh"} => Somewhere(v.n)'
  <2>1. \A v \in s6' : v.st \in {"made", "refresh"} => v \in s6 BY <1>2
  <2>2. QED BY <1>1, <2>1, StoryFacts DEF Somewhere
<1>5. \A a \in s5', v \in s6' : v.n = a.task => v.st = "refresh"
  <2>1. \A a \in s5 : a.task # t.n BY <1>1, StoryFacts
  <2>2. QED BY <1>1, <1>2, <2>1, StoryFacts
<1>6. Y!PublishedKept'
  <2>1. \A n \in 1..s11 : Somewhere(n) \/ \E v \in s6' : v.n = n BY <1>2, StoryFacts
  <2>2. QED BY <1>1, <2>1 DEF Y!PublishedKept, Somewhere
<1>7. StoryTasks' BY <1>2, <1>4, <1>5, <1>6 DEF StoryTasks
<1>8. Following => Following' BY <1>1, <1>2 DEF Following
<1>9. (\E v \in s6 : v.st \in {"made", "read"}) => \E v \in s6' : v.st \in {"made", "read"}
  BY <1>1, <1>2
<1>10. Y!ListFeed' = Y!ListFeed /\ Y!Merge(Y!ListFeed, s3)' = Y!Merge(Y!ListFeed, s3)
  BY <1>1 DEF Y!Merge, Y!ListFeed
<1>11. \A a \in s5' : Behind(a)' BY <1>1, <1>9 DEF StoriesInv, Feeds, Behind
<1>12. Feeds' BY <1>1, <1>8, <1>10, <1>11 DEF StoriesInv, Feeds
<1>13. QED BY <1>3, <1>7, <1>12 DEF StoriesInv

(* A publication that waits for the feed, or for the file to be read.                          *)
LEMMA StoriesFailed == ASSUME StoriesInv, Y!Failed PROVE StoriesInv'
<1>1. PICK t \in s6 : /\ t.st \in {"upload", "create", "made"} /\ Y!At(t, "read") /\ s7' = FALSE
                      /\ UNCHANGED <<s1, s2, s3, s4, s5, s11, s12, s13, s14, s15, s16, s17>>
  BY DEF Y!Failed
<1>2. /\ s6' \subseteq [n : 1..s11, st : {"upload", "create", "made", "refresh", "read"}]
      /\ \A v, u \in s6' : v.n = u.n => v = u
      /\ \A v \in s6' : (v \in s6 /\ v.n # t.n) \/ (v.n = t.n /\ v.st = "read")
      /\ \A v \in s6 : v = t \/ v \in s6'
      /\ \E v \in s6' : v.n = t.n /\ v.st = "read"
  BY <1>1, StoryGoes
<1>3. StoryTypes' BY <1>1, <1>2 DEF StoriesInv, StoryTypes, FeedAsk
<1>4. \A v \in s6' : v.st \in {"made", "refresh"} => Somewhere(v.n)'
  <2>1. \A v \in s6' : v.st \in {"made", "refresh"} => v \in s6 BY <1>2
  <2>2. QED BY <1>1, <2>1, StoryFacts DEF Somewhere
<1>5. \A a \in s5', v \in s6' : v.n = a.task => v.st = "refresh"
  <2>1. \A a \in s5 : a.task # t.n BY <1>1, StoryFacts
  <2>2. QED BY <1>1, <1>2, <2>1, StoryFacts
<1>6. Y!PublishedKept'
  <2>1. \A n \in 1..s11 : Somewhere(n) \/ \E v \in s6' : v.n = n BY <1>2, StoryFacts
  <2>2. QED BY <1>1, <2>1 DEF Y!PublishedKept, Somewhere
<1>7. StoryTasks' BY <1>2, <1>4, <1>5, <1>6 DEF StoryTasks
<1>8. Following' /\ \E v \in s6' : v.st \in {"made", "read"} BY <1>2 DEF Following
<1>9. Y!ListFeed' = Y!ListFeed BY <1>1 DEF Y!ListFeed
<1>10. \A a \in s5' : Behind(a)' BY <1>8 DEF Behind
<1>11. Feeds' BY <1>1, <1>8, <1>9, <1>10 DEF StoriesInv, Feeds
<1>12. QED BY <1>3, <1>7, <1>11 DEF StoriesInv

(* The row is there: it is the story of that number, and the feeds that were read are stale.   *)
LEMMA StoriesCreate == ASSUME StoriesInv, Y!Create PROVE StoriesInv'
<1>1. PICK t \in s6 : /\ t.st = "create" /\ Y!At(t, "made") /\ s1' = s1 \cup {Y!Of("me", t.n, FALSE)}
                      /\ s5' = Y!Aged(s5, "mine")
                      /\ UNCHANGED <<s2, s3, s4, s7, s11, s12, s13, s14, s15, s16, s17>>
  BY DEF Y!Create
<1>2. /\ s6' \subseteq [n : 1..s11, st : {"upload", "create", "made", "refresh", "read"}]
      /\ \A v, u \in s6' : v.n = u.n => v = u
      /\ \A v \in s6' : (v \in s6 /\ v.n # t.n) \/ (v.n = t.n /\ v.st = "made")
      /\ \A v \in s6 : v = t \/ v \in s6'
      /\ \E v \in s6' : v.n = t.n /\ v.st = "made"
  BY <1>1, StoryGoes
<1>3. s14' = s14 /\ s11' \in Nat /\ s11' >= s11 BY <1>1, StoryFacts
<1>4. /\ \A a \in s5' : FeedAsk(a)'
      /\ \A a \in s5' : \E b \in s5 : a.n = b.n /\ a.task = b.task
      /\ \A b \in s5 : \E a \in s5' : a.n = b.n
      /\ \A a \in s5' : a.feed # Nil => "mine" \in a.stale
      /\ \A a \in s5' : a.feed = Nil => a.stale = {}
  BY <1>1, <1>3, StoriesAge
<1>5. PICK m : m = Y!Of("me", t.n, FALSE) OBVIOUS
<1>6. m \in Y!Story /\ m.id = t.n
  <2>1. t.n \in 0..MaxStories BY StoryFacts
  <2>2. QED BY <1>5, <2>1 DEF Y!Of, Y!Story
<1>7. s1' = s1 \cup {m} BY <1>1, <1>5
<1>8. StoryTypes' BY <1>1, <1>2, <1>4, <1>6, <1>7 DEF StoriesInv, StoryTypes
<1>9. \A n : Somewhere(n) => Somewhere(n)' BY <1>1, <1>7 DEF Somewhere
<1>10. Somewhere(t.n)' BY <1>6, <1>7 DEF Somewhere
<1>11. \A v \in s6' : v.st \in {"made", "refresh"} => Somewhere(v.n)'
  BY <1>2, <1>9, <1>10, StoryFacts
<1>12. \A a \in s5', v \in s6' : v.n = a.task => v.st = "refresh"
  <2>1. \A a \in s5 : a.task # t.n BY <1>1, StoryFacts
  <2>2. \A a \in s5, v \in s6' : v.n = a.task => v.st = "refresh" BY <1>2, <2>1, StoryFacts
  <2>3. QED BY <1>4, <2>2
<1>13. Y!PublishedKept'
  <2>1. \A n \in 1..s11 : Somewhere(n)' \/ \E v \in s6' : v.n = n BY <1>2, <1>9, StoryFacts
  <2>2. QED BY <1>1, <2>1 DEF Y!PublishedKept, Somewhere
<1>14. StoryTasks' BY <1>2, <1>11, <1>12, <1>13 DEF StoryTasks
<1>15. Following' /\ \E v \in s6' : v.st \in {"made", "read"} BY <1>2 DEF Following
<1>16. s15' = s14' \/ \E a \in s5' : a.n = s14' BY <1>1, <1>4 DEF StoriesInv, Feeds
<1>17. \A a \in s5' : a.feed # Nil => a.stale # {} BY <1>4
<1>18. \A a \in s5' : Behind(a)' BY <1>15 DEF Behind
<1>19. Feeds' BY <1>4, <1>15, <1>16, <1>17, <1>18 DEF Feeds
<1>20. QED BY <1>8, <1>14, <1>19 DEF StoriesInv

(* Its answer: the strip is refreshed, and the publication waits for that.                     *)
LEMMA StoriesCreated == ASSUME StoriesInv, Y!Created PROVE StoriesInv'
<1>1. PICK t \in s6 : /\ t.st = "made" /\ Y!Refresh(t.n) /\ Y!At(t, "refresh")
                      /\ UNCHANGED <<s1, s2, s3, s4, s7, s11, s12, s13, s15, s16, s17>>
  BY DEF Y!Created
<1>2. /\ s6' \subseteq [n : 1..s11, st : {"upload", "create", "made", "refresh", "read"}]
      /\ \A v, u \in s6' : v.n = u.n => v = u
      /\ \A v \in s6' : (v \in s6 /\ v.n # t.n) \/ (v.n = t.n /\ v.st = "refresh")
      /\ \A v \in s6 : v = t \/ v \in s6'
      /\ \E v \in s6' : v.n = t.n /\ v.st = "refresh"
  BY <1>1, StoryGoes
<1>3. \A n : Somewhere(n)' = Somewhere(n) BY <1>1 DEF Somewhere
<1>4. \A v \in s6' : v.st \in {"made", "refresh"} => Somewhere(v.n)
  BY <1>1, <1>2, StoryFacts
<1>5. \A a \in s5, v \in s6' : v.n = a.task => v.st = "refresh" BY <1>2, StoryFacts
<1>6. Y!PublishedKept'
  <2>1. \A n \in 1..s11 : Somewhere(n) \/ \E v \in s6' : v.n = n BY <1>2, StoryFacts
  <2>2. QED BY <1>1, <2>1 DEF Y!PublishedKept, Somewhere
<1>7. t.n \in 0..s11 /\ s16' \in 0..StoryMoves BY <1>1, StoryFacts
<1>8. s3' \subseteq Y!Story BY <1>1 DEF StoriesInv, StoryTypes
<1>9. \A v \in s6' : v.st \in {"made", "refresh"} => Somewhere(v.n)' BY <1>3, <1>4
<1>10. \A v \in s6' : v.n = t.n => v.st = "refresh" BY <1>2
<1>11. QED BY <1>1, <1>2, <1>5, <1>6, <1>7, <1>8, <1>9, <1>10, StoriesRefresh

(* The copy kept here, or its loss, ends a publication.                                        *)
LEMMA StoriesRead == ASSUME StoriesInv, Y!Read PROVE StoriesInv'
<1>1. PICK t \in s6, full \in BOOLEAN :
        /\ t.st = "read" /\ s6' = s6 \ {t} /\ s3' = (IF full THEN s3 ELSE Y!Add(t))
        /\ s12' = (IF full THEN s12 \cup {t.n} ELSE s12) /\ Y!Refresh(0)
        /\ UNCHANGED <<s1, s2, s4, s7, s11, s13, s15, s16, s17>>
  BY DEF Y!Read, Y!AfterAdd
<1>2. PICK m : m = Y!Of("me", t.n, TRUE) OBVIOUS
<1>3. m \in Y!Story /\ m.id = t.n
  <2>1. t.n \in 0..MaxStories BY StoryFacts
  <2>2. QED BY <1>2, <2>1 DEF Y!Of, Y!Story
<1>4. s3' = s3 \/ s3' = s3 \cup {m} BY <1>1, <1>2 DEF Y!Add
<1>5. s3' \subseteq Y!Story BY <1>3, <1>4 DEF StoriesInv, StoryTypes
<1>6. Somewhere(t.n)'
  <2>1. CASE full BY <1>1, <2>1 DEF Somewhere
  <2>2. CASE ~full
    <3>1. m \in s3' BY <1>1, <1>2, <2>2 DEF Y!Add
    <3>2. QED BY <1>3, <3>1 DEF Somewhere
  <2>3. QED BY <2>1, <2>2
<1>7. \A n : Somewhere(n) => Somewhere(n)'
  <2>1. s3 \subseteq s3' /\ s1' = s1 /\ s12 \subseteq s12' BY <1>1, <1>4
  <2>2. QED BY <2>1 DEF Somewhere
<1>8. \A v \in s6' : v \in s6 /\ v.n # t.n BY <1>1, StoryFacts
<1>9. \A v, u \in s6' : v.n = u.n => v = u BY <1>8, StoryFacts
<1>10. \A v \in s6' : v.st \in {"made", "refresh"} => Somewhere(v.n)' BY <1>7, <1>8, StoryFacts
<1>11. \A a \in s5, v \in s6' : v.n = a.task => v.st = "refresh" BY <1>8, StoryFacts
<1>12. Y!PublishedKept'
  <2>1. \A v \in s6 : v.n = t.n \/ v \in s6' BY <1>1
  <2>2. \A n \in 1..s11 : Somewhere(n)' \/ \E v \in s6' : v.n = n BY <1>6, <1>7, <2>1, StoryFacts
  <2>3. QED BY <1>1, <2>2 DEF Y!PublishedKept, Somewhere
<1>13. s6' \subseteq [n : 1..s11, st : {"upload", "create", "made", "refresh", "read"}] /\ 0 \in 0..s11
       /\ s16' \in 0..StoryMoves /\ \A v \in s6' : v.n # 0
  <2>1. \A v \in s6' : v \in s6 BY <1>8
  <2>2. QED BY <1>1, <2>1, StoryFacts
<1>14. QED BY <1>1, <1>5, <1>9, <1>10, <1>11, <1>12, <1>13, StoriesRefresh

(* The file cannot be read: the story is lost here, and what is shown may be behind.           *)
LEMMA StoriesUnread == ASSUME StoriesInv, Y!Unread PROVE StoriesInv'
<1>1. PICK t \in s6 : /\ t.st = "read" /\ s6' = s6 \ {t} /\ s12' = s12 \cup {t.n}
                      /\ s5' = Y!Aged(s5, "unread") /\ s13' = s13 \cup {"unread"}
                      /\ UNCHANGED <<s1, s2, s3, s4, s7, s11, s14, s15, s16, s17>>
  BY DEF Y!Unread
<1>2. /\ \A a \in s5' : FeedAsk(a)'
      /\ \A a \in s5' : \E b \in s5 : a.n = b.n /\ a.task = b.task
      /\ \A b \in s5 : \E a \in s5' : a.n = b.n
      /\ \A a \in s5' : a.feed # Nil => "unread" \in a.stale
      /\ \A a \in s5' : a.feed = Nil => a.stale = {}
  BY <1>1, StoryFacts, StoriesAge
<1>3. StoryTypes' BY <1>1, <1>2 DEF StoriesInv, StoryTypes
<1>4. \A n : Somewhere(n) => Somewhere(n)' BY <1>1 DEF Somewhere
<1>5. Somewhere(t.n)' BY <1>1 DEF Somewhere
<1>6. Y!PublishedKept'
  <2>1. \A v \in s6 : v.n = t.n \/ v \in s6' BY <1>1
  <2>2. \A n \in 1..s11 : Somewhere(n)' \/ \E v \in s6' : v.n = n BY <1>4, <1>5, <2>1, StoryFacts
  <2>3. QED BY <1>1, <2>2 DEF Y!PublishedKept, Somewhere
<1>7. \A v \in s6' : v \in s6 BY <1>1
<1>8. \A a \in s5', v \in s6' : v.n = a.task => v.st = "refresh" BY <1>2, <1>7, StoryFacts
<1>9. \A v \in s6' : v.st \in {"made", "refresh"} => Somewhere(v.n)' BY <1>4, <1>7, StoryFacts
<1>10. \A v, u \in s6' : v.n = u.n => v = u BY <1>7, StoryFacts
<1>11. StoryTasks' BY <1>6, <1>8, <1>9, <1>10 DEF StoryTasks
<1>12. s15' = s14' \/ \E a \in s5' : a.n = s14' BY <1>1, <1>2 DEF StoriesInv, Feeds
<1>13. \A a \in s5' : Behind(a)' BY <1>2 DEF Behind
<1>14. \A a \in s5' : a.feed # Nil => a.stale # {} BY <1>2
<1>15. "unread" \in s13' BY <1>1
<1>16. Feeds' BY <1>2, <1>12, <1>13, <1>14, <1>15 DEF Feeds
<1>17. QED BY <1>3, <1>11, <1>16 DEF StoriesInv

(* The server reads the feed: that answer is the feed of this moment.                          *)
LEMMA StoriesServed == ASSUME StoriesInv, Y!ServeFeed PROVE StoriesInv'
<1>1. PICK a \in s5 : /\ a.feed = Nil /\ s5' = (s5 \ {a}) \cup {[a EXCEPT !.feed = Y!ListFeed]}
                      /\ UNCHANGED <<s1, s2, s3, s4, s6, s7, s11, s12, s13, s14, s15, s16, s17>>
  BY DEF Y!ServeFeed
<1>2. PICK m : m = [a EXCEPT !.feed = Y!ListFeed] OBVIOUS
<1>3. Y!ListFeed \in SUBSET Y!Story BY DEF Y!ListFeed, StoriesInv, StoryTypes
<1>4. a \in [n : 1..s14, task : 0..s11, feed : (SUBSET Y!Story) \cup {Nil}, stale : SUBSET {"others", "mine", "unread"}]
  BY StoryFacts DEF FeedAsk
<1>5. /\ m \in [n : 1..s14, task : 0..s11, feed : (SUBSET Y!Story) \cup {Nil}, stale : SUBSET {"others", "mine", "unread"}]
      /\ m.n = a.n /\ m.task = a.task /\ m.feed = Y!ListFeed /\ m.stale = a.stale
  BY <1>2, <1>3, <1>4
<1>6. s5' = (s5 \ {a}) \cup {m} BY <1>1, <1>2
<1>7. \A b \in s5' : b = m \/ b \in s5 BY <1>6
<1>8. \A b \in s5 : \E c \in s5' : c.n = b.n BY <1>5, <1>6
<1>9. \A b \in s5' : FeedAsk(b)
  <2>1. FeedAsk(m) BY <1>5 DEF FeedAsk
  <2>2. QED BY <1>7, <2>1, StoryFacts DEF FeedAsk
<1>10. StoryTypes' BY <1>1, <1>9 DEF StoriesInv, StoryTypes, FeedAsk
<1>11. \A b \in s5' : \E c \in s5 : c.n = b.n /\ c.task = b.task /\ c.stale = b.stale BY <1>5, <1>7
<1>12. \A b \in s5', t \in s6 : t.n = b.task => t.st = "refresh" BY <1>11, StoryFacts
<1>13. StoryTasks' BY <1>1, <1>12 DEF StoriesInv, StoryTasks, Somewhere, Y!PublishedKept
<1>14. Y!ListFeed' = Y!ListFeed /\ Y!Merge(Y!ListFeed, s3)' = Y!Merge(Y!ListFeed, s3)
  BY <1>1 DEF Y!ListFeed, Y!Merge
<1>15. Following => Following' BY <1>1, <1>8 DEF Following
<1>16. s15' = s14' \/ \E b \in s5' : b.n = s14' BY <1>1, <1>8 DEF StoriesInv, Feeds
<1>17. \A b \in s5' : b.feed # Nil /\ b.stale = {} => b.feed = Y!ListFeed
  BY <1>5, <1>7 DEF StoriesInv, Feeds
<1>18. \A b \in s5' : Behind(b) /\ (b.feed = Nil => b.stale = {})
  <2>1. Behind(a) /\ a.stale = {} BY <1>1 DEF StoriesInv, Feeds
  <2>2. Behind(m) /\ m.stale = {} BY <1>5, <2>1 DEF Behind
  <2>3. QED BY <1>7, <2>2 DEF StoriesInv, Feeds
<1>19. s13 \cap {"others", "failed", "late", "unread"} = {} => s4 = Y!Merge(Y!ListFeed, s3) \/ Following
  BY DEF StoriesInv, Feeds
<1>20. \A b \in s5' : Behind(b)' BY <1>1, <1>18 DEF Behind
<1>21. Feeds' BY <1>1, <1>14, <1>15, <1>16, <1>17, <1>18, <1>19, <1>20 DEF Feeds
<1>22. QED BY <1>10, <1>13, <1>21 DEF StoriesInv

(* Its answer, or its failure: what is shown is that feed, and one that is behind is followed. *)
LEMMA StoriesFeed == ASSUME StoriesInv, Y!Feed PROVE StoriesInv'
<1>1. PICK a \in s5, ok \in BOOLEAN :
        /\ ok => a.feed # Nil
        /\ s4' = Y!Merge(IF ok THEN a.feed ELSE {}, s3)
        /\ s5' = s5 \ {a}
        /\ s13' = (IF ok THEN a.stale ELSE {"failed"}) \cup (IF a.n < s15 THEN {"late"} ELSE {})
        /\ s15' = (IF a.n > s15 THEN a.n ELSE s15)
        /\ s7' = (s7 /\ a.task = 0)
        /\ s6' = {t \in s6 : t.n # a.task}
        /\ UNCHANGED <<s1, s2, s3, s11, s12, s14, s16, s17>>
  BY DEF Y!Feed, Y!Show
<1>2. a \in [n : 1..s14, task : 0..s11, feed : (SUBSET Y!Story) \cup {Nil}, stale : SUBSET {"others", "mine", "unread"}]
  BY StoryFacts DEF FeedAsk
<1>3. a.n \in 1..s14 /\ s14 \in Nat /\ s15 \in 0..s14 /\ s15' \in 0..s14
  <2>1. a.n \in 1..s14 BY <1>2
  <2>2. QED BY <1>1, <2>1, StoryFacts
<1>4. StoryTypes'
  <2>1. s4' \subseteq Y!Story
    <3>1. (IF ok THEN a.feed ELSE {}) \subseteq Y!Story BY <1>1, <1>2
    <3>2. s3 \subseteq Y!Story BY DEF StoriesInv, StoryTypes
    <3>3. QED BY <1>1, <3>1, <3>2 DEF Y!Merge
  <2>2. s13' \subseteq {"mine", "others", "failed", "late", "unread"}
    <3>1. a.stale \subseteq {"mine", "others", "unread"} BY <1>2
    <3>2. QED BY <1>1, <3>1
  <2>3. \A b \in s5' : FeedAsk(b)' BY <1>1, StoryFacts DEF FeedAsk
  <2>4. s7' \in BOOLEAN BY <1>1
  <2>5. s6' \subseteq s6 BY <1>1
  <2>6. s15' \in 0..s14' /\ s14' \in Nat BY <1>1, <1>3
  <2>7. /\ s1' \subseteq Y!Story /\ s3' \subseteq Y!Story /\ s2' \in BOOLEAN
        /\ s11' \in 0..MaxStories /\ s16' \in 0..StoryMoves /\ s17' \in 0..MaxAges
    BY <1>1 DEF StoriesInv, StoryTypes
  <2>8. s6' \subseteq [n : 1..s11', st : {"upload", "create", "made", "refresh", "read"}]
    BY <1>1, <2>5 DEF StoriesInv, StoryTypes
  <2>9. QED BY <2>1, <2>2, <2>3, <2>4, <2>6, <2>7, <2>8 DEF StoryTypes
<1>5. \A n : Somewhere(n)' = Somewhere(n) BY <1>1 DEF Somewhere
<1>6. \A t \in s6 : t \in s6' \/ (t.n = a.task /\ t.st = "refresh" /\ Somewhere(t.n))
  BY <1>1, StoryFacts
<1>7. StoryTasks'
  <2>1. \A t \in s6' : t \in s6 BY <1>1
  <2>2. \A n \in 1..s11 : Somewhere(n) \/ \E t \in s6' : t.n = n BY <1>6, StoryFacts
  <2>3. Y!PublishedKept' BY <1>1, <2>2 DEF Y!PublishedKept, Somewhere
  <2>4. \A t, u \in s6' : t.n = u.n => t = u BY <2>1, StoryFacts
  <2>5. \A t \in s6' : t.st \in {"made", "refresh"} => Somewhere(t.n)' BY <1>5, <2>1, StoryFacts
  <2>6. \A b \in s5', t \in s6' : t.n = b.task => t.st = "refresh" BY <1>1, <2>1, StoryFacts
  <2>7. QED BY <2>3, <2>4, <2>5, <2>6 DEF StoryTasks
<1>8. Y!ListFeed' = Y!ListFeed BY <1>1 DEF Y!ListFeed
<1>9. (\E t \in s6 : t.st \in {"made", "read"}) => \E t \in s6' : t.st \in {"made", "read"}
  BY <1>6
<1>10. s15' = s14' \/ \E b \in s5' : b.n = s14'
  <2>1. CASE a.n = s14 BY <1>1, <1>3, <2>1
  <2>2. CASE a.n # s14
    <3>1. CASE s15 = s14 BY <1>1, <1>3, <3>1
    <3>2. CASE \E b \in s5 : b.n = s14 BY <1>1, <2>2, <3>2
    <3>3. QED BY <3>1, <3>2 DEF StoriesInv, Feeds
  <2>3. QED BY <2>1, <2>2
<1>11. \A b \in s5' : b.feed # Nil /\ b.stale = {} => b.feed = Y!ListFeed'
  BY <1>1, <1>8 DEF StoriesInv, Feeds
<1>12. \A b \in s5' : Behind(b)' /\ (b.feed = Nil => b.stale = {})
  BY <1>1, <1>9 DEF StoriesInv, Feeds, Behind
<1>13. ASSUME s13' \cap {"others", "failed", "late", "unread"} = {}
       PROVE  s4' = Y!Merge(Y!ListFeed, s3)' \/ Following'
  <2>1. ok /\ a.stale \subseteq {"mine"} /\ a.n >= s15
    <3>1. ok BY <1>1, <1>13
    <3>2. a.stale \subseteq {"mine", "others", "unread"} BY <1>2
    <3>3. a.stale \subseteq s13' BY <1>1, <3>1
    <3>4. "late" \notin s13' BY <1>13
    <3>5. ~(a.n < s15) BY <1>1, <3>4
    <3>6. a.n >= s15 BY <1>3, <3>5
    <3>7. QED BY <1>13, <3>1, <3>2, <3>3, <3>6
  <2>2. CASE a.stale = {}
    <3>1. a.feed = Y!ListFeed BY <1>1, <2>1, <2>2 DEF StoriesInv, Feeds
    <3>2. s4' = Y!Merge(Y!ListFeed, s3) BY <1>1, <2>1, <3>1
    <3>3. QED BY <1>1, <1>8, <3>2 DEF Y!Merge
  <2>3. CASE "mine" \in a.stale
    <3>1. a.n < s14 \/ \E t \in s6 : t.st \in {"made", "read"}
      BY <2>1, <2>3 DEF StoriesInv, Feeds, Behind
    <3>2. CASE a.n < s14
      <4>1. a.n # s14 /\ s15 # s14 BY <1>3, <2>1, <3>2
      <4>2. PICK b \in s5 : b.n = s14 BY <4>1 DEF StoriesInv, Feeds
      <4>3. b \in s5' /\ s14' = s14 BY <1>1, <4>1, <4>2
      <4>4. QED BY <4>2, <4>3 DEF Following
    <3>3. CASE \E t \in s6 : t.st \in {"made", "read"} BY <1>9, <3>3 DEF Following
    <3>4. QED BY <3>1, <3>2, <3>3
  <2>4. QED BY <2>1, <2>2, <2>3
<1>14. Feeds' BY <1>10, <1>11, <1>12, <1>13 DEF Feeds
<1>15. QED BY <1>4, <1>7, <1>14 DEF StoriesInv

(* The rest of the world: every feed that was read is stale of others, and so is the strip.    *)
LEMMA StoriesElsewhere ==
  ASSUME StoriesInv, Y!Elsewhere, UNCHANGED <<s4, s6, s7, s14, s15, s16>>,
         s1' \subseteq Y!Story, s3' \subseteq Y!Story, s2' \in BOOLEAN,
         s11' \in 0..MaxStories, s11' >= s11, s17' \in 0..MaxAges,
         \A n : Somewhere(n) => Somewhere(n)',
         \A n \in 1..s11' : n > s11 => Somewhere(n)'
  PROVE  StoriesInv'
<1>1. s5' = Y!Aged(s5, "others") /\ s13' = s13 \cup {"others"} BY DEF Y!Elsewhere
<1>2. s11' \in Nat BY StoryFacts
<1>3. /\ \A a \in s5' : FeedAsk(a)'
      /\ \A a \in s5' : \E b \in s5 : a.n = b.n /\ a.task = b.task
      /\ \A b \in s5 : \E a \in s5' : a.n = b.n
      /\ \A a \in s5' : a.feed # Nil => "others" \in a.stale
      /\ \A a \in s5' : "mine" \in a.stale =>
                          \E b \in s5 : a.n = b.n /\ "mine" \in b.stale /\ b.stale \subseteq a.stale
      /\ \A a \in s5' : a.feed = Nil => a.stale = {}
  BY <1>1, <1>2, StoriesAge
<1>4. s6' \subseteq [n : 1..s11', st : {"upload", "create", "made", "refresh", "read"}]
  <2>1. 1..s11 \subseteq 1..s11' BY <1>2, StoryFacts
  <2>2. QED BY <2>1 DEF StoriesInv, StoryTypes
<1>5. StoryTypes' BY <1>1, <1>3, <1>4 DEF StoriesInv, StoryTypes
<1>6. Y!PublishedKept'
  <2>1. ASSUME NEW n \in 1..s11' PROVE Somewhere(n)' \/ \E t \in s6' : t.n = n
    <3>1. CASE n > s11 BY <3>1
    <3>2. CASE ~(n > s11)
      <4>1. n \in 1..s11 BY <1>2, <3>2, StoryFacts
      <4>2. QED BY <4>1, StoryFacts
    <3>3. QED BY <3>1, <3>2
  <2>2. QED BY <2>1 DEF Y!PublishedKept, Somewhere
<1>7. \A a \in s5', t \in s6' : t.n = a.task => t.st = "refresh" BY <1>3, StoryFacts
<1>8. \A t \in s6' : t.st \in {"made", "refresh"} => Somewhere(t.n)' BY StoryFacts
<1>9. \A t, u \in s6' : t.n = u.n => t = u BY StoryFacts
<1>10. StoryTasks' BY <1>6, <1>7, <1>8, <1>9 DEF StoryTasks
<1>11. "others" \in s13' BY <1>1
<1>12. s15' = s14' \/ \E a \in s5' : a.n = s14' BY <1>3 DEF StoriesInv, Feeds
<1>13. \A a \in s5' : Behind(a)' BY <1>3 DEF StoriesInv, Feeds, Behind
<1>14. \A a \in s5' : a.feed # Nil => a.stale # {} BY <1>3
<1>15. Feeds' BY <1>3, <1>11, <1>12, <1>13, <1>14 DEF Feeds
<1>16. QED BY <1>5, <1>10, <1>15 DEF StoriesInv

LEMMA StoriesWorld == ASSUME StoriesInv, Y!PeerPosts \/ Y!Expire \/ Y!Unfriend PROVE StoriesInv'
<1>1. CASE Y!PeerPosts
  <2>1. PICK m : m = Y!Of("peer", s11 + 1, FALSE) OBVIOUS
  <2>2. /\ s11 < MaxStories /\ s11' = s11 + 1 /\ s1' = s1 \cup {m} /\ Y!Elsewhere
        /\ UNCHANGED <<s2, s3, s4, s6, s7, s12, s14, s15, s16, s17>>
    BY <1>1, <2>1 DEF Y!PeerPosts
  <2>3. s11' \in 0..MaxStories /\ s11' >= s11 BY <2>2, StoryFacts
  <2>4. m \in Y!Story /\ m.id = s11'
    <3>1. s11 + 1 \in 0..MaxStories BY <2>2, <2>3
    <3>2. QED BY <2>1, <2>2, <3>1 DEF Y!Of, Y!Story
  <2>5. s1' \subseteq Y!Story /\ s3' \subseteq Y!Story /\ s2' \in BOOLEAN /\ s17' \in 0..MaxAges
    BY <2>2, <2>4 DEF StoriesInv, StoryTypes
  <2>6. \A n : Somewhere(n) => Somewhere(n)' BY <2>2 DEF Somewhere
  <2>7. \A n : n = m.id => Somewhere(n)' BY <2>2 DEF Somewhere
  <2>8. \A n \in 1..s11' : n > s11 => n = s11' BY <2>2, StoryFacts
  <2>9. \A n \in 1..s11' : n > s11 => Somewhere(n)' BY <2>4, <2>7, <2>8
  <2>10. QED BY <2>2, <2>3, <2>5, <2>6, <2>9, StoriesElsewhere
<1>2. CASE Y!Expire
  <2>1. PICK s \in s1 \cup s3 : /\ s1' = s1 \ {s} /\ s3' = s3 \ {s} /\ s12' = s12 \cup {s.id}
                                /\ s17 < MaxAges /\ s17' = s17 + 1 /\ Y!Elsewhere
                                /\ UNCHANGED <<s2, s4, s6, s7, s11, s14, s15, s16>>
    BY <1>2 DEF Y!Expire
  <2>2. s17' \in 0..MaxAges BY <2>1, StoriesAssumption DEF StoriesInv, StoryTypes, Y!StoriesConstants
  <2>3. s1' \subseteq Y!Story /\ s3' \subseteq Y!Story /\ s2' \in BOOLEAN
    BY <2>1 DEF StoriesInv, StoryTypes
  <2>4. \A n : Somewhere(n) => Somewhere(n)' BY <2>1 DEF Somewhere
  <2>5. s11' \in 0..MaxStories /\ s11' >= s11 /\ \A n \in 1..s11' : ~(n > s11) BY <2>1, StoryFacts
  <2>6. QED BY <2>1, <2>2, <2>3, <2>4, <2>5, StoriesElsewhere
<1>3. CASE Y!Unfriend
  <2>1. s2' = FALSE /\ Y!Elsewhere /\ UNCHANGED <<s1, s3, s4, s6, s7, s11, s12, s14, s15, s16, s17>>
    BY <1>3 DEF Y!Unfriend
  <2>2. s1' \subseteq Y!Story /\ s3' \subseteq Y!Story /\ s17' \in 0..MaxAges /\ s2' \in BOOLEAN
    BY <2>1 DEF StoriesInv, StoryTypes
  <2>3. \A n : Somewhere(n) => Somewhere(n)' BY <2>1 DEF Somewhere
  <2>4. s11' \in 0..MaxStories /\ s11' >= s11 /\ \A n \in 1..s11' : ~(n > s11) BY <2>1, StoryFacts
  <2>5. QED BY <2>1, <2>2, <2>3, <2>4, StoriesElsewhere
<1>4. QED BY <1>1, <1>2, <1>3

LEMMA StoriesStep == ASSUME StoriesInv, Y!Next PROVE StoriesInv'
BY StoriesClick, StoriesSubmit, StoriesUploaded, StoriesFailed, StoriesCreate, StoriesCreated, StoriesRead,
   StoriesUnread, StoriesServed, StoriesFeed, StoriesWorld
   DEF Y!Next

-----------------------------------------------------------------------------
(* The in-app browser (Browser): s2 and s3 are the tabs and the active one, s4 and s5 their    *)
(* addresses and histories, s7 the line, s8 the tabs that load, s11 the ids given, s13 why the *)
(* line may be wrong.                                                                          *)
Has(t) == \E i \in 1..Len(s2) : s2[i] = t
TabsInv ==
  /\ s1 \in BOOLEAN /\ s11 \in Nat /\ s2 \in Seq(Nat) /\ Len(s2) <= BROWSER_MAX_TABS
  /\ \A i \in 1..Len(s2) : s2[i] < s11
  /\ \A i, j \in 1..Len(s2) : s2[i] = s2[j] => i = j
  /\ s3 # s11 /\ ((Len(s2) > 0) <=> Has(s3))

(* The place of a history is one of it.                                                        *)
Visited == {h \in [stack : Seq(Pages), idx : Nat] : h.idx \in 1..Len(h.stack)}
PagesInv ==
  /\ \A i \in 1..Len(s2) : s2[i] \in DOMAIN s4 /\ s2[i] \in DOMAIN s5
  /\ \A t \in DOMAIN s4 : s4[t] \in Pages
  /\ \A t \in DOMAIN s5 : s5[t] \in Visited
  /\ ~s1 => \A i \in 1..Len(s2) : s5[s2[i]].stack[s5[s2[i]].idx] = s4[s2[i]]
LineInv == Has(s3) /\ s13 = {} => s7 = (s3 \in s8)
BrowserInv == TabsInv /\ PagesInv /\ LineInv

LEMMA OpenMeans == ASSUME TabsInv PROVE B!Open <=> Has(s3)
BY DEF TabsInv, B!Open, B!Range, Has
LEMMA OpenAgain == ASSUME TabsInv' PROVE B!Open' <=> Has(s3)'
BY DEF TabsInv, B!Open, B!Range, Has

(* It holds at the start, and says what is checked.                                           *)
LEMMA BrowserInit == ASSUME B!Init PROVE BrowserInv
<1>1. s1 \in BOOLEAN /\ s2 = <<>> /\ s3 = Nil /\ s11 = 0 /\ DOMAIN s4 = {} /\ DOMAIN s5 = {}
  BY DEF B!Init
<1>2. Len(s2) = 0 /\ s2 \in Seq(Nat) BY <1>1
<1>3. Nil # 0 /\ BROWSER_MAX_TABS \in Nat BY BrowserAssumption DEF B!BrowserConstants
<1>4. ~Has(s3) BY <1>2 DEF Has
<1>5. TabsInv BY <1>1, <1>2, <1>3, <1>4 DEF TabsInv
<1>6. PagesInv BY <1>1, <1>2 DEF PagesInv
<1>7. QED BY <1>4, <1>5, <1>6 DEF BrowserInv, LineInv

LEMMA BrowserHeld == ASSUME BrowserInv PROVE B!HistoryHere /\ B!LineTrue
<1>1. B!Open <=> Has(s3) BY OpenMeans DEF BrowserInv
<1>2. (s2 # <<>>) = B!Open /\ Len(s2) <= BROWSER_MAX_TABS
  <2>1. s2 \in Seq(Nat) BY DEF BrowserInv, TabsInv
  <2>2. s2 # <<>> <=> Len(s2) > 0 BY <2>1
  <2>3. (s2 # <<>>) <=> B!Open BY <1>1, <2>2 DEF BrowserInv, TabsInv
  <2>4. B!Open \in BOOLEAN BY DEF B!Open
  <2>5. QED BY <2>3, <2>4 DEF BrowserInv, TabsInv
<1>3. ~s1 => \A t \in B!Range(s2) : s5[t].stack[s5[t].idx] = s4[t]
  BY DEF BrowserInv, TabsInv, PagesInv, B!Range
<1>4. B!LineTrue BY <1>1 DEF B!LineTrue, BrowserInv, LineInv
<1>5. QED BY <1>2, <1>3, <1>4 DEF B!HistoryHere

(* Sequences: a place taken out, and put in elsewhere.                                         *)
LEMMA TakenOut ==
  ASSUME NEW q \in Seq(Nat), NEW i \in 1..Len(q)
  PROVE  /\ B!RemoveAt(q, i) \in Seq(Nat) /\ Len(B!RemoveAt(q, i)) = Len(q) - 1
         /\ \A j \in 1..i - 1 : B!RemoveAt(q, i)[j] = q[j]
         /\ \A j \in i..Len(q) - 1 : B!RemoveAt(q, i)[j] = q[j + 1]
<1>. DEFINE n == Len(q)
<1>1. PICK a : a = SubSeq(q, 1, i - 1) OBVIOUS
<1>2. PICK b : b = SubSeq(q, i + 1, n) OBVIOUS
<1>3. n \in Nat /\ i \in 1..n OBVIOUS
<1>4. a \in Seq(Nat) /\ Len(a) = i - 1 /\ \A j \in 1..i - 1 : a[j] = q[j] BY <1>1
<1>5. b \in Seq(Nat) /\ Len(b) = n - i /\ \A j \in 1..n - i : b[j] = q[i + j] BY <1>2
<1>6. PICK c : c = B!RemoveAt(q, i) OBVIOUS
<1>7. c = a \o b BY <1>1, <1>2, <1>6 DEF B!RemoveAt
<1>8. /\ c \in Seq(Nat) /\ Len(c) = Len(a) + Len(b)
      /\ \A j \in 1..Len(a) + Len(b) : c[j] = IF j <= Len(a) THEN a[j] ELSE b[j - Len(a)]
  BY <1>4, <1>5, <1>7, ConcatProperties
<1>. HIDE DEF n
<1>9. Len(c) = n - 1 BY <1>3, <1>4, <1>5, <1>8
<1>10. ASSUME NEW j \in 1..i - 1 PROVE c[j] = q[j]
  <2>1. j \in 1..Len(a) + Len(b) /\ j <= Len(a) BY <1>3, <1>4, <1>5
  <2>2. QED BY <1>4, <1>8, <2>1
<1>11. ASSUME NEW j \in i..n - 1 PROVE c[j] = q[j + 1]
  <2>1. PICK k : k = j - Len(a) OBVIOUS
  <2>2. j \in 1..Len(a) + Len(b) /\ ~(j <= Len(a)) /\ k \in 1..n - i /\ i + k = j + 1
    BY <1>3, <1>4, <1>5, <2>1
  <2>3. c[j] = b[k] BY <1>8, <2>1, <2>2
  <2>4. b[k] = q[i + k] BY <1>5, <2>2
  <2>5. QED BY <2>2, <2>3, <2>4
<1>12. QED BY <1>6, <1>8, <1>9, <1>10, <1>11 DEF n

LEMMA PutIn ==
  ASSUME NEW q \in Seq(Nat), NEW i \in 1..Len(q) + 1, NEW e \in Nat
  PROVE  /\ B!InsertAt(q, i, e) \in Seq(Nat) /\ Len(B!InsertAt(q, i, e)) = Len(q) + 1
         /\ B!InsertAt(q, i, e)[i] = e
         /\ \A j \in 1..i - 1 : B!InsertAt(q, i, e)[j] = q[j]
         /\ \A j \in i..Len(q) : B!InsertAt(q, i, e)[j + 1] = q[j]
<1>. DEFINE n == Len(q)
<1>1. PICK a : a = SubSeq(q, 1, i - 1) OBVIOUS
<1>2. PICK b : b = SubSeq(q, i, n) OBVIOUS
<1>3. n \in Nat /\ i \in 1..n + 1 OBVIOUS
<1>4. a \in Seq(Nat) /\ Len(a) = i - 1 /\ \A j \in 1..i - 1 : a[j] = q[j] BY <1>1
<1>5. b \in Seq(Nat) /\ Len(b) = n - i + 1 /\ \A j \in 1..n - i + 1 : b[j] = q[i + j - 1] BY <1>2
<1>6. PICK d : d = <<e>> OBVIOUS
<1>7. d \in Seq(Nat) /\ Len(d) = 1 /\ d[1] = e BY <1>6
<1>8. PICK m : m = a \o d OBVIOUS
<1>9. /\ m \in Seq(Nat) /\ Len(m) = Len(a) + Len(d)
      /\ \A j \in 1..Len(a) + Len(d) : m[j] = IF j <= Len(a) THEN a[j] ELSE d[j - Len(a)]
  BY <1>4, <1>7, <1>8, ConcatProperties
<1>10. PICK c : c = B!InsertAt(q, i, e) OBVIOUS
<1>11. c = m \o b BY <1>1, <1>2, <1>6, <1>8, <1>10 DEF B!InsertAt
<1>12. /\ c \in Seq(Nat) /\ Len(c) = Len(m) + Len(b)
       /\ \A j \in 1..Len(m) + Len(b) : c[j] = IF j <= Len(m) THEN m[j] ELSE b[j - Len(m)]
  <2>1. m \in Seq(Nat) /\ b \in Seq(Nat) BY <1>5, <1>9
  <2>2. QED BY <1>11, <2>1, ConcatProperties
<1>. HIDE DEF n
<1>13. Len(m) = i /\ Len(c) = n + 1 BY <1>3, <1>4, <1>5, <1>7, <1>9, <1>12
<1>14. c[i] = e
  <2>1. i \in 1..Len(a) + Len(d) /\ ~(i <= Len(a)) /\ i - Len(a) = 1 BY <1>3, <1>4, <1>7
  <2>2. m[i] = e BY <1>7, <1>9, <2>1
  <2>3. i \in 1..Len(m) + Len(b) /\ i <= Len(m) BY <1>3, <1>5, <1>13
  <2>4. QED BY <1>12, <2>2, <2>3
<1>15. ASSUME NEW j \in 1..i - 1 PROVE c[j] = q[j]
  <2>1. j \in 1..Len(a) + Len(d) /\ j <= Len(a) BY <1>3, <1>4, <1>7
  <2>2. m[j] = q[j] BY <1>4, <1>9, <2>1
  <2>3. j \in 1..Len(m) + Len(b) /\ j <= Len(m) BY <1>3, <1>5, <1>13
  <2>4. QED BY <1>12, <2>2, <2>3
<1>16. ASSUME NEW j \in i..n PROVE c[j + 1] = q[j]
  <2>1. PICK k : k = j + 1 - Len(m) OBVIOUS
  <2>2. Len(m) = i /\ Len(b) = n - i + 1 /\ j \in i..n BY <1>5, <1>13
  <2>3. k = j + 1 - i /\ Len(m) + Len(b) = n + 1 BY <1>3, <2>1, <2>2
  <2>4. k \in 1..n - i + 1 /\ i + k - 1 = j BY <1>3, <2>2, <2>3
  <2>5. j + 1 \in 1..n + 1 /\ ~(j + 1 <= i) BY <1>3, <2>2
  <2>6. c[j + 1] = b[k] BY <1>12, <2>1, <2>2, <2>3, <2>5
  <2>7. b[k] = q[i + k - 1] BY <1>5, <2>4
  <2>8. QED BY <2>4, <2>6, <2>7
<1>17. QED BY <1>10, <1>12, <1>13, <1>14, <1>15, <1>16 DEF n

(* The tabs after one of them is taken away, at its place or at the front.                     *)
LEMMA TabTaken ==
  ASSUME TabsInv, NEW k \in 1..Len(s2)
  PROVE  \E q \in Seq(Nat) :
           /\ q = B!RemoveAt(s2, k) /\ Len(q) = Len(s2) - 1
           /\ \A j \in 1..Len(q) : \E i \in 1..Len(s2) : q[j] = s2[i] /\ i # k
           /\ \A i \in 1..Len(s2) : i # k => \E j \in 1..Len(q) : q[j] = s2[i]
           /\ \A i, j \in 1..Len(q) : q[i] = q[j] => i = j
<1>1. s2 \in Seq(Nat) /\ Len(s2) \in Nat /\ \A i, j \in 1..Len(s2) : s2[i] = s2[j] => i = j BY DEF TabsInv
<1>. DEFINE q == B!RemoveAt(s2, k)
<1>2. /\ q \in Seq(Nat) /\ Len(q) = Len(s2) - 1
      /\ \A j \in 1..k - 1 : q[j] = s2[j]
      /\ \A j \in k..Len(s2) - 1 : q[j] = s2[j + 1]
  BY <1>1, TakenOut
<1>. HIDE DEF q
<1>3. ASSUME NEW j \in 1..Len(q) PROVE \E i \in 1..Len(s2) : q[j] = s2[i] /\ i # k
  <2>1. CASE j < k
    <3>1. j \in 1..k - 1 /\ j \in 1..Len(s2) /\ j # k BY <1>1, <1>2, <2>1
    <3>2. QED BY <1>2, <3>1
  <2>2. CASE j >= k
    <3>1. j \in k..Len(s2) - 1 /\ j + 1 \in 1..Len(s2) /\ j + 1 # k BY <1>1, <1>2, <2>2
    <3>2. QED BY <1>2, <3>1
  <2>3. QED BY <2>1, <2>2
<1>4. ASSUME NEW i \in 1..Len(s2), i # k PROVE \E j \in 1..Len(q) : q[j] = s2[i]
  <2>1. CASE i < k
    <3>1. Len(s2) \in Nat /\ Len(q) = Len(s2) - 1 /\ k \in 1..Len(s2) /\ i \in 1..Len(s2)
      BY <1>1, <1>2, <1>4
    <3>2. i \in 1..k - 1 /\ i \in 1..Len(q) BY <2>1, <3>1
    <3>3. QED BY <1>2, <3>2
  <2>2. CASE i > k
    <3>1. PICK j : j = i - 1 OBVIOUS
    <3>2. Len(s2) \in Nat /\ Len(q) = Len(s2) - 1 /\ k \in 1..Len(s2) /\ i \in 1..Len(s2)
      BY <1>1, <1>2, <1>4
    <3>3. j \in k..Len(s2) - 1 /\ j \in 1..Len(q) /\ j + 1 = i BY <2>2, <3>1, <3>2
    <3>4. QED BY <1>2, <3>3
  <2>3. QED BY <1>4, <2>1, <2>2
<1>5. ASSUME NEW i \in 1..Len(q), NEW j \in 1..Len(q), q[i] = q[j] PROVE i = j
  <2>1. CASE i < k /\ j < k
    <3>1. i \in 1..k - 1 /\ j \in 1..k - 1 /\ i \in 1..Len(s2) /\ j \in 1..Len(s2) BY <1>1, <2>1
    <3>2. QED BY <1>1, <1>2, <1>5, <3>1
  <2>2. CASE i >= k /\ j >= k
    <3>1. i \in k..Len(s2) - 1 /\ j \in k..Len(s2) - 1 /\ i + 1 \in 1..Len(s2) /\ j + 1 \in 1..Len(s2)
      BY <1>1, <1>2, <2>2
    <3>2. i + 1 = j + 1 BY <1>1, <1>2, <1>5, <3>1
    <3>3. QED BY <3>2
  <2>3. CASE i < k /\ j >= k
    <3>1. i \in 1..k - 1 /\ j \in k..Len(s2) - 1 BY <1>1, <1>2, <2>3
    <3>2. i \in 1..Len(s2) /\ j + 1 \in 1..Len(s2) /\ i # j + 1 BY <1>1, <3>1
    <3>3. s2[i] = s2[j + 1] BY <1>2, <1>5, <3>1
    <3>4. QED BY <1>1, <3>2, <3>3
  <2>4. CASE i >= k /\ j < k
    <3>1. j \in 1..k - 1 /\ i \in k..Len(s2) - 1 BY <1>1, <1>2, <2>4
    <3>2. j \in 1..Len(s2) /\ i + 1 \in 1..Len(s2) /\ j # i + 1 BY <1>1, <3>1
    <3>3. s2[j] = s2[i + 1] BY <1>2, <1>5, <3>1
    <3>4. QED BY <1>1, <3>2, <3>3
  <2>5. QED BY <1>1, <1>2, <2>1, <2>2, <2>3, <2>4
<1>6. QED BY <1>2, <1>3, <1>4, <1>5 DEF q

(* A step that leaves the tabs alone keeps what holds of them.                                 *)
LEMMA TabsStay ==
  ASSUME TabsInv, UNCHANGED <<s1, s2, s11>>, s3' = s3 \/ Has(s3')
  PROVE  TabsInv' /\ \A t : Has(t)' <=> Has(t)
<1>1. \A t : Has(t)' <=> Has(t) BY DEF Has
<1>2. ASSUME Has(s3') PROVE s3' # s11 /\ Has(s3)' /\ Len(s2) > 0
  <2>1. PICK i \in 1..Len(s2) : s2[i] = s3' BY <1>2 DEF Has
  <2>2. s2[i] < s11 /\ s2[i] \in Nat /\ s11 \in Nat /\ Len(s2) \in Nat BY DEF TabsInv
  <2>3. QED BY <2>1, <2>2 DEF Has
<1>3. CASE s3' = s3 BY <1>1, <1>3 DEF TabsInv, Has
<1>4. CASE Has(s3') BY <1>1, <1>2, <1>4 DEF TabsInv
<1>5. QED BY <1>1, <1>3, <1>4

(* The effects on the active tab: the line follows its address.                                *)
Where == IF Has(s3) THEN s4[s3] ELSE Nil
LEMMA BrowserFollows ==
  ASSUME TabsInv, TabsInv', PagesInv, PagesInv', LineInv, B!Follow,
         Has(s3) /\ s3' = s3 /\ s4'[s3] = s4[s3] => (s3 \in s8' <=> s3 \in s8),
         Has(s3)' /\ s3' = s3 /\ Has(s3) /\ s4'[s3] # s4[s3] => s3 \in s8',
         Has(s3)' /\ ~Has(s3) => s3' # s3 /\ s3' \in s8'
  PROVE  LineInv'
<1>1. (B!Open <=> Has(s3)) /\ (B!Open' <=> Has(s3)') BY OpenMeans, OpenAgain
<1>2. SUFFICES ASSUME Has(s3)', s13' = {} PROVE s7' = (s3' \in s8')
  BY DEF LineInv
<1>3. B!ActiveUrl' = s4'[s3'] /\ s4'[s3'] # Nil
  <2>1. s3' \in DOMAIN s4' BY <1>2 DEF PagesInv, Has
  <2>2. s4'[s3'] \in Pages BY <2>1 DEF PagesInv
  <2>3. s4'[s3'] # Nil BY <2>2, BrowserAssumption DEF B!BrowserConstants
  <2>4. QED BY <1>1, <1>2, <2>3 DEF B!ActiveUrl
<1>4. CASE Has(s3) /\ s3' = s3 /\ s4'[s3] = s4[s3]
  <2>1. B!ActiveUrl = s4[s3] BY <1>1, <1>4 DEF B!ActiveUrl
  <2>2. <<s3, B!ActiveUrl>>' = <<s3, B!ActiveUrl>> BY <1>3, <1>4, <2>1
  <2>3. s7' = s7 /\ s13' = s13 BY <2>2 DEF B!Follow
  <2>4. QED BY <1>2, <1>4, <2>3 DEF LineInv
<1>5. CASE ~(Has(s3) /\ s3' = s3 /\ s4'[s3] = s4[s3])
  <2>1. <<s3, B!ActiveUrl>>' # <<s3, B!ActiveUrl>>
    <3>1. CASE s3' # s3 BY <3>1
    <3>2. CASE s3' = s3 /\ Has(s3)
      <4>1. B!ActiveUrl = s4[s3] /\ s4'[s3'] # s4[s3] BY <1>1, <1>5, <3>2 DEF B!ActiveUrl
      <4>2. QED BY <1>3, <4>1
    <3>3. CASE s3' = s3 /\ ~Has(s3) BY <1>2, <3>3
    <3>4. QED BY <3>1, <3>2, <3>3
  <2>2. /\ s7' = TRUE
        /\ s13' = (IF s3' = s3 THEN s13 ELSE IF s3' \in s8' THEN {} ELSE {"switched"})
    BY <1>3, <2>1 DEF B!Follow
  <2>3. CASE s3' = s3
    <3>1. s3' \in s8' BY <1>2, <1>5, <2>3
    <3>2. QED BY <2>2, <3>1
  <2>4. CASE s3' # s3
    <3>1. s3' \in s8' BY <1>2, <2>2, <2>4
    <3>2. QED BY <2>2, <3>1
  <2>5. QED BY <2>3, <2>4
<1>6. QED BY <1>4, <1>5

(* A tab that is chosen.                                                                       *)
LEMMA BrowserChoose == ASSUME BrowserInv, NEW t, B!ChooseTab(t) PROVE BrowserInv'
<1>1. TabsInv /\ PagesInv /\ LineInv BY DEF BrowserInv
<1>2. s3' = t /\ UNCHANGED <<s1, s2, s4, s5, s8, s11>> /\ B!Follow /\ t \in B!Range(s2)
  BY DEF B!ChooseTab
<1>3. Has(t) BY <1>1, <1>2 DEF B!Range, Has, TabsInv
<1>4. TabsInv' /\ Has(s3)' /\ Has(s3)
  <2>1. TabsInv' /\ \A x : Has(x)' <=> Has(x) BY <1>1, <1>2, <1>3, TabsStay
  <2>2. Has(s3) BY OpenMeans, <1>1 DEF B!ChooseTab
  <2>3. Has(s3)' BY <1>2, <1>3 DEF Has
  <2>4. QED BY <2>1, <2>2, <2>3
<1>5. PagesInv' BY <1>1, <1>2 DEF PagesInv
<1>6. LineInv' BY <1>1, <1>2, <1>4, <1>5, BrowserFollows
<1>7. QED BY <1>4, <1>5, <1>6 DEF BrowserInv

(* The active tab goes to a page, with the history it has then.                                *)
LEMMA BrowserGoes ==
  ASSUME BrowserInv, B!Open, NEW p \in Pages, NEW h, B!Goes(p, h), s11' = s11,
         DOMAIN h = DOMAIN s5, \A t \in DOMAIN s5 : t # s3 => h[t] = s5[t],
         h[s3] \in Visited, ~s1 => h[s3].stack[h[s3].idx] = p
  PROVE  BrowserInv'
<1>1. TabsInv /\ PagesInv /\ LineInv BY DEF BrowserInv
<1>2. Has(s3) BY <1>1, OpenMeans
<1>3. /\ s4' = [s4 EXCEPT ![s3] = p] /\ s5' = h /\ s8' = (IF s4[s3] = p THEN s8 ELSE s8 \cup {s3})
      /\ UNCHANGED <<s1, s2, s3>> /\ B!Follow
  BY DEF B!Goes
<1>4. TabsInv' /\ Has(s3)' BY <1>1, <1>2, <1>3, TabsStay
<1>5. s3 \in DOMAIN s4 /\ s3 \in DOMAIN s5 BY <1>1, <1>2 DEF PagesInv, Has
<1>6. DOMAIN s4' = DOMAIN s4 /\ s4'[s3] = p /\ \A t \in DOMAIN s4 : t # s3 => s4'[t] = s4[t] BY <1>3, <1>5
<1>7. PagesInv'
  <2>1. \A t \in DOMAIN s4' : s4'[t] \in Pages BY <1>1, <1>6 DEF PagesInv
  <2>2. \A t \in DOMAIN s5' : s5'[t] \in Visited BY <1>1, <1>3 DEF PagesInv
  <2>3. \A i \in 1..Len(s2') : s2'[i] \in DOMAIN s4' /\ s2'[i] \in DOMAIN s5'
    BY <1>1, <1>3, <1>6 DEF PagesInv
  <2>4. ASSUME ~s1', NEW i \in 1..Len(s2') PROVE s5'[s2'[i]].stack[s5'[s2'[i]].idx] = s4'[s2'[i]]
    <3>1. ~s1 /\ i \in 1..Len(s2) /\ s2'[i] = s2[i] BY <1>3, <2>4
    <3>2. CASE s2[i] = s3 BY <1>3, <1>6, <3>1, <3>2
    <3>3. CASE s2[i] # s3 BY <1>1, <1>3, <1>6, <3>1, <3>3 DEF PagesInv
    <3>4. QED BY <3>2, <3>3
  <2>5. QED BY <2>1, <2>2, <2>3, <2>4 DEF PagesInv, Visited
<1>8. LineInv'
  <2>1. s4'[s3] = s4[s3] => s8' = s8 BY <1>3, <1>6
  <2>2. s4'[s3] # s4[s3] => s3 \in s8' BY <1>3, <1>6
  <2>3. QED BY <1>1, <1>2, <1>3, <1>4, <1>7, <2>1, <2>2, BrowserFollows
<1>9. QED BY <1>4, <1>7, <1>8 DEF BrowserInv

(* A new tab: where there is no room the oldest one goes.                                      *)
LEMMA BrowserAdds == ASSUME BrowserInv, NEW p \in Pages, B!AddTab(p) PROVE BrowserInv'
<1>1. TabsInv /\ PagesInv /\ LineInv BY DEF BrowserInv
<1>2. /\ s11' = s11 + 1 /\ s3' = s11 /\ s1' = s1 /\ s8' = s8 \cup {s11} /\ B!Follow
      /\ s2' = Append(IF Len(s2) >= BROWSER_MAX_TABS THEN Tail(s2) ELSE s2, s11)
      /\ s4' = B!With(s4, s11, p) /\ s5' = B!With(s5, s11, B!Start(p))
  BY DEF B!AddTab, B!NewActive
<1>3. s11 \in Nat /\ s2 \in Seq(Nat) /\ Len(s2) \in Nat /\ Len(s2) <= BROWSER_MAX_TABS
      /\ BROWSER_MAX_TABS \in Nat /\ BROWSER_MAX_TABS > 0
  BY <1>1, BrowserAssumption DEF TabsInv, B!BrowserConstants
<1>4. PICK q : q = IF Len(s2) >= BROWSER_MAX_TABS THEN Tail(s2) ELSE s2 OBVIOUS
<1>5. /\ q \in Seq(Nat) /\ Len(q) \in Nat /\ Len(q) < BROWSER_MAX_TABS
      /\ \A j \in 1..Len(q) : \E i \in 1..Len(s2) : q[j] = s2[i]
      /\ \A i, j \in 1..Len(q) : q[i] = q[j] => i = j
  <2>1. CASE Len(s2) >= BROWSER_MAX_TABS
    <3>1. q = Tail(s2) /\ Len(s2) > 0 BY <1>3, <1>4, <2>1
    <3>2. q \in Seq(Nat) /\ Len(q) = Len(s2) - 1 /\ \A j \in 1..Len(s2) - 1 : q[j] = s2[j + 1]
      BY <1>3, <3>1
    <3>3. \A j \in 1..Len(q) : j + 1 \in 1..Len(s2) /\ q[j] = s2[j + 1]
      <4>1. Len(s2) \in Nat /\ Len(q) = Len(s2) - 1 BY <1>3, <3>2
      <4>2. \A j \in 1..Len(q) : j \in 1..Len(s2) - 1 /\ j + 1 \in 1..Len(s2) BY <4>1
      <4>3. QED BY <3>2, <4>2
    <3>4. ASSUME NEW i \in 1..Len(q), NEW j \in 1..Len(q), q[i] = q[j] PROVE i = j
      <4>1. i + 1 = j + 1 BY <1>1, <3>3, <3>4 DEF TabsInv
      <4>2. QED BY <4>1
    <3>5. Len(q) \in Nat /\ Len(q) < BROWSER_MAX_TABS BY <1>3, <3>1, <3>2
    <3>6. QED BY <3>2, <3>3, <3>4, <3>5
  <2>2. CASE ~(Len(s2) >= BROWSER_MAX_TABS)
    <3>1. q = s2 /\ Len(s2) < BROWSER_MAX_TABS BY <1>3, <1>4, <2>2
    <3>2. QED BY <1>1, <1>3, <3>1 DEF TabsInv
  <2>3. QED BY <2>1, <2>2
<1>6. /\ s2' \in Seq(Nat) /\ Len(s2') = Len(q) + 1 /\ s2'[Len(q) + 1] = s11
      /\ \A j \in 1..Len(q) : s2'[j] = q[j]
  BY <1>2, <1>3, <1>4, <1>5
<1>7. \A j \in 1..Len(q) : q[j] < s11 /\ q[j] # s11
  <2>1. \A j \in 1..Len(q) : q[j] < s11 BY <1>1, <1>5 DEF TabsInv
  <2>2. \A j \in 1..Len(q) : q[j] \in Nat BY <1>5
  <2>3. QED BY <1>3, <2>1, <2>2
<1>8. \A j \in 1..Len(s2') : j \in 1..Len(q) \/ j = Len(q) + 1 BY <1>5, <1>6
<1>9. Has(s3)'
  <2>1. Len(q) + 1 \in 1..Len(s2') BY <1>5, <1>6
  <2>2. QED BY <1>2, <1>6, <2>1 DEF Has
<1>10. TabsInv'
  <2>1. \A j \in 1..Len(s2') : s2'[j] < s11'
    <3>1. \A j \in 1..Len(q) : s2'[j] < s11 + 1
      <4>1. \A j \in 1..Len(q) : q[j] \in Nat /\ q[j] < s11 BY <1>5, <1>7
      <4>2. \A n \in Nat : n < s11 => n < s11 + 1 BY <1>3
      <4>3. QED BY <1>6, <4>1, <4>2
    <3>2. s11 < s11 + 1 BY <1>3
    <3>3. QED BY <1>2, <1>6, <1>8, <3>1, <3>2
  <2>2. ASSUME NEW i \in 1..Len(s2'), NEW j \in 1..Len(s2'), s2'[i] = s2'[j] PROVE i = j
    <3>1. CASE i \in 1..Len(q) /\ j \in 1..Len(q)
      <4>1. q[i] = q[j] BY <1>6, <2>2, <3>1
      <4>2. QED BY <1>5, <3>1, <4>1
    <3>2. CASE i \in 1..Len(q) /\ j = Len(q) + 1 BY <1>6, <1>7, <2>2, <3>2
    <3>3. CASE i = Len(q) + 1 /\ j \in 1..Len(q) BY <1>6, <1>7, <2>2, <3>3
    <3>4. CASE i = Len(q) + 1 /\ j = Len(q) + 1 BY <3>4
    <3>5. QED BY <1>8, <3>1, <3>2, <3>3, <3>4
  <2>3. Len(s2') <= BROWSER_MAX_TABS /\ Len(s2') > 0 BY <1>3, <1>5, <1>6
  <2>4. s11' \in Nat /\ s3' # s11' BY <1>2, <1>3
  <2>5. s1' \in BOOLEAN BY <1>1, <1>2 DEF TabsInv
  <2>6. QED BY <1>6, <1>9, <2>1, <2>2, <2>3, <2>4, <2>5 DEF TabsInv
<1>11. /\ DOMAIN s4' = DOMAIN s4 \cup {s11} /\ s4'[s11] = p /\ \A t \in DOMAIN s4 : t # s11 => s4'[t] = s4[t]
       /\ DOMAIN s5' = DOMAIN s5 \cup {s11} /\ s5'[s11] = B!Start(p)
       /\ \A t \in DOMAIN s5 : t # s11 => s5'[t] = s5[t]
  BY <1>2 DEF B!With
<1>12. B!Start(p) \in Visited /\ B!Start(p).stack[B!Start(p).idx] = p
  BY DEF B!Start, Visited
<1>13. PagesInv'
  <2>1. \A t \in DOMAIN s4' : s4'[t] \in Pages BY <1>1, <1>11 DEF PagesInv
  <2>2. \A t \in DOMAIN s5' : s5'[t] \in Visited BY <1>1, <1>11, <1>12 DEF PagesInv
  <2>3. \A j \in 1..Len(q) : /\ q[j] \in DOMAIN s4 /\ q[j] \in DOMAIN s5
                             /\ ~s1 => s5[q[j]].stack[s5[q[j]].idx] = s4[q[j]]
    BY <1>1, <1>5 DEF PagesInv
  <2>4. \A j \in 1..Len(s2') : s2'[j] \in DOMAIN s4' /\ s2'[j] \in DOMAIN s5'
    BY <1>6, <1>8, <1>11, <2>3
  <2>5. ASSUME ~s1', NEW j \in 1..Len(s2') PROVE s5'[s2'[j]].stack[s5'[s2'[j]].idx] = s4'[s2'[j]]
    <3>1. CASE j = Len(q) + 1 BY <1>6, <1>11, <1>12, <3>1
    <3>2. CASE j \in 1..Len(q)
      <4>1. s2'[j] = q[j] /\ s4'[q[j]] = s4[q[j]] /\ s5'[q[j]] = s5[q[j]]
        BY <1>6, <1>7, <1>11, <2>3, <3>2
      <4>2. QED BY <1>2, <2>3, <2>5, <3>2, <4>1
    <3>3. QED BY <1>8, <3>1, <3>2
  <2>6. QED BY <2>1, <2>2, <2>4, <2>5 DEF PagesInv, Visited
<1>14. LineInv'
  <2>1. s3' # s3 /\ s3' \in s8' BY <1>1, <1>2 DEF TabsInv
  <2>2. QED BY <1>1, <1>2, <1>10, <1>13, <2>1, BrowserFollows
<1>15. QED BY <1>10, <1>13, <1>14 DEF BrowserInv

(* A tab is closed: where it was the active one, the last becomes it.                          *)
LEMMA BrowserRemoves == ASSUME BrowserInv, NEW t, B!RemoveTab(t) PROVE BrowserInv'
<1>1. TabsInv /\ PagesInv /\ LineInv BY DEF BrowserInv
<1>2. PICK k \in 1..Len(s2) : s2[k] = t /\ s2' = B!RemoveAt(s2, k)
  <2>1. DOMAIN s2 = 1..Len(s2) BY <1>1 DEF TabsInv
  <2>2. QED BY <2>1 DEF B!RemoveTab
<1>3. /\ s3' = (IF s3 # t THEN s3 ELSE IF s2' = <<>> THEN Nil ELSE B!Last(s2'))
      /\ s5' = B!Without(s5, t) /\ s4' = B!Without(s4, t) /\ s8' = s8 \ {t}
      /\ UNCHANGED <<s1, s11>> /\ B!Follow /\ B!Open
  BY DEF B!RemoveTab
<1>4. /\ s2' \in Seq(Nat) /\ Len(s2') = Len(s2) - 1
      /\ \A j \in 1..Len(s2') : \E i \in 1..Len(s2) : s2'[j] = s2[i] /\ i # k
      /\ \A i \in 1..Len(s2) : i # k => \E j \in 1..Len(s2') : s2'[j] = s2[i]
      /\ \A i, j \in 1..Len(s2') : s2'[i] = s2'[j] => i = j
  <2>1. PICK q \in Seq(Nat) :
          /\ q = B!RemoveAt(s2, k) /\ Len(q) = Len(s2) - 1
          /\ \A j \in 1..Len(q) : \E i \in 1..Len(s2) : q[j] = s2[i] /\ i # k
          /\ \A i \in 1..Len(s2) : i # k => \E j \in 1..Len(q) : q[j] = s2[i]
          /\ \A i, j \in 1..Len(q) : q[i] = q[j] => i = j
    BY <1>1, TabTaken
  <2>2. s2' = q BY <1>2, <2>1
  <2>3. QED BY <2>1, <2>2
<1>5. s11 \in Nat /\ s2 \in Seq(Nat) /\ Len(s2) \in Nat /\ Len(s2') \in Nat
      /\ Len(s2) <= BROWSER_MAX_TABS /\ BROWSER_MAX_TABS \in Nat
  BY <1>1, <1>4, BrowserAssumption DEF TabsInv, B!BrowserConstants
<1>6. ASSUME NEW j \in 1..Len(s2') PROVE s2'[j] # t /\ s2'[j] < s11
  <2>1. PICK i \in 1..Len(s2) : s2'[j] = s2[i] /\ i # k BY <1>4
  <2>2. s2[i] < s11 /\ s2[i] # s2[k] BY <1>1, <2>1 DEF TabsInv
  <2>3. QED BY <1>2, <2>1, <2>2
<1>7. Has(s3) BY <1>1, <1>3, OpenMeans
<1>8. s3 # t => Has(s3)' /\ s3' = s3
  <2>1. SUFFICES ASSUME s3 # t PROVE Has(s3)' /\ s3' = s3 OBVIOUS
  <2>2. s3' = s3 BY <1>3, <2>1
  <2>3. PICK i \in 1..Len(s2) : s2[i] = s3 BY <1>7 DEF Has
  <2>4. \E j \in 1..Len(s2') : s2'[j] = s3 BY <1>2, <1>4, <2>1, <2>3
  <2>5. QED BY <2>2, <2>4 DEF Has
<1>9. s3 = t /\ Len(s2') > 0 => Has(s3)' /\ s3' # s3
  <2>1. SUFFICES ASSUME s3 = t, Len(s2') > 0 PROVE Has(s3)' /\ s3' # s3 OBVIOUS
  <2>2. s2' # <<>> BY <2>1
  <2>3. s3' = s2'[Len(s2')] BY <1>3, <2>1, <2>2 DEF B!Last
  <2>4. Len(s2') \in 1..Len(s2') BY <1>5, <2>1
  <2>5. QED BY <1>6, <2>1, <2>3, <2>4 DEF Has
<1>10. s3 = t /\ ~(Len(s2') > 0) => s3' = Nil
  <2>1. Len(s2') = 0 => s2' = <<>> BY <1>4
  <2>2. QED BY <1>3, <1>5, <2>1
<1>11. TabsInv'
  <2>1. (Len(s2') > 0) <=> Has(s3)'
    <3>1. Has(s3)' => Len(s2') > 0 BY <1>5 DEF Has
    <3>2. QED BY <1>8, <1>9, <3>1
  <2>2. s3' # s11
    <3>1. Nil # s11 BY <1>5, BrowserAssumption DEF B!BrowserConstants
    <3>2. Has(s3)' => s3' # s11
      <4>1. \A j \in 1..Len(s2') : s2'[j] \in Nat
        <5>1. s2' \in Seq(Nat) BY <1>4
        <5>2. QED BY <5>1
      <4>2. \A j \in 1..Len(s2') : s2'[j] < s11 BY <1>6
      <4>3. ASSUME NEW j \in 1..Len(s2') PROVE s2'[j] # s11 BY <1>5, <4>1, <4>2
      <4>4. QED BY <4>3 DEF Has
    <3>3. QED BY <1>8, <1>9, <1>10, <3>1, <3>2
  <2>3. Len(s2') <= BROWSER_MAX_TABS BY <1>4, <1>5
  <2>4. s1' \in BOOLEAN BY <1>1, <1>3 DEF TabsInv
  <2>5. QED BY <1>3, <1>4, <1>5, <1>6, <2>1, <2>2, <2>3, <2>4 DEF TabsInv
<1>12. /\ DOMAIN s4' = DOMAIN s4 \ {t} /\ \A x \in DOMAIN s4 : x # t => s4'[x] = s4[x]
       /\ DOMAIN s5' = DOMAIN s5 \ {t} /\ \A x \in DOMAIN s5 : x # t => s5'[x] = s5[x]
  BY <1>3 DEF B!Without
<1>13. ASSUME NEW j \in 1..Len(s2')
       PROVE  /\ s2'[j] \in DOMAIN s4 /\ s2'[j] \in DOMAIN s5
              /\ ~s1 => s5[s2'[j]].stack[s5[s2'[j]].idx] = s4[s2'[j]]
  <2>1. PICK i \in 1..Len(s2) : s2'[j] = s2[i] BY <1>4
  <2>2. /\ s2[i] \in DOMAIN s4 /\ s2[i] \in DOMAIN s5
        /\ ~s1 => s5[s2[i]].stack[s5[s2[i]].idx] = s4[s2[i]]
    BY <1>1 DEF PagesInv
  <2>3. QED BY <2>1, <2>2
<1>14. PagesInv'
  <2>1. \A x \in DOMAIN s4' : s4'[x] \in Pages BY <1>1, <1>12 DEF PagesInv
  <2>2. \A x \in DOMAIN s5' : s5'[x] \in Visited BY <1>1, <1>12 DEF PagesInv
  <2>3. \A j \in 1..Len(s2') : s2'[j] \in DOMAIN s4' /\ s2'[j] \in DOMAIN s5' BY <1>6, <1>12, <1>13
  <2>4. ~s1' => \A j \in 1..Len(s2') : s5'[s2'[j]].stack[s5'[s2'[j]].idx] = s4'[s2'[j]]
    BY <1>3, <1>6, <1>12, <1>13
  <2>5. QED BY <2>1, <2>2, <2>3, <2>4 DEF PagesInv, Visited
<1>15. LineInv'
  <2>1. CASE s3 # t
    <3>1. s3' = s3 /\ (s3 \in s8' <=> s3 \in s8) BY <1>3, <1>8, <2>1
    <3>2. s3 \in DOMAIN s4 BY <1>1, <1>7 DEF PagesInv, Has
    <3>3. s4'[s3] = s4[s3] BY <1>12, <2>1, <3>2
    <3>4. QED BY <1>1, <1>3, <1>7, <1>11, <1>14, <3>1, <3>3, BrowserFollows
  <2>2. CASE s3 = t /\ Len(s2') > 0
    <3>1. s3' # s3 BY <1>9, <2>2
    <3>2. QED BY <1>1, <1>3, <1>7, <1>11, <1>14, <3>1, BrowserFollows
  <2>3. CASE s3 = t /\ ~(Len(s2') > 0)
    <3>1. ~Has(s3)' BY <1>11, <2>3 DEF TabsInv
    <3>2. QED BY <3>1 DEF LineInv
  <2>4. QED BY <2>1, <2>2, <2>3
<1>16. QED BY <1>11, <1>14, <1>15 DEF BrowserInv

(* A tab is dropped at another place: it is only moved.                                        *)
LEMMA TabMoved ==
  ASSUME TabsInv, NEW d \in 1..Len(s2), NEW i \in 1..Len(s2)
  PROVE  \E q \in Seq(Nat) :
           /\ q = B!InsertAt(B!RemoveAt(s2, d), i, s2[d]) /\ Len(q) = Len(s2)
           /\ \A j \in 1..Len(s2) : \E x \in 1..Len(s2) : q[j] = s2[x]
           /\ \A x \in 1..Len(s2) : \E j \in 1..Len(s2) : q[j] = s2[x]
           /\ \A x, y \in 1..Len(s2) : q[x] = q[y] => x = y
<1>1. s2 \in Seq(Nat) /\ Len(s2) \in Nat /\ s2[d] \in Nat
      /\ \A x, y \in 1..Len(s2) : s2[x] = s2[y] => x = y
  BY DEF TabsInv
<1>2. PICK r \in Seq(Nat) :
        /\ r = B!RemoveAt(s2, d) /\ Len(r) = Len(s2) - 1
        /\ \A j \in 1..Len(r) : \E x \in 1..Len(s2) : r[j] = s2[x] /\ x # d
        /\ \A x \in 1..Len(s2) : x # d => \E j \in 1..Len(r) : r[j] = s2[x]
        /\ \A x, y \in 1..Len(r) : r[x] = r[y] => x = y
  BY TabTaken
<1>3. PICK q : q = B!InsertAt(r, i, s2[d]) OBVIOUS
<1>4. i \in 1..Len(r) + 1 BY <1>1, <1>2
<1>5. /\ q \in Seq(Nat) /\ Len(q) = Len(r) + 1 /\ q[i] = s2[d]
      /\ \A j \in 1..i - 1 : q[j] = r[j]
      /\ \A j \in i..Len(r) : q[j + 1] = r[j]
  <2>1. r \in Seq(Nat) /\ s2[d] \in Nat BY <1>1, <1>2
  <2>2. QED BY <1>3, <1>4, <2>1, PutIn
<1>6. Len(q) = Len(s2) BY <1>1, <1>2, <1>5
<1>7. \A j \in 1..Len(r) : r[j] # s2[d]
  <2>1. ASSUME NEW j \in 1..Len(r) PROVE r[j] # s2[d]
    <3>1. PICK x \in 1..Len(s2) : r[j] = s2[x] /\ x # d BY <1>2
    <3>2. QED BY <1>1, <3>1
  <2>2. QED BY <2>1
<1>8. ASSUME NEW j \in 1..Len(s2)
      PROVE  \/ j = i /\ q[j] = s2[d]
             \/ j < i /\ j \in 1..Len(r) /\ q[j] = r[j]
             \/ j > i /\ j - 1 \in 1..Len(r) /\ q[j] = r[j - 1]
  <2>1. CASE j = i BY <1>5, <2>1
  <2>2. CASE j < i
    <3>1. j \in 1..i - 1 /\ j \in 1..Len(r) BY <1>1, <1>2, <1>4, <2>2
    <3>2. QED BY <1>5, <2>2, <3>1
  <2>3. CASE j > i
    <3>1. PICK x : x = j - 1 OBVIOUS
    <3>2. x \in i..Len(r) /\ x \in 1..Len(r) /\ x + 1 = j BY <1>1, <1>2, <1>4, <2>3, <3>1
    <3>3. q[x + 1] = r[x] BY <1>5, <3>2
    <3>4. QED BY <2>3, <3>1, <3>2, <3>3
  <2>4. QED BY <2>1, <2>2, <2>3
<1>9. \A j \in 1..Len(s2) : \E x \in 1..Len(s2) : q[j] = s2[x] BY <1>2, <1>8
<1>10. ASSUME NEW x \in 1..Len(s2) PROVE \E j \in 1..Len(s2) : q[j] = s2[x]
  <2>1. CASE x = d BY <1>5, <2>1
  <2>2. CASE x # d
    <3>1. PICK j \in 1..Len(r) : r[j] = s2[x] BY <1>2, <2>2
    <3>2. CASE j < i
      <4>1. j \in 1..i - 1 /\ j \in 1..Len(s2) BY <1>1, <1>2, <3>2
      <4>2. QED BY <1>5, <3>1, <4>1
    <3>3. CASE j >= i
      <4>1. j \in i..Len(r) /\ j + 1 \in 1..Len(s2) BY <1>1, <1>2, <3>3
      <4>2. QED BY <1>5, <3>1, <4>1
    <3>4. QED BY <3>2, <3>3
  <2>3. QED BY <2>1, <2>2
<1>11. ASSUME NEW x \in 1..Len(s2), NEW y \in 1..Len(s2), q[x] = q[y], x < y PROVE FALSE
  <2>1. x # i
    <3>1. SUFFICES ASSUME x = i PROVE FALSE OBVIOUS
    <3>2. y > i /\ ~(y = i) /\ ~(y < i) BY <1>1, <1>11, <3>1
    <3>3. y - 1 \in 1..Len(r) /\ q[y] = r[y - 1] BY <1>8, <3>2
    <3>4. QED BY <1>5, <1>7, <1>11, <3>1, <3>3
  <2>2. y # i
    <3>1. SUFFICES ASSUME y = i PROVE FALSE OBVIOUS
    <3>2. x \in 1..Len(r) /\ q[x] = r[x] BY <1>8, <1>11, <3>1
    <3>3. QED BY <1>5, <1>7, <1>11, <3>1, <3>2
  <2>3. CASE y < i
    <3>1. x \in 1..Len(r) /\ y \in 1..Len(r) /\ q[x] = r[x] /\ q[y] = r[y] BY <1>8, <1>11, <2>3
    <3>2. r[x] = r[y] BY <1>11, <3>1
    <3>3. x = y BY <1>2, <3>1, <3>2
    <3>4. QED BY <1>11, <3>3
  <2>4. CASE x > i
    <3>1. x - 1 \in 1..Len(r) /\ y - 1 \in 1..Len(r) /\ q[x] = r[x - 1] /\ q[y] = r[y - 1]
      BY <1>8, <1>11, <2>4
    <3>2. r[x - 1] = r[y - 1] BY <1>11, <3>1
    <3>3. x - 1 = y - 1 BY <1>2, <3>1, <3>2
    <3>4. QED BY <1>11, <3>3
  <2>5. CASE x < i /\ y > i
    <3>1. PICK z : z = y - 1 OBVIOUS
    <3>2. x \in 1..Len(r) /\ q[x] = r[x] BY <1>8, <2>5
    <3>3. z \in 1..Len(r) /\ q[y] = r[z] BY <1>8, <2>5, <3>1
    <3>4. r[x] = r[z] BY <1>11, <3>2, <3>3
    <3>5. x = z BY <1>2, <3>2, <3>3, <3>4
    <3>6. QED BY <2>5, <3>1, <3>5
  <2>6. QED BY <2>1, <2>2, <2>3, <2>4, <2>5
<1>12. \A x, y \in 1..Len(s2) : q[x] = q[y] => x = y
  <2>1. \A x, y \in 1..Len(s2) : ~(q[x] = q[y] /\ x < y) BY <1>11
  <2>2. \A x, y \in 1..Len(s2) : x < y \/ y < x \/ x = y OBVIOUS
  <2>3. QED BY <2>1, <2>2
<1>13. QED BY <1>2, <1>3, <1>5, <1>6, <1>9, <1>10, <1>12

LEMMA BrowserDrops == ASSUME BrowserInv, NEW i, B!DropTab(i) PROVE BrowserInv'
<1>1. TabsInv /\ PagesInv /\ LineInv BY DEF BrowserInv
<1>2. s2 \in Seq(Nat) /\ Len(s2) \in Nat /\ DOMAIN s2 = 1..Len(s2) BY <1>1 DEF TabsInv
<1>3. UNCHANGED <<s1, s3, s4, s5, s7, s8, s11, s13>> BY DEF B!DropTab
<1>4. /\ s2' \in Seq(Nat) /\ Len(s2') = Len(s2)
      /\ \A j \in 1..Len(s2) : \E x \in 1..Len(s2) : s2'[j] = s2[x]
      /\ \A x \in 1..Len(s2) : \E j \in 1..Len(s2) : s2'[j] = s2[x]
      /\ \A x, y \in 1..Len(s2) : s2'[x] = s2'[y] => x = y
  <2>1. CASE s10 \notin DOMAIN s2 \ {i}
    <3>1. s2' = s2 BY <2>1 DEF B!DropTab
    <3>2. QED BY <1>1, <1>2, <3>1 DEF TabsInv
  <2>2. CASE s10 \in DOMAIN s2 \ {i}
    <3>1. s10 \in 1..Len(s2) /\ i \in 1..Len(s2) BY <1>2, <2>2 DEF B!DropTab
    <3>2. s2' = B!InsertAt(B!RemoveAt(s2, s10), i, s2[s10]) BY <2>2 DEF B!DropTab
    <3>3. PICK q \in Seq(Nat) :
            /\ q = B!InsertAt(B!RemoveAt(s2, s10), i, s2[s10]) /\ Len(q) = Len(s2)
            /\ \A j \in 1..Len(s2) : \E x \in 1..Len(s2) : q[j] = s2[x]
            /\ \A x \in 1..Len(s2) : \E j \in 1..Len(s2) : q[j] = s2[x]
            /\ \A x, y \in 1..Len(s2) : q[x] = q[y] => x = y
      BY <1>1, <3>1, TabMoved
    <3>4. s2' = q BY <3>2, <3>3
    <3>5. QED BY <3>3, <3>4
  <2>3. QED BY <2>1, <2>2
<1>5. \A t : Has(t)' <=> Has(t) BY <1>4 DEF Has
<1>6. TabsInv'
  <2>1. ASSUME NEW j \in 1..Len(s2) PROVE s2'[j] < s11
    <3>1. PICK x \in 1..Len(s2) : s2'[j] = s2[x] BY <1>4
    <3>2. s2[x] < s11 BY <1>1 DEF TabsInv
    <3>3. QED BY <3>1, <3>2
  <2>2. Has(s3)' <=> Has(s3) BY <1>3, <1>5 DEF Has
  <2>3. QED BY <1>1, <1>3, <1>4, <2>1, <2>2 DEF TabsInv
<1>7. PagesInv'
  <2>1. ASSUME NEW j \in 1..Len(s2)
        PROVE  /\ s2'[j] \in DOMAIN s4 /\ s2'[j] \in DOMAIN s5
               /\ ~s1 => s5[s2'[j]].stack[s5[s2'[j]].idx] = s4[s2'[j]]
    <3>1. PICK x \in 1..Len(s2) : s2'[j] = s2[x] BY <1>4
    <3>2. /\ s2[x] \in DOMAIN s4 /\ s2[x] \in DOMAIN s5
          /\ ~s1 => s5[s2[x]].stack[s5[s2[x]].idx] = s4[s2[x]]
      BY <1>1 DEF PagesInv
    <3>3. QED BY <3>1, <3>2
  <2>2. QED BY <1>1, <1>3, <1>4, <2>1 DEF PagesInv
<1>8. LineInv'
  <2>1. Has(s3)' => Has(s3) BY <1>3, <1>5 DEF Has
  <2>2. QED BY <1>1, <1>3, <2>1 DEF LineInv
<1>9. QED BY <1>6, <1>7, <1>8 DEF BrowserInv

(* Where the tabs, their addresses and their histories stay, only the line has to be true.     *)
LEMMA BrowserLine ==
  ASSUME BrowserInv, UNCHANGED <<s1, s2, s3, s4, s5, s11>>, Has(s3) /\ s13' = {} => s7' = (s3 \in s8')
  PROVE  BrowserInv'
<1>1. TabsInv' /\ \A t : Has(t)' <=> Has(t) BY TabsStay DEF BrowserInv
<1>2. PagesInv' BY DEF BrowserInv, PagesInv
<1>3. LineInv' BY DEF LineInv, Has
<1>4. QED BY <1>1, <1>2, <1>3 DEF BrowserInv

LEMMA BrowserStays ==
  ASSUME BrowserInv, UNCHANGED <<s1, s2, s3, s4, s5, s7, s8, s11, s13>>
  PROVE  BrowserInv'
<1>1. Has(s3) /\ s13 = {} => s7 = (s3 \in s8) BY DEF BrowserInv, LineInv
<1>2. QED BY <1>1, BrowserLine

(* A guest says that it is done; one that is heard puts out the line.                          *)
LEMMA BrowserLoaded == ASSUME BrowserInv, NEW t, B!GuestLoaded(t) PROVE BrowserInv'
<1>1. /\ t \in s8 /\ s8' = s8 \ {t} /\ s7' = (s7 /\ ~B!Heard(t))
      /\ s13' = (IF t = s3 THEN {} ELSE IF B!Heard(t) /\ s3 \in s8 THEN {"other"}
                 ELSE IF B!Heard(t) THEN {} ELSE s13)
      /\ UNCHANGED <<s1, s2, s3, s4, s5, s11>>
  BY DEF B!GuestLoaded
<1>2. Has(s3) /\ s13 = {} => s7 = (s3 \in s8) BY DEF BrowserInv, LineInv
<1>3. t = s3 => B!Heard(t) BY DEF B!Heard
<1>4. ASSUME Has(s3), s13' = {} PROVE s7' = (s3 \in s8')
  <2>1. CASE B!Heard(t)
    <3>1. s7' = FALSE BY <1>1, <2>1
    <3>2. s3 \notin s8'
      <4>1. CASE t = s3 BY <1>1, <4>1
      <4>2. CASE t # s3
        <5>1. "other" \notin s13' BY <1>4
        <5>2. ~(s3 \in s8) BY <1>1, <2>1, <4>2, <5>1
        <5>3. QED BY <1>1, <5>2
      <4>3. QED BY <4>1, <4>2
    <3>3. (s3 \in s8') = FALSE BY <3>2
    <3>4. QED BY <3>1, <3>3
  <2>2. CASE ~B!Heard(t)
    <3>1. t # s3 /\ s13 = {} BY <1>1, <1>3, <1>4, <2>2
    <3>2. s7 = (s3 \in s8) BY <1>2, <1>4, <3>1
    <3>3. s3 \in s8' <=> s3 \in s8 BY <1>1, <3>1
    <3>4. (s3 \in s8') = (s3 \in s8) BY <3>3
    <3>5. s7' = (s7 /\ ~B!Heard(t)) /\ s7 \in BOOLEAN BY <1>1, <3>2
    <3>6. s7' = s7 BY <2>2, <3>5
    <3>7. QED BY <3>2, <3>4, <3>6
  <2>3. QED BY <2>1, <2>2
<1>5. QED BY <1>1, <1>4, BrowserLine

LEMMA BrowserRestarts == ASSUME BrowserInv, B!Restart PROVE BrowserInv'
<1>1. TabsInv /\ PagesInv /\ LineInv BY DEF BrowserInv
<1>2. /\ s5' = [t \in DOMAIN s4 |-> B!Start(s4[t])] /\ s8' = DOMAIN s4 /\ s7' = B!Open /\ s13' = {}
      /\ UNCHANGED <<s1, s2, s3, s4, s11>>
  BY DEF B!Restart
<1>3. TabsInv' /\ \A t : Has(t)' <=> Has(t) BY <1>1, <1>2, TabsStay
<1>4. \A p \in Pages : B!Start(p) \in Visited /\ B!Start(p).stack[B!Start(p).idx] = p
  BY DEF B!Start, Visited
<1>5. PagesInv'
  <2>1. \A t \in DOMAIN s5' : s5'[t] \in Visited /\ s5'[t].stack[s5'[t].idx] = s4[t]
    BY <1>1, <1>2, <1>4 DEF PagesInv
  <2>2. \A i \in 1..Len(s2) : s2[i] \in DOMAIN s4 /\ s2[i] \in DOMAIN s5' BY <1>1, <1>2 DEF PagesInv
  <2>3. \A t \in DOMAIN s4 : s4[t] \in Pages BY <1>1 DEF PagesInv
  <2>4. QED BY <1>2, <2>1, <2>2, <2>3 DEF PagesInv, Visited
<1>6. LineInv'
  <2>1. SUFFICES ASSUME Has(s3)' PROVE s7' = (s3' \in s8') BY DEF LineInv
  <2>2. Has(s3) BY <1>2, <2>1 DEF Has
  <2>3. s7' = TRUE BY <1>1, <1>2, <2>2, OpenMeans
  <2>4. s3' \in s8' BY <1>1, <1>2, <2>2 DEF PagesInv, Has
  <2>5. QED BY <2>3, <2>4
<1>7. QED BY <1>3, <1>5, <1>6 DEF BrowserInv

LEMMA BrowserCloses == ASSUME BrowserInv, B!CloseAll PROVE BrowserInv'
<1>1. s2' = <<>> /\ s3' = Nil /\ DOMAIN s4' = {} /\ DOMAIN s5' = {} /\ s1' = s1 /\ s11' = s11
  BY DEF B!CloseAll
<1>2. Len(s2') = 0 /\ s2' \in Seq(Nat) BY <1>1
<1>3. s11 \in Nat /\ s1 \in BOOLEAN BY DEF BrowserInv, TabsInv
<1>4. Nil # s11 /\ BROWSER_MAX_TABS \in Nat BY <1>3, BrowserAssumption DEF B!BrowserConstants
<1>5. ~Has(s3)' BY <1>2 DEF Has
<1>6. TabsInv' BY <1>1, <1>2, <1>3, <1>4, <1>5 DEF TabsInv
<1>7. PagesInv' BY <1>1, <1>2 DEF PagesInv
<1>8. QED BY <1>5, <1>6, <1>7 DEF BrowserInv, LineInv

(* The histories.                                                                              *)
LEMMA BrowserNavigates == ASSUME BrowserInv, NEW p \in Pages, B!NavigateTab(p) PROVE BrowserInv'
<1>1. PICK h : h = s5[s3] OBVIOUS
<1>2. /\ B!Open /\ B!Goes(p, IF h.stack[h.idx] = p THEN s5 ELSE [s5 EXCEPT ![s3] = B!Pushed(h, p)])
      /\ s11' = s11
  BY <1>1 DEF B!NavigateTab, B!Goes
<1>3. s3 \in DOMAIN s5
  <2>1. Has(s3) BY <1>2, OpenMeans DEF BrowserInv
  <2>2. QED BY <2>1 DEF BrowserInv, PagesInv, Has
<1>4. h \in Visited BY <1>1, <1>3 DEF BrowserInv, PagesInv
<1>5. CASE h.stack[h.idx] = p
  <2>1. B!Goes(p, s5) BY <1>2, <1>5
  <2>2. QED BY <1>1, <1>2, <1>4, <1>5, <2>1, BrowserGoes
<1>6. CASE h.stack[h.idx] # p
  <2>1. PICK m : m = B!Pushed(h, p) OBVIOUS
  <2>2. PICK f : f = [s5 EXCEPT ![s3] = m] OBVIOUS
  <2>3. B!Goes(p, f) BY <1>2, <1>6, <2>1, <2>2
  <2>4. DOMAIN f = DOMAIN s5 /\ f[s3] = m /\ \A t \in DOMAIN s5 : t # s3 => f[t] = s5[t]
    BY <1>3, <2>2
  <2>5. h.stack \in Seq(Pages) /\ h.idx \in 1..Len(h.stack) /\ Len(h.stack) \in Nat BY <1>4 DEF Visited
  <2>6. PICK q : q = SubSeq(h.stack, 1, h.idx) OBVIOUS
  <2>7. q \in Seq(Pages) /\ Len(q) = h.idx BY <2>5, <2>6
  <2>8. PICK x : x = Append(q, p) OBVIOUS
  <2>9. x \in Seq(Pages) /\ Len(x) = h.idx + 1 /\ x[h.idx + 1] = p
    <3>1. h.idx \in Nat BY <2>5
    <3>2. QED BY <2>7, <2>8, <3>1
  <2>10. m = [stack |-> x, idx |-> h.idx + 1] BY <2>1, <2>6, <2>8 DEF B!Pushed
  <2>11. m \in Visited /\ m.stack[m.idx] = p
    <3>1. h.idx + 1 \in 1..Len(x) /\ h.idx + 1 \in Nat BY <2>5, <2>9
    <3>2. m.stack = x /\ m.idx = h.idx + 1 /\ m \in [stack : Seq(Pages), idx : Nat] BY <2>9, <2>10, <3>1
    <3>3. QED BY <2>9, <3>1, <3>2 DEF Visited
  <2>12. QED BY <1>2, <2>3, <2>4, <2>11, BrowserGoes
<1>7. QED BY <1>5, <1>6

LEMMA BrowserMoves == ASSUME BrowserInv, NEW i, B!MoveTo(i) PROVE BrowserInv'
<1>1. PICK h : h = s5[s3] OBVIOUS
<1>2. PICK m : m = [h EXCEPT !.idx = i] OBVIOUS
<1>3. PICK f : f = [s5 EXCEPT ![s3] = m] OBVIOUS
<1>4. B!Open /\ ~s1 /\ i \in DOMAIN h.stack /\ B!Goes(h.stack[i], [s5 EXCEPT ![s3].idx = i]) /\ s11' = s11
  BY <1>1 DEF B!MoveTo, B!Goes
<1>5. [s5 EXCEPT ![s3].idx = i] = f BY <1>1, <1>2, <1>3
<1>6. s3 \in DOMAIN s5
  <2>1. Has(s3) BY <1>4, OpenMeans DEF BrowserInv
  <2>2. QED BY <2>1 DEF BrowserInv, PagesInv, Has
<1>7. h \in Visited BY <1>1, <1>6 DEF BrowserInv, PagesInv
<1>8. h \in [stack : Seq(Pages), idx : Nat] /\ h.stack \in Seq(Pages) /\ i \in 1..Len(h.stack) /\ i \in Nat
  BY <1>4, <1>7 DEF Visited
<1>9. m \in Visited /\ m.stack = h.stack /\ m.idx = i
  <2>1. m \in [stack : Seq(Pages), idx : Nat] /\ m.stack = h.stack /\ m.idx = i BY <1>2, <1>8
  <2>2. QED BY <1>8, <2>1 DEF Visited
<1>10. h.stack[i] \in Pages BY <1>8
<1>11. DOMAIN f = DOMAIN s5 /\ f[s3] = m /\ \A t \in DOMAIN s5 : t # s3 => f[t] = s5[t] BY <1>3, <1>6
<1>12. PICK p : p = h.stack[i] OBVIOUS
<1>13. p \in Pages /\ B!Goes(p, f) /\ f[s3] \in Visited /\ f[s3].stack[f[s3].idx] = p
  BY <1>4, <1>5, <1>9, <1>10, <1>11, <1>12
<1>14. QED BY <1>4, <1>11, <1>13, BrowserGoes

LEMMA BrowserGuest == ASSUME BrowserInv, NEW p \in Pages, B!GuestGoes(p) PROVE BrowserInv'
<1>1. B!Open /\ s1 /\ B!Goes(p, s5) /\ s11' = s11 BY DEF B!GuestGoes, B!Goes
<1>2. Has(s3) BY <1>1, OpenMeans DEF BrowserInv
<1>3. s5[s3] \in Visited BY <1>2 DEF BrowserInv, PagesInv, Has
<1>4. QED BY <1>1, <1>3, BrowserGoes

LEMMA BrowserStep == ASSUME BrowserInv, B!Next PROVE BrowserInv'
<1>1. ASSUME NEW p \in Pages, B!SetInAppBrowserUrl(p) \/ B!GuestGoes(p) \/ B!Type(p) PROVE BrowserInv'
  <2>1. CASE B!SetInAppBrowserUrl(p) BY <2>1, BrowserAdds DEF B!SetInAppBrowserUrl
  <2>2. CASE B!GuestGoes(p) BY <2>2, BrowserGuest
  <2>3. CASE B!Type(p) BY <2>3, BrowserStays DEF B!Type
  <2>4. QED BY <1>1, <2>1, <2>2, <2>3
<1>2. ASSUME NEW t \in 0..MaxTabs,
             B!ChooseTab(t) \/ B!RemoveTab(t) \/ B!DragStart(t) \/ B!DropTab(t) \/ B!GuestLoaded(t)
      PROVE  BrowserInv'
  <2>1. CASE B!ChooseTab(t) BY <2>1, BrowserChoose
  <2>2. CASE B!RemoveTab(t) BY <2>2, BrowserRemoves
  <2>3. CASE B!DragStart(t) BY <2>3, BrowserStays DEF B!DragStart
  <2>4. CASE B!DropTab(t) BY <2>4, BrowserDrops
  <2>5. CASE B!GuestLoaded(t) BY <2>5, BrowserLoaded
  <2>6. QED BY <1>2, <2>1, <2>2, <2>3, <2>4, <2>5
<1>3. Home \in Pages BY BrowserAssumption DEF B!BrowserConstants
<1>4. CASE B!NewTab BY <1>3, <1>4, BrowserAdds DEF B!NewTab
<1>5. CASE B!GoBack \/ B!GoForward BY <1>5, BrowserMoves DEF B!GoBack, B!GoForward
<1>6. CASE B!NavigateTab(Home) \/ B!Submit BY <1>3, <1>6, BrowserNavigates DEF B!Submit
<1>7. CASE B!Reload
  <2>1. s7' = TRUE /\ s3 \in s8' /\ UNCHANGED <<s1, s2, s3, s4, s5, s11>> BY <1>7 DEF B!Reload
  <2>2. QED BY <2>1, BrowserLine
<1>8. CASE B!Toggle BY <1>8, BrowserStays DEF B!Toggle
<1>9. CASE B!Escape BY <1>8, <1>9, BrowserCloses DEF B!Escape
<1>10. CASE B!Restart BY <1>10, BrowserRestarts
<1>11. QED BY <1>1, <1>2, <1>4, <1>5, <1>6, <1>7, <1>8, <1>9, <1>10 DEF B!Next

-----------------------------------------------------------------------------
(* The messages chosen (Selection): s1 is the chat, s2 the list, s3 what is chosen, s6 the      *)
(* dialog, s8 the rounds, s11 the chat the list is of, s12 what was chosen in another list.    *)

(* What a round works through: messages of one chat but for the odd ones, none twice, within   *)
(* the limit; and what is chosen is of that chat.                                              *)
Once(q) == \A i, j \in 1..Len(q) : q[i] = q[j] => i = j
Apart(q, more) == \A i \in 1..Len(q), j \in 1..Len(more) : q[i] # more[j]
Within(p) == p \in Seq(Messages) /\ Len(p) <= MAX_MESSAGE_SELECTION /\ Once(p)
From(p, q, more) ==
  \A i \in 1..Len(p) : (\E j \in 1..Len(q) : p[i] = q[j]) \/ \E j \in 1..Len(more) : p[i] = more[j]
Limited(q) == SubSeq(q, 1, IF Len(q) > MAX_MESSAGE_SELECTION THEN MAX_MESSAGE_SELECTION ELSE Len(q))
Chosen(q, strange) ==
  /\ q \in Seq(Messages) /\ Len(q) <= MAX_MESSAGE_SELECTION /\ Once(q)
  /\ \A i, j \in 1..Len(q) : q[i] \in strange \/ q[j] \in strange \/ ChatOf[q[i]] = ChatOf[q[j]]
Here(q, strange, c) ==
  \A i \in 1..Len(q) : q[i] \notin System /\ (q[i] \in strange \/ ChatOf[q[i]] = c)
RoundInv(r, strange) ==
  Chosen(r.ids, strange) /\ r \in [op : {r.op}, ids : {r.ids}, left : {r.left}, to : {r.to}]
ListIs(shown, set) == set \subseteq Messages /\ (shown # Nil => \A m \in set : ChatOf[m] = shown)
SelectionInv ==
  /\ ListIs(s11, s2)
  /\ Chosen(s3, s12) /\ Here(s3, s12, s1) /\ Chosen(s6, s12)
  /\ \A r \in s8 : RoundInv(r, s12)

LEMMA SelectionCardinality == \A some : S!Cardinality(some) = Cardinality(some)
BY DEF S!Cardinality, Cardinality
LEMMA SelectionTold ==
  /\ Messages \subseteq Nat /\ ChatOf \in [Messages -> ChatSet] /\ System \subseteq Messages
  /\ MAX_MESSAGE_SELECTION \in Nat \ {0}
BY SelectionAssumption DEF S!SelectionConstants

(* It holds at the start, and says what is checked.                                            *)
LEMMA NothingChosen == \A strange, c : Chosen(<<>>, strange) /\ Here(<<>>, strange, c)
BY SelectionTold DEF Chosen, Here, Once

LEMMA SelectionInit == ASSUME S!Init PROVE SelectionInv
BY NothingChosen DEF S!Init, SelectionInv, ListIs

LEMMA SelectionHeld == ASSUME SelectionInv PROVE S!ChosenHere
<1>1. ASSUME NEW q, Chosen(q, s12) PROVE S!OneChat(q) /\ Len(q) <= MAX_MESSAGE_SELECTION
  BY <1>1 DEF Chosen, Once, S!OneChat
<1>2. DOMAIN s3 = 1..Len(s3) BY DEF SelectionInv, Chosen
<1>3. QED BY <1>1, <1>2 DEF SelectionInv, Here, RoundInv, S!ChosenHere

(* In order of time: as many as there are, each of the set and none twice, since a number tells *)
(* how many come before it.                                                                    *)
LEMMA InOrderOnce ==
  ASSUME NEW set \in SUBSET Nat, IsFiniteSet(set)
  PROVE  \E q \in Seq(set) : /\ q = S!InOrder(set) /\ Len(q) = Cardinality(set)
                             /\ \A i, j \in 1..Len(q) : q[i] = q[j] => i = j
<1> DEFINE n == Cardinality(set)
           Before(m) == {k \in set : k < m}
           rank == [m \in set |-> Cardinality(Before(m)) + 1]
           q == [i \in 1..n |-> CHOOSE m \in set : Cardinality(Before(m)) = i - 1]
<1>1. n \in Nat BY FS_CardinalityType
<1>2. S!InOrder(set) = q BY DEF S!InOrder, S!Cardinality, Cardinality
<1>3. ASSUME NEW m \in set PROVE IsFiniteSet(Before(m)) /\ Cardinality(Before(m)) \in 0..n - 1
  <2>1. Before(m) \in SUBSET (set \ {m}) OBVIOUS
  <2>2. IsFiniteSet(set \ {m}) /\ Cardinality(set \ {m}) = n - 1 BY FS_RemoveElement
  <2>3. IsFiniteSet(Before(m)) /\ Cardinality(Before(m)) <= n - 1 BY <2>1, <2>2, FS_Subset
  <2>4. Cardinality(Before(m)) \in Nat BY <2>3, FS_CardinalityType
  <2>5. QED BY <1>1, <2>3, <2>4
<1>. HIDE DEF n
<1>4. ASSUME NEW m \in set, NEW k \in set, m < k PROVE Cardinality(Before(m)) < Cardinality(Before(k))
  <2>1. m \in Nat /\ k \in Nat OBVIOUS
  <2>2. Before(m) \in SUBSET Before(k)
    <3>1. \A x \in set : x \in Nat OBVIOUS
    <3>2. \A x \in Nat : x < m => x < k BY <1>4, <2>1
    <3>3. QED BY <3>1, <3>2
  <2>3. m \in Before(k) /\ m \notin Before(m) BY <1>4, <2>1
  <2>4. IsFiniteSet(Before(k)) /\ Cardinality(Before(m)) \in 0..n - 1 /\ Cardinality(Before(k)) \in 0..n - 1
    BY <1>3
  <2> HIDE DEF Before
  <2>5. Cardinality(Before(m)) <= Cardinality(Before(k)) BY <2>2, <2>4, FS_Subset
  <2>6. Cardinality(Before(k)) # Cardinality(Before(m)) BY <2>2, <2>3, <2>4, FS_Subset
  <2>7. QED BY <1>1, <2>4, <2>5, <2>6
<1>5. rank \in Injection(set, 1..n)
  <2>1. ASSUME NEW m \in set PROVE rank[m] = Cardinality(Before(m)) + 1 /\ rank[m] \in 1..n
    <3>1. Cardinality(Before(m)) \in 0..n - 1 BY <1>3
    <3>2. \A c \in 0..n - 1 : c + 1 \in 1..n BY <1>1
    <3>3. rank[m] = Cardinality(Before(m)) + 1 OBVIOUS
    <3>4. QED BY <3>1, <3>2, <3>3
  <2>2. ASSUME NEW m \in set, NEW k \in set, rank[m] = rank[k] PROVE m = k
    <3>1. Cardinality(Before(m)) \in Nat /\ Cardinality(Before(k)) \in Nat
      <4>1. Cardinality(Before(m)) \in 0..n - 1 /\ Cardinality(Before(k)) \in 0..n - 1 BY <1>3
      <4>2. QED BY <1>1, <4>1
    <3>2. Cardinality(Before(m)) + 1 = Cardinality(Before(k)) + 1 BY <2>1, <2>2
    <3>3. Cardinality(Before(m)) = Cardinality(Before(k))
      <4>1. \A x, y \in Nat : x + 1 = y + 1 => x = y OBVIOUS
      <4>2. QED BY <3>1, <3>2, <4>1
    <3>4. ~(m < k) /\ ~(k < m)
      <4>1. \A x \in Nat : ~(x < x) OBVIOUS
      <4>2. QED BY <1>4, <3>1, <3>3, <4>1
    <3>5. QED BY <3>4
  <2>3. rank \in [set -> 1..n] BY <2>1
  <2>4. QED BY <2>2, <2>3 DEF Injection, IsInjective
<1>6. rank \in Surjection(set, 1..n)
  <2>1. IsFiniteSet(1..n) /\ Cardinality(1..n) = n
    <3>1. IsFiniteSet(1..n) /\ Cardinality(1..n) = IF 1 > n THEN 0 ELSE n - 1 + 1 BY <1>1, FS_Interval
    <3>2. QED BY <1>1, <3>1
  <2>2. Cardinality(set) = Cardinality(1..n) BY <2>1 DEF n
  <2> HIDE DEF rank
  <2>3. QED BY <1>5, <2>1, <2>2, FS_Injection
<1>7. ASSUME NEW i \in 1..n PROVE q[i] \in set /\ Cardinality(Before(q[i])) = i - 1
  <2>1. PICK m \in set : rank[m] = i BY <1>6 DEF Surjection
  <2>2. Cardinality(Before(m)) + 1 = i /\ Cardinality(Before(m)) \in Nat BY <1>3, <2>1
  <2>3. Cardinality(Before(m)) = i - 1 BY <2>2
  <2>4. q[i] = CHOOSE k \in set : Cardinality(Before(k)) = i - 1 OBVIOUS
  <2>5. QED BY <2>3, <2>4
<1>8. q \in [1..n -> set] BY <1>7
<1>9. q \in Seq(set) /\ Len(q) = n
  <2> HIDE DEF q
  <2>1. QED BY <1>1, <1>8
<1>10. ASSUME NEW i \in 1..n, NEW j \in 1..n, q[i] = q[j] PROVE i = j
  <2>1. i - 1 = j - 1 BY <1>7, <1>10
  <2>2. QED BY <1>1, <2>1
<1> HIDE DEF q
<1>11. Len(q) = Cardinality(set) BY <1>9 DEF n
<1>12. \A i, j \in 1..Len(q) : q[i] = q[j] => i = j BY <1>9, <1>10
<1>13. QED BY <1>2, <1>9, <1>11, <1>12

(* Those of a sequence that are in a set: of it, none twice and no more than there are.        *)
LEMMA ThoseOnce ==
  ASSUME NEW q \in Seq(Messages), NEW set, \A i, j \in 1..Len(q) : q[i] = q[j] => i = j
  PROVE  \E p \in Seq(Messages) :
           /\ p = S!Those(q, set) /\ Len(p) <= Len(q)
           /\ \A i \in 1..Len(p) : p[i] \in set /\ \E j \in 1..Len(q) : p[i] = q[j]
           /\ \A i, j \in 1..Len(p) : p[i] = p[j] => i = j
<1> DEFINE at == {i \in 1..Len(q) : q[i] \in set}
<1>1. Len(q) \in Nat /\ DOMAIN q = 1..Len(q) OBVIOUS
<1>2. IsFiniteSet(1..Len(q)) /\ Cardinality(1..Len(q)) = Len(q)
  <2>1. IsFiniteSet(1..Len(q)) /\ Cardinality(1..Len(q)) = IF 1 > Len(q) THEN 0 ELSE Len(q) - 1 + 1
    BY <1>1, FS_Interval
  <2>2. QED BY <1>1, <2>1
<1>3. IsFiniteSet(at) /\ Cardinality(at) <= Len(q)
  <2>1. at \in SUBSET (1..Len(q)) OBVIOUS
  <2>2. QED BY <1>2, <2>1, FS_Subset
<1>4. at \in SUBSET Nat BY <1>1
<1>5. PICK o \in Seq(at) : /\ o = S!InOrder(at) /\ Len(o) = Cardinality(at)
                           /\ \A i, j \in 1..Len(o) : o[i] = o[j] => i = j
  <2> HIDE DEF at
  <2>1. QED BY <1>3, <1>4, InOrderOnce
<1>6. PICK p : p = [i \in DOMAIN o |-> q[o[i]]] OBVIOUS
<1>7. p = S!Those(q, set)
  <2>1. {i \in DOMAIN q : q[i] \in set} = at BY <1>1
  <2> HIDE DEF at
  <2>2. S!Those(q, set) = [i \in DOMAIN o |-> q[o[i]]] BY <1>5, <2>1 DEF S!Those
  <2>3. QED BY <1>6, <2>2
<1>8. DOMAIN o = 1..Len(o) /\ Len(o) \in Nat /\ \A i \in 1..Len(o) : o[i] \in at
  <2> HIDE DEF at
  <2>1. QED BY <1>5
<1>9. \A i \in 1..Len(o) : o[i] \in 1..Len(q) /\ p[i] = q[o[i]] /\ p[i] \in set /\ p[i] \in Messages
  BY <1>1, <1>6, <1>8
<1>10. p \in Seq(Messages) /\ Len(p) = Len(o)
  <2>1. p \in [1..Len(o) -> Messages] BY <1>6, <1>9
  <2>2. QED BY <1>8, <2>1
<1>11. Len(p) <= Len(q) BY <1>3, <1>5, <1>10
<1>12. ASSUME NEW i \in 1..Len(p), NEW j \in 1..Len(p), p[i] = p[j] PROVE i = j
  <2>1. i \in 1..Len(o) /\ j \in 1..Len(o) BY <1>10
  <2>2. q[o[i]] = q[o[j]] /\ o[i] \in 1..Len(q) /\ o[j] \in 1..Len(q) BY <1>9, <1>12, <2>1
  <2>3. o[i] = o[j] BY <2>2
  <2>4. QED BY <1>5, <2>1, <2>3
<1>13. QED BY <1>7, <1>9, <1>10, <1>11, <1>12

(* What is picked from what was chosen is chosen, and stays so.                                *)
LEMMA ChosenOf ==
  ASSUME NEW strange, NEW q, Chosen(q, strange), NEW set
  PROVE  Chosen(S!Those(q, set), strange)
<1>1. q \in Seq(Messages) /\ \A i, j \in 1..Len(q) : q[i] = q[j] => i = j
  BY DEF Chosen, Once
<1>2. PICK p \in Seq(Messages) :
        /\ p = S!Those(q, set) /\ Len(p) <= Len(q)
        /\ \A i \in 1..Len(p) : p[i] \in set /\ \E j \in 1..Len(q) : p[i] = q[j]
        /\ \A i, j \in 1..Len(p) : p[i] = p[j] => i = j
  BY <1>1, ThoseOnce
<1>3. Len(p) <= MAX_MESSAGE_SELECTION BY <1>1, <1>2, SelectionTold DEF Chosen
<1>4. \A i, j \in 1..Len(p) : p[i] \in strange \/ p[j] \in strange \/ ChatOf[p[i]] = ChatOf[p[j]]
  BY <1>2 DEF Chosen
<1>5. QED BY <1>2, <1>3, <1>4 DEF Chosen, Once

LEMMA ChosenStill ==
  ASSUME NEW strange, NEW odder, strange \subseteq odder, NEW q, Chosen(q, strange)
  PROVE  Chosen(q, odder) /\ \A c : Here(q, strange, c) => Here(q, odder, c)
BY DEF Chosen, Here

(* So is what a click makes of it: what was there, and what it adds.                           *)
LEMMA ChosenAnew ==
  ASSUME NEW strange, NEW odder, strange \subseteq odder, NEW c, NEW q, Chosen(q, strange),
         Here(q, strange, c), NEW p \in Seq(Messages), Len(p) <= MAX_MESSAGE_SELECTION, Once(p),
         \A i \in 1..Len(p) : \/ \E j \in 1..Len(q) : p[i] = q[j]
                              \/ p[i] \notin System /\ (p[i] \in odder \/ ChatOf[p[i]] = c)
  PROVE  Chosen(p, odder) /\ Here(p, odder, c)
<1>1. \A j \in 1..Len(q) : q[j] \notin System /\ (q[j] \in odder \/ ChatOf[q[j]] = c) BY DEF Here
<1>2. \A i \in 1..Len(p) : p[i] \notin System /\ (p[i] \in odder \/ ChatOf[p[i]] = c) BY <1>1
<1>3. \A i, j \in 1..Len(p) : p[i] \in odder \/ p[j] \in odder \/ ChatOf[p[i]] = ChatOf[p[j]]
  BY <1>2
<1>4. QED BY <1>2, <1>3 DEF Chosen, Here

(* What a click adds at the end is added while there is room.                                  *)
LEMMA ChosenMore ==
  ASSUME NEW q \in Seq(Messages), Once(q), NEW more \in Seq(Messages), Once(more),
         Apart(q, more)
  PROVE  Within(Limited(q \o more)) /\ From(Limited(q \o more), q, more)
<1>0. PICK p : p = Limited(q \o more) OBVIOUS
<1>1. PICK all : all = q \o more OBVIOUS
<1>2. /\ q \in Seq(Messages) /\ all \in Seq(Messages) /\ Len(all) = Len(q) + Len(more)
      /\ Len(q) \in Nat /\ Len(more) \in Nat /\ Len(all) \in Nat
      /\ \A i \in 1..Len(all) : all[i] = IF i <= Len(q) THEN q[i] ELSE more[i - Len(q)]
  BY <1>1
<1>3. PICK b \in Nat, c \in Nat : b = Len(q) /\ c = Len(more) /\ Len(all) = b + c BY <1>2
<1>4. PICK m \in Nat : m <= b + c /\ m <= MAX_MESSAGE_SELECTION /\ p = SubSeq(all, 1, m)
  <2>1. PICK m : m = IF b + c > MAX_MESSAGE_SELECTION THEN MAX_MESSAGE_SELECTION ELSE b + c OBVIOUS
  <2>2. m \in Nat /\ m <= b + c /\ m <= MAX_MESSAGE_SELECTION BY <1>3, <2>1, SelectionTold
  <2>3. p = SubSeq(all, 1, m) BY <1>0, <1>1, <1>3, <2>1 DEF Limited
  <2>4. QED BY <2>2, <2>3
<1>5. p \in Seq(Messages) /\ Len(p) = m /\ DOMAIN p = 1..m /\ \A i \in 1..m : p[i] = all[i]
  <2>1. 1 \in 1..Len(all) + 1 /\ m \in 1 - 1..Len(all) BY <1>3, <1>4
  <2>2. /\ SubSeq(all, 1, m) \in Seq(Messages) /\ Len(SubSeq(all, 1, m)) = m - 1 + 1
        /\ \A i \in 1..m - 1 + 1 : SubSeq(all, 1, m)[i] = all[1 + i - 1]
    BY <1>2, <2>1, SubSeqProperties
  <2>3. m - 1 + 1 = m /\ \A i \in 1..m : i \in 1..m - 1 + 1 /\ 1 + i - 1 = i BY <1>4
  <2>4. \A i \in 1..m : p[i] = all[i] BY <1>4, <2>2, <2>3
  <2>5. p \in Seq(Messages) /\ Len(p) = m BY <1>4, <2>2, <2>3
  <2>6. DOMAIN p = 1..m BY <2>5
  <2>7. QED BY <2>4, <2>5, <2>6
<1>6. ASSUME NEW i \in 1..m
      PROVE  \/ i <= b /\ i \in 1..b /\ p[i] = q[i]
             \/ i > b /\ i - b \in 1..c /\ p[i] = more[i - b]
  <2>1. i \in 1..b + c /\ i \in Nat BY <1>4
  <2>2. p[i] = IF i <= b THEN q[i] ELSE more[i - b] BY <1>2, <1>3, <1>5, <2>1
  <2>3. i <= b => i \in 1..b BY <2>1
  <2>4. ~(i <= b) => i > b /\ i - b \in 1..c BY <1>3, <2>1
  <2>5. QED BY <2>2, <2>3, <2>4
<1>7. ASSUME NEW i \in 1..m
      PROVE  (\E j \in 1..b : p[i] = q[j]) \/ \E j \in 1..c : p[i] = more[j]
  BY <1>6
<1>8. ASSUME NEW i \in 1..m, NEW j \in 1..m, p[i] = p[j] PROVE i = j
  <2>1. \A x, y \in 1..b : q[x] = q[y] => x = y BY <1>3 DEF Once
  <2>2. \A x, y \in 1..c : more[x] = more[y] => x = y BY <1>3 DEF Once
  <2>3. \A x \in 1..b, y \in 1..c : q[x] # more[y] BY <1>3 DEF Apart
  <2>4. PICK x : x = i - b OBVIOUS
  <2>5. PICK y : y = j - b OBVIOUS
  <2>6. \/ i \in 1..b /\ p[i] = q[i]
        \/ x \in 1..c /\ p[i] = more[x]
    BY <1>6, <2>4
  <2>7. \/ j \in 1..b /\ p[j] = q[j]
        \/ y \in 1..c /\ p[j] = more[y]
    BY <1>6, <2>5
  <2>8. i = j \/ x = y BY <1>8, <2>1, <2>2, <2>3, <2>6, <2>7
  <2>9. x = y => i = j
    <3>1. i \in Nat /\ j \in Nat BY <1>4
    <3>2. QED BY <1>3, <2>4, <2>5, <3>1
  <2>10. QED BY <2>8, <2>9
<1>9. Once(p) BY <1>5, <1>8 DEF Once
<1>10. Within(p) BY <1>4, <1>5, <1>9 DEF Within
<1>11. From(p, q, more) BY <1>3, <1>5, <1>7 DEF From
<1>12. QED BY <1>0, <1>10, <1>11

(* The steps that leave alone what is chosen, or choose anew.                                  *)
LEMMA RoundChosen ==
  ASSUME SelectionInv, NEW op, NEW q, Chosen(q, s12), NEW to, S!Round(op, q, to),
         UNCHANGED <<s1, s2, s3, s6, s11, s12>>
  PROVE  SelectionInv'
<1>1. PICK r : r = [op |-> op, ids |-> q, left |-> q, to |-> to] OBVIOUS
<1>2. s8' = s8 \cup {r} BY <1>1 DEF S!Round
<1>3. RoundInv(r, s12) BY <1>1 DEF RoundInv
<1>4. \A t \in s8' : RoundInv(t, s12) BY <1>2, <1>3 DEF SelectionInv
<1>5. QED BY <1>4 DEF SelectionInv

LEMMA SelectionStays ==
  ASSUME SelectionInv, ListIs(s11, s2)', s12' = s12, (s1' = s1 /\ s3' = s3) \/ s3' = <<>>,
         s6' \in {s6, s3, <<>>} \/ \E m \in s2 : s6' = <<m>>,
         \A t \in s8' : t \in s8 \/ \E r \in s8 : t = [r EXCEPT !.left = Tail(@)]
  PROVE  SelectionInv'
<1>1. ASSUME NEW t \in s8' PROVE RoundInv(t, s12)
  <2>1. CASE t \in s8 BY <2>1 DEF SelectionInv
  <2>2. CASE \E r \in s8 : t = [r EXCEPT !.left = Tail(@)]
    <3>1. PICK r \in s8 : t = [r EXCEPT !.left = Tail(@)] BY <2>2
    <3>2. Chosen(r.ids, s12) /\ r \in [op : {r.op}, ids : {r.ids}, left : {r.left}, to : {r.to}]
      BY DEF SelectionInv, RoundInv
    <3>3. t \in [op : {r.op}, ids : {r.ids}, left : {Tail(r.left)}, to : {r.to}] BY <3>1, <3>2
    <3>4. t.op = r.op /\ t.ids = r.ids /\ t.left = Tail(r.left) /\ t.to = r.to BY <3>3
    <3>5. QED BY <3>2, <3>3, <3>4 DEF RoundInv
  <2>3. QED BY <1>1, <2>1, <2>2
<1>2. Chosen(s3', s12) /\ Here(s3', s12, s1') BY NothingChosen DEF SelectionInv
<1>3. Chosen(s6', s12)
  <2>1. CASE s6' \in {s6, s3, <<>>} BY <2>1, NothingChosen DEF SelectionInv
  <2>2. CASE \E m \in s2 : s6' = <<m>>
    <3>1. PICK m \in s2 : s6' = <<m>> BY <2>2
    <3>2. m \in Messages BY DEF SelectionInv, ListIs
    <3>3. QED BY <3>1, <3>2, SelectionTold DEF Chosen, Once
  <2>3. QED BY <2>1, <2>2
<1>4. QED BY <1>1, <1>2, <1>3 DEF SelectionInv

(* What is answered or told is put on the list: it is of one chat, or said to be of several.   *)
LEMMA SelectionJoined ==
  ASSUME SelectionInv, NEW c \in ChatSet, NEW set, set \subseteq S!Of(c), S!Joined(c, set)
  PROVE  ListIs(s11, s2)'
<1>1. s2' = s2 \cup set /\ s11' = IF s2 = {} \/ s11 = c THEN c ELSE Nil BY DEF S!Joined
<1>2. set \subseteq Messages /\ \A m \in set : ChatOf[m] = c BY DEF S!Of
<1>3. c # Nil BY SelectionAssumption DEF S!SelectionConstants
<1>4. s2' \subseteq Messages BY <1>1, <1>2 DEF SelectionInv, ListIs
<1>5. ASSUME s11' # Nil PROVE \A m \in s2' : ChatOf[m] = s11'
  <2>1. (s2 = {} \/ s11 = c) /\ s11' = c BY <1>1, <1>5
  <2>2. \A m \in s2 : ChatOf[m] = c BY <1>3, <2>1 DEF SelectionInv, ListIs
  <2>3. QED BY <1>1, <1>2, <2>1, <2>2
<1>6. QED BY <1>4, <1>5 DEF ListIs

(* A click, with or without Shift: what it makes of what is chosen.                            *)
LEMMA SelectionMade ==
  ASSUME SelectionInv, NEW m \in s2, m \notin System, NEW p, p = S!Ranged(m) \/ p = S!Toggled(m)
  PROVE  Within(p) /\ \A i \in 1..Len(p) : (\E j \in 1..Len(s3) : p[i] = s3[j]) \/ p[i] \in s2 \ System
<1>1. /\ s3 \in Seq(Messages) /\ Len(s3) <= MAX_MESSAGE_SELECTION /\ Once(s3) /\ DOMAIN s3 = 1..Len(s3)
      /\ s2 \subseteq Messages /\ m \in Messages
  BY DEF SelectionInv, Chosen, ListIs
<1>2. ASSUME NEW more \in Seq(s2 \ System), Once(more), Apart(s3, more), p = Limited(s3 \o more)
      PROVE  Within(p) /\ \A i \in 1..Len(p) : (\E j \in 1..Len(s3) : p[i] = s3[j]) \/ p[i] \in s2 \ System
  <2>1. more \in Seq(Messages) /\ \A j \in 1..Len(more) : more[j] \in s2 \ System BY <1>1, <1>2
  <2>2. Within(p) /\ From(p, s3, more) BY <1>1, <1>2, <2>1, ChosenMore
  <2>3. QED BY <2>1, <2>2 DEF From
<1>3. CASE p = S!Ranged(m)
  <2>1. PICK set : set = S!messageIdsBetween(s4, m) \ (System \cup S!ToSet(s3)) OBVIOUS
  <2>2. set \subseteq s2 \ System BY <2>1 DEF S!messageIdsBetween
  <2>3. set \in SUBSET Nat BY <1>1, <2>2, SelectionTold
  <2>4. IsFiniteSet(set)
    <3>1. CASE {s4, m} \subseteq s2
      <4>1. s4 \in Nat /\ m \in Nat BY <1>1, <3>1, SelectionTold
      <4>2. PICK n \in Nat : s4 <= n /\ m <= n BY <4>1
      <4>3. \A k \in set : k \in Nat /\ (k <= m \/ k <= s4) BY <2>1, <2>3, <3>1 DEF S!messageIdsBetween
      <4>4. \A k \in set : k <= n BY <4>1, <4>2, <4>3
      <4>5. QED BY <2>3, <4>4, FS_BoundedSetOfNaturals
    <3>2. CASE ~({s4, m} \subseteq s2)
      <4>1. set = {} BY <2>1, <3>2 DEF S!messageIdsBetween
      <4>2. QED BY <4>1, FS_EmptySet
    <3>3. QED BY <3>1, <3>2
  <2>5. PICK more \in Seq(set) : /\ more = S!InOrder(set)
                                /\ \A i, j \in 1..Len(more) : more[i] = more[j] => i = j
    BY <2>3, <2>4, InOrderOnce
  <2>6. more \in Seq(s2 \ System) /\ \A i \in 1..Len(more) : more[i] \in set BY <2>2, <2>5
  <2>7. \A k \in set, j \in DOMAIN s3 : s3[j] # k BY <2>1 DEF S!ToSet
  <2>8. Apart(s3, more) BY <1>1, <2>6, <2>7 DEF Apart
  <2>9. p = Limited(s3 \o more) BY <1>3, <2>1, <2>5 DEF S!Ranged, Limited
  <2>10. QED BY <1>2, <2>5, <2>6, <2>8, <2>9 DEF Once
<1>4. CASE p = S!Toggled(m) /\ m \in S!ToSet(s3)
  <2>1. PICK those \in Seq(Messages) :
          /\ those = S!Those(s3, Messages \ {m}) /\ Len(those) <= Len(s3)
          /\ \A i \in 1..Len(those) : \E j \in 1..Len(s3) : those[i] = s3[j]
          /\ \A i, j \in 1..Len(those) : those[i] = those[j] => i = j
    BY <1>1, ThoseOnce DEF Once
  <2>2. p = those BY <1>4, <2>1 DEF S!Toggled
  <2>3. Len(p) <= MAX_MESSAGE_SELECTION BY <1>1, <2>1, <2>2, SelectionTold
  <2>4. QED BY <2>1, <2>2, <2>3 DEF Once, Within
<1>5. CASE p = S!Toggled(m) /\ m \notin S!ToSet(s3) /\ Len(s3) >= MAX_MESSAGE_SELECTION
  <2>1. p = s3 BY <1>5 DEF S!Toggled
  <2>2. QED BY <1>1, <2>1 DEF Within
<1>6. CASE p = S!Toggled(m) /\ m \notin S!ToSet(s3) /\ ~(Len(s3) >= MAX_MESSAGE_SELECTION)
  <2>1. PICK more : more = <<m>> OBVIOUS
  <2>2. more \in Seq(s2 \ System) /\ more \in Seq(Messages) /\ Len(more) = 1 /\ more[1] = m BY <1>1, <2>1
  <2>3. \A j \in 1..Len(s3) : s3[j] # m BY <1>1, <1>6 DEF S!ToSet
  <2>4. Once(more) /\ Apart(s3, more) BY <2>2, <2>3 DEF Once, Apart
  <2>5. s3 \o more \in Seq(Messages) /\ Len(s3 \o more) = Len(s3) + 1 BY <1>1, <2>2, ConcatProperties
  <2>6. PICK n : n = Len(s3 \o more) OBVIOUS
  <2>7. n \in Nat /\ ~(n > MAX_MESSAGE_SELECTION) BY <1>1, <1>6, <2>5, <2>6, SelectionTold
  <2>8. p = s3 \o more BY <1>6, <2>1, <1>1 DEF S!Toggled
  <2>9. SubSeq(s3 \o more, 1, n) = s3 \o more BY <2>5, <2>6
  <2>10. p = Limited(s3 \o more) BY <2>6, <2>7, <2>8, <2>9 DEF Limited
  <2>11. QED BY <1>2, <2>2, <2>4, <2>10
<1>7. QED BY <1>3, <1>4, <1>5, <1>6

LEMMA SelectionClick ==
  ASSUME SelectionInv, NEW m \in s2, m \notin System, s1 # Nil, UNCHANGED <<s1, s2, s6, s8, s11>>,
         s3' = S!Ranged(m) \/ s3' = S!Toggled(m), S!Picked(S!ToSet(s3') \ S!ToSet(s3))
  PROVE  SelectionInv'
<1>1. s12' = s12 \cup (IF s11 = s1 THEN {} ELSE S!ToSet(s3') \ S!ToSet(s3)) BY DEF S!Picked
<1>2. PICK p : p = s3' OBVIOUS
<1>3. /\ p \in Seq(Messages) /\ Len(p) <= MAX_MESSAGE_SELECTION /\ Once(p)
      /\ \A i \in 1..Len(p) : (\E j \in 1..Len(s3) : p[i] = s3[j]) \/ p[i] \in s2 \ System
  BY <1>2, SelectionMade DEF Within
<1>4. Chosen(s3, s12) /\ Here(s3, s12, s1) /\ Chosen(s6, s12) /\ \A r \in s8 : RoundInv(r, s12)
  BY DEF SelectionInv
<1>5. ASSUME NEW i \in 1..Len(p)
      PROVE  \/ \E j \in 1..Len(s3) : p[i] = s3[j]
             \/ p[i] \notin System /\ (p[i] \in s12' \/ ChatOf[p[i]] = s1)
  <2>1. CASE \E j \in 1..Len(s3) : p[i] = s3[j] BY <2>1
  <2>2. CASE p[i] \in s2 \ System /\ s11 = s1 BY <2>2 DEF SelectionInv, ListIs
  <2>3. CASE p[i] \in s2 \ System /\ s11 # s1 /\ \A j \in 1..Len(s3) : p[i] # s3[j]
    <3>1. DOMAIN s3 = 1..Len(s3) /\ DOMAIN p = 1..Len(p) BY <1>3, <1>4 DEF Chosen
    <3>2. p[i] \in S!ToSet(p) \ S!ToSet(s3) BY <2>3, <3>1 DEF S!ToSet
    <3>3. QED BY <1>1, <1>2, <2>3, <3>2
  <2>4. QED BY <1>3, <2>1, <2>2, <2>3
<1>6. s12 \subseteq s12' BY <1>1
<1>7. Chosen(p, s12') /\ Here(p, s12', s1) BY <1>3, <1>4, <1>5, <1>6, ChosenAnew
<1>8. Chosen(s6, s12') /\ \A r \in s8 : RoundInv(r, s12') BY <1>4, <1>6, ChosenStill DEF RoundInv
<1>9. QED BY <1>2, <1>7, <1>8 DEF SelectionInv

(* Every step keeps it.                                                                        *)
LEMMA SelectionStep == ASSUME SelectionInv, S!Next PROVE SelectionInv'
<1>1. Chosen(s3, s12) /\ Chosen(s6, s12) /\ ListIs(s11, s2) BY DEF SelectionInv
<1>2. UNCHANGED <<s2, s11>> => ListIs(s11, s2)' BY <1>1 DEF ListIs
<1>3. s2' \subseteq s2 /\ s11' = s11 => ListIs(s11, s2)' BY <1>1 DEF ListIs
<1>4. CASE S!Exit \/ S!handleBatchForward \/ S!PinOne \/ S!ReplyOne \/ S!ClearReply \/ S!CloseDialog
  BY <1>2, <1>4, SelectionStays
  DEF S!Exit, S!handleBatchForward, S!PinOne, S!ReplyOne, S!ClearReply, S!CloseDialog, S!Exited,
      S!exitSelection, S!chosen, S!list
<1>5. CASE S!handleBatchDelete
  <2>1. PICK own : own = S!Those(s3, s2 \cap Mine) OBVIOUS
  <2>2. Chosen(own, s12) BY <1>1, <2>1, ChosenOf
  <2>3. S!Round("delete", own, Nil) /\ UNCHANGED <<s1, s2, s3, s6, s11, s12>>
    BY <1>5, <2>1 DEF S!handleBatchDelete, S!chosen, S!list
  <2>4. QED BY <2>2, <2>3, RoundChosen
<1>6. CASE S!handleBatchFavorites
  BY <1>1, <1>6, RoundChosen DEF S!handleBatchFavorites, S!chosen, S!list
<1>7. CASE S!Close \/ S!Reload \/ S!AskMore
  <2>1. ListIs(Nil, {}) BY DEF ListIs
  <2>2. CASE S!Close BY <2>1, <2>2, SelectionStays DEF S!Close, S!OtherChat, S!Exited, S!exitSelection, ListIs
  <2>3. CASE S!Reload BY <1>2, <2>3, SelectionStays DEF S!Reload, S!chosen
  <2>4. CASE S!AskMore BY <1>2, <2>4, SelectionStays DEF S!AskMore, S!chosen
  <2>5. QED BY <1>7, <2>2, <2>3, <2>4
<1>8. ASSUME NEW c \in ChatSet, S!Open(c) PROVE SelectionInv'
  BY <1>2, <1>8, SelectionStays DEF S!Open, S!OtherChat, S!Exited, S!exitSelection
<1>9. ASSUME NEW c \in ChatSet, S!handleForwardToChat(c) PROVE SelectionInv'
  BY <1>1, <1>9, RoundChosen DEF S!handleForwardToChat, S!chosen, S!list
<1>10. ASSUME NEW c \in ChatSet, NEW ok \in BOOLEAN, S!Loaded(c, ok) PROVE SelectionInv'
  <2>1. s11' = c /\ s2' \subseteq S!Of(c) BY <1>10 DEF S!Loaded
  <2>2. ListIs(s11, s2)' BY <2>1 DEF ListIs, S!Of
  <2>3. QED BY <1>10, <2>2, SelectionStays DEF S!Loaded, S!chosen
<1>11. ASSUME NEW c \in ChatSet, NEW set \in SUBSET S!Of(c), S!More(c, set) PROVE SelectionInv'
  <2>1. ListIs(s11, s2)' BY <1>2, <1>11, SelectionJoined DEF S!More
  <2>2. QED BY <1>11, <2>1, SelectionStays DEF S!More, S!chosen
<1>12. ASSUME NEW m \in Messages, S!enterSelection(m) PROVE SelectionInv'
  <2>1. /\ s3' = <<m>> /\ m \in s2 /\ m \notin System /\ s1 # Nil /\ UNCHANGED <<s1, s2, s6, s8, s11>>
        /\ s12' = s12 \cup (IF s11 = s1 THEN {} ELSE {m})
    BY <1>12 DEF S!enterSelection, S!isMessageSelectable, S!Picked, S!list
  <2>2. s12 \subseteq s12' /\ (m \in s12' \/ ChatOf[m] = s1) BY <2>1 DEF SelectionInv, ListIs
  <2>3. Chosen(<<m>>, s12') /\ Here(<<m>>, s12', s1)
    BY <1>12, <2>1, <2>2, SelectionTold DEF Chosen, Here, Once
  <2>4. Chosen(s6, s12') /\ \A r \in s8 : RoundInv(r, s12')
    BY <2>2, ChosenStill DEF SelectionInv, RoundInv
  <2>5. QED BY <1>2, <2>1, <2>3, <2>4 DEF SelectionInv
<1>13. ASSUME NEW m \in Messages, NEW s \in BOOLEAN, S!handleSelectionClick(m, s) PROVE SelectionInv'
  BY <1>13, SelectionClick DEF S!handleSelectionClick, S!isMessageSelectable, S!list
<1>14. ASSUME NEW m \in Messages, S!Vanish(m) \/ S!handleForward(m) PROVE SelectionInv'
  BY <1>2, <1>3, <1>14, SelectionStays DEF S!Vanish, S!handleForward, S!chosen, S!list
<1>15. ASSUME NEW m \in Messages, S!Arrive(m) PROVE SelectionInv'
  <2>1. s1 \in ChatSet /\ {m} \subseteq S!Of(s1) /\ S!Joined(s1, {m})
    BY <1>15, SelectionTold DEF S!Arrive, S!Of
  <2>2. ListIs(s11, s2)' BY <2>1, SelectionJoined
  <2>3. QED BY <1>15, <2>2, SelectionStays DEF S!Arrive, S!chosen
<1>16. ASSUME NEW h \in BOOLEAN, S!HideAuthor(h) PROVE SelectionInv'
  BY <1>2, <1>16, SelectionStays DEF S!HideAuthor, S!chosen, S!list
<1>17. ASSUME NEW r \in s8, S!RoundEnds(r) PROVE SelectionInv'
  BY <1>3, <1>17, SelectionStays DEF S!RoundEnds, S!Exited, S!exitSelection, S!chosen
<1>18. ASSUME NEW r \in s8, NEW ok \in BOOLEAN, S!Request(r, ok) PROVE SelectionInv'
  BY <1>2, <1>18, SelectionStays DEF S!Request, S!chosen, S!list
<1>19. QED
  BY <1>4, <1>5, <1>6, <1>7, <1>8, <1>9, <1>10, <1>11, <1>12, <1>13, <1>14, <1>15, <1>16, <1>17, <1>18
  DEF S!Next

-----------------------------------------------------------------------------
(* What holds of each part, and what it keeps when another part steps.                         *)

LayoutPart == place = "layout" => LayoutInv
InfoPart == place = "info" => InfoInv
ListPart == place = "list" => ListInv
FoldersPart == place = "folders" => FoldersInv
StoriesPart == place = "stories" => StoriesInv
BrowserPart == place = "browser" => BrowserInv
SelectionPart == place = "selection" => SelectionInv

(* A behaviour is of one part, which begins as that part does.                                  *)
LEMMA PlaceBegins ==
  ASSUME PlacesInit
  PROVE  /\ place = "layout" => L!Init
         /\ place = "info" => I!Init
         /\ place = "list" => C!Init
         /\ place = "folders" => F!Init
         /\ place = "stories" => Y!Init
         /\ place = "browser" => B!Init
         /\ place = "selection" => S!Init
BY DEF PlacesInit

(* And every step of it is one of the part, or leaves the part as it is.                        *)
LEMMA PlaceSteps ==
  ASSUME [PlacesNext]_placesVars
  PROVE  /\ place' = place
         /\ place = "layout" => L!Next \/ UNCHANGED places
         /\ place = "info" => I!Next \/ UNCHANGED places
         /\ place = "list" => C!Next \/ UNCHANGED places
         /\ place = "folders" => F!Next \/ UNCHANGED places
         /\ place = "stories" => Y!Next \/ UNCHANGED places
         /\ place = "browser" => B!Next \/ UNCHANGED places
         /\ place = "selection" => S!Next \/ UNCHANGED places
<1>1. CASE PlacesNext BY <1>1 DEF PlacesNext, At
<1>2. CASE UNCHANGED placesVars BY <1>2 DEF placesVars
<1>3. QED BY <1>1, <1>2

(* The panels over each other. *)
LEMMA LayoutAlways == PlacesSpec => []LayoutPart
<1>1. PlacesInit => LayoutPart BY PlaceBegins, LayoutInit DEF LayoutPart
<1>2. LayoutPart /\ [PlacesNext]_placesVars => LayoutPart'
  <2>1. SUFFICES ASSUME LayoutPart, [PlacesNext]_placesVars, place = "layout" PROVE LayoutInv'
    BY PlaceSteps DEF LayoutPart
  <2>2. LayoutInv BY <2>1 DEF LayoutPart
  <2>3. CASE L!Next BY <2>2, <2>3, LayoutStep
  <2>4. CASE UNCHANGED places
    BY <2>2, <2>4 DEF places, LayoutInv, LayoutTypes, L!Views, L!ShowChat, L!Panel
  <2>5. QED BY <2>1, <2>3, <2>4, PlaceSteps
<1>3. QED BY <1>1, <1>2, PTL DEF PlacesSpec

(* The panel on a chat. *)
LEMMA InfoAlways == PlacesSpec => []InfoPart
<1>1. PlacesInit => InfoPart BY PlaceBegins, InfoInit DEF InfoPart
<1>2. InfoPart /\ [PlacesNext]_placesVars => InfoPart'
  <2>1. SUFFICES ASSUME InfoPart, [PlacesNext]_placesVars, place = "info" PROVE InfoInv'
    BY PlaceSteps DEF InfoPart
  <2>2. InfoInv BY <2>1 DEF InfoPart
  <2>3. CASE I!Next BY <2>2, <2>3, InfoStep
  <2>4. CASE UNCHANGED places
    BY <2>2, <2>4 DEF places, InfoInv, InfoTypes, InfoRequest, InfoShape, Bell, I!Told
  <2>5. QED BY <2>1, <2>3, <2>4, PlaceSteps
<1>3. QED BY <1>1, <1>2, PTL DEF PlacesSpec

(* The list of chats. *)
LEMMA ListAlways == PlacesSpec => []ListPart
<1>1. PlacesInit => ListPart BY PlaceBegins, ListInit DEF ListPart
<1>2. ListPart /\ [PlacesNext]_placesVars => ListPart'
  <2>1. SUFFICES ASSUME ListPart, [PlacesNext]_placesVars, place = "list" PROVE ListInv'
    BY PlaceSteps DEF ListPart
  <2>2. ListInv BY <2>1 DEF ListPart
  <2>3. CASE C!Next BY <2>2, <2>3, ListStep
  <2>4. CASE UNCHANGED places
    BY <2>2, <2>4 DEF places, ListInv, ListTypes, Sure, Brought, Comes
  <2>5. QED BY <2>1, <2>3, <2>4, PlaceSteps
<1>3. QED BY <1>1, <1>2, PTL DEF PlacesSpec

(* Its folders. *)
LEMMA FoldersAlways == PlacesSpec => []FoldersPart
<1>1. PlacesInit => FoldersPart BY PlaceBegins, FoldersInit DEF FoldersPart
<1>2. FoldersPart /\ [PlacesNext]_placesVars => FoldersPart'
  <2>1. SUFFICES ASSUME FoldersPart, [PlacesNext]_placesVars, place = "folders" PROVE FoldersInv'
    BY PlaceSteps DEF FoldersPart
  <2>2. FoldersInv BY <2>1 DEF FoldersPart
  <2>3. CASE F!Next BY <2>2, <2>3, FoldersStep
  <2>4. CASE UNCHANGED places BY <2>2, <2>4 DEF places, FoldersInv, FolderEditor
  <2>5. QED BY <2>1, <2>3, <2>4, PlaceSteps
<1>3. QED BY <1>1, <1>2, PTL DEF PlacesSpec

(* The strip of stories. *)
LEMMA StoriesAlways == PlacesSpec => []StoriesPart
<1>1. PlacesInit => StoriesPart BY PlaceBegins, StoriesInit DEF StoriesPart
<1>2. StoriesPart /\ [PlacesNext]_placesVars => StoriesPart'
  <2>1. SUFFICES ASSUME StoriesPart, [PlacesNext]_placesVars, place = "stories" PROVE StoriesInv'
    BY PlaceSteps DEF StoriesPart
  <2>2. StoriesInv BY <2>1 DEF StoriesPart
  <2>3. CASE Y!Next BY <2>2, <2>3, StoriesStep
  <2>4. CASE UNCHANGED places
    <3>1. /\ UNCHANGED <<s1, s2, s3, s4, s5, s6, s11, s12, s13, s14, s15, s17>>
          /\ s7' = s7 /\ s16' = s16
      BY <2>4 DEF places
    <3>2. s7' \in BOOLEAN /\ s16' \in 0..StoryMoves BY <2>2, <3>1 DEF StoriesInv, StoryTypes
    <3>3. QED BY <2>2, <3>1, <3>2, StoriesStay
  <2>5. QED BY <2>1, <2>3, <2>4, PlaceSteps
<1>3. QED BY <1>1, <1>2, PTL DEF PlacesSpec

(* The in-app browser. *)
LEMMA BrowserAlways == PlacesSpec => []BrowserPart
<1>1. PlacesInit => BrowserPart BY PlaceBegins, BrowserInit DEF BrowserPart
<1>2. BrowserPart /\ [PlacesNext]_placesVars => BrowserPart'
  <2>1. SUFFICES ASSUME BrowserPart, [PlacesNext]_placesVars, place = "browser" PROVE BrowserInv'
    BY PlaceSteps DEF BrowserPart
  <2>2. BrowserInv BY <2>1 DEF BrowserPart
  <2>3. CASE B!Next BY <2>2, <2>3, BrowserStep
  <2>4. CASE UNCHANGED places BY <2>2, <2>4, BrowserStays DEF places
  <2>5. QED BY <2>1, <2>3, <2>4, PlaceSteps
<1>3. QED BY <1>1, <1>2, PTL DEF PlacesSpec

(* The messages chosen. *)
LEMMA SelectionAlways == PlacesSpec => []SelectionPart
<1>1. PlacesInit => SelectionPart BY PlaceBegins, SelectionInit DEF SelectionPart
<1>2. SelectionPart /\ [PlacesNext]_placesVars => SelectionPart'
  <2>1. SUFFICES ASSUME SelectionPart, [PlacesNext]_placesVars, place = "selection"
                 PROVE  SelectionInv'
    BY PlaceSteps DEF SelectionPart
  <2>2. SelectionInv BY <2>1 DEF SelectionPart
  <2>3. CASE S!Next BY <2>2, <2>3, SelectionStep
  <2>4. CASE UNCHANGED places BY <2>2, <2>4, SelectionStays DEF places, SelectionInv, ListIs
  <2>5. QED BY <2>1, <2>3, <2>4, PlaceSteps
<1>3. QED BY <1>1, <1>2, PTL DEF PlacesSpec

-----------------------------------------------------------------------------

(* What the user asked to see last is on the screen, unless a slide of the settings hides it, *)
(* a panel was asked for over another or a chat was opened under the contacts; and the panel  *)
(* on a chat shows the one that is open, and its bell what the server was told, but for what  *)
(* was late (MainLayout.tsx, ChatInfoPanel.tsx).                                              *)
THEOREM AskedStaysShown == PlacesSpec => []AskedIsShown
<1>1. LayoutPart /\ InfoPart => AskedIsShown
  BY LayoutHeld, InfoHeld DEF LayoutPart, InfoPart, AskedIsShown
<1>2. QED BY <1>1, LayoutAlways, InfoAlways, PTL

(* With nothing under way the list has every change, unless its event was lost, a request     *)
(* failed or an answer came late, and the copy of five seconds never hides a chat made here;  *)
(* and a chat put into a folder is under its tab or in the archive it leads to, whatever is   *)
(* marked, made or deleted meanwhile (loadChats, DialogList.tsx; getChats, client.ts; the     *)
(* memo "filtered" and the folder editor, DialogList.tsx).                                    *)
THEOREM ListStaysCurrent == PlacesSpec => []ListCurrent
<1>1. ListPart /\ FoldersPart => ListCurrent
  BY ListHeld, FoldersHeld DEF ListPart, FoldersPart, ListCurrent
<1>2. QED BY <1>1, ListAlways, FoldersAlways, PTL

(* With nothing under way the strip is the server's feed and the stories kept here, unless     *)
(* somebody else or the clock changed the feed since the last answer was made, that call       *)
(* failed or it came late, or the file of a publication that failed could not be read; and a   *)
(* story that was published is at the server or kept here until its day is over, however its   *)
(* calls failed, a full localStorage and an unreadable file excepted (StoriesStrip.tsx,        *)
(* lib/stories.ts).                                                                            *)
THEOREM StripIsTrue == PlacesSpec => []StoriesTrue
<1>1. StoriesPart => StoriesTrue BY StoriesHeld DEF StoriesPart, StoriesTrue
<1>2. QED BY <1>1, StoriesAlways, PTL

(* While there are tabs one of them is the active one, in Electron and elsewhere; a tab of an  *)
(* iframe is where its history says it is, however it went there; and the line tells truly     *)
(* that the active tab loads, unless the tab was switched to after it had loaded or another    *)
(* tab said it is done (BrowserPanel.tsx, store/index.ts).                                     *)
THEOREM HistoryIsHere == PlacesSpec => []HistoryHere
<1>1. BrowserPart => HistoryHere BY BrowserHeld DEF BrowserPart, HistoryHere
<1>2. QED BY <1>1, BrowserAlways, PTL

(* What a round of deleting, keeping or forwarding works through is of one chat, no message   *)
(* twice and within the limit, however it was clicked together and whatever rounds ended       *)
(* meanwhile; and what is chosen is of the chat that is open, unless it was chosen while the   *)
(* list still showed another one (handleSelectionClick, exitSelection, loadChat, ChatView.tsx). *)
THEOREM ChosenIsHere == PlacesSpec => []ChosenHere
<1>1. SelectionPart => ChosenHere BY SelectionHeld DEF SelectionPart, ChosenHere
<1>2. QED BY <1>1, SelectionAlways, PTL
=============================================================================
