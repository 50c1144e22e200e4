------------------------------- MODULE Browser -------------------------------
(***************************************************************************)
(* The in-app browser: BrowserPanel.tsx and the tabs of store/index.ts,    *)
(* which persist across loads of the window.  In Electron a guest is a     *)
(* <webview> with a history of its own, elsewhere an <iframe> whose        *)
(* history the panel keeps.  A guest loads and says so in its own time.    *)
(***************************************************************************)
EXTENDS Naturals, Sequences, SequencesExt

CONSTANTS Pages, Home, None,
          BROWSER_MAX_TABS,
          MaxTabs, MaxSteps \* bounds for TLC: tabs ever made, pages gone to
BrowserConstants == /\ Home \in Pages /\ None \notin Pages \cup Nat
                    /\ BROWSER_MAX_TABS \in Nat \ {0} /\ {MaxTabs, MaxSteps} \subseteq Nat

VARIABLES
  native,       \* the guests are webviews
  tabs, active, \* inAppBrowserTabs, by id; inAppBrowserActiveTabId
  url,          \* of each tab
  hist,         \* histRef
  bar,          \* addressBar
  loading,      \* isLoading, the line under the bar
  going,        \* the tabs whose guest is loading
  devtools, drag, \* devtoolsOpen; the index of the tab dragged
  made, steps,  \* counters: ids given, pages gone to
  odd           \* history: why the line may be wrong: "switched", "other"
vars == <<native, tabs, active, url, hist, bar, loading, going, devtools, drag, made, steps, odd>>

Start(p) == [stack |-> <<p>>, idx |-> 1]
Init == /\ native \in BOOLEAN /\ tabs = <<>> /\ active = None /\ url = [t \in {} |-> Home]
        /\ hist = [t \in {} |-> Start(Home)] /\ bar = None /\ loading = FALSE /\ going = {}
        /\ devtools = FALSE /\ drag = None /\ made = 0 /\ steps = 0 /\ odd = {}

Open == active \in Range(tabs)
With(f, t, v) == [x \in DOMAIN f \cup {t} |-> IF x = t THEN v ELSE f[x]]
Without(f, t) == [x \in DOMAIN f \ {t} |-> f[x]]
-----------------------------------------------------------------------------
(* The effects on the active tab and its address.                                              *)
ActiveUrl == IF Open THEN url[active] ELSE None
Follow == IF ActiveUrl' # None /\ <<active, ActiveUrl>>' # <<active, ActiveUrl>>
          THEN /\ bar' = ActiveUrl' /\ loading' = TRUE
               /\ odd' = (IF active' = active THEN odd ELSE IF active' \in going' THEN {} ELSE {"switched"})
          ELSE UNCHANGED <<bar, loading, odd>>

(* Mutant: the oldest tab is dropped, but stays the active one. *)
ActiveStays == IF Len(tabs) >= BROWSER_MAX_TABS THEN active ELSE made
NewActive == made
(* The oldest tab makes room; an effect starts the history of the new one.                     *)
AddTab(p) == /\ made < MaxTabs /\ made' = made + 1
             /\ tabs' = Append(IF Len(tabs) >= BROWSER_MAX_TABS THEN Tail(tabs) ELSE tabs, made)
             /\ active' = NewActive /\ url' = With(url, made, p) /\ hist' = With(hist, made, Start(p))
             /\ going' = going \cup {made}
             /\ Follow /\ UNCHANGED <<native, devtools, drag, steps>>
(* A link of a chat, which the panel covers while it is open.                                  *)
SetInAppBrowserUrl(p) == tabs = <<>> /\ AddTab(p)
(* The button stops at the limit, the key does not.                                            *)
NewTab == Open /\ AddTab(Home)

ChooseTab(t) == /\ Open /\ t \in Range(tabs) /\ active' = t
                /\ UNCHANGED <<native, tabs, url, hist, going, devtools, drag, made, steps>> /\ Follow
RemoveTab(t) ==
  /\ Open /\ \E i \in DOMAIN tabs : tabs[i] = t /\ tabs' = RemoveAt(tabs, i) \* an id is one tab's
  /\ active' = (IF active # t THEN active ELSE IF tabs' = <<>> THEN None ELSE Last(tabs'))
  /\ hist' = Without(hist, t) /\ url' = Without(url, t) /\ going' = going \ {t}
  /\ Follow /\ UNCHANGED <<native, devtools, drag, made, steps>>
DragStart(i) == Open /\ i \in DOMAIN tabs /\ drag' = i
                /\ UNCHANGED <<native, tabs, active, url, hist, bar, loading, going, devtools, made, steps, odd>>
(* The index is that of the start, whatever was added or closed since.                         *)
DropTab(i) == /\ Open /\ drag # None /\ i \in DOMAIN tabs /\ drag' = None
              /\ tabs' = IF drag \notin DOMAIN tabs \ {i} THEN tabs
                         ELSE InsertAt(RemoveAt(tabs, drag), i, tabs[drag])
              /\ UNCHANGED <<native, active, url, hist, bar, loading, going, devtools, made, steps, odd>>
CloseAll == /\ Open /\ tabs' = <<>> /\ active' = None /\ bar' = None /\ devtools' = FALSE
            /\ loading' = FALSE /\ going' = {} /\ url' = [t \in {} |-> Home] /\ hist' = [t \in {} |-> Start(Home)]
            /\ UNCHANGED <<native, drag, made, steps, odd>>
-----------------------------------------------------------------------------
(* The active tab goes to a page: its guest loads, unless it is there.                         *)
Goes(p, h) == /\ url' = [url EXCEPT ![active] = p] /\ hist' = h
              /\ going' = (IF url[active] = p THEN going ELSE going \cup {active})
              /\ UNCHANGED <<native, tabs, active, devtools, drag, made>> /\ Follow

Pushed(h, p) == [stack |-> Append(SubSeq(h.stack, 1, h.idx), p), idx |-> h.idx + 1]
NavigateTab(p) == /\ Open /\ steps < MaxSteps /\ steps' = steps + 1
                  /\ LET h == hist[active] IN
                       Goes(p, IF h.stack[h.idx] = p THEN hist ELSE [hist EXCEPT ![active] = Pushed(h, p)])
(* The step to a place i of the history of the active tab. *)
MoveTo(i) == /\ Open /\ ~native /\ i \in DOMAIN hist[active].stack /\ UNCHANGED steps
             /\ Goes(hist[active].stack[i], [hist EXCEPT ![active].idx = i])
GoBack == Open /\ MoveTo(hist[active].idx - 1)
GoForward == Open /\ MoveTo(hist[active].idx + 1)
(* A link, or a step back or forward, inside a webview: did-navigate.                          *)
GuestGoes(p) == /\ Open /\ native /\ p # url[active] /\ steps < MaxSteps /\ steps' = steps + 1
                /\ Goes(p, hist)
Reload == /\ Open /\ loading' = TRUE /\ going' = going \cup {active}
          /\ UNCHANGED <<native, tabs, active, url, hist, bar, devtools, drag, made, steps, odd>>
(* Every iframe is listened to, of the webviews the active one alone.                          *)
Heard(t) == ~native \/ t = active
GuestLoaded(t) == /\ t \in going /\ going' = going \ {t}
                  /\ loading' = (loading /\ ~Heard(t))
                  /\ odd' = (IF t = active THEN {} ELSE IF Heard(t) /\ active \in going THEN {"other"}
                             ELSE IF Heard(t) THEN {} ELSE odd)
                  /\ UNCHANGED <<native, tabs, active, url, hist, bar, devtools, drag, made, steps>>
Type(s) == Open /\ bar' = s /\ UNCHANGED <<native, tabs, active, url, hist, loading, going, devtools, drag, made, steps, odd>>
Submit == /\ bar \in Pages /\ NavigateTab(bar)
Toggle == /\ Open /\ devtools' = ~devtools
          /\ UNCHANGED <<native, tabs, active, url, hist, bar, loading, going, drag, made, steps, odd>>
Escape == IF devtools THEN Toggle ELSE CloseAll
(* The window is loaded again: the tabs are kept, histories start anew.                        *)
Restart == /\ hist' = [t \in DOMAIN url |-> Start(url[t])] /\ going' = DOMAIN url /\ drag' = None
           /\ bar' = ActiveUrl /\ loading' = Open /\ devtools' = FALSE /\ odd' = {}
           /\ UNCHANGED <<native, tabs, active, url, made, steps>>

Next == \/ \E p \in Pages : SetInAppBrowserUrl(p) \/ GuestGoes(p) \/ Type(p)
        \/ \E t \in 0..MaxTabs : ChooseTab(t) \/ RemoveTab(t) \/ DragStart(t) \/ DropTab(t) \/ GuestLoaded(t)
        \/ NewTab \/ GoBack \/ GoForward \/ NavigateTab(Home) \/ Submit \/ Reload \/ Toggle \/ Escape \/ Restart
Spec == Init /\ [][Next]_vars
-----------------------------------------------------------------------------
(* While there are tabs one of them is the active one, also after the oldest made room or the  *)
(* active one was closed; and a tab of an iframe is where its history says it is, so that back *)
(* and forward lead where the user was.  (store/index.ts, navigateTab, handleGoBack.)          *)
HistoryHere == /\ (tabs # <<>>) = Open /\ Len(tabs) <= BROWSER_MAX_TABS
               /\ ~native => \A t \in Range(tabs) : hist[t].stack[hist[t].idx] = url[t]
(* The line that says a page is loading is true of the active tab, unless the tab was switched *)
(* to after it had loaded, or another tab said it is done.  (The effects on isLoading.)        *)
LineTrue == Open /\ odd = {} => loading = (active \in going)
=============================================================================
