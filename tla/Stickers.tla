------------------------------- MODULE Stickers -------------------------------
(* My packs of stickers: the panel of the input (StickerPanel.tsx), the list   *)
(* of somebody else's packs that can be copied (UserStickerPackModal.tsx), the *)
(* cache of addresses (lib/stickers.ts) and the server's side                  *)
(* (internal/userstickers/service.go), which counts in one query and inserts   *)
(* in another, in no transaction.                                              *)
EXTENDS Integers, FiniteSets, Sequences, FiniteSetsExt

CONSTANTS
  Theirs,               \* the other user's packs: a sequence of sequences of media
  maxStickersPerUser,   \* 200 in the code
  maxPacksPerUser,      \* 50 in the code
  MaxCalls,             \* how many calls are made
  MaxLoads              \* how many times the panel is opened again

(* What others have sent is not what I upload later: Upload numbers that from -1 downwards. *)
StickersConstants ==
  /\ Theirs \in Seq(Seq(Nat))
  /\ maxStickersPerUser \in Nat \ {0} /\ maxPacksPerUser \in Nat \ {0}
  /\ MaxCalls \in Nat /\ MaxLoads \in Nat

VARIABLES
  packs,      \* my packs, by the order of their creation
  stickers,   \* my stickers at the server
  calls,      \* the calls under way
  over,       \* what a call made whose counts were old: stickers, and packs by their negative
  shown,      \* what the panel shows
  sel,        \* the pack chosen in it, or 0
  asks,       \* the libraries asked for and not yet answered
  cached,     \* the stickers whose address is known
  busy,       \* uploadingCloud
  mine,       \* the media the list of packs knows to be mine
  importing,  \* what is being copied: <<>>, a sticker <<m>>, a pack <<0, src>>
  all,        \* importingAll
  odd,        \* why the panel may differ from the server
  made, asked, newest, loads
server == <<packs, stickers, over>>
panel  == <<shown, sel, busy>>
vars == <<packs, stickers, calls, over, shown, sel, asks, cached, busy, mine,
          importing, all, odd, made, asked, newest, loads>>

Media(src) == {Theirs[src][i] : i \in 1..Len(Theirs[src])}
Library == [packs |-> packs, stickers |-> stickers]
MyMedia == {s.media : s \in stickers}
Oldest(set) == CHOOSE p \in set : \A q \in set : p <= q

(* The panel falls back to the first pack (StickerPanel.tsx:66-69). *)
Selected ==
  IF sel \in shown.packs THEN sel
  ELSE IF shown.packs = {} THEN 0 ELSE Oldest(shown.packs)

Ask(n, pack, upload) ==
  [n |-> n, pack |-> pack, upload |-> upload, got |-> <<>>, stale |-> {}]

Init ==
  /\ packs \in {{}, {1}} /\ stickers = {} /\ calls = {} /\ over = {}
  /\ shown = [packs |-> {}, stickers |-> {}] /\ sel = 0
  /\ asks = {Ask(1, 0, FALSE)} /\ cached = {} /\ busy = FALSE /\ mine = {}
  /\ importing = <<>> /\ all = FALSE /\ odd = {} /\ made = 1 /\ asked = 1 /\ newest = 0
  /\ loads = 0

-----------------------------------------------------------------------------
(* refreshServerStickers. *)
Refresh(pack, upload) ==
  /\ asked' = asked + 1
  /\ asks' = asks \union {Ask(asked + 1, pack, upload)}

Open ==
  /\ loads < MaxLoads /\ loads' = loads + 1 /\ Refresh(0, FALSE)
  /\ UNCHANGED <<server, calls, panel, cached, mine, importing, all, odd, made, newest>>

Served ==
  \E a \in asks :
    /\ a.got = <<>>
    /\ asks' = (asks \ {a}) \union {[a EXCEPT !.got = <<Library>>]}
    /\ UNCHANGED <<server, calls, panel, cached, mine, importing, all, odd, made,
                   asked, newest, loads>>

(* The answer: the addresses go to the cache, the pack chosen stays if it is  *)
(* still there; an upload that waited for it chooses its own pack.  A failure  *)
(* empties the panel.                                                          *)
Chosen(a, list) ==
  CASE a.pack # 0 -> a.pack
    [] a.pack = 0 /\ sel \in list.packs -> sel
    [] a.pack = 0 /\ sel \notin list.packs ->
         IF list.packs = {} THEN 0 ELSE Oldest(list.packs)
mergeServerStickers(list) == cached \union {s.id : s \in list}
Loaded ==
  \E a \in asks :
    /\ asks' = asks \ {a}
    /\ busy' = (busy /\ ~a.upload)
    /\ newest' = IF a.n > newest THEN a.n ELSE newest
    /\ \/ /\ a.got # <<>>
          /\ shown' = a.got[1] /\ sel' = Chosen(a, a.got[1])
          /\ cached' = mergeServerStickers(a.got[1].stickers)
          /\ odd' = a.stale \union (IF a.n < newest THEN {"late"} ELSE {})
       \/ /\ shown' = [packs |-> {}, stickers |-> {}]
          /\ sel' = (IF a.pack # 0 THEN a.pack ELSE sel)
          /\ odd' = {"failed"} /\ UNCHANGED cached
    /\ UNCHANGED <<server, calls, mine, importing, all, made, asked, loads>>

Choose ==
  \E p \in shown.packs :
    /\ sel # p /\ sel' = p
    /\ UNCHANGED <<server, calls, shown, asks, cached, busy, mine, importing, all,
                   odd, made, asked, newest, loads>>

-----------------------------------------------------------------------------
(* The calls.  A call is made by the panel or by the list of packs. *)
PanelOps == {"create", "pack", "rename", "dropPack", "drop"}
Call(op, pack, arg) ==
  /\ made < MaxCalls + 1
  /\ made' = made + 1
  /\ calls' = calls \union
       {[id |-> made + 1, op |-> op, pack |-> pack, arg |-> arg,
         st |-> IF op \in PanelOps \ {"create", "pack"} THEN "write" ELSE "count",
         copy |-> {}, dirty |-> FALSE, did |-> {}, wrote |-> FALSE]}
  /\ UNCHANGED <<server, shown, sel, asks, cached, mine, odd, asked, newest, loads>>

(* handleFileCloud: one upload at a time, into the pack shown now. *)
Upload ==
  /\ ~busy /\ busy' = TRUE /\ Call("create", Selected, -made)
  /\ UNCHANGED <<importing, all>>
Manage(op, pack, arg) == Call(op, pack, arg) /\ UNCHANGED <<busy, importing, all>>
NewPack == Manage("pack", 0, 0)
RenamePack == Selected # 0 /\ Manage("rename", Selected, 0)
DeletePack == Selected # 0 /\ Manage("dropPack", Selected, 0)
DeleteSticker ==
  \E s \in shown.stickers : s.pack = Selected /\ Manage("drop", s.pack, s.id)

(* The list of packs: a sticker that I have, or that is being copied, has its *)
(* button off; a pack's button is off while anything is copied.               *)
ImportOne ==
  \E src \in DOMAIN Theirs : \E m \in Media(src) :
    /\ m \notin mine /\ importing # <<m>> /\ ~all
    /\ importing' = <<m>> /\ Call("one", 0, m) /\ UNCHANGED <<busy, all>>
ImportPack ==
  \E src \in DOMAIN Theirs :
    /\ importing = <<>> /\ ~all
    /\ importing' = <<0, src>> /\ Call("copy", 0, <<src>>) /\ UNCHANGED <<busy, all>>
ImportAll ==
  /\ Theirs # <<>> /\ importing = <<>> /\ ~all /\ all' = TRUE
  /\ Call("all", 0, [i \in 1..Len(Theirs) |-> i]) /\ UNCHANGED <<busy, importing>>

-----------------------------------------------------------------------------
(* The server. *)
Others(c) == calls \ {c}
Dirtied(set) == {[d EXCEPT !.dirty = TRUE] : d \in set}
Stale(why) ==
  /\ asks' = {IF a.got = <<>> THEN a ELSE [a EXCEPT !.stale = @ \union {why}] : a \in asks}
  /\ odd' = odd \union {why}
Aged(c) == Stale(IF c.op \in PanelOps THEN "mine" ELSE "others")
Quiet == UNCHANGED <<panel, cached, mine, importing, all, made, asked, newest, loads>>

(* The counts of Create, ImportSticker, CreatePack and ImportPack. *)
MayInsert(c) ==
  CASE c.op = "create" -> Cardinality(stickers) < maxStickersPerUser
    [] c.op = "one" -> /\ c.arg \notin MyMedia
                       /\ Cardinality(stickers) < maxStickersPerUser
    [] c.op \in {"pack", "copy", "all"} -> Cardinality(packs) < maxPacksPerUser
Counts ==
  \E c \in calls :
    /\ c.st = "count" /\ MayInsert(c)
    /\ calls' = Others(c) \union
         {[c EXCEPT !.dirty = FALSE,
                    !.st = IF c.op = "pack" THEN "write"
                           ELSE IF c.op \in {"create", "one"} THEN "place" ELSE "copy"]}
    /\ UNCHANGED <<server, asks, odd>> /\ Quiet

(* GetPackOwned; EnsureDefaultPack reads, and inserts when it found none. *)
Places ==
  \E c \in calls :
    /\ c.st = "place" /\ (c.pack # 0 => c.pack \in packs)
    /\ calls' = Others(c) \union
         {IF c.pack = 0 /\ packs = {} THEN [c EXCEPT !.st = "default"]
          ELSE [c EXCEPT !.st = "write",
                         !.pack = IF c.pack = 0 THEN Oldest(packs) ELSE c.pack]}
    /\ UNCHANGED <<server, asks, odd>> /\ Quiet

NewId == 1 + Max({0} \union packs \union {s.id : s \in stickers}
                 \union cached \union UNION {{s.id : s \in c.did} : c \in calls})
DefaultPack ==
  \E c \in calls :
    /\ c.st = "default" /\ packs' = packs \union {NewId}
    /\ calls' = Dirtied(Others(c)) \union {[c EXCEPT !.st = "write", !.pack = NewId, !.wrote = TRUE]}
    /\ over' = IF c.dirty THEN over \union {-NewId} ELSE over
    /\ Aged(c) /\ UNCHANGED stickers /\ Quiet

(* ImportPack's transaction: the media I have not yet, in their order, while  *)
(* there is room.                                                             *)
Fresh(src) == {m \in Media(src) : m \notin MyMedia}
RoomAlways(list, src) == list                                    \* mutant
Room(list, src) ==
  {m \in list : Cardinality({k \in list : \E i, j \in DOMAIN Theirs[src] :
     i < j /\ Theirs[src][i] = k /\ Theirs[src][j] = m})
     < maxStickersPerUser - Cardinality(stickers)}
Copies ==
  \E c \in calls :
    /\ c.st = "copy"
    /\ calls' = Others(c) \union
         {[c EXCEPT !.st = "write", !.copy = Room(Fresh(Head(c.arg)), Head(c.arg))]}
    /\ UNCHANGED <<server, asks, odd>> /\ Quiet

(* The rows of a call, and what its counts could no longer have seen. *)
Rows(c) ==
  CASE c.op \in {"create", "one"} ->
         {[id |-> NewId, pack |-> c.pack, media |-> c.arg]}
    [] c.op \in {"copy", "all"} ->
         LET at(m) == CHOOSE i \in DOMAIN Theirs[Head(c.arg)] : Theirs[Head(c.arg)][i] = m
         IN {[id |-> NewId + at(m), pack |-> NewId, media |-> m] : m \in c.copy}
    [] OTHER -> {}
Writes(c) ==
  CASE c.op \in {"create", "one"} ->
         /\ c.pack \in packs /\ stickers' = stickers \union Rows(c)
         /\ UNCHANGED packs
    [] c.op = "pack" -> packs' = packs \union {NewId} /\ UNCHANGED stickers
    [] c.op = "rename" -> c.pack \in packs /\ UNCHANGED <<packs, stickers>>
    [] c.op = "dropPack" ->
         /\ c.pack \in packs /\ packs' = packs \ {c.pack}
         /\ stickers' = {s \in stickers : s.pack # c.pack}
    [] c.op = "drop" ->
         /\ \E s \in stickers : s.id = c.arg
         /\ stickers' = {s \in stickers : s.id # c.arg} /\ UNCHANGED packs
    [] c.op \in {"copy", "all"} ->
         /\ stickers' = stickers \union Rows(c)
         /\ packs' = IF c.copy = {} THEN packs ELSE packs \union {NewId}
Write ==
  \E c \in calls :
    LET more == c.op = "all" /\ Len(c.arg) > 1
        d == [c EXCEPT !.st = IF more THEN "count" ELSE "done",
                       !.arg = IF more THEN Tail(c.arg) ELSE c.arg,
                       !.did = @ \union Rows(c), !.copy = {}, !.wrote = TRUE] IN
    /\ c.st = "write" /\ Writes(c)
    /\ calls' = (IF c.op \in {"drop", "dropPack", "rename"} THEN Others(c)
                 ELSE Dirtied(Others(c))) \union {d}
    /\ over' = IF c.dirty
               THEN over \union {r.id : r \in Rows(c)} \union {-p : p \in packs' \ packs}
               ELSE over
    /\ Aged(c) /\ Quiet

-----------------------------------------------------------------------------
(* The end of a copy clears the mark, another copy's too. *)
Ended(c) ==
  IF c.op = "all" THEN all' = FALSE /\ UNCHANGED importing
  ELSE importing' = <<>> /\ UNCHANGED all

(* The answers.  The panel drops the deleted addresses, or merges the new one, *)
(* and asks for the library again; the list of packs adds what was copied.     *)
RefreshedNot(c) == UNCHANGED <<asks, asked>>                     \* mutant
AfterCall(c) == Refresh(IF c.op = "create" THEN c.pack ELSE 0, c.op = "create")
Removed(c) ==
  CASE c.op = "drop" -> {c.arg}
    [] c.op = "dropPack" -> {s.id : s \in {t \in shown.stickers : t.pack = c.pack}}
    [] OTHER -> {}
Answer ==
  \E c \in calls :
    /\ c.st = "done" /\ calls' = Others(c)
    /\ cached' = mergeServerStickers(c.did) \ Removed(c)
    /\ IF c.op \in PanelOps
       THEN AfterCall(c) /\ UNCHANGED <<mine, importing, all>>
       ELSE /\ mine' = mine \union {s.media : s \in c.did}
            /\ Ended(c) /\ UNCHANGED <<asks, asked>>
    /\ UNCHANGED <<server, panel, odd, made, newest, loads>>

(* A call fails, refused or cut, at whatever step it is; what it wrote stays. *)
Fail ==
  \E c \in calls :
    /\ calls' = Others(c)
    /\ busy' = (busy /\ c.op # "create")
    /\ IF c.op \in PanelOps THEN UNCHANGED <<importing, all>> ELSE Ended(c)
    /\ IF c.wrote THEN Stale("cut") ELSE UNCHANGED <<asks, odd>>
    /\ UNCHANGED <<server, shown, sel, cached, mine, made, asked, newest, loads>>

(* The list of packs is opened, with my library of this moment; the addresses *)
(* of stickers in messages are resolved, if they still exist.                 *)
List ==
  /\ mine # MyMedia /\ mine' = MyMedia /\ importing = <<>> /\ ~all
  /\ UNCHANGED <<server, calls, panel, asks, cached, importing, all, odd, made,
                 asked, newest, loads>>
Hydrate ==
  \E s \in stickers :
    /\ s.id \notin cached /\ cached' = mergeServerStickers({s})
    /\ UNCHANGED <<server, calls, panel, asks, mine, importing, all, odd, made,
                   asked, newest, loads>>

Next ==
  \/ Open \/ Served \/ Loaded \/ Choose \/ Upload \/ NewPack \/ RenamePack
  \/ DeletePack \/ DeleteSticker \/ ImportOne \/ ImportPack \/ ImportAll
  \/ Counts \/ Places \/ DefaultPack \/ Copies \/ Write \/ Answer \/ Fail
  \/ List \/ Hydrate

Spec == Init /\ [][Next]_vars

-----------------------------------------------------------------------------
TypeOK ==
  /\ packs \subseteq Nat /\ cached \subseteq Nat /\ busy \in BOOLEAN
  /\ \A s \in stickers : s.pack \in packs /\ s.id \in Nat
  /\ \A c \in calls : c.st \in {"count", "place", "default", "copy", "write", "done"}
  /\ odd \subseteq {"mine", "others", "failed", "late", "cut"}

(* The limits of packs and of stickers are passed only by calls that wrote    *)
(* after another had written since their count, and I have one media twice    *)
(* only so too (service.go:196-223, 342-385, 406-509).                        *)
LimitRaced ==
  /\ Cardinality({p \in packs : -p \notin over}) <= maxPacksPerUser
  /\ Cardinality({s \in stickers : s.id \notin over}) <= maxStickersPerUser
  /\ \A s, t \in stickers : s.media = t.media /\ s.id < t.id => t.id \in over

(* When nothing is under way, the panel shows my library, with the address of *)
(* every sticker of it known, unless the list of packs wrote since, the last  *)
(* load failed or was answered late, or an answer of a call was lost          *)
(* (StickerPanel.tsx:34-55, 93-160; stickers.ts:109-150).                     *)
PanelTrue ==
  calls = {} /\ asks = {} /\ odd \subseteq {"mine"}
    => shown = Library /\ {s.id : s \in stickers} \subseteq cached
=============================================================================
