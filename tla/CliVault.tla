------------------------------- MODULE CliVault -------------------------------
(***************************************************************************)
(* The vault pages of the command line: the loop that shows the page and   *)
(* its dialogs, the page itself, and the contents of folders that it keeps *)
(* for as long as it runs (cli/commands/vault).                            *)
(*                                                                         *)
(* The page keeps its items, its rows and the path in global variables.    *)
(* What takes long runs in goroutines, which set items and rows when they  *)
(* end, while the user goes on. The items are a slice that shares its      *)
(* array with the content of a folder: what a goroutine removes or renames *)
(* there is changed in the items, too, and sorting the items sorts the     *)
(* content.                                                                *)
(*                                                                         *)
(* The user has no other device, and nothing is shared with the user. The  *)
(* names and the times of items are numbers, drawn from one counter. The   *)
(* cursor may be on any row. Downloads and previews, which change nothing  *)
(* here, are left out.                                                     *)
(***************************************************************************)
EXTENDS Integers, Sequences, FiniteSets, SequencesExt

CONSTANTS Folders, Files,  \* ids of folders and of files or entries
          Home,            \* the id of the home folder
          Nowhere,         \* the folder of an empty VaultContext, or of what was deleted
          Nil,             \* the folder of what was not made yet
          InFolder,        \* where the ids are that exist at first
          Strings,         \* for each string, the ids whose name it is in
          Recipients,
          MaxRoutines,     \* bound: goroutines at once
          MaxOrders,       \* bound: things the user has done
          MaxFaults        \* bound: requests that fail

ItemIds == Folders \cup Files
FolderIds == {Home} \cup Folders

\* An item is as the server listed it or as a goroutine made it; only one that was
\* made here has no key.
Item == [id : ItemIds, name : Int, at : Int, sharedWith : Nat, keyed : BOOLEAN]
Rights == [Recipients -> {"none", "read", "write"}]
Kinds == {"folder", "upload", "rename", "edit", "delete"}
Dialogs == [kind : Kinds \cup {"view", "share"}, item : Item \cup {Nil}, users : Rights \cup {Nil}]

ASSUME ItemsAssumption ==
  /\ ItemIds \subseteq Nat /\ IsFiniteSet(ItemIds) /\ IsFiniteSet(Recipients)
  /\ Home \notin ItemIds
  /\ \A i \in DOMAIN InFolder : i \in ItemIds /\ InFolder[i] \in FolderIds
ASSUME NamesAssumption ==
  /\ Nowhere \notin FolderIds /\ Nil \notin FolderIds \cup {Nowhere}
  /\ Nil \notin Item /\ Nil \notin Dialogs
ASSUME OrdersAssumption == {MaxRoutines, MaxOrders, MaxFaults} \subseteq Nat

VARIABLES
  parent, changed,        \* the server's rows: their folders, and when they were last changed
  shares,                 \* what the recipients have of each item, at the server
  isPassVault,
  folderContexts,         \* the folders that were fetched, with
  fetched, content,       \* Folders and Files of each, and its Content
  items, held,            \* the items, and the folder whose array they share
  table,                  \* the rows
  folderViews,            \* the folders on the path
  context,                \* the folder of m.Context
  filter,                 \* filtering, filterStr (given or not), filteredItems; and
                          \* history: the rows are others than these
  dialog,                 \* the dialog that is open
  routines,               \* the goroutines
  clock, faults,          \* history: things done, requests that failed
  odd                     \* history: has anything happened that is out of the ordinary

cliServer == <<parent, changed, shares>>
kept == <<folderContexts, fetched, content>>
cliPage == <<items, held, table, filter>>
path == <<folderViews, context>>
cliHistory == <<clock, faults, odd>>
cliVars == <<cliServer, isPassVault, kept, cliPage, path, dialog, routines, cliHistory>>

IsThere(g) == g = Home \/ (g \in Folders /\ parent[g] \in FolderIds)
Children(g) == {i \in ItemIds : parent[i] = g}

\* A folder and what is in it, at any depth.
Within(i) ==
  {x \in ItemIds : \A s \in SUBSET ItemIds :
     i \in s /\ (\A y \in ItemIds : parent[y] \in s => y \in s) => x \in s}

-----------------------------------------------------------------------------
(* Items and rows.                                                         *)

\* How many an item is shared with.
SharedWith(i) == Cardinality({r \in Recipients : shares[i][r] /= "none"})

\* An item as the server lists it. Its key is unwound with the folder's.
Listed(i) ==
  [id |-> i, name |-> changed[i], at |-> changed[i], sharedWith |-> SharedWith(i), keyed |-> TRUE]

\* x is listed before y: folders come first, and what was changed last.
Before(x, y) ==
  IF (x.id \in Folders) = (y.id \in Folders) THEN x.at > y.at ELSE x.id \in Folders

\* Of two that are alike the one that was first stays first.
Precedes(s, m, n) == Before(s[m], s[n]) \/ (m <= n /\ ~Before(s[n], s[m]))
PlaceOf(s, of, n) == Cardinality({m \in of : Precedes(s, m, n)})

\* The elements of s at some positions, sorted.
SortedPart(s, of) ==
  [k \in 1..Cardinality(of) |-> s[CHOOSE n \in of : PlaceOf(s, of, n) = k]]

Sorted(s) == SortedPart(s, DOMAIN s)

IdsOf(s) == [i \in DOMAIN s |-> s[i].id]

\* FetchFolderContents, and what parseContent makes of it.
Listing(g) == Sorted(SetToSeq({Listed(i) : i \in Children(g)}))

NoFilter == [on |-> FALSE, typed |-> FALSE, found |-> <<>>, off |-> FALSE]
Idle == [at |-> "idle"]

\* Sorting the items sorts the array that they share with a folder's content.
SortedWith(c, s) ==
  IF held = Nil THEN c
  ELSE [c EXCEPT ![held] = [n \in DOMAIN @ |-> IF n \in DOMAIN s THEN s[n] ELSE @[n]]]

\* Mutant: sorts a copy.
CreateItemRows_Copied ==
  table' = IdsOf(Sorted(items)) /\ UNCHANGED <<items, content>>

\* CreateItemRows(items), which sorts them in place.
CreateItemRows ==
  /\ items' = Sorted(items)
  /\ content' = SortedWith(content, Sorted(items))
  /\ table' = IdsOf(Sorted(items))

AtWork == \E t \in DOMAIN routines : routines[t] /= Idle

\* A goroutine stands between its change of the content and its new rows.
Finishing == \E t \in DOMAIN routines : routines[t].at \in {"items", "rows"}

\* Out of the ordinary is what the condition says, and whatever the user or
\* another goroutine does while a goroutine is at its end.
Notes(condition) == odd' = (odd \/ condition \/ Finishing)

-----------------------------------------------------------------------------
(* Folders. The contents of a folder are fetched once.                     *)

\* A folder whose content is empty is parsed again from what was fetched.
NewModel(g) ==
  LET new == IF g \in folderContexts THEN fetched[g] ELSE Listing(g)
      empty == g \in folderContexts /\ content[g] = <<>>
      list == IF g \notin folderContexts \/ empty THEN new ELSE content[g]
  IN /\ g \in folderContexts \/ IsThere(g)
     /\ folderContexts' = folderContexts \cup {g}
     /\ fetched' = [fetched EXCEPT ![g] = new]
     /\ content' = [content EXCEPT ![g] = Sorted(list)]
     /\ items' = Sorted(list) /\ held' = g
     /\ table' = IdsOf(items')
     /\ context' = g /\ filter' = NoFilter
     /\ Notes((empty /\ new /= <<>>) \/ AtWork)

\* The page goes on with the old items and an empty context.
NewModelFails(g) ==
  /\ g \notin folderContexts
  /\ faults < MaxFaults \/ ~ IsThere(g)
  /\ faults' = IF IsThere(g) THEN faults + 1 ELSE faults
  /\ CreateItemRows
  /\ context' = Nowhere /\ filter' = NoFilter
  /\ Notes(TRUE)
  /\ UNCHANGED <<folderContexts, fetched, held>>

\* The program has just been started, and its first request was answered. If that
\* failed, view.go:713 would drop the error and begin with an empty page.
Fresh ==
  /\ folderContexts' = {Home}
  /\ fetched' = [g \in FolderIds |-> IF g = Home THEN Listing(Home) ELSE <<>>]
  /\ content' = fetched'
  /\ items' = Listing(Home) /\ held' = Home
  /\ table' = IdsOf(items')
  /\ folderViews' = <<Home>> /\ context' = Home
  /\ filter' = NoFilter /\ dialog' = Nil
  /\ routines' = [t \in 1..MaxRoutines |-> Idle]
  /\ odd' = FALSE
  /\ UNCHANGED <<cliServer, isPassVault, clock, faults>>

Keys == dialog = Nil /\ ~ filter.on

Working == Cardinality({t \in DOMAIN routines : routines[t] /= Idle})

\* Bound: the user does MaxOrders things.
Willing == clock + Working < MaxOrders

\* The program is left and started again, whatever its goroutines are at.
Start == Keys /\ Willing /\ Fresh

Here == folderViews[Len(folderViews)]

Back ==
  /\ Keys /\ Len(folderViews) > 1
  /\ NewModel(folderViews[Len(folderViews) - 1])
  /\ folderViews' = SubSeq(folderViews, 1, Len(folderViews) - 1)
  /\ UNCHANGED <<cliServer, isPassVault, dialog, routines, clock, faults>>

-----------------------------------------------------------------------------
(* The item under the cursor.                                              *)

\* What a key acts upon: the filtered items, if something was typed.
Selectable == IF filter.typed THEN filter.found ELSE items

\* A key is pressed at a row, of which the table has taken the latest.
Pick(item) ==
  /\ Keys /\ items /= <<>>
  /\ \E c \in DOMAIN table \cap DOMAIN Selectable : item = Selectable[c]

\* There is no such item: an index out of range. Without rows the cursor is at -1.
PickPanics ==
  /\ Keys /\ items /= <<>>
  /\ table = <<>> \/ \E c \in DOMAIN table : c \notin DOMAIN Selectable
  /\ Fresh

EnterFolder(item) ==
  /\ Pick(item) /\ item.id \in Folders
  /\ \/ NewModel(item.id) /\ folderViews' = Append(folderViews, item.id)
        /\ UNCHANGED faults
     \/ NewModelFails(item.id) /\ UNCHANGED folderViews
  /\ UNCHANGED <<cliServer, isPassVault, dialog, routines, clock>>

-----------------------------------------------------------------------------
(* The filter.                                                             *)

\* The keys of the filter change nothing else.
Filtering ==
  UNCHANGED <<cliServer, isPassVault, folderContexts, fetched, held, path, dialog, routines, clock, faults>>

Slash ==
  /\ Keys /\ Willing
  /\ filter' = [filter EXCEPT !.on = TRUE]
  /\ UNCHANGED <<content, items, table, odd>> /\ Filtering

\* The rows of what was found, which is sorted, too.
FilterRows(found) ==
  /\ filter' = [NoFilter EXCEPT !.on = TRUE, !.typed = TRUE, !.found = found]
  /\ table' = IdsOf(found)

\* A character is typed or taken back, and the string is this one now.
Type(s) ==
  /\ filter.on
  /\ FilterRows(SortedPart(items, {n \in DOMAIN items : items[n].id \in s}))
  /\ UNCHANGED <<content, items, odd>> /\ Filtering

\* The last character is taken back; or there was none.
Erase ==
  /\ filter.on
  /\ IF filter.typed
     THEN filter' = [NoFilter EXCEPT !.on = TRUE] /\ table' = IdsOf(Sorted(items))
     ELSE filter' = [filter EXCEPT !.on = FALSE] /\ UNCHANGED table
  /\ UNCHANGED <<content, items, odd>> /\ Filtering

KeepFilter ==
  /\ filter.on /\ filter' = [filter EXCEPT !.on = FALSE]
  /\ UNCHANGED <<content, items, table, odd>> /\ Filtering

\* All rows are shown again, but filterStr stays as it is.
LeaveFilter ==
  /\ filter.on
  /\ filter' = [filter EXCEPT !.on = FALSE, !.off = filter.typed]
  /\ CreateItemRows
  /\ Notes(FALSE) /\ Filtering

-----------------------------------------------------------------------------
(* Dialogs. While one is open the page is not; goroutines go on.           *)

Dialog(kind, item) == [kind |-> kind, item |-> item, users |-> Nil]

\* A goroutine works at an item.
About(t, i) == t /= Idle /\ t.item /= Nil /\ t.item.id = i

\* The page ends with a ViewRequest.
Open(d, condition) ==
  /\ Willing
  /\ dialog' = d
  /\ Notes(condition \/ (d.item /= Nil /\ \/ filter.off
                                           \/ \E t \in DOMAIN routines : About(routines[t], d.item.id)))
  /\ UNCHANGED <<cliServer, isPassVault, kept, cliPage, path, routines, clock>>

NewItem(kind) ==
  /\ Keys /\ kind \in {"folder", "upload"}
  /\ Open(Dialog(kind, Nil), FALSE)
  /\ UNCHANGED faults

\* The keys r and x at an item; or Enter at one that is not a folder.
NewItemRequest(item, kind) ==
  /\ Pick(item)
  /\ \/ kind \in {"rename", "delete"}
     \/ kind = (IF isPassVault THEN "edit" ELSE "view") /\ item.id \in Files
  /\ Open(Dialog(kind, item), FALSE)
  /\ UNCHANGED faults

Nobody == [r \in Recipients |-> "none"]

\* The shares of the item are fetched, or this fails, which is ignored.
NewShareRequest(item) ==
  /\ Pick(item)
  /\ \/ /\ Open([Dialog("share", item) EXCEPT !.users = shares[item.id]], FALSE)
        /\ UNCHANGED faults
     \/ /\ faults < MaxFaults /\ faults' = faults + 1
        /\ Open([Dialog("share", item) EXCEPT !.users = Nobody], TRUE)

\* The form of an entry that is changed counts as confirmed however it ends.
Cancelable == dialog.kind \notin {"edit", "share"}

Cancel ==
  /\ dialog /= Nil /\ Cancelable
  /\ dialog' = Nil
  /\ UNCHANGED <<cliServer, isPassVault, kept, cliPage, path, routines, cliHistory>>

\* The first Update of the page that is run again handles the event.
Event ==
  /\ dialog' = Nil
  /\ filter' = NoFilter
  /\ CreateItemRows
  /\ Notes(FALSE)
  /\ UNCHANGED <<cliServer, isPassVault, folderContexts, fetched, held, path, clock, faults>>

ReturnFromView ==
  /\ dialog /= Nil /\ dialog.kind = "view"
  /\ Event /\ UNCHANGED routines

Confirm(t) ==
  /\ dialog /= Nil /\ dialog.kind \notin {"view", "share"}
  /\ context /= Nowhere \/ dialog.kind = "delete"
  /\ routines[t] = Idle
  /\ Event
  /\ routines' = [routines EXCEPT ![t] =
       [at |-> "call", kind |-> dialog.kind, item |-> dialog.item, context |-> context]]

\* An empty context has no functions to encrypt and decrypt with.
DialogPanics ==
  /\ dialog /= Nil /\ dialog.kind /= "delete" /\ context = Nowhere
  /\ Fresh

-----------------------------------------------------------------------------
(* Goroutines: a request, a change of the content, items, rows.            *)

Now == clock + 1
Stamp(i) == changed' = [changed EXCEPT ![i] = Now]

\* What the server does of a request, to item i.
Makes(t, i) ==
  /\ t.kind \in {"folder", "upload"}
  /\ i \in IF t.kind = "folder" THEN Folders ELSE Files
  /\ parent[i] = Nil /\ IsThere(t.context)
  /\ parent' = [parent EXCEPT ![i] = t.context]
  /\ Stamp(i) /\ UNCHANGED shares

Removes(t, i) ==
  /\ t.kind = "delete" /\ i = t.item.id /\ parent[i] \in FolderIds
  /\ parent' = [x \in ItemIds |-> IF x \in Within(i) THEN Nowhere ELSE parent[x]]
  /\ UNCHANGED <<changed, shares>>

\* The key of an item that has none cannot be decrypted.
Renames(t, i) ==
  /\ t.kind \in {"rename", "edit"} /\ i = t.item.id
  /\ t.item.keyed /\ parent[i] \in FolderIds
  /\ Stamp(i) /\ UNCHANGED <<parent, shares>>

Serve(t, i) == Makes(t, i) \/ Removes(t, i) \/ Renames(t, i)

\* What cannot be served.
Hopeless(t) ==
  IF t.kind \in {"folder", "upload"} THEN ~ IsThere(t.context)
  ELSE parent[t.item.id] \notin FolderIds \/ (t.kind \in {"rename", "edit"} /\ ~ t.item.keyed)

\* The item that the content gets: a new folder has no key in it, an entry that
\* was changed its time of before.
Became(t, i) ==
  CASE t.kind \in {"folder", "upload"} ->
         [id |-> i, name |-> Now, at |-> Now, sharedWith |-> 0, keyed |-> t.kind = "upload"]
    [] t.kind = "rename" -> [t.item EXCEPT !.name = Now, !.at = Now]
    [] t.kind = "edit"   -> [t.item EXCEPT !.name = Now]
    [] t.kind = "delete" -> t.item

PageStays == UNCHANGED <<isPassVault, folderContexts, fetched, path, dialog>>

Answered(t) ==
  /\ routines[t].at = "call"
  /\ \E i \in ItemIds :
       /\ Serve(routines[t], i)
       /\ routines' = [routines EXCEPT ![t] = [@ EXCEPT !.at = "apply", !.item = Became(routines[t], i)]]
  /\ clock' = Now
  /\ PageStays /\ UNCHANGED <<content, cliPage, faults, odd>>

\* The request was served, but its answer is lost; or part of it was served.
Unconfirmed(t) ==
  /\ routines[t].at = "call"
  /\ faults < MaxFaults /\ faults' = faults + 1
  /\ \E i \in ItemIds : Serve(routines[t], i)
  /\ routines' = [routines EXCEPT ![t] = Idle]
  /\ clock' = Now /\ odd' = TRUE
  /\ PageStays /\ UNCHANGED <<content, cliPage>>

Refused(t) ==
  /\ routines[t].at = "call"
  /\ \/ faults < MaxFaults /\ faults' = faults + 1
     \/ Hopeless(routines[t]) /\ UNCHANGED faults
  /\ routines' = [routines EXCEPT ![t] = Idle]
  /\ PageStays /\ UNCHANGED <<cliServer, content, cliPage, clock, odd>>

\* Where an item is in a content.
Position(c, i) == {n \in DOMAIN c : c[n].id = i}

\* Element n of the array of folder g becomes x, in the items, too, if they share it.
Writes(g, n, x) ==
  items' = IF held = g /\ n \in DOMAIN items THEN [items EXCEPT ![n] = x] ELSE items

\* An array that is full is copied, and the items keep the old one.
InsertItem(g, x) ==
  /\ content' = [content EXCEPT ![g] = Append(@, x)]
  /\ Writes(g, Len(content[g]) + 1, x)
  /\ \/ held' = held
     \/ held = g /\ Len(items) <= Len(content[g]) /\ held' = Nil

\* Mutant: the content is cut, and nothing takes the place of the item.
removeItem_Cut(g, i) ==
  /\ content' = [content EXCEPT ![g] = IF Position(@, i) = {} THEN @ ELSE Front(@)]
  /\ UNCHANGED items

\* The last item takes the place of the one removed.
removeItem(g, i) ==
  LET c == content[g]
  IN \/ Position(c, i) = {} /\ UNCHANGED <<content, items>>
     \/ \E n \in Position(c, i) :
          /\ content' = [content EXCEPT ![g] = Front([c EXCEPT ![n] = Last(c)])]
          /\ Writes(g, n, Last(c))

\* renameItem sets the name and the time, updateItem the whole item.
updateItem(g, x, whole) ==
  LET c == content[g]
  IN \/ Position(c, x.id) = {} /\ UNCHANGED <<content, items>>
     \/ \E n \in Position(c, x.id) :
          LET new == IF whole THEN x ELSE [c[n] EXCEPT !.name = x.name, !.at = x.at]
          IN content' = [content EXCEPT ![g][n] = new] /\ Writes(g, n, new)

Apply(t) ==
  /\ routines[t].at = "apply"
  /\ LET g == routines[t].context
         x == routines[t].item
     IN \/ routines[t].kind \in {"folder", "upload"} /\ InsertItem(g, x)
        \/ /\ g /= Nowhere /\ UNCHANGED held
           /\ \/ routines[t].kind = "delete" /\ removeItem(g, x.id)
              \/ routines[t].kind \in {"rename", "edit"} /\ updateItem(g, x, routines[t].kind = "edit")
        \/ g = Nowhere /\ UNCHANGED <<content, items, held>>
  /\ routines' = [routines EXCEPT ![t].at = "items"]
  /\ Notes(FALSE)
  /\ PageStays /\ UNCHANGED <<cliServer, table, filter, clock, faults>>

\* finishUpdates, wherever the user is by now.
SetItems(t) ==
  /\ routines[t].at = "items"
  /\ LET g == routines[t].context
     IN IF g = Nowhere THEN items' = <<>> /\ held' = Nil
        ELSE items' = content[g] /\ held' = g
  /\ routines' = [routines EXCEPT ![t].at = "rows"]
  /\ PageStays /\ UNCHANGED <<cliServer, content, table, filter, clock, faults, odd>>

SetRows(t) ==
  /\ routines[t].at = "rows"
  /\ CreateItemRows
  /\ filter' = [filter EXCEPT !.off = @ \/ filter.typed]
  /\ routines' = [routines EXCEPT ![t] = Idle]
  /\ PageStays /\ UNCHANGED <<cliServer, held, clock, faults, odd>>

-----------------------------------------------------------------------------
(* The dialog of an item's shares.                                         *)

Sharing == dialog /= Nil /\ dialog.kind = "share"

\* The dialog is run again with the users it knows of, which it fetches if
\* there are none.
Again(users, known) == IF users = Nobody THEN known ELSE users

\* One request for each recipient in rs; the users follow them. If one fails the
\* others are not made.
Requests(rs, new) ==
  /\ Sharing /\ Willing
  /\ parent[dialog.item.id] \in FolderIds
  /\ \E done \in SUBSET rs :
       /\ shares' = [shares EXCEPT ![dialog.item.id] =
            [r \in Recipients |-> IF r \in done THEN new[r] ELSE @[r]]]
       /\ dialog' = [dialog EXCEPT !.users =
            Again([r \in Recipients |-> IF r \in done THEN new[r] ELSE @[r]], shares'[dialog.item.id])]
       /\ \/ done = rs /\ UNCHANGED faults
          \/ done /= rs /\ faults < MaxFaults /\ faults' = faults + 1
  /\ clock' = Now
  /\ UNCHANGED <<parent, changed, isPassVault, kept, cliPage, path, routines, odd>>

Shared == {r \in Recipients : dialog.users[r] /= "none"}

\* The key of the item is decrypted first.
shareItem(r, right) ==
  /\ dialog.item.keyed
  /\ shares[dialog.item.id][r] = "none"
  /\ Requests({r}, [x \in Recipients |-> right])

Add(r, right) == Sharing /\ context /= Nowhere /\ shareItem(r, right)

\* The permissions are sent, whether the form was confirmed or cancelled.
Edit(new) == Sharing /\ Shared /= {} /\ Requests(Shared, new)

Unshare(rs) == Sharing /\ rs /= {} /\ rs \subseteq Shared /\ Requests(rs, Nobody)

\* The event takes the item as it was when the dialog was opened to the content.
ReturnFromShares ==
  /\ Sharing
  /\ dialog' = Nil /\ filter' = NoFilter
  /\ LET x == [dialog.item EXCEPT !.sharedWith = Cardinality(Shared)]
         sorted == SortedWith(content, Sorted(items))
         g == context
     IN IF g = Nowhere
        THEN content' = sorted /\ items' = <<>> /\ held' = Nil
        ELSE LET new == [n \in DOMAIN sorted[g] |-> IF sorted[g][n].id = x.id THEN x ELSE sorted[g][n]]
             IN /\ content' = [sorted EXCEPT ![g] = Sorted(new)]
                /\ items' = Sorted(new) /\ held' = g
  /\ table' = IdsOf(items')
  /\ Notes(FALSE)
  /\ UNCHANGED <<cliServer, isPassVault, folderContexts, fetched, path, routines, clock, faults>>

-----------------------------------------------------------------------------
CliInit ==
  /\ parent = [i \in ItemIds |-> IF i \in DOMAIN InFolder THEN InFolder[i] ELSE Nil]
  /\ changed = [i \in ItemIds |-> -i]
  /\ shares = [i \in ItemIds |-> Nobody]
  /\ isPassVault \in BOOLEAN
  /\ folderContexts = {Home}
  /\ fetched = [g \in FolderIds |-> IF g = Home THEN Listing(Home) ELSE <<>>]
  /\ content = fetched
  /\ items = Listing(Home) /\ held = Home
  /\ table = IdsOf(items)
  /\ folderViews = <<Home>> /\ context = Home
  /\ filter = NoFilter /\ dialog = Nil
  /\ routines = [t \in 1..MaxRoutines |-> Idle]
  /\ clock = 0 /\ faults = 0 /\ odd = FALSE

Key ==
  \/ Start \/ PickPanics \/ Back \/ Slash \/ Erase \/ KeepFilter \/ LeaveFilter
  \/ \E s \in Strings : Type(s)
  \/ \E item \in ToSet(Selectable) :
       \/ EnterFolder(item) \/ NewShareRequest(item)
       \/ \E kind \in {"rename", "delete", "edit", "view"} : NewItemRequest(item, kind)
  \/ \E kind \in {"folder", "upload"} : NewItem(kind)

InDialog ==
  \/ Cancel \/ DialogPanics \/ ReturnFromView \/ ReturnFromShares
  \/ \E t \in DOMAIN routines : Confirm(t)
  \/ \E r \in Recipients, right \in {"read", "write"} : Add(r, right)
  \/ \E new \in [Recipients -> {"read", "write"}] : Edit(new)
  \/ \E rs \in SUBSET Recipients : Unshare(rs)

Goroutine(t) ==
  \/ Answered(t) \/ Unconfirmed(t) \/ Refused(t)
  \/ Apply(t) \/ SetItems(t) \/ SetRows(t)

CliNext == Key \/ InDialog \/ \E t \in DOMAIN routines : Goroutine(t)

CliSpec == CliInit /\ [][CliNext]_cliVars

-----------------------------------------------------------------------------
(* Properties.                                                             *)

\* Types. The items are in nobody's array after it was copied.
CliTypeOK ==
  /\ parent \in [ItemIds -> FolderIds \cup {Nil, Nowhere}] /\ changed \in [ItemIds -> Int]
  /\ shares \in [ItemIds -> Rights]
  /\ isPassVault \in BOOLEAN /\ odd \in BOOLEAN
  /\ folderContexts \subseteq FolderIds
  /\ fetched \in [FolderIds -> Seq(Item)] /\ content \in [FolderIds -> Seq(Item)]
  /\ items \in Seq(Item) /\ held \in folderContexts \cup {Nil}
  /\ table \in Seq(ItemIds)
  /\ folderViews \in Seq(folderContexts) /\ Len(folderViews) > 0
  /\ context \in folderContexts \cup {Nowhere}
  /\ filter \in [on : BOOLEAN, typed : BOOLEAN, found : Seq(Item), off : BOOLEAN]
  /\ dialog \in {Nil} \cup Dialogs
  /\ \A t \in 1..MaxRoutines : routines[t] = Idle \/ routines[t] \in
       [at : {"call", "apply", "items", "rows"}, kind : Kinds, item : Item \cup {Nil},
        context : folderContexts \cup {Nowhere}]
  /\ clock \in 0..MaxOrders /\ faults \in 0..MaxFaults

\* A key acts upon the item whose row the cursor is on: what Update takes from
\* the items or the filtered items, by the number of the row, is the item that the
\* row was made of. Rows and items are set apart, by the keys of the filter and by
\* goroutines that sort them in place. The exceptions are a filter that was left
\* with Esc, or under which a goroutine ended: all rows are shown then, and keys
\* still act upon what was found.
ActsOnWhatIsShown ==
  Keys /\ ~ Finishing /\ ~ filter.off => table = IdsOf(Selectable)

\* Without anything out of the ordinary, and nothing under way, the page shows the
\* folder that the path names, and what is kept of it and of every other folder is
\* what the server has there: the same items, with their names and with how many
\* they are shared with, although no folder is fetched a second time. Out of the
\* ordinary are: a goroutine whose folder the user has left, or during whose end
\* something happens; an item that was picked while a goroutine changed it, or from a
\* filter that was left; a folder that could not be fetched; one that has lost all its
\* items, of which those that it began with come back; and lost answers.
PageIsTrue ==
  ~ odd /\ dialog = Nil /\ ~ AtWork =>
    /\ context = Here /\ items = content[Here]
    /\ \A g \in folderContexts : IsThere(g) =>
         LET c == content[g]
         IN /\ {c[n].id : n \in DOMAIN c} = Children(g) /\ Len(c) = Cardinality(Children(g))
            /\ \A n \in DOMAIN c : c[n].name = changed[c[n].id] /\ c[n].sharedWith = SharedWith(c[n].id)
=============================================================================
