--------------------------- MODULE VaultPagesProofs ---------------------------
(***************************************************************************)
(* Proofs about the two pages on which a user sees a vault.                *)
(*                                                                         *)
(* WebVault, for any number of ids, of things the user does and of files   *)
(* in a selection: the files of a selection go together; what the page     *)
(* puts into a folder opens with the key of that folder; and the page's    *)
(* copies of folders are what the server has.                              *)
(*                                                                         *)
(* CliVault, for any items and any number of recipients, goroutines,       *)
(* orders and faults: types; a key acts upon the item whose row the cursor *)
(* is on; and the page shows what the server has.                          *)
(***************************************************************************)
EXTENDS WebVault, CliVault, FiniteSetTheorems, SequenceTheorems, TLAPS

Moving == {"upload", "download", "delete"}

Fields == {"kind", "at", "folder", "of", "ids", "row", "key", "left", "broken"}

\* A record of a task.
Shape(t) == DOMAIN t = Fields

\* An upload keeps paused set, so that the page stays in the folder that the
\* selection was made in, if nothing else runs that would set it back and no
\* chunk of it fails.
Held(i) ==
  tasks[i].kind = "upload" /\ ~tasks[i].broken => paused /\ tasks[i].folder = folderID

\* The file whose chunks are being sent has been put there.
PutThere(i) ==
  At(i, "upload", "chunks") =>
    /\ tasks[i].row \in 1..last
    /\ ~tasks[i].broken /\ tasks[i].row \in DOMAIN where
         => where[tasks[i].row] = tasks[i].folder

TogetherInv ==
  /\ last \in Nat
  /\ \E S : tasks \in Seq(S)
  /\ \A i \in DOMAIN tasks : Shape(tasks[i])
  /\ ~crowded =>
       /\ \A i, j \in DOMAIN tasks :
            tasks[i].kind \in Moving /\ tasks[j].kind \in Moving => i = j
       /\ \A i \in DOMAIN tasks : Held(i) /\ PutThere(i)

-----------------------------------------------------------------------------
(* Records of tasks, and the sequence of them.                             *)

LEMMA NewTasks ==
  ASSUME NEW k, NEW a
  PROVE  /\ Shape(Task(k, a)) /\ Task(k, a).kind = k /\ Task(k, a).at = a
BY DEF Shape, Task, Fields

LEMMA WithOne ==
  ASSUME NEW S, tasks \in Seq(S), NEW t, NEW i \in 1..Len(tasks) + 1
  PROVE  /\ With(i, t) \in Seq(S \cup {t})
         /\ DOMAIN With(i, t) = DOMAIN tasks \cup {i}
         /\ With(i, t)[i] = t
         /\ \A j \in DOMAIN tasks \ {i} : With(i, t)[j] = tasks[j]
<1> DEFINE T == S \cup {t}
<1>1. tasks \in Seq(T) /\ t \in T /\ Len(tasks) \in Nat /\ DOMAIN tasks = 1..Len(tasks)
  OBVIOUS
<1>2. CASE i \in DOMAIN tasks
  BY <1>1, <1>2 DEF With
<1>3. CASE i \notin DOMAIN tasks
  <2>1. i = Len(tasks) + 1
    BY <1>1, <1>3
  <2>2. /\ Append(tasks, t) \in Seq(T) /\ Len(Append(tasks, t)) = Len(tasks) + 1
        /\ \A j \in 1..Len(tasks) : Append(tasks, t)[j] = tasks[j]
        /\ Append(tasks, t)[Len(tasks) + 1] = t
    BY <1>1, AppendProperties
  <2>3. DOMAIN Append(tasks, t) = 1..Len(tasks) + 1
    BY <2>2
  <2> QED BY <1>1, <1>3, <2>1, <2>2, <2>3 DEF With
<1> QED BY <1>2, <1>3

-----------------------------------------------------------------------------
(* The three ways in which a step disturbs the invariant.                  *)

\* What the server keeps of the ids that there were.
KeepsPlaces ==
  /\ last' \in Nat /\ last <= last'
  /\ \A id \in 1..last : id \in DOMAIN where' => id \in DOMAIN where /\ where'[id] = where[id]

\* An upload that goes on is the one it was, and paused stays set unless a
\* chunk has failed.
Continues(i, t) ==
  t.kind = "upload" =>
    /\ tasks[i].kind = "upload"
    /\ t.at = "chunks" => t.row \in 1..last'
    /\ ~t.broken =>
         /\ ~tasks[i].broken /\ t.folder = tasks[i].folder /\ paused'
         /\ t.at = "chunks" /\ t.row \in DOMAIN where' => where'[t.row] = t.folder

\* Task i goes on as t, or ends.
LEMMA OneContinues ==
  ASSUME TogetherInv, KeepsPlaces, NEW i \in DOMAIN tasks, NEW t,
         tasks' = With(i, t), Shape(t), UNCHANGED <<folderID, crowded>>,
         t.kind \in Moving => tasks[i].kind \in Moving,
         paused' = paused \/ tasks[i].kind \in Moving,
         ~crowded => Continues(i, t)
  PROVE  TogetherInv'
<1>1. PICK S : tasks \in Seq(S)
  BY DEF TogetherInv
<1>2. i \in 1..Len(tasks) + 1 /\ DOMAIN tasks \cup {i} = DOMAIN tasks
  <2>1. DOMAIN tasks = 1..Len(tasks) /\ Len(tasks) \in Nat
    BY <1>1
  <2> QED BY <2>1
<1>3. /\ tasks' \in Seq(S \cup {t}) /\ DOMAIN tasks' = DOMAIN tasks /\ tasks'[i] = t
      /\ \A j \in DOMAIN tasks \ {i} : tasks'[j] = tasks[j]
  <2>1. /\ With(i, t) \in Seq(S \cup {t}) /\ DOMAIN With(i, t) = DOMAIN tasks \cup {i}
        /\ With(i, t)[i] = t /\ \A j \in DOMAIN tasks \ {i} : With(i, t)[j] = tasks[j]
    BY <1>1, <1>2, WithOne
  <2> QED BY <1>2, <2>1
<1>4. \A j \in DOMAIN tasks' : Shape(tasks'[j])
  BY <1>3 DEF TogetherInv
<1>5. ASSUME ~crowded, NEW j \in DOMAIN tasks', NEW k \in DOMAIN tasks',
             tasks'[j].kind \in Moving, tasks'[k].kind \in Moving
      PROVE  j = k
  BY <1>3, <1>5 DEF TogetherInv
<1>6. ASSUME ~crowded, NEW j \in DOMAIN tasks'
      PROVE  Held(j)' /\ PutThere(j)'
  <2>1. CASE j = i
    <3>1. tasks'[j] = t /\ Held(i)
      BY <1>3, <1>6, <2>1 DEF TogetherInv
    <3>2. Held(j)'
      BY <1>6, <3>1 DEF Held, Continues
    <3>3. PutThere(j)'
      BY <1>6, <3>1 DEF PutThere, At, Continues
    <3> QED BY <3>2, <3>3
  <2>2. CASE j /= i
    <3>1. tasks'[j] = tasks[j] /\ j \in DOMAIN tasks /\ Held(j) /\ PutThere(j)
      BY <1>3, <1>6, <2>2 DEF TogetherInv
    <3>2. tasks[j].kind = "upload" => paused' = paused
      BY <1>3, <1>6, <2>2 DEF TogetherInv, Moving
    <3>3. Held(j)'
      BY <3>1, <3>2 DEF Held
    <3>4. 1..last \subseteq 1..last'
      BY DEF KeepsPlaces, TogetherInv
    <3>5. PutThere(j)'
      BY <3>1, <3>4 DEF PutThere, At, KeepsPlaces
    <3> QED BY <3>3, <3>5
  <2> QED BY <2>1, <2>2
<1>7. \E T : tasks' \in Seq(T)
  BY <1>3
<1> QED BY <1>4, <1>5, <1>6, <1>7 DEF TogetherInv, KeepsPlaces

\* A task begins. It counts as moving something, or the page may go elsewhere
\* if nothing keeps it from that.
LEMMA OneBegins ==
  ASSUME TogetherInv, UNCHANGED <<last, where>>, NEW t,
         tasks' = With(Len(tasks) + 1, t), Shape(t), t.at /= "chunks",
         ~crowded' => ~crowded /\ (t.kind \in Moving => ~Running(Moving)),
         t.kind = "upload" => paused' /\ t.folder = folderID /\ folderID' = folderID,
         t.kind \notin Moving => paused' = paused /\ (folderID' = folderID \/ ~paused)
  PROVE  TogetherInv'
<1>1. PICK S : tasks \in Seq(S)
  BY DEF TogetherInv
<1> DEFINE n == Len(tasks) + 1
<1>2. n \in 1..Len(tasks) + 1 /\ n \notin DOMAIN tasks
  BY <1>1
<1>3. /\ tasks' \in Seq(S \cup {t}) /\ DOMAIN tasks' = DOMAIN tasks \cup {n} /\ tasks'[n] = t
      /\ \A j \in DOMAIN tasks : tasks'[j] = tasks[j]
  <2>1. /\ With(n, t) \in Seq(S \cup {t}) /\ DOMAIN With(n, t) = DOMAIN tasks \cup {n}
        /\ With(n, t)[n] = t /\ \A j \in DOMAIN tasks \ {n} : With(n, t)[j] = tasks[j]
    BY <1>1, <1>2, WithOne
  <2>2. tasks' = With(n, t)
    OBVIOUS
  <2> HIDE DEF n
  <2> QED BY <1>2, <2>1, <2>2
<1> HIDE DEF n
<1>4. \A j \in DOMAIN tasks' : Shape(tasks'[j])
  BY <1>3 DEF TogetherInv
<1>5. ~crowded' => ~crowded
  OBVIOUS
<1>6. ASSUME ~crowded', t.kind \in Moving, NEW j \in DOMAIN tasks
      PROVE  tasks[j].kind \notin Moving
  BY <1>6 DEF Running
<1>7. ASSUME ~crowded', NEW j \in DOMAIN tasks', NEW k \in DOMAIN tasks',
             tasks'[j].kind \in Moving, tasks'[k].kind \in Moving
      PROVE  j = k
  BY <1>3, <1>5, <1>6, <1>7 DEF TogetherInv
<1>8. ASSUME ~crowded', NEW j \in DOMAIN tasks'
      PROVE  Held(j)' /\ PutThere(j)'
  <2>1. CASE j = n
    BY <1>3, <2>1 DEF Held, PutThere, At, Moving
  <2>2. CASE j /= n
    <3>1. tasks'[j] = tasks[j] /\ j \in DOMAIN tasks /\ Held(j) /\ PutThere(j)
      BY <1>3, <1>5, <1>8, <2>2 DEF TogetherInv
    <3>2. CASE tasks[j].kind = "upload"
      <4>1. t.kind \notin Moving
        BY <1>6, <1>8, <3>1, <3>2 DEF Moving
      <4> QED BY <3>1, <3>2, <4>1 DEF Held, PutThere, At
    <3>3. CASE tasks[j].kind /= "upload"
      BY <3>1, <3>3 DEF Held, PutThere, At
    <3> QED BY <3>2, <3>3
  <2> QED BY <2>1, <2>2
<1>9. \E T : tasks' \in Seq(T)
  BY <1>3
<1> QED BY <1>4, <1>7, <1>8, <1>9 DEF TogetherInv

LEMMA TogetherInit == Init => TogetherInv
<1> SUFFICES ASSUME Init PROVE TogetherInv
  OBVIOUS
<1> DEFINE t == [Task("load", "fetch") EXCEPT !.folder = folderID]
<1>0. Shape(Task("load", "fetch")) /\ Task("load", "fetch").kind = "load"
  BY NewTasks
<1>1. Shape(t) /\ t.kind = "load"
  BY <1>0, Zenon DEF Shape, Fields
<1> HIDE DEF t
<1>2. tasks = <<t>> /\ last = 2
  BY DEF Init, t
<1>3. tasks \in Seq({t}) /\ DOMAIN tasks = {1} /\ tasks[1] = t
  BY <1>2
<1>4. \E S : tasks \in Seq(S)
  BY <1>3
<1> QED BY <1>1, <1>2, <1>3, <1>4 DEF TogetherInv, Held, PutThere, At

-----------------------------------------------------------------------------
(* The steps. What a task becomes is named first, with all that matters of *)
(* it, and then one of the lemmas above is used.                           *)

LEMMA ShapeOf ==
  ASSUME TogetherInv, NEW i \in DOMAIN tasks
  PROVE  Shape(tasks[i])
BY DEF TogetherInv

LEMMA DoneTask == Shape(Done) /\ Done.kind = "done"
BY NewTasks DEF Done

LEMMA KeptPlaces ==
  ASSUME TogetherInv, UNCHANGED <<last, where>>
  PROVE  KeepsPlaces
BY DEF TogetherInv, KeepsPlaces

LEMMA MadePlaces ==
  ASSUME TogetherInv, NEW i, NEW t, NEW f, NEW k, Made(i, t, f, k)
  PROVE  /\ KeepsPlaces /\ tasks' = With(i, t)
         /\ last + 1 \in 1..last' /\ where'[last + 1] = f
<1>1. last \in Nat /\ last' = last + 1 /\ tasks' = With(i, t)
  BY DEF TogetherInv, Made
<1>2. where' = [id \in DOMAIN where \cup {last + 1} |->
                  IF id = last + 1 THEN f ELSE where[id]]
  BY DEF Made
<1>3. last + 1 \in 1..last' /\ where'[last + 1] = f
  BY <1>1, <1>2
<1>4. KeepsPlaces
  BY <1>1, <1>2 DEF KeepsPlaces
<1> QED BY <1>1, <1>3, <1>4

\* A task that moves nothing goes on, or any task ends.
LEMMA QuietStep ==
  ASSUME TogetherInv, KeepsPlaces, NEW i \in DOMAIN tasks, NEW t,
         tasks' = With(i, t), Shape(t), UNCHANGED <<folderID, crowded>>,
         t.kind \notin Moving, paused' = paused \/ tasks[i].kind \in Moving
  PROVE  TogetherInv'
BY OneContinues DEF Moving, Continues

\* loadFolderData and what it calls leave a task that loads, or that is done.
LEMMA RowsFollow ==
  ASSUME NEW i, NEW t, Shape(t), t.kind = "load", NEW ids, NEW key, NextRow(i, t, ids, key)
  PROVE  \E u : tasks' = With(i, u) /\ Shape(u) /\ u.kind \in {"load", "done"}
               /\ u.at \in {"rows", "done"}
<1>1. CASE tasks' = With(i, Done)
  BY <1>1, DoneTask, NewTasks DEF Done
<1>2. CASE \E id : tasks' = With(i, [t EXCEPT !.at = "rows", !.ids = ids \ {id},
                                             !.row = id, !.key = key])
  <2>1. PICK id : tasks' = With(i, [t EXCEPT !.at = "rows", !.ids = ids \ {id},
                                            !.row = id, !.key = key])
    BY <1>2
  <2> DEFINE u == [t EXCEPT !.at = "rows", !.ids = ids \ {id}, !.row = id, !.key = key]
  <2>2. Shape(u) /\ u.kind = "load" /\ u.at = "rows"
    BY Zenon DEF Shape, Fields
  <2> HIDE DEF u
  <2>3. tasks' = With(i, u)
    BY <2>1 DEF u
  <2> QED BY <2>2, <2>3
<1> QED BY <1>1, <1>2 DEF NextRow

LEMMA DataFollows ==
  ASSUME NEW i, NEW t, Shape(t), t.kind = "load", loadFolderData(i, t)
  PROVE  \E u : tasks' = With(i, u) /\ Shape(u) /\ u.kind \in {"load", "done"}
               /\ u.at \in {"rows", "keys", "done"}
<1>1. CASE t.of = Root
  BY <1>1, RowsFollow DEF loadFolderData, loadVault
<1>2. CASE t.of /= Root
  <2> DEFINE u == [t EXCEPT !.at = "keys"]
  <2>1. Shape(u) /\ u.kind = "load" /\ u.at = "keys"
    BY Zenon DEF Shape, Fields
  <2>2. tasks' = With(i, u)
    BY <1>2 DEF loadFolderData
  <2> HIDE DEF u
  <2> QED BY <2>1, <2>2
<1> QED BY <1>1, <1>2

LEMMA LoadTogether ==
  ASSUME TogetherInv, NEW f, loadFolder(f)
  PROVE  TogetherInv'
<1> DEFINE load == [Task("load", "fetch") EXCEPT !.folder = f]
           n == Len(tasks) + 1
<1>1. UNCHANGED <<last, where, crowded, paused>> /\ ~paused
  BY DEF loadFolder, server
<1>2. Shape(load) /\ load.kind = "load" /\ load.at = "fetch"
  <2>1. /\ Shape(Task("load", "fetch")) /\ Task("load", "fetch").kind = "load"
        /\ Task("load", "fetch").at = "fetch"
    BY NewTasks
  <2> QED BY <2>1, Zenon DEF Shape, Fields
<1>3. \E u : tasks' = With(n, u) /\ Shape(u) /\ u.kind \in {"load", "done"} /\ u.at /= "chunks"
  <2>1. CASE ~Cached(f)
    <3>1. tasks' = With(n, load)
      BY <2>1 DEF loadFolder
    <3> HIDE DEF load
    <3> QED BY <1>2, <3>1
  <2>2. CASE Cached(f)
    <3> DEFINE t == [load EXCEPT !.of = cache[f].of, !.ids = cache[f].ids]
    <3>1. loadFolderData(n, t)
      BY <2>2 DEF loadFolder
    <3> HIDE DEF load
    <3>2. Shape(t) /\ t.kind = "load"
      BY <1>2, Zenon DEF Shape, Fields
    <3> HIDE DEF t
    <3> QED BY <3>1, <3>2, DataFollows
  <2> QED BY <2>1, <2>2
<1>4. PICK u : tasks' = With(n, u) /\ Shape(u) /\ u.kind \in {"load", "done"} /\ u.at /= "chunks"
  BY <1>3
<1> QED BY <1>1, <1>4, OneBegins DEF Moving

LEMMA LoadingTogether ==
  ASSUME TogetherInv, NEW i \in DOMAIN tasks,
         FetchServed(i) \/ FetchAnswered(i) \/ KeysUnwound(i) \/ RowDecrypted(i)
  PROVE  TogetherInv'
<1> DEFINE t == tasks[i]
<1>1. UNCHANGED <<last, where, folderID, crowded, paused>>
  BY DEF FetchServed, FetchAnswered, KeysUnwound, RowDecrypted, server, page, history
<1>2. Shape(t) /\ t.kind = "load"
  BY ShapeOf DEF FetchServed, FetchAnswered, KeysUnwound, RowDecrypted, At
<1>3. \E u : tasks' = With(i, u) /\ Shape(u) /\ u.kind \in {"load", "done"}
  <2>1. CASE FetchServed(i)
    <3>1. CASE tasks' = With(i, Done)
      BY <3>1, DoneTask
    <3>2. CASE \E f, ids : tasks' = With(i, [t EXCEPT !.at = "answer", !.of = f, !.ids = ids])
      <4>1. PICK f, ids : tasks' = With(i, [t EXCEPT !.at = "answer", !.of = f, !.ids = ids])
        BY <3>2
      <4> DEFINE u == [t EXCEPT !.at = "answer", !.of = f, !.ids = ids]
      <4> HIDE DEF t
      <4>2. Shape(u) /\ u.kind = "load"
        BY <1>2, Zenon DEF Shape, Fields
      <4>3. tasks' = With(i, u)
        BY <4>1
      <4> HIDE DEF u
      <4> QED BY <4>2, <4>3
    <3> QED BY <2>1, <3>1, <3>2 DEF FetchServed
  <2>2. CASE FetchAnswered(i)
    BY <1>2, <2>2, DataFollows DEF FetchAnswered
  <2>3. CASE KeysUnwound(i)
    BY <1>2, <2>3, RowsFollow DEF KeysUnwound, loadVault
  <2>4. CASE RowDecrypted(i)
    BY <1>2, <2>4, RowsFollow, DoneTask DEF RowDecrypted
  <2> QED BY <2>1, <2>2, <2>3, <2>4
<1>4. PICK u : tasks' = With(i, u) /\ Shape(u) /\ u.kind \in {"load", "done"}
  BY <1>3
<1>5. KeepsPlaces
  BY <1>1, KeptPlaces
<1> QED BY <1>1, <1>4, <1>5, QuietStep DEF Moving

\* An upload that has the files of its selection put where the page is.
LEMMA UploadTogether ==
  ASSUME TogetherInv, NEW i \in DOMAIN tasks,
         UploadEncrypts(i) \/ UploadSends(i) \/ UploadFinishes(i) \/ UploadFails(i)
  PROVE  TogetherInv'
<1> DEFINE t == tasks[i]
<1>1. UNCHANGED <<folderID, crowded>>
  BY DEF UploadEncrypts, UploadSends, UploadFinishes, UploadFails, page, history
<1>2. Shape(t) /\ t.kind = "upload" /\ t.kind \in Moving
  BY ShapeOf DEF UploadEncrypts, UploadSends, UploadFinishes, UploadFails, At, Moving
<1>3. ~crowded /\ ~t.broken => paused /\ t.folder = folderID
  BY <1>2 DEF TogetherInv, Held
<1>4. CASE UNCHANGED <<last, where>> /\ Ends(i) /\ paused' \in BOOLEAN
  BY <1>1, <1>2, <1>4, KeptPlaces, QuietStep, DoneTask DEF Ends, Moving
<1>5. CASE UploadEncrypts(i)
  <2> DEFINE u == [t EXCEPT !.at = "send", !.key = folderKey]
  <2>1. Shape(u) /\ u.kind = "upload" /\ u.folder = t.folder /\ u.at = "send" /\ u.broken = t.broken
    BY <1>2, Zenon DEF Shape, Fields
  <2>2. tasks' = With(i, u) /\ UNCHANGED <<last, where, paused>>
    BY <1>5 DEF UploadEncrypts, server, page
  <2> HIDE DEF u
  <2> QED BY <1>1, <1>2, <1>3, <2>1, <2>2, KeptPlaces, OneContinues DEF Continues
<1>6. CASE UploadSends(i)
  <2> DEFINE u == [t EXCEPT !.at = "chunks", !.row = last + 1]
  <2>1. CASE Made(i, u, folderID, t.key) /\ UNCHANGED paused
    <3>1. Shape(u) /\ u.kind = "upload" /\ u.folder = t.folder /\ u.row = last + 1
          /\ u.broken = t.broken
      BY <1>2, Zenon DEF Shape, Fields
    <3> HIDE DEF u
    <3>2. /\ KeepsPlaces /\ tasks' = With(i, u)
          /\ last + 1 \in 1..last' /\ where'[last + 1] = folderID
      BY <2>1, MadePlaces
    <3> QED BY <1>1, <1>2, <1>3, <2>1, <3>1, <3>2, OneContinues DEF Continues
  <2>2. CASE Ends(i) /\ paused' = FALSE /\ UNCHANGED <<where, last>>
    BY <1>4, <2>2
  <2> QED BY <1>6, <2>1, <2>2 DEF UploadSends
<1>7. CASE UploadFinishes(i)
  <2>1. UNCHANGED <<last, where>> /\ paused' = GoesOn(t)
    BY <1>7 DEF UploadFinishes, server
  <2>2. CASE GoesOn(t)
    <3> DEFINE u == [t EXCEPT !.at = "key", !.left = @ - 1, !.row = None]
    <3>1. Shape(u) /\ u.kind = "upload" /\ u.folder = t.folder /\ u.at = "key" /\ u.broken = t.broken
      BY <1>2, Zenon DEF Shape, Fields
    <3>2. tasks' = With(i, u)
      BY <1>7, <2>2 DEF UploadFinishes, GoesOn
    <3> HIDE DEF u
    <3> QED BY <1>1, <1>2, <1>3, <2>1, <2>2, <3>1, <3>2, KeptPlaces, OneContinues DEF Continues
  <2>3. CASE ~GoesOn(t)
    <3>1. Ends(i) /\ paused' = FALSE
      BY <1>7, <2>1, <2>3 DEF UploadFinishes, GoesOn, Ends
    <3> QED BY <1>4, <2>1, <3>1
  <2> QED BY <2>2, <2>3
<1>8. CASE UploadFails(i)
  <2> DEFINE u == [t EXCEPT !.broken = TRUE]
  <2>1. UNCHANGED <<last, where>> /\ paused' \in BOOLEAN /\ t.at = "chunks"
    BY <1>8 DEF UploadFails, server, At
  <2>2. CASE tasks' = With(i, u)
    <3>1. Shape(u) /\ u.kind = "upload" /\ u.at = "chunks" /\ u.row = t.row /\ u.broken
      BY <1>2, <2>1, Zenon DEF Shape, Fields
    <3>2. ~crowded => t.row \in 1..last
      BY <1>2, <2>1 DEF TogetherInv, PutThere, At
    <3>3. tasks' = With(i, u)
      BY <2>2
    <3> HIDE DEF u
    <3> QED BY <1>1, <1>2, <2>1, <3>1, <3>2, <3>3, KeptPlaces, OneContinues DEF Continues
  <2>3. CASE Ends(i)
    BY <1>4, <2>1, <2>3
  <2> QED BY <1>8, <2>2, <2>3 DEF UploadFails
<1> QED BY <1>5, <1>6, <1>7, <1>8

\* A chunk sets paused again if somebody else has set it back.
LEMMA ProgressTogether ==
  ASSUME TogetherInv, NEW i, UploadProgresses(i)
  PROVE  TogetherInv'
<1>1. UNCHANGED <<last, where, tasks, folderID, crowded>> /\ paused' = TRUE
  BY DEF UploadProgresses, server, history
<1> QED BY <1>1 DEF TogetherInv, Held, PutThere, At

\* Downloads and deletions set paused back when they end: none of them runs
\* beside an upload.
LEMMA OtherMovesTogether ==
  ASSUME TogetherInv, NEW i \in DOMAIN tasks,
         DownloadEnds(i) \/ DeleteServed(i) \/ DeleteHandled(i)
  PROVE  TogetherInv'
<1> DEFINE t == tasks[i]
<1>1. UNCHANGED <<last, folderID, crowded>>
  BY DEF DownloadEnds, DeleteServed, DeleteHandled, server, page, history
<1>2. Shape(t) /\ t.kind \in {"download", "delete"} /\ t.kind \in Moving
  BY ShapeOf DEF DownloadEnds, DeleteServed, DeleteHandled, At, Moving
<1>3. KeepsPlaces
  <2>1. where' = where \/ \E D : where' = [x \in DOMAIN where \ D |-> where[x]]
    BY DEF DownloadEnds, DeleteServed, DeleteHandled, server
  <2>2. last' \in Nat /\ last <= last'
    BY <1>1 DEF TogetherInv
  <2>3. \A id \in DOMAIN where' : id \in DOMAIN where /\ where'[id] = where[id]
    BY <2>1
  <2> QED BY <2>2, <2>3 DEF KeepsPlaces
<1>4. \E u : tasks' = With(i, u) /\ Shape(u) /\ u.kind \in {"delete", "done"}
              /\ (u.kind = "delete" => t.kind = "delete")
  <2>1. CASE tasks' = With(i, Done)
    BY <2>1, DoneTask
  <2>2. CASE DeleteServed(i) /\ tasks' = With(i, [t EXCEPT !.at = "answer"])
    <3> DEFINE u == [t EXCEPT !.at = "answer"]
    <3>1. Shape(u) /\ u.kind = t.kind
      BY <1>2, Zenon DEF Shape, Fields
    <3>2. t.kind = "delete"
      BY <2>2 DEF DeleteServed, At
    <3>3. tasks' = With(i, u)
      BY <2>2
    <3> HIDE DEF u
    <3> QED BY <3>1, <3>2, <3>3
  <2> QED BY <2>1, <2>2 DEF DownloadEnds, DeleteServed, DeleteHandled, Ends
<1>5. PICK u : tasks' = With(i, u) /\ Shape(u) /\ u.kind \in {"delete", "done"}
  BY <1>4
<1> QED BY <1>1, <1>2, <1>3, <1>5, OneContinues DEF Continues

\* Dialogs, which move nothing.
LEMMA DialogTogether ==
  ASSUME TogetherInv, NEW i \in DOMAIN tasks,
         SubmitEntry(i) \/ uploadPassword(i) \/ FolderEncrypts(i) \/ FolderSends(i)
  PROVE  TogetherInv'
<1> DEFINE t == tasks[i]
<1>1. UNCHANGED <<folderID, crowded, paused>>
  BY DEF SubmitEntry, uploadPassword, FolderEncrypts, FolderSends, page, history
<1>2. Shape(t) /\ t.kind \in {"entry", "folder"}
  BY ShapeOf DEF SubmitEntry, uploadPassword, FolderEncrypts, FolderSends, At
<1>3. CASE Ends(i) /\ UNCHANGED <<last, where>>
  BY <1>1, <1>3, KeptPlaces, QuietStep, DoneTask DEF Ends, Moving
<1>4. CASE SubmitEntry(i)
  <2> DEFINE u == [t EXCEPT !.at = "answer", !.row = last + 1]
  <2>1. Shape(u) /\ u.kind = t.kind
    BY <1>2, Zenon DEF Shape, Fields
  <2>2. CASE Made(i, u, t.folder, t.key)
    <3> HIDE DEF u
    <3>1. KeepsPlaces /\ tasks' = With(i, u)
      BY <2>2, MadePlaces
    <3> QED BY <1>1, <1>2, <2>1, <3>1, QuietStep DEF Moving
  <2> QED BY <1>3, <1>4, <2>2 DEF SubmitEntry
<1>5. CASE uploadPassword(i)
  BY <1>3, <1>5 DEF uploadPassword, server
<1>6. CASE FolderEncrypts(i)
  <2> DEFINE u == [t EXCEPT !.at = "send", !.key = folderKey]
  <2>1. Shape(u) /\ u.kind = t.kind
    BY <1>2, Zenon DEF Shape, Fields
  <2>2. UNCHANGED <<last, where>>
    BY <1>6 DEF FolderEncrypts, server
  <2>3. CASE tasks' = With(i, u)
    <3> HIDE DEF u
    <3> QED BY <1>1, <1>2, <2>1, <2>2, <2>3, KeptPlaces, QuietStep DEF Moving
  <2> QED BY <1>3, <1>6, <2>2, <2>3 DEF FolderEncrypts
<1>7. CASE FolderSends(i)
  <2>1. CASE Made(i, Done, folderID, t.key)
    <3>1. KeepsPlaces /\ tasks' = With(i, Done)
      BY <2>1, MadePlaces
    <3> QED BY <1>1, <3>1, QuietStep, DoneTask DEF Moving
  <2> QED BY <1>3, <1>7, <2>1 DEF FolderSends, server
<1> QED BY <1>4, <1>5, <1>6, <1>7

LEMMA BeginTogether ==
  ASSUME TogetherInv, NEW t, Shape(t), t.at /= "chunks", Begin(t), UNCHANGED <<server, folderID>>,
         t.kind \in Moving => paused' = TRUE,
         t.kind \notin Moving => paused' = paused,
         t.kind = "upload" => t.folder = folderID
  PROVE  TogetherInv'
<1>1. PICK S : tasks \in Seq(S)
  BY DEF TogetherInv
<1>2. Len(tasks) + 1 \notin DOMAIN tasks
  BY <1>1
<1>3. tasks' = With(Len(tasks) + 1, t)
  BY <1>2 DEF Begin, With
<1>4. ~crowded' => ~crowded /\ (t.kind \in Moving => ~Running(Moving))
  BY Zenon DEF Begin, Moving
<1>5. UNCHANGED <<last, where, folderID>>
  BY DEF server
<1>6. t.kind = "upload" => t.kind \in Moving
  BY DEF Moving
<1> QED BY <1>3, <1>4, <1>5, <1>6, OneBegins

\* What the user begins.
LEMMA UserTogether ==
  ASSUME TogetherInv,
         \/ \E n \in 1..MaxFiles : uploadUserSelectedFiles(n)
         \/ \E id \in rows : downloadFile(id) \/ deleteVaultContent(id)
         \/ newPassword \/ newFolder
  PROVE  TogetherInv'
<1>1. \A k, a : Shape(Task(k, a)) /\ Task(k, a).kind = k /\ Task(k, a).at = a
  BY NewTasks
<1>2. ASSUME NEW n, uploadUserSelectedFiles(n)
      PROVE  TogetherInv'
  <2> DEFINE u == [Task("upload", "key") EXCEPT !.folder = folderID, !.left = n]
  <2>1. Shape(u) /\ u.kind = "upload" /\ u.at = "key" /\ u.folder = folderID
    BY <1>1, Zenon DEF Shape, Fields
  <2>2. Begin(u) /\ paused' = TRUE /\ UNCHANGED <<server, folderID>>
    BY <1>2 DEF uploadUserSelectedFiles
  <2> HIDE DEF u
  <2> QED BY <2>1, <2>2, BeginTogether DEF Moving
<1>3. ASSUME NEW id, downloadFile(id)
      PROVE  TogetherInv'
  <2> DEFINE u == [Task("download", "run") EXCEPT !.row = id]
  <2>1. Shape(u) /\ u.kind = "download" /\ u.at = "run"
    BY <1>1, Zenon DEF Shape, Fields
  <2>2. Begin(u) /\ paused' = TRUE /\ UNCHANGED <<server, folderID>>
    BY <1>3 DEF downloadFile
  <2> HIDE DEF u
  <2> QED BY <2>1, <2>2, BeginTogether DEF Moving
<1>4. ASSUME NEW id, deleteVaultContent(id)
      PROVE  TogetherInv'
  <2> DEFINE u == [Task("delete", "request") EXCEPT !.row = id]
  <2>1. Shape(u) /\ u.kind = "delete" /\ u.at = "request"
    BY <1>1, Zenon DEF Shape, Fields
  <2>2. Begin(u) /\ paused' = TRUE /\ UNCHANGED <<server, folderID>>
    BY <1>4 DEF deleteVaultContent
  <2> HIDE DEF u
  <2> QED BY <2>1, <2>2, BeginTogether DEF Moving
<1>5. CASE newPassword
  <2> DEFINE u == [Task("entry", "dialog") EXCEPT !.folder = folderID, !.key = folderKey]
  <2>1. Shape(u) /\ u.kind = "entry" /\ u.at = "dialog"
    BY <1>1, Zenon DEF Shape, Fields
  <2>2. Begin(u) /\ UNCHANGED <<server, folderID, paused>>
    BY <1>5 DEF newPassword, page
  <2> HIDE DEF u
  <2> QED BY <2>1, <2>2, BeginTogether DEF Moving
<1>6. CASE newFolder
  <2> DEFINE u == Task("folder", "dialog")
  <2>1. Shape(u) /\ u.kind = "folder" /\ u.at = "dialog"
    BY <1>1
  <2>2. Begin(u) /\ UNCHANGED <<server, folderID, paused>>
    BY <1>6 DEF newFolder, page
  <2> HIDE DEF u
  <2> QED BY <2>1, <2>2, BeginTogether DEF Moving
<1> QED BY <1>2, <1>3, <1>4, <1>5, <1>6

LEMMA TogetherNext == TogetherInv /\ [Next]_vars => TogetherInv'
<1> SUFFICES ASSUME TogetherInv, [Next]_vars PROVE TogetherInv'
  OBVIOUS
<1>1. CASE \E f \in Places : clickFolder(f)
  BY <1>1, LoadTogether DEF clickFolder
<1>2. CASE \E id \in rows : loadFile(id)
  BY <1>2, LoadTogether DEF loadFile
<1>3. CASE UNCHANGED vars
  BY <1>3 DEF vars, server, page, history, TogetherInv, Held, PutThere, At
<1> QED BY <1>1, <1>2, <1>3, UserTogether, LoadingTogether, UploadTogether, ProgressTogether,
           OtherMovesTogether, DialogTogether DEF Next

\* The files of a selection are all put in the folder that they were selected
\* for, if no two transfers or deletions ran at once and no chunk of it failed:
\* such an upload keeps paused set from its first file to its last, and a page
\* that is paused does not change folders.
THEOREM SelectionGoesTogether == Spec => []FilesGoTogether
<1>1. TogetherInv => FilesGoTogether
  BY DEF TogetherInv, PutThere, FilesGoTogether
<1> QED BY <1>1, TogetherInit, TogetherNext, PTL DEF Spec

-----------------------------------------------------------------------------
(* A patient user: what the page shows and keeps is of the folder it is in. *)

\* Ids that were put into this folder.
Lists(f, s) == s \subseteq 1..last /\ \A id \in s : under[id] = f

\* Where everything is: folders are older than what is in them.
PlaceTypes ==
  /\ DOMAIN where \subseteq 1..last /\ DOMAIN under = 1..last
  /\ \A id \in DOMAIN where : where[id] \in 0..last /\ where[id] < id
  /\ folders \subseteq 1..last
  /\ folderID \in 0..last /\ DOMAIN cache \subseteq 0..last

\* The awaits and callbacks of each kind of task.
Points(t) ==
  /\ t.kind = "load" => t.at \in {"fetch", "answer", "keys", "rows"}
  /\ t.kind = "upload" => t.at \in {"key", "send", "chunks"}
  /\ t.kind = "delete" => t.at \in {"request", "answer"}
  /\ t.kind = "entry" => t.at \in {"dialog", "answer"}
  /\ t.kind = "folder" => t.at \in {"dialog", "send"}
  /\ t.kind \in {"load", "upload", "download", "delete", "entry", "folder", "done"}

Busy(t) == t.kind /= "done"
Loads(t) == t.kind = "load"
Deletes(t) == t.kind = "delete"
Deleted(t) == t.kind = "delete" /\ t.at = "answer"

\* The server has made the item, and the page has not been told.
Pending(t) ==
  \/ t.kind = "upload" /\ t.at = "chunks"
  \/ t.kind = "entry" /\ t.at = "answer"

\* A folder that is loading is the one the page is in.
LoadKept(t) ==
  Loads(t) =>
    /\ ~settled
    /\ t.at = "fetch" => t.folder = folderID
    /\ t.at = "answer" => t.folder = folderID /\ t.of = folderID /\ t.ids = Contents(folderID)
    /\ t.at \in {"keys", "rows"} => t.of = folderID /\ Cached(folderID) /\ Lists(folderID, t.ids)
    /\ t.at = "rows" => folderKey = folderID /\ Lists(folderID, {t.row})

\* What else runs was begun in the folder the page is in, and has its key.
WorkKept(t) ==
  /\ Busy(t) /\ ~Loads(t) => settled
  /\ (t.kind \in {"upload", "folder"} /\ t.at = "send") => t.key = folderID
  /\ (t.kind = "entry" /\ t.at = "dialog") => t.key = folderID /\ t.folder = folderID
  /\ Pending(t) => (t.row \in DOMAIN where /\ where[t.row] = folderID /\ t.row \notin rows)
  /\ Deletes(t) => /\ Lists(folderID, {t.row})
                   /\ t.row \in rows \/ (Cached(folderID) /\ t.row \notin cache[folderID].ids)
  /\ Deleted(t) => t.row \notin DOMAIN where

\* Deletions, and other items on their way, are of other ids than an item that
\* is on its way.
Apart(i, j) ==
  Pending(tasks[i]) /\ (Deletes(tasks[j]) \/ (Pending(tasks[j]) /\ i /= j)) =>
    tasks[i].row /= tasks[j].row

\* The copy of a folder: what is in it and is not on the server is a deletion
\* whose answer is to come, or had none.
CopyKept(f) ==
  /\ cache[f] \in [of : Nat, ids : SUBSET Nat]
  /\ cache[f].of = f /\ Lists(f, cache[f].ids)
  /\ Contents(f) \cap finished \subseteq cache[f].ids
  /\ Exists(f) => \A id \in cache[f].ids :
       \/ id \in DOMAIN where \/ id \in lost
       \/ \E i \in DOMAIN tasks : Deleted(tasks[i]) /\ tasks[i].row = id

SettledKept == settled => folderKey = folderID /\ Cached(folderID)

TasksKept ==
  /\ SettledKept
  /\ \A i, j \in DOMAIN tasks : Loads(tasks[i]) /\ Busy(tasks[j]) => i = j
  /\ \A i \in DOMAIN tasks : LoadKept(tasks[i]) /\ WorkKept(tasks[i])
  /\ \A i, j \in DOMAIN tasks : Apart(i, j)

DataKept ==
  /\ \A f \in DOMAIN cache : CopyKept(f)
  /\ \A id \in DOMAIN where : under[id] = where[id]
  /\ \A id \in 1..last : under[id] < id
  /\ Lists(folderID, rows) /\ finished \subseteq 1..last

PageTypes == PlaceTypes /\ \A i \in DOMAIN tasks : Points(tasks[i])

PageInv == PageTypes /\ (Patient => TasksKept /\ DataKept)

-----------------------------------------------------------------------------
(* One task goes on, or one begins.                                        *)

LEMMA OneChanges ==
  ASSUME TogetherInv, NEW i \in 1..Len(tasks) + 1, NEW u, tasks' = With(i, u)
  PROVE  /\ DOMAIN tasks' = DOMAIN tasks \cup {i} /\ tasks'[i] = u
         /\ \A j \in DOMAIN tasks \ {i} : tasks'[j] = tasks[j]
<1>1. PICK S : tasks \in Seq(S)
  BY DEF TogetherInv
<1>2. /\ DOMAIN With(i, u) = DOMAIN tasks \cup {i} /\ With(i, u)[i] = u
      /\ \A j \in DOMAIN tasks \ {i} : With(i, u)[j] = tasks[j]
  BY <1>1, WithOne
<1> QED BY <1>2

LEMMA TaskNumbers ==
  ASSUME TogetherInv
  PROVE  /\ DOMAIN tasks = 1..Len(tasks) /\ Len(tasks) \in Nat
         /\ DOMAIN tasks \subseteq 1..Len(tasks) + 1
         /\ Len(tasks) + 1 \in 1..Len(tasks) + 1 /\ Len(tasks) + 1 \notin DOMAIN tasks
<1>1. PICK S : tasks \in Seq(S)
  BY DEF TogetherInv
<1> QED BY <1>1

LEMMA PointsStep ==
  ASSUME TogetherInv, PageTypes, PlaceTypes', NEW i \in 1..Len(tasks) + 1, NEW u,
         tasks' = With(i, u), Points(u)
  PROVE  PageTypes'
<1>1. /\ DOMAIN tasks' = DOMAIN tasks \cup {i} /\ tasks'[i] = u
      /\ \A j \in DOMAIN tasks \ {i} : tasks'[j] = tasks[j]
  BY OneChanges
<1>2. \A j \in DOMAIN tasks' : Points(tasks'[j])
  BY <1>1 DEF PageTypes
<1> QED BY <1>2 DEF PageTypes

\* A folder is loaded while nothing else runs.
LEMMA LoadStep ==
  ASSUME TogetherInv, NEW i \in 1..Len(tasks) + 1, NEW u,
         tasks' = With(i, u), u.kind \in {"load", "done"},
         \A j \in DOMAIN tasks \ {i} : ~Busy(tasks[j]), LoadKept(u)', SettledKept'
  PROVE  TasksKept'
<1>1. /\ DOMAIN tasks' = DOMAIN tasks \cup {i} /\ tasks'[i] = u
      /\ \A j \in DOMAIN tasks \ {i} : tasks'[j] = tasks[j]
  BY OneChanges
<1>2. \A j \in DOMAIN tasks' \ {i} : tasks'[j].kind = "done"
  BY <1>1 DEF Busy
<1>3. \A j \in DOMAIN tasks' : /\ ~Pending(tasks'[j])
                               /\ ~Deletes(tasks'[j]) /\ ~Deleted(tasks'[j])
                               /\ tasks'[j].kind \notin {"upload", "folder", "entry"}
                               /\ Busy(tasks'[j]) => Loads(tasks'[j])
  BY <1>1, <1>2 DEF Pending, Deletes, Deleted, Busy, Loads
<1>4. \A j \in DOMAIN tasks' : LoadKept(tasks[j])'
  <2> TAKE j \in DOMAIN tasks'
  <2>1. CASE j = i
    BY <1>1, <2>1
  <2>2. CASE j /= i
    BY <1>2, <2>2 DEF LoadKept, Loads
  <2> QED BY <2>1, <2>2
<1>5. \A j \in DOMAIN tasks' : WorkKept(tasks[j])'
  BY <1>3 DEF WorkKept
<1>6. \A j, k \in DOMAIN tasks' : Loads(tasks'[j]) /\ Busy(tasks'[k]) => j = k
  BY <1>2 DEF Loads, Busy
<1>7. \A j, k \in DOMAIN tasks' : Apart(j, k)'
  BY <1>3 DEF Apart
<1> QED BY <1>4, <1>5, <1>6, <1>7 DEF TasksKept

\* Anything else goes on while nothing is loaded.
LEMMA WorkStep ==
  ASSUME TogetherInv, PageTypes, TasksKept, NEW i \in 1..Len(tasks) + 1, NEW u,
         tasks' = With(i, u), ~Loads(u), settled,
         UNCHANGED <<folderID, folderKey, settled>>,
         Cached(folderID) => Cached(folderID)',
         \A f, s : Lists(f, s) => Lists(f, s)',
         \A j \in DOMAIN tasks \ {i} : Pending(tasks[j]) =>
           /\ tasks[j].row \in DOMAIN where' /\ where'[tasks[j].row] = where[tasks[j].row]
           /\ tasks[j].row \notin rows',
         \A j \in DOMAIN tasks \ {i} : Deletes(tasks[j]) =>
           \/ tasks[j].row \in rows'
           \/ tasks[j].row \notin cache'[folderID].ids,
         \A j \in DOMAIN tasks \ {i} : Deleted(tasks[j]) => tasks[j].row \notin DOMAIN where',
         WorkKept(u)',
         \A j \in DOMAIN tasks \ {i} :
           /\ Pending(u) /\ (Deletes(tasks[j]) \/ Pending(tasks[j])) => u.row /= tasks[j].row
           /\ Deletes(u) /\ Pending(tasks[j]) => u.row /= tasks[j].row
  PROVE  TasksKept'
<1>1. /\ DOMAIN tasks' = DOMAIN tasks \cup {i} /\ tasks'[i] = u
      /\ \A j \in DOMAIN tasks \ {i} : tasks'[j] = tasks[j]
  BY OneChanges
<1>2. SettledKept'
  BY DEF TasksKept, SettledKept
<1>3. \A j \in DOMAIN tasks' : ~Loads(tasks'[j])
  <2>1. \A j \in DOMAIN tasks : ~Loads(tasks[j])
    BY DEF TasksKept, LoadKept
  <2> QED BY <1>1, <2>1
<1>4. \A j \in DOMAIN tasks' : LoadKept(tasks[j])'
  BY <1>3 DEF LoadKept
<1>5. ASSUME NEW j \in DOMAIN tasks' PROVE WorkKept(tasks[j])'
  <2>1. CASE j = i
    BY <1>1, <2>1
  <2>2. CASE j /= i
    <3>1. j \in DOMAIN tasks \ {i} /\ tasks'[j] = tasks[j] /\ WorkKept(tasks[j])
      BY <1>1, <2>2 DEF TasksKept
    <3>2. Pending(tasks[j]) => /\ tasks[j].row \in DOMAIN where'
                               /\ where'[tasks[j].row] = folderID /\ tasks[j].row \notin rows'
      BY <3>1 DEF WorkKept
    <3>3. Deletes(tasks[j]) =>
            /\ Lists(folderID, {tasks[j].row})'
            /\ tasks[j].row \in rows' \/ (Cached(folderID)' /\ tasks[j].row \notin cache'[folderID].ids)
      BY <3>1, <1>2 DEF WorkKept, SettledKept
    <3>4. Deleted(tasks[j]) => tasks[j].row \notin DOMAIN where'
      BY <3>1
    <3> QED BY <3>1, <3>2, <3>3, <3>4 DEF WorkKept
  <2> QED BY <2>1, <2>2
<1>6. ASSUME NEW j \in DOMAIN tasks', NEW k \in DOMAIN tasks'
      PROVE  Apart(j, k)'
  <2>1. CASE j /= i /\ k /= i
    <3>1. /\ j \in DOMAIN tasks /\ tasks'[j] = tasks[j]
          /\ k \in DOMAIN tasks /\ tasks'[k] = tasks[k] /\ Apart(j, k)
      BY <1>1, <2>1 DEF TasksKept
    <3> QED BY <3>1 DEF Apart
  <2>2. CASE j = i /\ k /= i
    <3>1. tasks'[j] = u /\ k \in DOMAIN tasks \ {i} /\ tasks'[k] = tasks[k]
      BY <1>1, <2>2
    <3> QED BY <3>1 DEF Apart
  <2>3. CASE j /= i /\ k = i
    <3>1. tasks'[k] = u /\ j \in DOMAIN tasks \ {i} /\ tasks'[j] = tasks[j]
      BY <1>1, <2>3
    <3> QED BY <3>1 DEF Apart
  <2>4. CASE j = i /\ k = i
    BY <1>1, <2>4 DEF Apart, Pending, Deletes
  <2> QED BY <2>1, <2>2, <2>3, <2>4
<1> QED BY <1>2, <1>3, <1>4, <1>5, <1>6 DEF TasksKept

LEMMA PageInit == Init => PageInv
<1> SUFFICES ASSUME Init PROVE PageInv
  OBVIOUS
<1> DEFINE t == [Task("load", "fetch") EXCEPT !.folder = folderID]
<1>1. Task("load", "fetch").kind = "load" /\ Task("load", "fetch").at = "fetch"
  BY NewTasks
<1>2. t.kind = "load" /\ t.at = "fetch" /\ t.folder = folderID
  <2>1. Shape(Task("load", "fetch"))
    BY NewTasks
  <2> QED BY <1>1, <2>1, Zenon DEF Shape, Fields
<1>3. tasks = <<t>>
  BY DEF Init
<1> HIDE DEF t
<1>4. DOMAIN tasks = {1} /\ tasks[1] = t
  BY <1>3
<1>5. /\ where = <<0, 1>> /\ under = where /\ last = 2 /\ folders = {1} /\ folderID \in {0, 1}
      /\ cache = <<>> /\ rows = {} /\ finished = {} /\ settled = FALSE
  BY DEF Init, Root
<1>6. /\ DOMAIN where = 1..2 /\ \A id \in DOMAIN where : where[id] \in 0..last /\ where[id] < id
      /\ DOMAIN cache = {}
  BY <1>5
<1>7. PlaceTypes
  BY <1>5, <1>6 DEF PlaceTypes
<1>8. PageTypes
  BY <1>2, <1>4, <1>7 DEF PageTypes, Points
<1>9. LoadKept(t) /\ WorkKept(t)
  BY <1>2, <1>5 DEF LoadKept, WorkKept, Busy, Loads, Pending, Deletes, Deleted
<1>10. TasksKept
  BY <1>2, <1>4, <1>5, <1>9 DEF TasksKept, SettledKept, Apart, Pending
<1>11. DataKept
  BY <1>5, <1>6 DEF DataKept, Lists
<1> QED BY <1>8, <1>10, <1>11 DEF PageInv

\* The folder that the page is in is known by its key, and cached.
RowsKnown(of, key, ids) ==
  of = folderID /\ key = folderID /\ Cached(folderID) /\ Lists(folderID, ids)

\* The key that has been unwound, if any, is kept, and the rows begin.
LEMMA RowsKept ==
  ASSUME NEW i, NEW t, Shape(t), Loads(t), NEW ids, NEW key, NextRow(i, t, ids, key)
  PROVE  \E u : /\ tasks' = With(i, u) /\ u.kind \in {"load", "done"} /\ Points(u)
                /\ RowsKnown(t.of, folderKey, ids)' => LoadKept(u)' /\ SettledKept'
<1>0. RowsKnown(t.of, folderKey, ids)' => SettledKept'
  BY DEF SettledKept, RowsKnown
<1>1. CASE tasks' = With(i, Done)
  <2>1. Done.kind = "done"
    BY DoneTask
  <2>2. LoadKept(Done)' /\ Points(Done)
    BY <2>1 DEF LoadKept, Points, Loads
  <2> QED BY <1>0, <1>1, <2>1, <2>2
<1>2. CASE \E id \in ids : /\ tasks' = With(i, [t EXCEPT !.at = "rows", !.ids = ids \ {id},
                                                       !.row = id, !.key = key])
                           /\ settled' = FALSE
  <2>1. PICK id \in ids : /\ tasks' = With(i, [t EXCEPT !.at = "rows", !.ids = ids \ {id},
                                                      !.row = id, !.key = key])
                          /\ settled' = FALSE
    BY <1>2
  <2> DEFINE u == [t EXCEPT !.at = "rows", !.ids = ids \ {id}, !.row = id, !.key = key]
  <2>2. u.kind = "load" /\ u.at = "rows" /\ u.ids = ids \ {id} /\ u.row = id /\ u.of = t.of
    BY Zenon DEF Shape, Fields, Loads
  <2>3. tasks' = With(i, u)
    BY <2>1
  <2> HIDE DEF u
  <2>4. RowsKnown(t.of, folderKey, ids)' => LoadKept(u)'
    BY <2>1, <2>2 DEF LoadKept, Lists, RowsKnown
  <2>5. Points(u)
    BY <2>2 DEF Points
  <2> QED BY <1>0, <2>2, <2>3, <2>4, <2>5
<1> QED BY <1>1, <1>2 DEF NextRow

LEMMA FolderDataKept ==
  ASSUME NEW i, NEW t, Shape(t), Loads(t), loadFolderData(i, t)
  PROVE  \E u : /\ tasks' = With(i, u) /\ u.kind \in {"load", "done"} /\ Points(u)
                /\ RowsKnown(t.of, folderID, t.ids)' => LoadKept(u)' /\ SettledKept'
<1>1. CASE t.of = Root
  <2>1. NextRow(i, t, t.ids, Root) /\ folderKey' = t.of
    BY <1>1 DEF loadFolderData, loadVault
  <2>2. RowsKnown(t.of, folderID, t.ids)' => RowsKnown(t.of, folderKey, t.ids)'
    BY <2>1 DEF RowsKnown
  <2>3. PICK u : /\ tasks' = With(i, u) /\ u.kind \in {"load", "done"} /\ Points(u)
                 /\ RowsKnown(t.of, folderKey, t.ids)' => LoadKept(u)' /\ SettledKept'
    BY <2>1, RowsKept
  <2> QED BY <2>2, <2>3
<1>2. CASE t.of /= Root
  <2> DEFINE u == [t EXCEPT !.at = "keys"]
  <2>1. u.kind = "load" /\ u.at = "keys" /\ u.of = t.of /\ u.ids = t.ids
    BY Zenon DEF Shape, Fields, Loads
  <2>2. tasks' = With(i, u) /\ settled' = FALSE
    BY <1>2 DEF loadFolderData
  <2> HIDE DEF u
  <2>3. SettledKept' /\ Points(u)
    BY <2>1, <2>2 DEF SettledKept, Points
  <2>4. RowsKnown(t.of, folderID, t.ids)' => LoadKept(u)'
    BY <2>1, <2>2 DEF LoadKept, RowsKnown
  <2> QED BY <2>1, <2>2, <2>3, <2>4
<1> QED BY <1>1, <1>2

\* While a folder loads, no deletion waits for its answer, so that what the
\* copies of folders lack is lost.
LEMMA CopiesStay ==
  ASSUME UNCHANGED <<where, under, last, finished, lost>>,
         \A j \in DOMAIN tasks : ~Deleted(tasks[j]),
         NEW f, cache'[f] = cache[f], CopyKept(f)
  PROVE  CopyKept(f)'
BY DEF CopyKept, Contents, Exists, Lists

\* A patient user opens a folder when nothing else runs.
LEMMA PatientLoad ==
  ASSUME TogetherInv, PageInv, NEW f, loadFolder(f), Patient'
  PROVE  Patient /\ \A j \in DOMAIN tasks : ~Busy(tasks[j])
<1>1. ~isDialogOpen /\ ~Running({"load", "upload", "download", "delete", "entry"}) /\ Patient
  BY DEF loadFolder, Patient, Running
<1>2. SUFFICES ASSUME NEW j \in DOMAIN tasks, Busy(tasks[j]) PROVE FALSE
  BY <1>1
<1>3. tasks[j].kind = "folder" /\ tasks[j].at \in {"dialog", "send"}
  BY <1>1, <1>2 DEF PageInv, PageTypes, Points, Running, Busy
<1> QED BY <1>1, <1>3 DEF isDialogOpen, At

LEMMA OpenKept ==
  ASSUME TogetherInv, PageInv, NEW f \in 0..last, loadFolder(f)
  PROVE  PageInv'
<1> DEFINE load == [Task("load", "fetch") EXCEPT !.folder = f]
<1>1. /\ UNCHANGED <<where, under, last, folders, finished, lost, cache>>
      /\ folderID' = f /\ rows' = {}
  BY DEF loadFolder, server
<1>2. /\ Shape(load) /\ load.kind = "load" /\ load.at = "fetch" /\ load.folder = f
  <2>1. /\ Shape(Task("load", "fetch")) /\ Task("load", "fetch").kind = "load"
        /\ Task("load", "fetch").at = "fetch"
    BY NewTasks
  <2> QED BY <2>1, Zenon DEF Shape, Fields
<1> HIDE DEF load
<1>3. PICK n : n = Len(tasks) + 1 /\ n \in 1..Len(tasks) + 1 /\ n \notin DOMAIN tasks
  BY TaskNumbers
<1>4. PlaceTypes'
  BY <1>1 DEF PageInv, PageTypes, PlaceTypes
<1>5. Patient' => Patient /\ (\A j \in DOMAIN tasks : ~Busy(tasks[j]))
  BY PatientLoad
<1>6. PICK u : /\ tasks' = With(n, u) /\ u.kind \in {"load", "done"} /\ Points(u)
               /\ Patient' => LoadKept(u)' /\ SettledKept'
  <2>1. CASE ~Cached(f)
    <3>1. tasks' = With(n, load) /\ settled' = FALSE
      BY <1>3, <2>1 DEF loadFolder, load
    <3>2. LoadKept(load)' /\ SettledKept' /\ Points(load)
      BY <1>1, <1>2, <3>1 DEF LoadKept, SettledKept, Points
    <3> QED BY <1>2, <3>1, <3>2
  <2>2. CASE Cached(f)
    <3>0. PICK t : t = [load EXCEPT !.of = cache[f].of, !.ids = cache[f].ids]
      OBVIOUS
    <3>1. loadFolderData(n, t)
      BY <1>3, <2>2, <3>0 DEF loadFolder, load
    <3>2. Shape(t) /\ t.kind = "load" /\ t.of = cache[f].of /\ t.ids = cache[f].ids
      BY <1>2, <3>0, Zenon DEF Shape, Fields
    <3>3. Shape(t) /\ Loads(t)
      BY <3>2 DEF Loads
    <3>4. Patient' => RowsKnown(t.of, folderID, t.ids)'
      <4> SUFFICES ASSUME Patient' PROVE RowsKnown(t.of, folderID, t.ids)'
        OBVIOUS
      <4>1. CopyKept(f) /\ f \in DOMAIN cache
        BY <1>5, <2>2 DEF PageInv, DataKept, Cached
      <4> QED BY <1>1, <3>2, <4>1 DEF CopyKept, RowsKnown, Cached, Lists
    <3>5. PICK u : /\ tasks' = With(n, u) /\ u.kind \in {"load", "done"} /\ Points(u)
                   /\ RowsKnown(t.of, folderID, t.ids)' => LoadKept(u)' /\ SettledKept'
      BY <3>1, <3>3, FolderDataKept
    <3> QED BY <3>4, <3>5
  <2> QED BY <2>1, <2>2
<1>7. PageTypes'
  BY <1>3, <1>4, <1>6, PointsStep DEF PageInv
<1>8. Patient' => TasksKept'
  BY <1>3, <1>5, <1>6, LoadStep
<1>9. ASSUME Patient' PROVE DataKept'
  <2>1. \A j \in DOMAIN tasks : ~Deleted(tasks[j])
    BY <1>5, <1>9 DEF Busy, Deleted
  <2>2. DataKept
    BY <1>5, <1>9 DEF PageInv
  <2>3. \A g \in DOMAIN cache' : CopyKept(g)'
    BY <1>1, <2>1, <2>2, CopiesStay DEF DataKept
  <2> QED BY <1>1, <2>2, <2>3 DEF DataKept, Lists
<1> QED BY <1>7, <1>8, <1>9 DEF PageInv

\* A folder goes on loading. What it changes of the page is given.
LEMMA LoadGoesOn ==
  ASSUME TogetherInv, PageInv, PlaceTypes', NEW i \in DOMAIN tasks, Loads(tasks[i]),
         UNCHANGED <<where, under, last, folderID, finished, lost>>, Patient' = Patient,
         NEW u, tasks' = With(i, u), u.kind \in {"load", "done"}, Points(u),
         Patient /\ TasksKept /\ DataKept =>
           /\ LoadKept(u)' /\ SettledKept' /\ Lists(folderID, rows)'
           /\ \A g \in DOMAIN cache' : \/ g \in DOMAIN cache /\ cache'[g] = cache[g]
                                       \/ CopyKept(g)'
  PROVE  PageInv'
<1>1. i \in 1..Len(tasks) + 1
  BY TaskNumbers
<1>2. PageTypes'
  BY <1>1, PointsStep DEF PageInv
<1>3. SUFFICES ASSUME Patient PROVE TasksKept' /\ DataKept'
  BY <1>2 DEF PageInv
<1>4. TasksKept /\ DataKept
  BY <1>3 DEF PageInv
<1>5. /\ LoadKept(u)' /\ SettledKept' /\ Lists(folderID, rows)'
      /\ \A g \in DOMAIN cache' : \/ g \in DOMAIN cache /\ cache'[g] = cache[g]
                                  \/ CopyKept(g)'
  BY <1>3, <1>4
<1>6. \A j \in DOMAIN tasks \ {i} : ~Busy(tasks[j])
  BY <1>4 DEF TasksKept
<1>7. TasksKept'
  BY <1>1, <1>5, <1>6, LoadStep
<1>8. \A j \in DOMAIN tasks : ~Deleted(tasks[j])
  BY <1>6 DEF Busy, Deleted, Loads
<1>9. \A g \in DOMAIN cache' : CopyKept(g)'
  BY <1>4, <1>5, <1>8, CopiesStay DEF DataKept
<1> QED BY <1>4, <1>5, <1>7, <1>9 DEF DataKept

LEMMA ServedKept ==
  ASSUME TogetherInv, PageInv, NEW i \in DOMAIN tasks, FetchServed(i)
  PROVE  PageInv'
<1>1. PICK t : t = tasks[i]
  OBVIOUS
<1>2. /\ UNCHANGED <<where, under, last, folders, folderID, folderKey, cache, rows, finished,
                     lost, settled>>
      /\ Patient' = Patient
  BY DEF FetchServed, server, page, history, Patient
<1>3. Shape(t) /\ t.kind = "load" /\ t.at = "fetch" /\ Loads(tasks[i])
  BY <1>1, ShapeOf DEF FetchServed, At, Loads
<1>4. PlaceTypes'
  BY <1>2 DEF PageInv, PageTypes, PlaceTypes
<1>5. PICK u : /\ tasks' = With(i, u) /\ u.kind \in {"load", "done"} /\ Points(u)
               /\ Loads(u) => /\ u.at = "answer" /\ u.folder = t.folder
                              /\ u.of = t.folder /\ u.ids = Contents(t.folder)
  <2>1. CASE tasks' = With(i, Done)
    BY <2>1, DoneTask DEF Points, Loads
  <2>2. CASE tasks' = With(i, [t EXCEPT !.at = "answer", !.of = t.folder,
                                        !.ids = Contents(t.folder)])
    <3>1. PICK u : u = [t EXCEPT !.at = "answer", !.of = t.folder, !.ids = Contents(t.folder)]
      OBVIOUS
    <3>2. /\ u.kind = "load" /\ u.at = "answer" /\ u.folder = t.folder
          /\ u.of = t.folder /\ u.ids = Contents(t.folder)
      BY <1>3, <3>1, Zenon DEF Shape, Fields
    <3>3. tasks' = With(i, u)
      BY <2>2, <3>1
    <3> QED BY <3>2, <3>3 DEF Points
  <2> QED BY <1>1, <2>1, <2>2 DEF FetchServed
<1>6. Patient /\ TasksKept /\ DataKept =>
        /\ LoadKept(u)' /\ SettledKept' /\ Lists(folderID, rows)'
        /\ \A g \in DOMAIN cache' : \/ g \in DOMAIN cache /\ cache'[g] = cache[g]
                                    \/ CopyKept(g)'
  <2> SUFFICES ASSUME TasksKept, DataKept PROVE LoadKept(u)' /\ SettledKept' /\ Lists(folderID, rows)'
    BY <1>2
  <2>1. ~settled /\ t.folder = folderID
    BY <1>1, <1>3 DEF TasksKept, LoadKept, Loads
  <2>2. LoadKept(u)'
    BY <1>2, <1>5, <2>1 DEF LoadKept, Loads, Contents
  <2>3. Lists(folderID, rows)' /\ SettledKept'
    BY <1>2, <2>1 DEF DataKept, Lists, SettledKept
  <2> QED BY <2>2, <2>3
<1> QED BY <1>2, <1>3, <1>4, <1>5, <1>6, LoadGoesOn

LEMMA AnsweredKept ==
  ASSUME TogetherInv, PageInv, NEW i \in DOMAIN tasks, FetchAnswered(i)
  PROVE  PageInv'
<1>1. PICK t : t = tasks[i]
  OBVIOUS
<1>2. /\ UNCHANGED <<where, under, last, folders, folderID, rows, finished, lost>>
      /\ Patient' = Patient
      /\ cache' = set(folderID, [of |-> t.of, ids |-> t.ids]) /\ loadFolderData(i, t)
  BY <1>1 DEF FetchAnswered, server, Patient
<1>3. Shape(t) /\ t.kind = "load" /\ t.at = "answer" /\ Loads(t)
  BY <1>1, ShapeOf DEF FetchAnswered, At, Loads
<1>4. /\ DOMAIN cache' = DOMAIN cache \cup {folderID}
      /\ cache'[folderID] = [of |-> t.of, ids |-> t.ids]
      /\ \A g \in DOMAIN cache \ {folderID} : cache'[g] = cache[g]
  BY <1>2 DEF set
<1>5. PlaceTypes'
  BY <1>2, <1>4 DEF PageInv, PageTypes, PlaceTypes
<1>6. PICK u : /\ tasks' = With(i, u) /\ u.kind \in {"load", "done"} /\ Points(u)
               /\ RowsKnown(t.of, folderID, t.ids)' => LoadKept(u)' /\ SettledKept'
  BY <1>2, <1>3, FolderDataKept
<1>7. Patient /\ TasksKept /\ DataKept =>
        /\ LoadKept(u)' /\ SettledKept' /\ Lists(folderID, rows)'
        /\ \A g \in DOMAIN cache' : \/ g \in DOMAIN cache /\ cache'[g] = cache[g]
                                    \/ CopyKept(g)'
  <2> SUFFICES ASSUME TasksKept, DataKept
               PROVE  /\ LoadKept(u)' /\ SettledKept' /\ Lists(folderID, rows)'
                      /\ CopyKept(folderID)'
    <3>1. folderID' = folderID
      BY <1>2
    <3>2. CopyKept(folderID)' => \A g \in DOMAIN cache' : \/ g \in DOMAIN cache /\ cache'[g] = cache[g]
                                                         \/ CopyKept(g)'
      <4> SUFFICES ASSUME CopyKept(folderID)', NEW g \in DOMAIN cache'
                   PROVE  (g \in DOMAIN cache /\ cache'[g] = cache[g]) \/ CopyKept(g)'
        OBVIOUS
      <4>1. CASE g = folderID
        BY <3>1, <4>1
      <4>2. CASE g /= folderID
        BY <1>4, <4>2
      <4> QED BY <4>1, <4>2
    <3> QED BY <3>2
  <2>1. ~settled /\ t.folder = folderID /\ t.of = folderID /\ t.ids = Contents(folderID)
    BY <1>1, <1>3 DEF TasksKept, LoadKept
  <2>2. Lists(folderID, Contents(folderID)) /\ Contents(folderID) \subseteq DOMAIN where
    BY DEF Lists, Contents, DataKept, PageInv, PageTypes, PlaceTypes
  <2>3. CopyKept(folderID)' /\ RowsKnown(t.of, folderID, t.ids)'
    <3> DEFINE c == [of |-> t.of, ids |-> t.ids]
    <3>1. c \in [of : Nat, ids : SUBSET Nat] /\ c.of = folderID /\ c.ids = Contents(folderID)
      BY <2>1, <2>2 DEF PageInv, PageTypes, PlaceTypes, Lists
    <3>2. cache'[folderID] = c
      BY <1>4
    <3> HIDE DEF c
    <3>3. CopyKept(folderID)'
      BY <1>2, <2>2, <3>1, <3>2 DEF CopyKept, Lists, Contents
    <3>4. RowsKnown(t.of, folderID, t.ids)'
      BY <1>2, <1>4, <2>1, <2>2 DEF RowsKnown, Cached, Lists
    <3> QED BY <3>3, <3>4
  <2>4. Lists(folderID, rows)'
    BY <1>2 DEF DataKept, Lists
  <2> QED BY <1>6, <2>3, <2>4
<1> QED BY <1>1, <1>2, <1>3, <1>5, <1>6, <1>7, LoadGoesOn

LEMMA UnwoundKept ==
  ASSUME TogetherInv, PageInv, NEW i \in DOMAIN tasks, KeysUnwound(i)
  PROVE  PageInv'
<1>1. PICK t : t = tasks[i]
  OBVIOUS
<1>2. /\ UNCHANGED <<where, under, last, folders, folderID, cache, rows, finished, lost>>
      /\ Patient' = Patient /\ folderKey' = t.of
  BY <1>1 DEF KeysUnwound, server, Patient
<1>3. Shape(t) /\ t.kind = "load" /\ t.at = "keys" /\ Loads(t)
  BY <1>1, ShapeOf DEF KeysUnwound, At, Loads
<1>4. NextRow(i, t, t.ids, t.of)
  BY <1>1 DEF KeysUnwound, loadVault
<1>5. PlaceTypes'
  BY <1>2 DEF PageInv, PageTypes, PlaceTypes
<1>6. PICK u : /\ tasks' = With(i, u) /\ u.kind \in {"load", "done"} /\ Points(u)
               /\ RowsKnown(t.of, folderKey, t.ids)' => LoadKept(u)' /\ SettledKept'
  BY <1>3, <1>4, RowsKept
<1>7. Patient /\ TasksKept /\ DataKept =>
        /\ LoadKept(u)' /\ SettledKept' /\ Lists(folderID, rows)'
        /\ \A g \in DOMAIN cache' : \/ g \in DOMAIN cache /\ cache'[g] = cache[g]
                                    \/ CopyKept(g)'
  <2> SUFFICES ASSUME TasksKept, DataKept
               PROVE  LoadKept(u)' /\ SettledKept' /\ Lists(folderID, rows)'
    BY <1>2
  <2>1. t.of = folderID /\ Cached(folderID) /\ Lists(folderID, t.ids)
    BY <1>1, <1>3 DEF TasksKept, LoadKept
  <2>2. RowsKnown(t.of, folderKey, t.ids)' /\ Lists(folderID, rows)'
    BY <1>2, <2>1 DEF RowsKnown, Cached, Lists, DataKept
  <2> QED BY <1>6, <2>2
<1> QED BY <1>1, <1>2, <1>3, <1>5, <1>6, <1>7, LoadGoesOn

LEMMA DecryptedKept ==
  ASSUME TogetherInv, PageInv, NEW i \in DOMAIN tasks, RowDecrypted(i)
  PROVE  PageInv'
<1>1. PICK t : t = tasks[i]
  OBVIOUS
<1>2. /\ UNCHANGED <<where, under, last, folders, folderID, folderKey, cache, finished, lost>>
      /\ Patient' = Patient
  BY DEF RowDecrypted, server, Patient
<1>3. Shape(t) /\ t.kind = "load" /\ t.at = "rows" /\ Loads(t)
  BY <1>1, ShapeOf DEF RowDecrypted, At, Loads
<1>4. CASE under[t.row] /= t.key
  <2>1. tasks' = With(i, Done) /\ UNCHANGED <<rows, settled>>
    BY <1>1, <1>4 DEF RowDecrypted
  <2>2. PlaceTypes'
    BY <1>2, <2>1 DEF PageInv, PageTypes, PlaceTypes
  <2>3. Done.kind \in {"load", "done"} /\ Points(Done) /\ LoadKept(Done)'
    BY DoneTask DEF Points, LoadKept, Loads
  <2>4. TasksKept /\ DataKept => Lists(folderID, rows)' /\ SettledKept'
    BY <1>2, <2>1 DEF TasksKept, SettledKept, DataKept, Lists, Cached
  <2>5. \A g \in DOMAIN cache' : g \in DOMAIN cache /\ cache'[g] = cache[g]
    BY <1>2
  <2> QED BY <1>1, <1>2, <1>3, <2>1, <2>2, <2>3, <2>4, <2>5, LoadGoesOn
<1>5. CASE under[t.row] = t.key
  <2>1. rows' = rows \cup {t.row} /\ NextRow(i, t, t.ids, folderKey)
    BY <1>1, <1>5 DEF RowDecrypted
  <2>2. PlaceTypes'
    BY <1>2 DEF PageInv, PageTypes, PlaceTypes
  <2>3. PICK u : /\ tasks' = With(i, u) /\ u.kind \in {"load", "done"} /\ Points(u)
                 /\ RowsKnown(t.of, folderKey, t.ids)' => LoadKept(u)' /\ SettledKept'
    BY <1>3, <2>1, RowsKept
  <2>4. Patient /\ TasksKept /\ DataKept =>
          /\ LoadKept(u)' /\ SettledKept' /\ Lists(folderID, rows)'
          /\ \A g \in DOMAIN cache' : \/ g \in DOMAIN cache /\ cache'[g] = cache[g]
                                      \/ CopyKept(g)'
    <3> SUFFICES ASSUME TasksKept, DataKept
                 PROVE  LoadKept(u)' /\ SettledKept' /\ Lists(folderID, rows)'
      BY <1>2
    <3>1. /\ t.of = folderID /\ Cached(folderID) /\ Lists(folderID, t.ids)
          /\ folderKey = folderID /\ Lists(folderID, {t.row})
      BY <1>1, <1>3 DEF TasksKept, LoadKept
    <3>2. RowsKnown(t.of, folderKey, t.ids)' /\ Lists(folderID, rows)'
      BY <1>2, <2>1, <3>1 DEF RowsKnown, Cached, Lists, DataKept
    <3> QED BY <2>3, <3>2
  <2> QED BY <1>1, <1>2, <1>3, <2>2, <2>3, <2>4, LoadGoesOn
<1> QED BY <1>4, <1>5

\* Something other than a folder goes on, or begins, and tells neither the
\* server nor the page of it.
LEMMA QuietWork ==
  ASSUME TogetherInv, PageInv, NEW i \in 1..Len(tasks) + 1, NEW u, tasks' = With(i, u),
         UNCHANGED <<where, under, last, folders, folderID, folderKey, settled, cache, rows,
                     finished, lost>>,
         Points(u), ~Loads(u), ~Deleted(u),
         Patient' /\ Pending(u) => \A j \in DOMAIN tasks \ {i} :
           Deletes(tasks[j]) \/ Pending(tasks[j]) => u.row /= tasks[j].row,
         Patient' => Patient /\ settled,
         Patient' => WorkKept(u) /\ (Deletes(u) => u.row \in rows),
         i \in DOMAIN tasks => ~Deleted(tasks[i])
  PROVE  PageInv'
<1>1. /\ DOMAIN tasks' = DOMAIN tasks \cup {i} /\ tasks'[i] = u
      /\ \A j \in DOMAIN tasks \ {i} : tasks'[j] = tasks[j]
  BY OneChanges
<1>2. PlaceTypes'
  BY DEF PageInv, PageTypes, PlaceTypes
<1>3. PageTypes'
  BY <1>2, PointsStep DEF PageInv
<1>4. SUFFICES ASSUME Patient' PROVE TasksKept' /\ DataKept'
  BY <1>3 DEF PageInv
<1>5. PageTypes /\ TasksKept /\ DataKept /\ settled /\ WorkKept(u) /\ (Deletes(u) => u.row \in rows)
  BY <1>4 DEF PageInv
<1>6. WorkKept(u)'
  BY <1>5 DEF WorkKept, Lists, Cached
<1>7. \A j \in DOMAIN tasks : WorkKept(tasks[j])
  BY <1>5 DEF TasksKept
<1>8. TasksKept'
  <2>1. \A f, s : Lists(f, s) => Lists(f, s)'
    BY DEF Lists
  <2>2. Cached(folderID) => Cached(folderID)'
    BY DEF Cached
  <2>3. \A j \in DOMAIN tasks \ {i} : Pending(tasks[j]) =>
           /\ tasks[j].row \in DOMAIN where' /\ where'[tasks[j].row] = where[tasks[j].row]
           /\ tasks[j].row \notin rows'
    BY <1>7 DEF WorkKept
  <2>4. \A j \in DOMAIN tasks \ {i} : Deletes(tasks[j]) =>
           \/ tasks[j].row \in rows'
           \/ tasks[j].row \notin cache'[folderID].ids
    BY <1>7 DEF WorkKept
  <2>5. \A j \in DOMAIN tasks \ {i} : Deleted(tasks[j]) => tasks[j].row \notin DOMAIN where'
    BY <1>7 DEF WorkKept
  <2>6. \A j \in DOMAIN tasks \ {i} :
           /\ Pending(u) /\ (Deletes(tasks[j]) \/ Pending(tasks[j])) => u.row /= tasks[j].row
           /\ Deletes(u) /\ Pending(tasks[j]) => u.row /= tasks[j].row
    BY <1>4, <1>5, <1>7 DEF WorkKept
  <2> QED BY <1>5, <1>6, <2>1, <2>2, <2>3, <2>4, <2>5, <2>6, WorkStep
<1>9. \A f \in DOMAIN cache' : CopyKept(f)'
  <2> TAKE f \in DOMAIN cache'
  <2>1. CopyKept(f)
    BY <1>5 DEF DataKept
  <2>2. \A j \in DOMAIN tasks : Deleted(tasks[j]) => Deleted(tasks'[j]) /\ tasks'[j] = tasks[j]
                                                     /\ j \in DOMAIN tasks'
    BY <1>1
  <2>3. \A id : (\E j \in DOMAIN tasks : Deleted(tasks[j]) /\ tasks[j].row = id) =>
                   \E j \in DOMAIN tasks' : Deleted(tasks'[j]) /\ tasks'[j].row = id
    BY <2>2
  <2> QED BY <2>1, <2>3 DEF CopyKept, Contents, Exists, Lists
<1> QED BY <1>5, <1>8, <1>9 DEF DataKept, Lists

\* A task that is not a load is at work only while the folder is shown.
LEMMA WorkSettled ==
  ASSUME PageInv, Patient, NEW i \in DOMAIN tasks, Busy(tasks[i]), ~Loads(tasks[i])
  PROVE  settled /\ TasksKept /\ DataKept /\ WorkKept(tasks[i])
BY DEF PageInv, TasksKept, WorkKept

\* A task ends, or an upload or a folder gets the key of the page.
LEMMA QuietEnds ==
  ASSUME TogetherInv, PageInv, NEW i \in DOMAIN tasks, Busy(tasks[i]), ~Loads(tasks[i]),
         ~Deleted(tasks[i]), Patient' = Patient, NEW u, tasks' = With(i, u),
         UNCHANGED <<where, under, last, folders, folderID, folderKey, settled, cache, rows,
                     finished, lost>>,
         \/ u.kind = "done"
         \/ u.kind = "upload" /\ u.at = "key"
         \/ u.kind \in {"upload", "folder"} /\ u.at = "send" /\ u.key = folderKey
  PROVE  PageInv'
<1>1. i \in 1..Len(tasks) + 1
  BY TaskNumbers
<1>2. Points(u) /\ ~Loads(u) /\ ~Pending(u) /\ ~Deleted(u) /\ ~Deletes(u)
  BY DEF Points, Loads, Pending, Deleted, Deletes
<1>3. Patient => settled /\ TasksKept
  BY WorkSettled
<1>4. Patient => WorkKept(u)
  BY <1>2, <1>3 DEF WorkKept, TasksKept, SettledKept
<1> QED BY <1>1, <1>2, <1>3, <1>4, QuietWork

\* An upload goes on after a chunk of it has failed.
LEMMA UploadBreaks ==
  ASSUME TogetherInv, PageInv, NEW i \in DOMAIN tasks, NEW t, t = tasks[i], t.kind = "upload",
         t.at = "chunks", Patient' = Patient, NEW u, tasks' = With(i, u),
         UNCHANGED <<where, under, last, folders, folderID, folderKey, settled, cache, rows,
                     finished, lost>>,
         u.kind = "upload" /\ u.at = "chunks" /\ u.row = t.row
  PROVE  PageInv'
<1>1. i \in 1..Len(tasks) + 1
  BY TaskNumbers
<1>2. Points(u) /\ ~Loads(u) /\ Pending(u) /\ ~Deleted(u) /\ ~Deletes(u)
  BY DEF Points, Loads, Pending, Deleted, Deletes
<1>3. Busy(t) /\ ~Loads(t) /\ Pending(t) /\ ~Deleted(t)
  BY DEF Busy, Loads, Pending, Deleted
<1>4. Patient => settled /\ TasksKept /\ WorkKept(t)
  BY <1>3, WorkSettled
<1>5. Patient => WorkKept(u)
  BY <1>2, <1>3, <1>4 DEF WorkKept
<1>6. ASSUME Patient PROVE \A j \in DOMAIN tasks \ {i} :
        Deletes(tasks[j]) \/ Pending(tasks[j]) => u.row /= tasks[j].row
  BY <1>3, <1>4, <1>6 DEF TasksKept, Apart
<1> QED BY <1>1, <1>2, <1>3, <1>4, <1>5, <1>6, QuietWork

\* What the user begins when a folder is shown.
LEMMA BeginKept ==
  ASSUME TogetherInv, PageInv, NEW u, Begin(u), UNCHANGED server,
         UNCHANGED <<folderID, folderKey, cache, rows>>, Points(u), ~Loads(u), ~Pending(u),
         u.at /= "send", ~Deleted(u), Deletes(u) => u.row \in rows,
         u.kind = "entry" => u.key = folderKey /\ u.folder = folderID
  PROVE  PageInv'
<1>1. PICK n : n = Len(tasks) + 1 /\ n \in 1..Len(tasks) + 1 /\ n \notin DOMAIN tasks
  BY TaskNumbers
<1>2. tasks' = With(n, u)
  BY <1>1 DEF Begin, With
<1>3. UNCHANGED <<where, under, last, folders, settled, finished, lost>>
  BY DEF Begin, server
<1>4. Patient' => Patient /\ settled
  BY DEF Begin, Patient
<1>5. Patient /\ settled => WorkKept(u)
  <2> SUFFICES ASSUME Patient, settled PROVE WorkKept(u)
    OBVIOUS
  <2>1. folderKey = folderID /\ Lists(folderID, rows)
    BY DEF PageInv, TasksKept, SettledKept, DataKept
  <2> QED BY <2>1 DEF WorkKept, Deletes, Lists
<1> QED BY <1>1, <1>2, <1>3, <1>4, <1>5, QuietWork

\* What a finished item does to the page, if the folder is cached.
LEMMA ShownData ==
  ASSUME NEW id \in Nat, Shown(id), Cached(folderID), CopyKept(folderID)
  PROVE  /\ rows' = rows \cup {id} /\ finished' = finished \cup {id}
         /\ DOMAIN cache' = DOMAIN cache
         /\ \A g \in DOMAIN cache \ {folderID} : cache'[g] = cache[g]
         /\ cache'[folderID] \in [of : Nat, ids : SUBSET Nat]
         /\ cache'[folderID].of = folderID
         /\ cache'[folderID].ids = cache[folderID].ids \cup {id}
<1> DEFINE c == cache[folderID]
           d == [c EXCEPT !.ids = c.ids \cup {id}]
<1>1. rows' = rows \cup {id} /\ finished' = finished \cup {id} /\ cache' = [cache EXCEPT ![folderID] = d]
  BY DEF Shown, add
<1>2. c \in [of : Nat, ids : SUBSET Nat] /\ c.of = folderID
  BY DEF CopyKept
<1>3. d \in [of : Nat, ids : SUBSET Nat] /\ d.of = folderID /\ d.ids = c.ids \cup {id}
  <2> HIDE DEF c
  <2> QED BY <1>2
<1> HIDE DEF d
<1> QED BY <1>1, <1>3 DEF Cached

\* The copies of the folders, when the tasks that have deleted something stay.
LEMMA DeletedStay ==
  ASSUME TogetherInv, NEW i \in 1..Len(tasks) + 1, NEW u, tasks' = With(i, u),
         i \in DOMAIN tasks => ~Deleted(tasks[i])
  PROVE  \A id : (\E j \in DOMAIN tasks : Deleted(tasks[j]) /\ tasks[j].row = id) =>
                    \E j \in DOMAIN tasks' : Deleted(tasks'[j]) /\ tasks'[j].row = id
<1>1. /\ DOMAIN tasks' = DOMAIN tasks \cup {i} /\ tasks'[i] = u
      /\ \A j \in DOMAIN tasks \ {i} : tasks'[j] = tasks[j]
  BY OneChanges
<1>2. \A j \in DOMAIN tasks : Deleted(tasks[j]) => Deleted(tasks'[j]) /\ tasks'[j] = tasks[j]
                                                   /\ j \in DOMAIN tasks'
  BY <1>1
<1> QED BY <1>2

\* The page is told of an item that is in the folder.
LEMMA ItemShown ==
  ASSUME TogetherInv, PageInv, NEW i \in DOMAIN tasks, Pending(tasks[i]), Shown(tasks[i].row),
         NEW u, tasks' = With(i, u), u.kind = "done" \/ (u.kind = "upload" /\ u.at = "key"),
         UNCHANGED <<where, under, last, folders, folderID, folderKey, settled, lost>>,
         Patient' = Patient
  PROVE  PageInv'
<1>1. PICK id : id = tasks[i].row
  OBVIOUS
<1>2. i \in 1..Len(tasks) + 1
  BY TaskNumbers
<1>3. /\ Points(u) /\ ~Loads(u) /\ ~Pending(u) /\ ~Deleted(u) /\ ~Deletes(u)
      /\ ~Deleted(tasks[i]) /\ Busy(tasks[i]) /\ ~Loads(tasks[i])
  BY DEF Points, Loads, Pending, Deleted, Deletes, Busy
<1>4. CASE ~Patient
  <2>1. DOMAIN cache' = DOMAIN cache
    BY DEF Shown, add
  <2>2. PlaceTypes'
    BY <2>1 DEF PageInv, PageTypes, PlaceTypes
  <2>3. PageTypes'
    BY <1>2, <1>3, <2>2, PointsStep DEF PageInv
  <2> QED BY <1>4, <2>3 DEF PageInv
<1>5. CASE Patient
  <2>1. settled /\ TasksKept /\ DataKept /\ WorkKept(tasks[i])
    BY <1>3, <1>5, WorkSettled
  <2>2. /\ id \in DOMAIN where /\ where[id] = folderID /\ id \notin rows
        /\ Cached(folderID) /\ CopyKept(folderID) /\ Lists(folderID, {id}) /\ id \in Nat
        /\ folderKey = folderID
    <3>1. id \in DOMAIN where /\ where[id] = folderID /\ id \notin rows
      BY <1>1, <2>1 DEF WorkKept
    <3>2. Cached(folderID) /\ CopyKept(folderID) /\ folderKey = folderID
      BY <2>1 DEF TasksKept, SettledKept, DataKept, Cached
    <3>3. Lists(folderID, {id}) /\ id \in Nat
      BY <2>1, <3>1 DEF DataKept, Lists, PageInv, PageTypes, PlaceTypes, TogetherInv
    <3> QED BY <3>1, <3>2, <3>3
  <2>3. /\ rows' = rows \cup {id} /\ finished' = finished \cup {id}
        /\ DOMAIN cache' = DOMAIN cache
        /\ \A g \in DOMAIN cache \ {folderID} : cache'[g] = cache[g]
        /\ cache'[folderID] \in [of : Nat, ids : SUBSET Nat]
        /\ cache'[folderID].of = folderID
        /\ cache'[folderID].ids = cache[folderID].ids \cup {id}
    BY <1>1, <2>2, ShownData
  <2>4. PlaceTypes'
    BY <2>2, <2>3 DEF PageInv, PageTypes, PlaceTypes, Lists
  <2>5. WorkKept(u)'
    BY <1>3, <2>1, <2>2 DEF WorkKept
  <2>6. TasksKept'
    <3>1. \A j \in DOMAIN tasks \ {i} :
             /\ Pending(tasks[j]) \/ Deletes(tasks[j]) => tasks[j].row /= id
             /\ WorkKept(tasks[j])
      BY <1>1, <2>1 DEF TasksKept, Apart
    <3>2. \A f, s : Lists(f, s) => Lists(f, s)'
      BY DEF Lists
    <3>3. Cached(folderID) => Cached(folderID)'
      BY <2>3 DEF Cached
    <3>4. \A j \in DOMAIN tasks \ {i} : Pending(tasks[j]) =>
             /\ tasks[j].row \in DOMAIN where' /\ where'[tasks[j].row] = where[tasks[j].row]
             /\ tasks[j].row \notin rows'
      BY <2>3, <3>1 DEF WorkKept
    <3>5. \A j \in DOMAIN tasks \ {i} : Deletes(tasks[j]) =>
             \/ tasks[j].row \in rows'
             \/ tasks[j].row \notin cache'[folderID].ids
      BY <2>3, <3>1 DEF WorkKept
    <3>6. \A j \in DOMAIN tasks \ {i} : Deleted(tasks[j]) => tasks[j].row \notin DOMAIN where'
      BY <3>1 DEF WorkKept
    <3> QED BY <1>2, <1>3, <2>1, <2>5, <3>2, <3>3, <3>4, <3>5, <3>6, WorkStep DEF PageInv
  <2>7. \A f \in DOMAIN cache' : CopyKept(f)'
    <3> TAKE f \in DOMAIN cache'
    <3>1. CopyKept(f)
      BY <2>1, <2>3 DEF DataKept
    <3>2. \A x : (\E j \in DOMAIN tasks : Deleted(tasks[j]) /\ tasks[j].row = x) =>
                    \E j \in DOMAIN tasks' : Deleted(tasks'[j]) /\ tasks'[j].row = x
      BY <1>2, <1>3, DeletedStay
    <3>3. CASE f = folderID
      BY <2>2, <2>3, <3>1, <3>2, <3>3 DEF CopyKept, Contents, Exists, Lists
    <3>4. CASE f /= folderID
      <4>1. cache'[f] = cache[f] /\ id \notin Contents(f)
        BY <2>2, <2>3, <3>4 DEF Contents
      <4> QED BY <2>3, <3>1, <3>2, <4>1 DEF CopyKept, Contents, Exists, Lists
    <3> QED BY <3>3, <3>4
  <2>8. DataKept'
    BY <2>1, <2>2, <2>3, <2>7 DEF DataKept, Lists
  <2>9. PageTypes'
    BY <1>2, <1>3, <2>4, PointsStep DEF PageInv
  <2> QED BY <2>6, <2>8, <2>9 DEF PageInv
<1> QED BY <1>4, <1>5

LEMMA MadeData ==
  ASSUME TogetherInv, PlaceTypes, NEW i, NEW u, NEW f, NEW k, Made(i, u, f, k)
  PROVE  /\ tasks' = With(i, u) /\ last \in Nat /\ last' = last + 1 /\ last + 1 \notin 1..last
         /\ f \in 0..last
         /\ DOMAIN where' = DOMAIN where \cup {last + 1} /\ where'[last + 1] = f
         /\ \A id \in DOMAIN where : where'[id] = where[id] /\ id /= last + 1
         /\ DOMAIN under' = DOMAIN under \cup {last + 1} /\ under'[last + 1] = k
         /\ \A id \in DOMAIN under : under'[id] = under[id] /\ id /= last + 1
<1>1. /\ last \in Nat /\ last' = last + 1 /\ tasks' = With(i, u) /\ Exists(f)
      /\ where' = [id \in DOMAIN where \cup {last + 1} |-> IF id = last + 1 THEN f ELSE where[id]]
      /\ under' = [id \in 1..last + 1 |-> IF id = last + 1 THEN k ELSE under[id]]
  BY DEF TogetherInv, Made
<1>2. DOMAIN where \subseteq 1..last /\ DOMAIN under = 1..last
  BY DEF PlaceTypes
<1>3. last + 1 \notin 1..last /\ 1..last + 1 = 1..last \cup {last + 1}
  BY <1>1
<1>4. f \in 0..last
  BY <1>1, <1>2 DEF Exists, Root
<1>5. /\ DOMAIN where' = DOMAIN where \cup {last + 1} /\ where'[last + 1] = f
      /\ \A id \in DOMAIN where : where'[id] = where[id] /\ id /= last + 1
  BY <1>1, <1>2, <1>3
<1>6. /\ DOMAIN under' = DOMAIN under \cup {last + 1} /\ under'[last + 1] = k
      /\ \A id \in DOMAIN under : under'[id] = under[id] /\ id /= last + 1
  BY <1>1, <1>2, <1>3
<1> QED BY <1>1, <1>3, <1>4, <1>5, <1>6

\* The server makes an item, in the folder that the page is in and with its
\* key. The page is told of it later, or at once.
LEMMA ItemMade ==
  ASSUME TogetherInv, PageInv, NEW i \in DOMAIN tasks, Busy(tasks[i]), ~Loads(tasks[i]),
         ~Deleted(tasks[i]), NEW u, NEW f, NEW k, Made(i, u, f, k),
         Patient => f = folderID /\ k = folderID, Points(u),
         UNCHANGED <<folderID, folderKey, settled, lost>>, Patient' = Patient,
         \/ folders' = folders
         \/ folders' = folders \cup {last + 1},
         \/ Pending(u) /\ u.row = last + 1 /\ UNCHANGED <<rows, cache, finished>>
         \/ u.kind = "done" /\ Shown(last + 1)
  PROVE  PageInv'
<1>1. PICK n : n = last + 1
  OBVIOUS
<1>2. i \in 1..Len(tasks) + 1
  BY TaskNumbers
<1>3. /\ tasks' = With(i, u) /\ last \in Nat /\ last' = n /\ n = last + 1 /\ n \notin 1..last
      /\ f \in 0..last
      /\ DOMAIN where' = DOMAIN where \cup {n} /\ where'[n] = f
      /\ \A id \in DOMAIN where : where'[id] = where[id] /\ id /= n
      /\ DOMAIN under' = DOMAIN under \cup {n} /\ under'[n] = k
      /\ \A id \in DOMAIN under : under'[id] = under[id] /\ id /= n
  BY <1>1, MadeData DEF PageInv, PageTypes
<1>4. 1..n = 1..last \cup {n} /\ 0..last \subseteq 0..n /\ n \in Nat
  BY <1>3
<1>5. DOMAIN cache' = DOMAIN cache
  BY DEF Shown, add
<1>6. PlaceTypes'
  <2>0. PlaceTypes
    BY DEF PageInv, PageTypes
  <2>1. DOMAIN where' \subseteq 1..last' /\ DOMAIN under' = 1..last'
    BY <1>3, <1>4, <2>0 DEF PlaceTypes
  <2>2. \A id \in DOMAIN where' : where'[id] \in 0..last' /\ where'[id] < id
    <3> TAKE id \in DOMAIN where'
    <3>1. CASE id = n
      BY <1>3, <3>1
    <3>2. CASE id \in DOMAIN where
      BY <1>3, <1>4, <2>0, <3>2 DEF PlaceTypes
    <3> QED BY <1>3, <3>1, <3>2
  <2>3. folders' \subseteq 1..last' /\ folderID' \in 0..last' /\ DOMAIN cache' \subseteq 0..last'
    BY <1>1, <1>3, <1>4, <1>5, <2>0 DEF PlaceTypes
  <2> QED BY <2>1, <2>2, <2>3 DEF PlaceTypes
<1>7. ~Loads(u) /\ ~Deletes(u) /\ ~Deleted(u)
  BY DEF Pending, Loads, Deletes, Deleted
<1>8. PageTypes'
  BY <1>2, <1>3, <1>6, PointsStep DEF PageInv
<1>9. SUFFICES ASSUME Patient PROVE TasksKept' /\ DataKept'
  BY <1>8 DEF PageInv
<1>10. settled /\ TasksKept /\ DataKept /\ f = folderID /\ k = folderID
  BY <1>9, WorkSettled
<1>11. Cached(folderID) /\ folderKey = folderID /\ folderID \in DOMAIN cache /\ CopyKept(folderID)
  BY <1>10 DEF TasksKept, SettledKept, DataKept, Cached
<1>12. /\ DOMAIN where \subseteq 1..last /\ DOMAIN under = 1..last
       /\ \A id \in DOMAIN where : under[id] = where[id]
       /\ finished \subseteq 1..last /\ Lists(folderID, rows)
       /\ folderID \in 0..last /\ DOMAIN cache \subseteq 0..last
  BY <1>10 DEF PageInv, PageTypes, PlaceTypes, DataKept
<1>13. \A g, s : Lists(g, s) => Lists(g, s)'
  BY <1>3, <1>4, <1>12 DEF Lists
<1>14. Lists(folderID, {n})'
  BY <1>3, <1>4, <1>10 DEF Lists
<1>15. /\ rows' \in {rows, rows \cup {n}} /\ finished' \in {finished, finished \cup {n}}
       /\ \A g \in DOMAIN cache \ {folderID} : cache'[g] = cache[g]
       /\ cache'[folderID] \in [of : Nat, ids : SUBSET Nat]
       /\ cache'[folderID].of = folderID
       /\ cache'[folderID].ids \in {cache[folderID].ids, cache[folderID].ids \cup {n}}
       /\ n \in finished' => n \in cache'[folderID].ids
       /\ Pending(u) => rows' = rows
  <2>1. CASE u.kind = "done" /\ Shown(last + 1)
    <3>1. /\ rows' = rows \cup {n} /\ finished' = finished \cup {n}
          /\ DOMAIN cache' = DOMAIN cache
          /\ \A g \in DOMAIN cache \ {folderID} : cache'[g] = cache[g]
          /\ cache'[folderID] \in [of : Nat, ids : SUBSET Nat]
          /\ cache'[folderID].of = folderID
          /\ cache'[folderID].ids = cache[folderID].ids \cup {n}
      BY <1>1, <1>4, <1>11, <2>1, ShownData
    <3>2. ~Pending(u)
      BY <2>1 DEF Pending
    <3> QED BY <3>1, <3>2
  <2>2. CASE UNCHANGED <<rows, cache, finished>>
    BY <1>3, <1>11, <1>12, <2>2 DEF CopyKept
  <2> QED BY <2>1, <2>2
<1>16. TasksKept'
  <2>1. \A j \in DOMAIN tasks \ {i} : WorkKept(tasks[j])
    BY <1>10 DEF TasksKept
  <2>2. Cached(folderID) => Cached(folderID)'
    BY <1>5 DEF Cached
  <2>3. \A j \in DOMAIN tasks \ {i} : Pending(tasks[j]) =>
           /\ tasks[j].row \in DOMAIN where' /\ where'[tasks[j].row] = where[tasks[j].row]
           /\ tasks[j].row \notin rows' /\ tasks[j].row /= n
    BY <1>3, <1>15, <2>1 DEF WorkKept
  <2>4. \A j \in DOMAIN tasks \ {i} : Deletes(tasks[j]) =>
           /\ tasks[j].row /= n
           /\ \/ tasks[j].row \in rows'
              \/ tasks[j].row \notin cache'[folderID].ids
    BY <1>3, <1>15, <2>1 DEF WorkKept, Lists
  <2>5. \A j \in DOMAIN tasks \ {i} : Deleted(tasks[j]) => tasks[j].row \notin DOMAIN where'
    BY <1>3, <2>1, <2>4 DEF WorkKept, Deleted, Deletes
  <2>6. Pending(u) => u.row = n /\ n \notin rows'
    BY <1>1, <1>3, <1>12, <1>15 DEF Lists, Pending
  <2>7. WorkKept(u)'
    BY <1>3, <1>7, <1>10, <2>6, <1>11 DEF WorkKept, Pending
  <2>8. \A j \in DOMAIN tasks \ {i} :
           /\ Pending(u) /\ (Deletes(tasks[j]) \/ Pending(tasks[j])) => u.row /= tasks[j].row
           /\ Deletes(u) /\ Pending(tasks[j]) => u.row /= tasks[j].row
    BY <1>7, <2>3, <2>4, <2>6
  <2> QED BY <1>2, <1>3, <1>7, <1>10, <1>13, <2>2, <2>3, <2>4, <2>5, <2>7, <2>8, WorkStep DEF PageInv
<1>17. \A g \in DOMAIN cache' : CopyKept(g)'
  <2> TAKE g \in DOMAIN cache'
  <2>1. CopyKept(g) /\ g \in 0..last
    BY <1>5, <1>10, <1>12 DEF DataKept
  <2>2. \A x : (\E j \in DOMAIN tasks : Deleted(tasks[j]) /\ tasks[j].row = x) =>
                  \E j \in DOMAIN tasks' : Deleted(tasks'[j]) /\ tasks'[j].row = x
    BY <1>2, <1>3, DeletedStay
  <2>3. Exists(g)' => Exists(g)
    BY <1>3, <2>1 DEF Exists
  <2>4. CASE g = folderID
    <3>1. Contents(g)' = Contents(g) \cup {n} /\ n \notin finished
      BY <1>3, <1>10, <1>12, <2>4 DEF Contents
    <3>2. PICK s : s = cache[g].ids
      OBVIOUS
    <3>3. Lists(g, s)' /\ Lists(g, {n})'
      BY <1>13, <1>14, <2>1, <2>4, <3>2 DEF CopyKept
    <3>6. Lists(g, cache[g].ids)'
      BY <1>15, <2>4, <3>2, <3>3 DEF Lists
    <3>4. Contents(g)' \cap finished' \subseteq cache'[g].ids
      BY <1>15, <2>1, <2>4, <3>1 DEF CopyKept
    <3>5. Exists(g)' => \A id \in cache'[g].ids :
             \/ id \in DOMAIN where' \/ id \in lost'
             \/ \E j \in DOMAIN tasks' : Deleted(tasks'[j]) /\ tasks'[j].row = id
      BY <1>3, <1>15, <2>1, <2>2, <2>3, <2>4 DEF CopyKept
    <3> QED BY <1>15, <2>4, <3>4, <3>5, <3>6 DEF CopyKept
  <2>5. CASE g /= folderID
    <3>1. Contents(g)' = Contents(g) /\ n \notin Contents(g) /\ cache'[g] = cache[g]
      BY <1>3, <1>5, <1>10, <1>15, <2>5 DEF Contents
    <3>2. Lists(g, cache[g].ids)'
      <4>1. PICK s : s = cache[g].ids
        OBVIOUS
      <4>2. Lists(g, s)'
        BY <1>13, <2>1, <4>1 DEF CopyKept
      <4> QED BY <3>1, <4>1, <4>2
    <3> QED BY <1>3, <1>15, <2>1, <2>2, <2>3, <3>1, <3>2 DEF CopyKept
  <2> QED BY <2>4, <2>5
<1>18. DataKept'
  <2>1. \A id \in DOMAIN where' : under'[id] = where'[id]
    BY <1>3, <1>10, <1>12
  <2>3. \A id \in 1..last' : under'[id] < id
    <3> TAKE id \in 1..last'
    <3>1. CASE id = n
      BY <1>3, <1>10, <1>12, <3>1
    <3>2. CASE id \in 1..last
      BY <1>3, <1>10, <1>12, <3>2 DEF DataKept
    <3> QED BY <1>3, <1>4, <3>1, <3>2
  <2>2. Lists(folderID, rows)' /\ finished' \subseteq 1..last'
    BY <1>3, <1>4, <1>12, <1>13, <1>14, <1>15 DEF Lists
  <2> QED BY <1>17, <2>1, <2>2, <2>3 DEF DataKept
<1> QED BY <1>16, <1>18

\* What is below an item is in it or below it, and younger.
LEMMA BelowIsIn ==
  ASSUME NEW id, NEW x \in Below(id), x /= id
  PROVE  where[x] \in Below(id) \cup {id}
<1> DEFINE D == DOMAIN where
           Closed(s) == id \in s /\ (\A y \in D : where[y] \in s => y \in s)
<1>1. /\ \A y : y \in Below(id) <=> y \in D /\ \A s \in SUBSET (D \cup {id}) : Closed(s) => y \in s
  BY DEF Below
<1>2. SUFFICES ASSUME where[x] \notin Below(id), where[x] /= id
               PROVE  \E s \in SUBSET (D \cup {id}) : Closed(s) /\ x \notin s
  BY <1>1
<1>3. CASE where[x] \notin D
  <2> DEFINE s == (D \cup {id}) \ {x}
  <2>1. s \in SUBSET (D \cup {id}) /\ Closed(s) /\ x \notin s
    BY <1>2, <1>3
  <2> QED BY <2>1
<1>4. CASE where[x] \in D
  <2>1. PICK r \in SUBSET (D \cup {id}) : Closed(r) /\ where[x] \notin r
    BY <1>1, <1>2, <1>4
  <2> DEFINE s == r \ {x}
  <2>2. s \in SUBSET (D \cup {id}) /\ Closed(s) /\ x \notin s
    BY <2>1
  <2> QED BY <2>2
<1> QED BY <1>3, <1>4

LEMMA BelowIsYounger ==
  ASSUME PlaceTypes, last \in Nat, NEW id \in Nat
  PROVE  /\ Below(id) \subseteq DOMAIN where
         /\ \A x \in Below(id) : x >= id
         /\ id \in DOMAIN where => id \in Below(id)
<1> DEFINE D == DOMAIN where
           s == {y \in D \cup {id} : y >= id}
<1>1. /\ D \subseteq Nat /\ \A y \in D : where[y] \in Nat /\ where[y] < y
  BY DEF PlaceTypes
<1>2. /\ s \in SUBSET (D \cup {id}) /\ id \in s
      /\ \A y \in D : where[y] \in s => y \in s
  BY <1>1
<1>3. \A x \in Below(id) : x \in s
  BY <1>2 DEF Below
<1> QED BY <1>3 DEF Below

\* The server deletes an item, or not; the page may learn of it.
LEMMA ItemDeleted ==
  ASSUME TogetherInv, PageInv, NEW i \in DOMAIN tasks, NEW id, id = tasks[i].row,
         Deletes(tasks[i]), ~Deleted(tasks[i]), NEW u, tasks' = With(i, u),
         \/ where' = where
         \/ where' = [x \in DOMAIN where \ Below(id) |-> where[x]],
         \/ u.kind = "done" /\ (where' = where \/ id \in lost')
         \/ /\ u.kind = "delete" /\ u.at = "answer" /\ u.row = id
            /\ id \in DOMAIN where /\ where' = [x \in DOMAIN where \ Below(id) |-> where[x]],
         lost \subseteq lost', Patient' = Patient,
         UNCHANGED <<under, last, folders, folderID, folderKey, settled, cache, rows, finished>>
  PROVE  PageInv'
<1>1. i \in 1..Len(tasks) + 1 /\ last \in Nat
  BY TaskNumbers DEF TogetherInv
<1>2. /\ DOMAIN tasks' = DOMAIN tasks \cup {i} /\ tasks'[i] = u
      /\ \A j \in DOMAIN tasks \ {i} : tasks'[j] = tasks[j]
  BY <1>1, OneChanges
<1>3. PlaceTypes /\ DOMAIN where' \subseteq DOMAIN where
  BY DEF PageInv, PageTypes
<1>4. \A x \in DOMAIN where' : where'[x] = where[x]
  OBVIOUS
<1>5. PlaceTypes'
  BY <1>3, <1>4 DEF PlaceTypes
<1>6. Points(u) /\ ~Loads(u) /\ ~Pending(u) /\ Busy(tasks[i]) /\ ~Loads(tasks[i])
  BY DEF Points, Loads, Pending, Deletes, Busy
<1>7. PageTypes'
  BY <1>1, <1>5, <1>6, PointsStep DEF PageInv
<1>8. SUFFICES ASSUME Patient PROVE TasksKept' /\ DataKept'
  BY <1>7 DEF PageInv
<1>9. settled /\ TasksKept /\ DataKept /\ WorkKept(tasks[i])
  BY <1>6, <1>8, WorkSettled
<1>10. /\ Lists(folderID, {id}) /\ id \in 1..last /\ folderID < id /\ folderID \in Nat
       /\ id \in rows \/ (Cached(folderID) /\ id \notin cache[folderID].ids)
  <2>1. /\ Lists(folderID, {id})
        /\ id \in rows \/ (Cached(folderID) /\ id \notin cache[folderID].ids)
    BY <1>9 DEF WorkKept
  <2>2. id \in 1..last /\ under[id] = folderID /\ folderID \in 0..last
    BY <1>3, <2>1 DEF Lists, PlaceTypes
  <2>3. folderID < id
    BY <1>9, <2>2 DEF DataKept
  <2> QED BY <1>1, <2>1, <2>2, <2>3
<1>11. /\ Below(id) \subseteq DOMAIN where
       /\ \A x \in Below(id) : x >= id
       /\ id \in DOMAIN where => id \in Below(id)
  BY <1>1, <1>3, <1>10, BelowIsYounger
<1>12. \A x \in Below(id) : x /= id => where[x] \in Below(id) \cup {id}
  BY BelowIsIn
<1>13. \A f, s : Lists(f, s) => Lists(f, s)'
  BY DEF Lists
<1>14. TasksKept'
  <2>1. \A j \in DOMAIN tasks \ {i} : WorkKept(tasks[j]) /\ (Pending(tasks[j]) => tasks[j].row /= id)
    BY <1>9 DEF TasksKept, Apart
  <2>2. ASSUME NEW j \in DOMAIN tasks \ {i}, Pending(tasks[j])
        PROVE  /\ tasks[j].row \in DOMAIN where' /\ where'[tasks[j].row] = where[tasks[j].row]
               /\ tasks[j].row \notin rows'
    <3>1. /\ tasks[j].row \in DOMAIN where /\ where[tasks[j].row] = folderID
          /\ tasks[j].row \notin rows /\ tasks[j].row /= id
      BY <2>1, <2>2 DEF WorkKept
    <3>2. folderID \notin Below(id) \cup {id}
      BY <1>10, <1>11
    <3>3. tasks[j].row \notin Below(id)
      BY <1>12, <3>1, <3>2
    <3> QED BY <3>1, <3>3
  <2>3. \A j \in DOMAIN tasks \ {i} : Deletes(tasks[j]) =>
           \/ tasks[j].row \in rows'
           \/ tasks[j].row \notin cache'[folderID].ids
    BY <2>1 DEF WorkKept
  <2>4. \A j \in DOMAIN tasks \ {i} : Deleted(tasks[j]) => tasks[j].row \notin DOMAIN where'
    BY <1>3, <2>1 DEF WorkKept
  <2>5. Deletes(u) => u.row = id
    BY DEF Deletes
  <2>6. Deletes(u) => id \notin DOMAIN where'
    BY <1>11 DEF Deletes
  <2>7. WorkKept(u)'
    <3>1. u.kind \in {"done", "delete"}
      OBVIOUS
    <3>2. Lists(folderID, {id})' /\ (id \in rows' \/ (Cached(folderID)' /\ id \notin cache'[folderID].ids))
      BY <1>10 DEF Lists, Cached
    <3>3. Deletes(u) => /\ Lists(folderID, {u.row})'
                        /\ u.row \in rows' \/ (Cached(folderID)' /\ u.row \notin cache'[folderID].ids)
      <4>1. CASE u.kind = "delete"
        <5>1. u.row = id
          BY <2>5, <4>1 DEF Deletes
        <5> QED BY <3>2, <5>1
      <4>2. CASE u.kind /= "delete"
        BY <4>2 DEF Deletes
      <4> QED BY <4>1, <4>2
    <3>4. Deleted(u) => u.row \notin DOMAIN where'
      BY <2>5, <2>6 DEF Deleted, Deletes
    <3> QED BY <1>6, <1>9, <3>1, <3>3, <3>4 DEF WorkKept, Busy
  <2>8. Cached(folderID) => Cached(folderID)'
    BY DEF Cached
  <2>9. \A j \in DOMAIN tasks \ {i} :
           /\ Pending(u) /\ (Deletes(tasks[j]) \/ Pending(tasks[j])) => u.row /= tasks[j].row
           /\ Deletes(u) /\ Pending(tasks[j]) => u.row /= tasks[j].row
    BY <1>6, <2>1, <2>5
  <2>10. \A j \in DOMAIN tasks \ {i} : Pending(tasks[j]) =>
           /\ tasks[j].row \in DOMAIN where' /\ where'[tasks[j].row] = where[tasks[j].row]
           /\ tasks[j].row \notin rows'
    BY <2>2
  <2> QED BY <1>1, <1>6, <1>9, <1>13, <2>3, <2>4, <2>7, <2>8, <2>9, <2>10, WorkStep DEF PageInv
<1>15. ASSUME NEW f \in DOMAIN cache' PROVE CopyKept(f)'
  <2>1. CopyKept(f) /\ f \in 0..last
    BY <1>3, <1>9 DEF DataKept, PlaceTypes
  <2>2. \A x : (\E j \in DOMAIN tasks : Deleted(tasks[j]) /\ tasks[j].row = x) =>
                  \E j \in DOMAIN tasks' : Deleted(tasks'[j]) /\ tasks'[j].row = x
    BY <1>1, DeletedStay
  <2>3. ASSUME Exists(f)', NEW x \in cache[f].ids, x \in DOMAIN where, x \notin DOMAIN where'
        PROVE  x = id
    <3>1. SUFFICES ASSUME x /= id PROVE FALSE
      OBVIOUS
    <3>2. x \in Below(id) /\ where[x] = f
      BY <1>9, <2>1, <2>3 DEF CopyKept, Lists, DataKept
    <3>3. f \in Below(id) \cup {id} /\ where' = [y \in DOMAIN where \ Below(id) |-> where[y]]
      BY <1>12, <2>3, <3>1, <3>2
    <3>4. f \in DOMAIN where \ Below(id)
      BY <1>10, <1>11, <2>3, <3>3 DEF Exists, Root
    <3> QED BY <1>11, <3>3, <3>4
  <2>4. ASSUME id \in DOMAIN where, id \notin DOMAIN where'
        PROVE  \/ id \in lost'
               \/ \E j \in DOMAIN tasks' : Deleted(tasks'[j]) /\ tasks'[j].row = id
    <3>1. CASE u.kind = "done"
      BY <2>4, <3>1
    <3>2. CASE u.kind = "delete" /\ u.at = "answer" /\ u.row = id
      BY <1>2, <3>2 DEF Deleted
    <3> QED BY <3>1, <3>2
  <2>5. ASSUME Exists(f)', NEW x \in cache'[f].ids
        PROVE  \/ x \in DOMAIN where' \/ x \in lost'
               \/ \E j \in DOMAIN tasks' : Deleted(tasks'[j]) /\ tasks'[j].row = x
    <3>1. Exists(f) /\ x \in cache[f].ids
      BY <1>3, <2>5 DEF Exists
    <3>2. CASE x \in DOMAIN where
      BY <2>3, <2>4, <2>5, <3>1, <3>2
    <3>3. CASE x \notin DOMAIN where
      BY <2>1, <2>2, <3>1, <3>3 DEF CopyKept
    <3> QED BY <3>2, <3>3
  <2>6. Contents(f)' \subseteq Contents(f)
    BY <1>3, <1>4 DEF Contents
  <2> QED BY <2>1, <2>5, <2>6 DEF CopyKept, Lists
<1>16. DataKept'
  BY <1>3, <1>4, <1>9, <1>15 DEF DataKept, Lists
<1> QED BY <1>14, <1>16

\* The page learns that the item is deleted, and removes its row and its copy.
LEMMA HandledKept ==
  ASSUME TogetherInv, PageInv, NEW i \in DOMAIN tasks, DeleteHandled(i)
  PROVE  PageInv'
<1>1. PICK id : id = tasks[i].row
  OBVIOUS
<1>2. /\ UNCHANGED <<where, under, last, folders, folderID, folderKey, settled, finished, lost>>
      /\ Patient' = Patient /\ tasks' = With(i, Done)
      /\ IF Cached(folderID) /\ id \in rows
         THEN rows' = rows \ {id} /\ cache' = removeFromCache(id)
         ELSE UNCHANGED <<rows, cache>>
  BY <1>1 DEF DeleteHandled, server, history, Patient, Ends
<1>3. i \in 1..Len(tasks) + 1
  BY TaskNumbers
<1>4. /\ DOMAIN tasks' = DOMAIN tasks \cup {i} /\ tasks'[i] = Done
      /\ \A j \in DOMAIN tasks \ {i} : tasks'[j] = tasks[j]
  BY <1>2, <1>3, OneChanges
<1>5. Deletes(tasks[i]) /\ Deleted(tasks[i]) /\ Busy(tasks[i]) /\ ~Loads(tasks[i])
  BY DEF DeleteHandled, At, Deletes, Deleted, Busy, Loads
<1>6. /\ Done.kind = "done" /\ Points(Done) /\ ~Loads(Done) /\ ~Pending(Done) /\ ~Deletes(Done)
      /\ ~Busy(Done) /\ ~Deleted(Done)
  BY DoneTask DEF Points, Loads, Pending, Deletes, Deleted, Busy
<1>7. DOMAIN cache' = DOMAIN cache
  BY <1>2 DEF removeFromCache
<1>8. PlaceTypes'
  BY <1>2, <1>7 DEF PageInv, PageTypes, PlaceTypes
<1>9. PageTypes'
  BY <1>2, <1>3, <1>6, <1>8, PointsStep DEF PageInv
<1>10. SUFFICES ASSUME Patient PROVE TasksKept' /\ DataKept'
  BY <1>2, <1>9 DEF PageInv
<1>11. settled /\ TasksKept /\ DataKept /\ WorkKept(tasks[i])
  BY <1>5, <1>10, WorkSettled
<1>12. /\ Lists(folderID, {id}) /\ Cached(folderID) /\ CopyKept(folderID) /\ folderKey = folderID
       /\ id \in rows \/ id \notin cache[folderID].ids
       /\ id \notin DOMAIN where
  BY <1>1, <1>5, <1>11 DEF WorkKept, TasksKept, SettledKept, DataKept, Cached
<1>13. /\ \A g \in DOMAIN cache \ {folderID} : cache'[g] = cache[g]
       /\ cache'[folderID] \in [of : Nat, ids : SUBSET Nat]
       /\ cache'[folderID].of = folderID
       /\ cache'[folderID].ids = cache[folderID].ids \ {id}
       /\ rows' \in {rows, rows \ {id}}
  <2>1. CASE id \in rows
    <3> DEFINE c == cache[folderID]
               d == [c EXCEPT !.ids = c.ids \ {id}]
    <3>1. rows' = rows \ {id} /\ cache' = [cache EXCEPT ![folderID] = d]
      BY <1>2, <1>12, <2>1 DEF removeFromCache
    <3>2. c \in [of : Nat, ids : SUBSET Nat] /\ c.of = folderID
      BY <1>12 DEF CopyKept
    <3>3. d \in [of : Nat, ids : SUBSET Nat] /\ d.of = folderID /\ d.ids = c.ids \ {id}
      <4> HIDE DEF c
      <4> QED BY <3>2
    <3> HIDE DEF d
    <3> QED BY <1>12, <3>1, <3>3 DEF Cached
  <2>2. CASE id \notin rows
    BY <1>2, <1>12, <2>2 DEF CopyKept
  <2> QED BY <2>1, <2>2
<1>14. TasksKept'
  <2>1. \A j \in DOMAIN tasks \ {i} : WorkKept(tasks[j])
    BY <1>11 DEF TasksKept
  <2>2. \A f, s : Lists(f, s) => Lists(f, s)'
    BY <1>2 DEF Lists
  <2>3. Cached(folderID) => Cached(folderID)'
    BY <1>2, <1>7 DEF Cached
  <2>4. \A j \in DOMAIN tasks \ {i} : Pending(tasks[j]) =>
           /\ tasks[j].row \in DOMAIN where' /\ where'[tasks[j].row] = where[tasks[j].row]
           /\ tasks[j].row \notin rows'
    BY <1>2, <1>13, <2>1 DEF WorkKept
  <2>5. \A j \in DOMAIN tasks \ {i} : Deletes(tasks[j]) =>
           \/ tasks[j].row \in rows'
           \/ tasks[j].row \notin cache'[folderID].ids
    BY <1>13, <2>1 DEF WorkKept
  <2>6. \A j \in DOMAIN tasks \ {i} : Deleted(tasks[j]) => tasks[j].row \notin DOMAIN where'
    BY <1>2, <2>1 DEF WorkKept
  <2>7. WorkKept(Done)'
    BY <1>6 DEF WorkKept
  <2> QED BY <1>2, <1>3, <1>6, <1>11, <2>2, <2>3, <2>4, <2>5, <2>6, <2>7, WorkStep DEF PageInv
<1>15. ASSUME NEW f \in DOMAIN cache' PROVE CopyKept(f)'
  <2>1. CopyKept(f)
    BY <1>7, <1>11, <1>15 DEF DataKept
  <2>2. id \notin cache'[f].ids
    <3>1. id \in cache[f].ids => f = folderID
      BY <1>12, <2>1 DEF CopyKept, Lists
    <3> QED BY <1>7, <1>13, <1>15, <3>1
  <2>3. /\ cache'[f].ids \subseteq cache[f].ids /\ cache[f].ids \subseteq cache'[f].ids \cup {id}
        /\ cache'[f].of = f /\ cache'[f] \in [of : Nat, ids : SUBSET Nat]
    BY <1>7, <1>13, <1>15, <2>1 DEF CopyKept
  <2>4. ASSUME NEW x \in cache'[f].ids, NEW j \in DOMAIN tasks,
               Deleted(tasks[j]), tasks[j].row = x
        PROVE  \E k \in DOMAIN tasks' : Deleted(tasks'[k]) /\ tasks'[k].row = x
    BY <1>1, <1>4, <2>2, <2>4
  <2>5. ASSUME Exists(f)', NEW x \in cache'[f].ids
        PROVE  \/ x \in DOMAIN where' \/ x \in lost'
               \/ \E j \in DOMAIN tasks' : Deleted(tasks'[j]) /\ tasks'[j].row = x
    <3>1. Exists(f) /\ x \in cache[f].ids
      BY <1>2, <2>3, <2>5 DEF Exists
    <3>2. \/ x \in DOMAIN where \/ x \in lost
          \/ \E j \in DOMAIN tasks : Deleted(tasks[j]) /\ tasks[j].row = x
      BY <2>1, <3>1 DEF CopyKept
    <3> QED BY <1>2, <2>4, <3>2
  <2>6. Contents(f)' \cap finished' \subseteq cache'[f].ids
    BY <1>2, <1>12, <2>1, <2>3 DEF CopyKept, Contents
  <2> QED BY <1>2, <2>1, <2>3, <2>5, <2>6 DEF CopyKept, Lists
<1>16. DataKept'
  BY <1>2, <1>11, <1>13, <1>15 DEF DataKept, Lists
<1> QED BY <1>14, <1>16

-----------------------------------------------------------------------------
(* The steps again. *)

LEMMA UploadKept ==
  ASSUME TogetherInv, PageInv, NEW i \in DOMAIN tasks,
         UploadEncrypts(i) \/ UploadSends(i) \/ UploadFinishes(i) \/ UploadFails(i)
  PROVE  PageInv'
<1>1. PICK t : t = tasks[i]
  OBVIOUS
<1>2. /\ UNCHANGED <<folders, folderID, folderKey, settled, lost>> /\ Patient' = Patient
  BY DEF UploadEncrypts, UploadSends, UploadFinishes, UploadFails, server, page, history, Patient
<1>3. Shape(t) /\ t.kind = "upload"
  BY <1>1, ShapeOf DEF UploadEncrypts, UploadSends, UploadFinishes, UploadFails, At
<1>4. Busy(tasks[i]) /\ ~Loads(tasks[i]) /\ ~Deleted(tasks[i])
  BY <1>1, <1>3 DEF Busy, Loads, Deleted
<1>5. CASE UploadEncrypts(i)
  <2>1. PICK u : u = [t EXCEPT !.at = "send", !.key = folderKey]
    OBVIOUS
  <2>2. u.kind = "upload" /\ u.at = "send" /\ u.key = folderKey
    BY <1>3, <2>1, Zenon DEF Shape, Fields
  <2>3. tasks' = With(i, u) /\ UNCHANGED <<where, under, last, cache, rows, finished>>
    BY <1>1, <1>5, <2>1 DEF UploadEncrypts, server, page, history
  <2> QED BY <1>2, <1>4, <2>2, <2>3, QuietEnds
<1>6. CASE UploadSends(i)
  <2>1. PICK u : u = [t EXCEPT !.at = "chunks", !.row = last + 1]
    OBVIOUS
  <2>2. UNCHANGED <<cache, rows, finished>>
    BY <1>6 DEF UploadSends, history
  <2>3. CASE Made(i, u, folderID, t.key)
    <3>1. u.kind = "upload" /\ u.at = "chunks" /\ u.row = last + 1
      BY <1>3, <2>1, Zenon DEF Shape, Fields
    <3>2. Points(u) /\ Pending(u)
      BY <3>1 DEF Points, Pending
    <3>3. Patient => t.key = folderID
      <4> SUFFICES ASSUME Patient PROVE t.key = folderID
        OBVIOUS
      <4>1. WorkKept(tasks[i])
        BY <1>4, WorkSettled
      <4> QED BY <1>1, <1>3, <1>6, <4>1 DEF WorkKept, UploadSends, At
    <3>4. PICK k, f : k = t.key /\ f = folderID
      OBVIOUS
    <3> QED BY <1>2, <1>4, <2>2, <2>3, <3>1, <3>2, <3>3, <3>4, ItemMade
  <2>4. CASE Ends(i) /\ UNCHANGED <<where, under, last>>
    BY <1>2, <1>4, <2>2, <2>4, DoneTask, QuietEnds DEF Ends
  <2> QED BY <1>1, <1>6, <2>1, <2>3, <2>4 DEF UploadSends
<1>7. CASE UploadFinishes(i)
  <2>1. /\ Shown(tasks[i].row) /\ UNCHANGED <<where, under, last>>
        /\ tasks' = With(i, IF GoesOn(t) THEN [t EXCEPT !.at = "key", !.left = @ - 1, !.row = None]
                            ELSE Done)
    BY <1>1, <1>7 DEF UploadFinishes, GoesOn, server
  <2>2. Pending(tasks[i])
    BY <1>7 DEF UploadFinishes, At, Pending
  <2>3. PICK u : u = IF GoesOn(t) THEN [t EXCEPT !.at = "key", !.left = @ - 1, !.row = None]
                     ELSE Done
    OBVIOUS
  <2>4. u.kind = "done" \/ (u.kind = "upload" /\ u.at = "key")
    <3>1. CASE GoesOn(t)
      <4>1. u = [t EXCEPT !.at = "key", !.left = @ - 1, !.row = None]
        BY <2>3, <3>1
      <4> QED BY <1>3, <4>1, Zenon DEF Shape, Fields
    <3>2. CASE ~GoesOn(t)
      BY <2>3, <3>2, DoneTask
    <3> QED BY <3>1, <3>2
  <2> QED BY <1>2, <2>1, <2>2, <2>3, <2>4, ItemShown
<1>8. CASE UploadFails(i)
  <2>1. UNCHANGED <<where, under, last, cache, rows, finished>>
    BY <1>8 DEF UploadFails, server, history
  <2>2. CASE Ends(i)
    BY <1>2, <1>4, <2>1, <2>2, DoneTask, QuietEnds DEF Ends
  <2>3. CASE tasks' = With(i, [t EXCEPT !.broken = TRUE])
    <3>1. PICK u : u = [t EXCEPT !.broken = TRUE]
      OBVIOUS
    <3>2. u.kind = "upload" /\ u.at = t.at /\ u.row = t.row /\ u.key = t.key /\ u.of = t.of
      BY <1>3, <3>1, Zenon DEF Shape, Fields
    <3>3. t.at = "chunks"
      BY <1>1, <1>8 DEF UploadFails, At
    <3> QED BY <1>1, <1>2, <1>3, <2>1, <2>3, <3>1, <3>2, <3>3, UploadBreaks
  <2> QED BY <1>1, <1>8, <2>2, <2>3 DEF UploadFails
<1> QED BY <1>5, <1>6, <1>7, <1>8

LEMMA ProgressKept ==
  ASSUME PageInv, NEW i, UploadProgresses(i)
  PROVE  PageInv'
<1>1. /\ UNCHANGED <<where, under, last, folders, folderID, folderKey, settled, cache, rows,
                     finished, lost, tasks>>
      /\ Patient' = Patient
  BY DEF UploadProgresses, server, history, Patient
<1>2. PageTypes'
  BY <1>1 DEF PageInv, PageTypes, PlaceTypes
<1>3. \A t : (LoadKept(t) => LoadKept(t)') /\ (WorkKept(t) => WorkKept(t)')
  BY <1>1 DEF LoadKept, WorkKept, Lists, Cached, Contents
<1>4. TasksKept => TasksKept'
  BY <1>1, <1>3 DEF TasksKept, SettledKept, Cached, Apart
<1>5. DataKept => DataKept'
  BY <1>1 DEF DataKept, CopyKept, Lists, Contents, Exists
<1> QED BY <1>1, <1>2, <1>4, <1>5 DEF PageInv

LEMMA OtherMovesKept ==
  ASSUME TogetherInv, PageInv, NEW i \in DOMAIN tasks,
         DownloadEnds(i) \/ DeleteServed(i) \/ DeleteHandled(i)
  PROVE  PageInv'
<1>1. CASE DownloadEnds(i)
  <2>1. /\ UNCHANGED <<where, under, last, folders, folderID, folderKey, settled, cache, rows,
                       finished, lost>>
        /\ Patient' = Patient /\ tasks' = With(i, Done)
    BY <1>1 DEF DownloadEnds, server, history, Patient, Ends
  <2>2. Busy(tasks[i]) /\ ~Loads(tasks[i]) /\ ~Deleted(tasks[i])
    BY <1>1 DEF DownloadEnds, At, Busy, Loads, Deleted
  <2> QED BY <2>1, <2>2, DoneTask, QuietEnds
<1>2. CASE DeleteServed(i)
  <2>1. PICK t, id : t = tasks[i] /\ id = t.row
    OBVIOUS
  <2>2. Shape(t) /\ t.kind = "delete" /\ t.at = "request"
    BY <1>2, <2>1, ShapeOf DEF DeleteServed, At
  <2>3. Deletes(tasks[i]) /\ ~Deleted(tasks[i])
    BY <2>1, <2>2 DEF Deletes, Deleted
  <2>4. /\ UNCHANGED <<under, last, folders, folderID, folderKey, settled, cache, rows, finished>>
        /\ Patient' = Patient /\ lost \subseteq lost'
    BY <1>2 DEF DeleteServed, Patient
  <2>5. PICK u : u = [t EXCEPT !.at = "answer"]
    OBVIOUS
  <2>6. u.kind = "delete" /\ u.at = "answer" /\ u.row = id
    BY <2>1, <2>2, <2>5, Zenon DEF Shape, Fields
  <2>7. CASE /\ id \in DOMAIN where /\ where' = [x \in DOMAIN where \ Below(id) |-> where[x]]
             /\ tasks' = With(i, u)
    BY <2>1, <2>3, <2>4, <2>6, <2>7, ItemDeleted
  <2>8. CASE /\ tasks' = With(i, Done)
             /\ \/ where' = where
                \/ where' = [x \in DOMAIN where \ Below(id) |-> where[x]] /\ id \in lost'
    <3>1. PICK d : d = Done
      OBVIOUS
    <3>2. tasks' = With(i, d) /\ d.kind = "done"
      BY <2>8, <3>1, DoneTask
    <3> QED BY <2>1, <2>3, <2>4, <2>8, <3>2, ItemDeleted
  <2> QED BY <1>2, <2>1, <2>5, <2>7, <2>8 DEF DeleteServed, Ends
<1> QED BY <1>1, <1>2, HandledKept

LEMMA DialogKept ==
  ASSUME TogetherInv, PageInv, NEW i \in DOMAIN tasks,
         SubmitEntry(i) \/ uploadPassword(i) \/ FolderEncrypts(i) \/ FolderSends(i)
  PROVE  PageInv'
<1>1. PICK t : t = tasks[i]
  OBVIOUS
<1>2. /\ UNCHANGED <<folderID, folderKey, settled, lost>> /\ Patient' = Patient
  BY DEF SubmitEntry, uploadPassword, FolderEncrypts, FolderSends, page, history, Patient
<1>3. Shape(t) /\ t.kind \in {"entry", "folder"}
  BY <1>1, ShapeOf DEF SubmitEntry, uploadPassword, FolderEncrypts, FolderSends, At
<1>4. Busy(tasks[i]) /\ ~Loads(tasks[i]) /\ ~Deleted(tasks[i])
  BY <1>1, <1>3 DEF Busy, Loads, Deleted
<1>5. CASE Ends(i) /\ UNCHANGED <<where, under, last, folders, cache, rows, finished>>
  BY <1>2, <1>4, <1>5, DoneTask, QuietEnds DEF Ends
<1>6. CASE SubmitEntry(i)
  <2>1. PICK u : u = [t EXCEPT !.at = "answer", !.row = last + 1]
    OBVIOUS
  <2>2. UNCHANGED <<folders, cache, rows, finished>>
    BY <1>6 DEF SubmitEntry, page, history
  <2>3. CASE Made(i, u, t.folder, t.key)
    <3>1. t.kind = "entry" /\ t.at = "dialog"
      BY <1>1, <1>6 DEF SubmitEntry, At
    <3>2. u.kind = "entry" /\ u.at = "answer" /\ u.row = last + 1
      BY <1>3, <2>1, <3>1, Zenon DEF Shape, Fields
    <3>3. Points(u) /\ Pending(u)
      BY <3>2 DEF Points, Pending
    <3>4. Patient => t.folder = folderID /\ t.key = folderID
      <4> SUFFICES ASSUME Patient PROVE t.folder = folderID /\ t.key = folderID
        OBVIOUS
      <4>1. WorkKept(tasks[i])
        BY <1>4, WorkSettled
      <4> QED BY <1>1, <3>1, <4>1 DEF WorkKept
    <3> QED BY <1>2, <1>4, <2>2, <2>3, <3>2, <3>3, <3>4, ItemMade
  <2> QED BY <1>1, <1>5, <1>6, <2>1, <2>2, <2>3 DEF SubmitEntry
<1>7. CASE uploadPassword(i)
  <2>1. Shown(tasks[i].row) /\ UNCHANGED <<where, under, last, folders>> /\ tasks' = With(i, Done)
    BY <1>7 DEF uploadPassword, server, Ends
  <2>2. Pending(tasks[i])
    BY <1>7 DEF uploadPassword, At, Pending
  <2>3. PICK d : d = Done
    OBVIOUS
  <2>4. tasks' = With(i, d) /\ d.kind = "done"
    BY <2>1, <2>3, DoneTask
  <2> QED BY <1>2, <2>1, <2>2, <2>4, ItemShown
<1>8. CASE FolderEncrypts(i)
  <2>1. PICK u : u = [t EXCEPT !.at = "send", !.key = folderKey]
    OBVIOUS
  <2>2. UNCHANGED <<where, under, last, folders, cache, rows, finished>>
    BY <1>8 DEF FolderEncrypts, server, page, history
  <2>3. CASE tasks' = With(i, u)
    <3>1. t.kind = "folder"
      BY <1>1, <1>8 DEF FolderEncrypts, At
    <3>2. u.kind = "folder" /\ u.at = "send" /\ u.key = folderKey
      BY <1>3, <2>1, <3>1, Zenon DEF Shape, Fields
    <3> QED BY <1>2, <1>4, <2>2, <2>3, <3>2, QuietEnds
  <2> QED BY <1>1, <1>5, <1>8, <2>1, <2>2, <2>3 DEF FolderEncrypts
<1>9. CASE FolderSends(i)
  <2>1. CASE /\ Made(i, Done, folderID, t.key) /\ folders' = folders \cup {last + 1}
             /\ Shown(last + 1)
    <3>1. t.kind = "folder" /\ t.at = "send"
      BY <1>1, <1>9 DEF FolderSends, At
    <3>2. Patient => t.key = folderID
      <4> SUFFICES ASSUME Patient PROVE t.key = folderID
        OBVIOUS
      <4>1. WorkKept(tasks[i])
        BY <1>4, WorkSettled
      <4> QED BY <1>1, <3>1, <4>1 DEF WorkKept
    <3>3. PICK d : d = Done
      OBVIOUS
    <3>4. d.kind = "done" /\ Points(d) /\ Made(i, d, folderID, t.key)
      BY <2>1, <3>3, DoneTask DEF Points
    <3>5. PICK f : f = folderID
      OBVIOUS
    <3> QED BY <1>2, <1>4, <2>1, <3>2, <3>4, <3>5, ItemMade
  <2> QED BY <1>1, <1>5, <1>9, <2>1 DEF FolderSends, server
<1> QED BY <1>6, <1>7, <1>8, <1>9

LEMMA UserKept ==
  ASSUME TogetherInv, PageInv,
         \/ \E n \in 1..MaxFiles : uploadUserSelectedFiles(n)
         \/ \E id \in rows : downloadFile(id) \/ deleteVaultContent(id)
         \/ newPassword \/ newFolder
  PROVE  PageInv'
<1>1. \A k, a : Shape(Task(k, a)) /\ Task(k, a).kind = k /\ Task(k, a).at = a
  BY NewTasks
<1>2. ASSUME NEW n, uploadUserSelectedFiles(n) PROVE PageInv'
  <2>1. PICK u : u = [Task("upload", "key") EXCEPT !.folder = folderID, !.left = n]
    OBVIOUS
  <2>2. u.kind = "upload" /\ u.at = "key"
    BY <1>1, <2>1, Zenon DEF Shape, Fields
  <2>3. Begin(u) /\ UNCHANGED server /\ UNCHANGED <<folderID, folderKey, cache, rows>>
    BY <1>2, <2>1 DEF uploadUserSelectedFiles
  <2> QED BY <2>2, <2>3, BeginKept DEF Points, Loads, Pending, Deletes, Deleted
<1>3. ASSUME NEW id, downloadFile(id) PROVE PageInv'
  <2>1. PICK u : u = [Task("download", "run") EXCEPT !.row = id]
    OBVIOUS
  <2>2. u.kind = "download" /\ u.at = "run"
    BY <1>1, <2>1, Zenon DEF Shape, Fields
  <2>3. Begin(u) /\ UNCHANGED server /\ UNCHANGED <<folderID, folderKey, cache, rows>>
    BY <1>3, <2>1 DEF downloadFile
  <2> QED BY <2>2, <2>3, BeginKept DEF Points, Loads, Pending, Deletes, Deleted
<1>4. ASSUME NEW id, deleteVaultContent(id) PROVE PageInv'
  <2>1. PICK u : u = [Task("delete", "request") EXCEPT !.row = id]
    OBVIOUS
  <2>2. u.kind = "delete" /\ u.at = "request" /\ u.row = id
    BY <1>1, <2>1, Zenon DEF Shape, Fields
  <2>3. Begin(u) /\ UNCHANGED server /\ UNCHANGED <<folderID, folderKey, cache, rows>> /\ id \in rows
    BY <1>4, <2>1 DEF deleteVaultContent
  <2> QED BY <2>2, <2>3, BeginKept DEF Points, Loads, Pending, Deletes, Deleted
<1>5. CASE newPassword
  <2>1. PICK u : u = [Task("entry", "dialog") EXCEPT !.folder = folderID, !.key = folderKey]
    OBVIOUS
  <2>2. u.kind = "entry" /\ u.at = "dialog" /\ u.folder = folderID /\ u.key = folderKey
    BY <1>1, <2>1, Zenon DEF Shape, Fields
  <2>3. Begin(u) /\ UNCHANGED server /\ UNCHANGED <<folderID, folderKey, cache, rows>>
    BY <1>5, <2>1 DEF newPassword, page
  <2> QED BY <2>2, <2>3, BeginKept DEF Points, Loads, Pending, Deletes, Deleted
<1>6. CASE newFolder
  <2>1. PICK u : u = Task("folder", "dialog")
    OBVIOUS
  <2>2. u.kind = "folder" /\ u.at = "dialog"
    BY <1>1, <2>1
  <2>3. Begin(u) /\ UNCHANGED server /\ UNCHANGED <<folderID, folderKey, cache, rows>>
    BY <1>6, <2>1 DEF newFolder, page
  <2> QED BY <2>2, <2>3, BeginKept DEF Points, Loads, Pending, Deletes, Deleted
<1> QED BY <1>2, <1>3, <1>4, <1>5, <1>6

LEMMA PageNext == TogetherInv /\ PageInv /\ [Next]_vars => PageInv'
<1> SUFFICES ASSUME TogetherInv, PageInv, [Next]_vars PROVE PageInv'
  OBVIOUS
<1>1. PlaceTypes /\ last \in Nat
  BY DEF PageInv, PageTypes, TogetherInv
<1>2. ASSUME NEW f \in Places, clickFolder(f) PROVE PageInv'
  <2>1. f \in 0..last
    BY <1>1, <1>2 DEF Places, Root, PlaceTypes
  <2> QED BY <1>2, <2>1, OpenKept DEF clickFolder
<1>3. ASSUME NEW id, loadFile(id) PROVE PageInv'
  <2>1. PICK f : f = folderID
    OBVIOUS
  <2>2. f \in 0..last /\ loadFolder(f)
    BY <1>1, <1>3, <2>1 DEF PlaceTypes, loadFile
  <2> QED BY <2>2, OpenKept
<1>4. CASE UNCHANGED vars
  <2>1. /\ UNCHANGED <<where, under, last, folders, folderID, folderKey, settled, cache, rows,
                       finished, lost, tasks>>
        /\ Patient' = Patient
    BY <1>4 DEF vars, server, page, history, Patient
  <2>2. PageTypes'
    BY <2>1 DEF PageInv, PageTypes, PlaceTypes
  <2>3. \A t : (LoadKept(t) => LoadKept(t)') /\ (WorkKept(t) => WorkKept(t)')
    BY <2>1 DEF LoadKept, WorkKept, Lists, Cached, Contents
  <2>4. TasksKept => TasksKept'
    BY <2>1, <2>3 DEF TasksKept, SettledKept, Cached, Apart
  <2>5. DataKept => DataKept'
    BY <2>1 DEF DataKept, CopyKept, Lists, Contents, Exists
  <2> QED BY <2>1, <2>2, <2>4, <2>5 DEF PageInv
<1>5. ASSUME NEW i \in DOMAIN tasks,
             \/ FetchServed(i) \/ FetchAnswered(i) \/ KeysUnwound(i) \/ RowDecrypted(i)
      PROVE  PageInv'
  BY <1>5, ServedKept, AnsweredKept, UnwoundKept, DecryptedKept
<1> QED BY <1>2, <1>3, <1>4, <1>5, UserKept, UploadKept, ProgressKept, OtherMovesKept, DialogKept
        DEF Next

LEMMA PageAlways == Spec => [](TogetherInv /\ PageInv)
BY TogetherInit, TogetherNext, PageInit, PageNext, PTL DEF Spec

\* Whatever a patient user does, what the page puts into a folder opens with the
\* key of that folder: the user begins nothing before a folder is shown, and
\* by then folderKey has been set from the answer for the folder of folderID,
\* and neither changes while anything runs.
THEOREM PageUsesFolderKey == Spec => []UploadsOpen
<1>1. PageInv => UploadsOpen
  BY DEF PageInv, DataKept, UploadsOpen
<1> QED BY <1>1, PageAlways, PTL

\* The copy of a folder in the page's cache is of that folder, with all that
\* the page was told it has put there, and with nothing that is gone, but for
\* deletions whose answer is on its way or was lost.
THEOREM PageCacheIsCurrent == Spec => []CacheIsCurrent
<1>1. PageInv => CacheIsCurrent
  <2> SUFFICES ASSUME PageInv, Patient, NEW f \in DOMAIN cache, Exists(f)
               PROVE  /\ cache[f].of = f
                      /\ Contents(f) \cap finished \subseteq cache[f].ids
                      /\ cache[f].ids \subseteq Contents(f) \cup lost \cup
                           {tasks[i].row : i \in {j \in DOMAIN tasks : tasks[j].kind = "delete"}}
    BY DEF CacheIsCurrent
  <2>1. CopyKept(f) /\ \A id \in DOMAIN where : under[id] = where[id]
    BY DEF PageInv, DataKept
  <2>2. ASSUME NEW id \in cache[f].ids, id \in DOMAIN where PROVE id \in Contents(f)
    BY <2>1, <2>2 DEF CopyKept, Lists, Contents
  <2> QED BY <2>1, <2>2 DEF CopyKept, Deleted
<1> QED BY <1>1, PageAlways, PTL

-----------------------------------------------------------------------------
(* The page of the command line, from here on. First, sorting.             *)

\* What is listed before what is an order, in which two items may be alike.
LEMMA BeforeIsAnOrder ==
  ASSUME NEW x \in Item, NEW y \in Item, NEW z \in Item
  PROVE  /\ ~Before(x, x)
         /\ Before(x, y) => ~Before(y, x)
         /\ Before(x, y) /\ Before(y, z) => Before(x, z)
         /\ Before(x, y) => Before(x, z) \/ Before(z, y)
<1>1. x.at \in Int /\ y.at \in Int /\ z.at \in Int
  BY DEF Item
<1>2. PICK a, b, c : a = x.at /\ b = y.at /\ c = z.at
  OBVIOUS
<1>3. PICK p, q, r : /\ p = (x.id \in Folders) /\ q = (y.id \in Folders) /\ r = (z.id \in Folders)
  OBVIOUS
<1>4. a \in Int /\ b \in Int /\ c \in Int /\ p \in BOOLEAN /\ q \in BOOLEAN /\ r \in BOOLEAN
  BY <1>1, <1>2, <1>3
<1>5. /\ Before(x, x) <=> IF p = p THEN a > a ELSE p
      /\ Before(x, y) <=> IF p = q THEN a > b ELSE p
      /\ Before(y, x) <=> IF q = p THEN b > a ELSE q
      /\ Before(y, z) <=> IF q = r THEN b > c ELSE q
      /\ Before(x, z) <=> IF p = r THEN a > c ELSE p
      /\ Before(z, y) <=> IF r = q THEN c > b ELSE r
  BY <1>2, <1>3 DEF Before
<1> QED BY <1>4, <1>5

\* Whichever way two positions are taken, one of them precedes the other.
LEMMA PrecedesIsAnOrder ==
  ASSUME NEW s, NEW of, of \subseteq Int, \A n \in of : s[n] \in Item
  PROVE  /\ \A n \in of : Precedes(s, n, n)
         /\ \A m, n \in of : Precedes(s, m, n) \/ Precedes(s, n, m)
         /\ \A m, n \in of : Precedes(s, m, n) /\ Precedes(s, n, m) => m = n
         /\ \A l, m, n \in of : Precedes(s, l, m) /\ Precedes(s, m, n) => Precedes(s, l, n)
<1>1. \A n \in of : Precedes(s, n, n)
  BY BeforeIsAnOrder DEF Precedes
<1>2. ASSUME NEW m \in of, NEW n \in of PROVE Precedes(s, m, n) \/ Precedes(s, n, m)
  BY BeforeIsAnOrder DEF Precedes
<1>3. ASSUME NEW m \in of, NEW n \in of, Precedes(s, m, n), Precedes(s, n, m) PROVE m = n
  BY <1>3, BeforeIsAnOrder DEF Precedes
<1>4. ASSUME NEW l \in of, NEW m \in of, NEW n \in of, Precedes(s, l, m), Precedes(s, m, n)
      PROVE  Precedes(s, l, n)
  <2>1. s[l] \in Item /\ s[m] \in Item /\ s[n] \in Item
    OBVIOUS
  <2>2. CASE Before(s[l], s[m])
    BY <1>4, <2>1, <2>2, BeforeIsAnOrder DEF Precedes
  <2>3. CASE l <= m /\ ~Before(s[m], s[l])
    BY <1>4, <2>1, <2>3, BeforeIsAnOrder DEF Precedes
  <2> QED BY <1>4, <2>2, <2>3 DEF Precedes
<1> QED BY <1>1, <1>2, <1>3, <1>4

\* Every position has a place of its own, and every place is some position's.
LEMMA PlacesAreTaken ==
  ASSUME NEW s, NEW of, of \subseteq Int, IsFiniteSet(of), \A n \in of : s[n] \in Item
  PROVE  /\ Cardinality(of) \in Nat
         /\ \A n \in of : PlaceOf(s, of, n) \in 1..Cardinality(of)
         /\ \A m, n \in of : m /= n /\ Precedes(s, m, n) => PlaceOf(s, of, m) < PlaceOf(s, of, n)
         /\ \A k \in 1..Cardinality(of) : \E n \in of : PlaceOf(s, of, n) = k
<1> DEFINE N == Cardinality(of)
           Upto(n) == {m \in of : Precedes(s, m, n)}
           place == [n \in of |-> PlaceOf(s, of, n)]
<1>1. N \in Nat
  BY FS_CardinalityType
<1>2. ASSUME NEW n \in of
      PROVE  /\ IsFiniteSet(Upto(n)) /\ Cardinality(Upto(n)) \in 1..N
             /\ PlaceOf(s, of, n) = Cardinality(Upto(n))
  <2>1. Upto(n) \subseteq of /\ n \in Upto(n)
    BY PrecedesIsAnOrder
  <2>2. IsFiniteSet(Upto(n)) /\ Cardinality(Upto(n)) <= N
    BY <2>1, FS_Subset
  <2>3. Cardinality(Upto(n)) \in Nat /\ Cardinality(Upto(n)) /= 0
    BY <2>1, <2>2, FS_CardinalityType, FS_EmptySet
  <2> QED BY <1>1, <2>2, <2>3 DEF PlaceOf
<1>10. \A n \in of : PlaceOf(s, of, n) \in 1..N
  BY <1>2
<1>11. \A n \in of : PlaceOf(s, of, n) \in Int
  BY <1>1, <1>10
<1>3. ASSUME NEW m \in of, NEW n \in of, m /= n, Precedes(s, m, n)
      PROVE  PlaceOf(s, of, m) < PlaceOf(s, of, n)
  <2>1. Upto(m) \subseteq Upto(n) /\ n \in Upto(n) /\ n \notin Upto(m)
    BY <1>3, PrecedesIsAnOrder
  <2>2. Cardinality(Upto(m)) <= Cardinality(Upto(n)) /\ Cardinality(Upto(m)) /= Cardinality(Upto(n))
    BY <1>2, <2>1, FS_Subset
  <2> QED BY <1>1, <1>2, <2>2
<1>4. place \in [of -> 1..N]
  BY <1>2
<1>5. \A m, n \in of : place[m] = place[n] => m = n
  <2> SUFFICES ASSUME NEW m \in of, NEW n \in of, m /= n
               PROVE  PlaceOf(s, of, m) /= PlaceOf(s, of, n)
    OBVIOUS
  <2>2. Precedes(s, m, n) \/ Precedes(s, n, m)
    BY PrecedesIsAnOrder
  <2> QED BY <1>3, <1>11, <2>2
<1>6. IsFiniteSet(1..N) /\ Cardinality(1..N) = N
  BY <1>1, FS_Interval
<1>7. place \in Injection(of, 1..N)
  BY <1>4, <1>5 DEF Injection, IsInjective
<1>8. place \in Surjection(of, 1..N)
  BY <1>6, <1>7, FS_Injection
<1>9. \A k \in 1..N : \E n \in of : place[n] = k
  BY <1>8 DEF Surjection
<1> QED BY <1>1, <1>2, <1>3, <1>9

\* A list in another order.
Reorders(p, of, N) ==
  /\ p \in [1..N -> of]
  /\ \A k, l \in 1..N : p[k] = p[l] => k = l
  /\ \A n \in of : \E k \in 1..N : p[k] = n

\* Sorting reorders the elements, so that each precedes those that come after it.
LEMMA SortedIsReordered ==
  ASSUME NEW s, NEW of, of \subseteq Int, IsFiniteSet(of), \A n \in of : s[n] \in Item
  PROVE  /\ Cardinality(of) \in Nat
         /\ SortedPart(s, of) \in Seq(Item) /\ Len(SortedPart(s, of)) = Cardinality(of)
         /\ DOMAIN SortedPart(s, of) = 1..Cardinality(of)
         /\ \E p : /\ Reorders(p, of, Cardinality(of))
                   /\ \A k \in 1..Cardinality(of) : SortedPart(s, of)[k] = s[p[k]]
                   /\ \A k, l \in 1..Cardinality(of) : k <= l => Precedes(s, p[k], p[l])
<1> DEFINE N == Cardinality(of)
           PlaceIn(k) == CHOOSE n \in of : PlaceOf(s, of, n) = k
           p == [k \in 1..N |-> PlaceIn(k)]
<1>1. N \in Nat
  BY FS_CardinalityType
<1>2. \A k \in 1..N : PlaceIn(k) \in of /\ PlaceOf(s, of, PlaceIn(k)) = k
  BY PlacesAreTaken
<1>3. \A m, n \in of : PlaceOf(s, of, m) = PlaceOf(s, of, n) => m = n
  <2> SUFFICES ASSUME NEW m \in of, NEW n \in of, m /= n
               PROVE  PlaceOf(s, of, m) /= PlaceOf(s, of, n)
    OBVIOUS
  <2>1. \A k \in of : PlaceOf(s, of, k) \in 1..N
    BY PlacesAreTaken
  <2>2. \A k \in of : PlaceOf(s, of, k) \in Int
    BY <1>1, <2>1
  <2>3. Precedes(s, m, n) \/ Precedes(s, n, m)
    BY PrecedesIsAnOrder
  <2>4. \A k, l \in of : k /= l /\ Precedes(s, k, l) => PlaceOf(s, of, k) < PlaceOf(s, of, l)
    BY PlacesAreTaken
  <2>5. PlaceOf(s, of, m) < PlaceOf(s, of, n) \/ PlaceOf(s, of, n) < PlaceOf(s, of, m)
    BY <2>3, <2>4
  <2> QED BY <2>2, <2>5
<1>4. p \in [1..N -> of]
  BY <1>2
<1>5. \A k, l \in 1..N : p[k] = p[l] => k = l
  BY <1>2
<1>6. \A n \in of : \E k \in 1..N : p[k] = n
  <2> TAKE n \in of
  <2>1. PlaceOf(s, of, n) \in 1..N
    BY PlacesAreTaken
  <2> QED BY <1>2, <1>3, <2>1
<1>8. SortedPart(s, of) = [k \in 1..N |-> s[p[k]]]
  BY DEF SortedPart
<1>14. \A k \in 1..N : PlaceOf(s, of, p[k]) = k
  BY <1>2
<1> HIDE DEF p
<1>7. \A k, l \in 1..N : k <= l => Precedes(s, p[k], p[l])
  <2> SUFFICES ASSUME NEW k \in 1..N, NEW l \in 1..N, k <= l, ~Precedes(s, p[k], p[l]) PROVE FALSE
    OBVIOUS
  <2>1. p[k] \in of /\ p[l] \in of
    BY <1>4
  <2>2. Precedes(s, p[l], p[k]) /\ p[l] /= p[k]
    BY <2>1, PrecedesIsAnOrder
  <2>3. PlaceOf(s, of, p[l]) < PlaceOf(s, of, p[k])
    BY <2>1, <2>2, PlacesAreTaken
  <2> QED BY <1>1, <1>14, <2>3
<1>9. \A k \in 1..N : s[p[k]] \in Item
  BY <1>4
<1>10. SortedPart(s, of) \in [1..N -> Item]
  BY <1>8, <1>9
<1>11. SortedPart(s, of) \in Seq(Item) /\ Len(SortedPart(s, of)) = N
  BY <1>1, <1>10
<1>12. DOMAIN SortedPart(s, of) = 1..N
  BY <1>8
<1>13. Reorders(p, of, N)
  BY <1>4, <1>5, <1>6 DEF Reorders
<1> QED BY <1>1, <1>7, <1>8, <1>11, <1>12, <1>13

LEMMA Interval ==
  ASSUME NEW n \in Nat
  PROVE  IsFiniteSet(1..n) /\ Cardinality(1..n) = n /\ 1..n \subseteq Int
<1>1. IsFiniteSet(1..n) /\ Cardinality(1..n) = IF 1 > n THEN 0 ELSE n - 1 + 1
  BY FS_Interval
<1> QED BY <1>1

LEMMA SortedList ==
  ASSUME NEW s \in Seq(Item)
  PROVE  /\ Sorted(s) \in Seq(Item) /\ Len(Sorted(s)) = Len(s)
         /\ \E p : /\ Reorders(p, 1..Len(s), Len(s))
                   /\ \A k \in 1..Len(s) : Sorted(s)[k] = s[p[k]]
                   /\ \A k, l \in 1..Len(s) : k <= l => Precedes(s, p[k], p[l])
<1>1. PICK N \in Nat : N = Len(s)
  OBVIOUS
<1>2. DOMAIN s = 1..N /\ \A n \in 1..N : s[n] \in Item
  BY <1>1
<1>3. IsFiniteSet(1..N) /\ Cardinality(1..N) = N /\ 1..N \subseteq Int
  BY Interval
<1>4. PICK D : D = 1..N
  OBVIOUS
<1>5. D \subseteq Int /\ IsFiniteSet(D) /\ \A n \in D : s[n] \in Item
  BY <1>2, <1>3, <1>4
<1>6. /\ SortedPart(s, D) \in Seq(Item) /\ Len(SortedPart(s, D)) = Cardinality(D)
      /\ \E p : /\ Reorders(p, D, Cardinality(D))
                /\ \A k \in 1..Cardinality(D) : SortedPart(s, D)[k] = s[p[k]]
                /\ \A k, l \in 1..Cardinality(D) : k <= l => Precedes(s, p[k], p[l])
  BY <1>5, SortedIsReordered
<1>7. Cardinality(D) = N /\ Sorted(s) = SortedPart(s, D)
  BY <1>2, <1>3, <1>4 DEF Sorted
<1> QED BY <1>1, <1>4, <1>6, <1>7

\* A list that is sorted is not changed by sorting it again.
LEMMA SortedStays ==
  ASSUME NEW s \in Seq(Item)
  PROVE  /\ Sorted(s) \in Seq(Item) /\ Len(Sorted(s)) = Len(s)
         /\ Sorted(Sorted(s)) = Sorted(s)
<1>1. PICK N \in Nat : N = Len(s)
  OBVIOUS
<1>2. IsFiniteSet(1..N) /\ Cardinality(1..N) = N
  BY Interval
<1>3. PICK p : /\ Reorders(p, 1..N, N)
               /\ \A k \in 1..N : Sorted(s)[k] = s[p[k]]
               /\ \A k, l \in 1..N : k <= l => Precedes(s, p[k], p[l])
  BY <1>1, SortedList
<1>4. PICK t : t = Sorted(s)
  OBVIOUS
<1>5. t \in Seq(Item) /\ Len(t) = N
  BY <1>1, <1>4, SortedList
<1>6. DOMAIN t = 1..N /\ \A k \in 1..N : t[k] = s[p[k]] /\ t[k] \in Item
  BY <1>3, <1>4, <1>5
<1>7. ASSUME NEW k \in 1..N, NEW l \in 1..N PROVE Precedes(t, k, l) <=> k <= l
  <2>1. p[k] \in 1..N /\ p[l] \in 1..N
    BY <1>3 DEF Reorders
  <2>2. t[k] \in Item /\ t[l] \in Item
    BY <1>6
  <2>3. CASE k <= l
    <3>1. Precedes(s, p[k], p[l])
      BY <1>3, <2>3
    <3>2. Before(t[k], t[l]) \/ ~Before(t[l], t[k])
      BY <1>6, <3>1 DEF Precedes
    <3>3. ~Before(t[l], t[k])
      BY <2>2, <3>2, BeforeIsAnOrder
    <3> QED BY <2>3, <3>3 DEF Precedes
  <2>4. CASE ~(k <= l)
    <3>1. Precedes(s, p[l], p[k])
      BY <1>1, <1>3, <2>4
    <3>2. Before(t[l], t[k]) \/ ~Before(t[k], t[l])
      BY <1>6, <3>1 DEF Precedes
    <3>3. ~Before(t[k], t[l])
      BY <2>2, <3>2, BeforeIsAnOrder
    <3> QED BY <2>4, <3>3 DEF Precedes
  <2> QED BY <2>3, <2>4
<1>8. ASSUME NEW n \in 1..N PROVE PlaceOf(t, 1..N, n) = n
  <2>1. {m \in 1..N : Precedes(t, m, n)} = 1..n
    BY <1>1, <1>7
  <2>2. Cardinality(1..n) = n
    BY <1>1, FS_Interval
  <2> QED BY <2>1, <2>2 DEF PlaceOf
<1>9. \A k \in 1..N : (CHOOSE n \in 1..N : PlaceOf(t, 1..N, n) = k) = k
  <2> TAKE k \in 1..N
  <2>1. \A n \in 1..N : PlaceOf(t, 1..N, n) = k <=> n = k
    BY <1>8
  <2>2. \E n \in 1..N : PlaceOf(t, 1..N, n) = k
    BY <1>8
  <2> DEFINE c == CHOOSE n \in 1..N : PlaceOf(t, 1..N, n) = k
  <2>3. c \in 1..N /\ PlaceOf(t, 1..N, c) = k
    BY <2>2
  <2> QED BY <2>1, <2>3
<1>10. Sorted(t) = [k \in 1..N |-> t[CHOOSE n \in 1..N : PlaceOf(t, 1..N, n) = k]]
  BY <1>2, <1>6 DEF Sorted, SortedPart
<1>11. Sorted(t) = [k \in 1..N |-> t[k]]
  BY <1>9, <1>10
<1>12. t = [k \in 1..N |-> t[k]]
  BY <1>5
<1> QED BY <1>1, <1>4, <1>5, <1>11, <1>12

\* What is found among the items is some of them.
LEMMA FoundAre ==
  ASSUME NEW s \in Seq(Item), NEW of \in SUBSET DOMAIN s
  PROVE  /\ SortedPart(s, of) \in Seq(Item)
         /\ ToSet(SortedPart(s, of)) \subseteq ToSet(s)
<1>1. PICK N \in Nat : N = Len(s)
  OBVIOUS
<1>2. of \subseteq 1..N /\ \A n \in of : s[n] \in Item
  BY <1>1
<1>3. of \subseteq Int /\ IsFiniteSet(of) /\ of \subseteq DOMAIN s
  BY <1>2, Interval, FS_Subset
<1>4. PICK t : t = SortedPart(s, of)
  OBVIOUS
<1>8. \A n \in of : s[n] \in Item
  BY <1>2
<1>5. /\ t \in Seq(Item) /\ DOMAIN t = 1..Cardinality(of)
      /\ \E p : Reorders(p, of, Cardinality(of)) /\ \A k \in 1..Cardinality(of) : t[k] = s[p[k]]
  <2>1. /\ SortedPart(s, of) \in Seq(Item) /\ DOMAIN SortedPart(s, of) = 1..Cardinality(of)
        /\ \E p : /\ Reorders(p, of, Cardinality(of))
                  /\ \A k \in 1..Cardinality(of) : SortedPart(s, of)[k] = s[p[k]]
                  /\ \A k, l \in 1..Cardinality(of) : k <= l => Precedes(s, p[k], p[l])
    BY <1>3, <1>8, SortedIsReordered
  <2> QED BY <1>4, <2>1
<1>6. \A k \in DOMAIN t : \E n \in of : t[k] = s[n]
  BY <1>5 DEF Reorders
<1>7. ToSet(t) \subseteq ToSet(s)
  BY <1>3, <1>6 DEF ToSet
<1> QED BY <1>4, <1>5, <1>7

-----------------------------------------------------------------------------
(* Types.                                                                  *)

ServerTyped ==
  /\ parent \in [ItemIds -> FolderIds \cup {Nil, Nowhere}] /\ changed \in [ItemIds -> Int]
  /\ shares \in [ItemIds -> Rights]
  /\ isPassVault \in BOOLEAN /\ odd \in BOOLEAN
  /\ clock \in Nat /\ faults \in 0..MaxFaults

KeptTyped ==
  /\ folderContexts \subseteq FolderIds
  /\ fetched \in [FolderIds -> Seq(Item)] /\ content \in [FolderIds -> Seq(Item)]
  /\ items \in Seq(Item) /\ held \in folderContexts \cup {Nil}

PathTyped ==
  /\ folderViews \in Seq(folderContexts) /\ Len(folderViews) > 0
  /\ context \in folderContexts \cup {Nowhere}

RowsTyped ==
  /\ table \in Seq(ItemIds)
  /\ filter \in [on : BOOLEAN, typed : BOOLEAN, found : Seq(Item), off : BOOLEAN]

\* What a dialog and a goroutine have to do with an item has one.
DialogTyped ==
  /\ dialog \in {Nil} \cup Dialogs
  /\ dialog /= Nil =>
       /\ dialog.kind \notin {"folder", "upload"} => dialog.item \in Item
       /\ dialog.kind = "share" => dialog.users \in Rights

Stages == {"call", "apply", "items", "rows"}

RoutineTyped(r) ==
  r = Idle \/
    /\ r \in [at : Stages, kind : Kinds, item : Item \cup {Nil}, context : folderContexts \cup {Nowhere}]
    /\ r.at /= "call" \/ r.kind \notin {"folder", "upload"} => r.item \in Item
    /\ r.kind /= "delete" => r.context \in folderContexts

RoutinesTyped ==
  DOMAIN routines = 1..MaxRoutines /\ \A t \in DOMAIN routines : RoutineTyped(routines[t])

Typed == ServerTyped /\ KeptTyped /\ PathTyped /\ RowsTyped /\ DialogTyped /\ RoutinesTyped

\* The names and numbers of the constants.
LEMMA Constants ==
  /\ Folders \subseteq ItemIds /\ Files \subseteq ItemIds /\ Folders \subseteq FolderIds
  /\ ItemIds \subseteq Nat /\ IsFiniteSet(ItemIds) /\ IsFiniteSet(Recipients)
  /\ Home \notin ItemIds /\ Home \in FolderIds
  /\ Nowhere \notin FolderIds /\ Nil \notin FolderIds /\ Nil /= Nowhere
  /\ Nil \notin Item /\ Nil \notin Dialogs
  /\ MaxRoutines \in Nat /\ MaxOrders \in Nat /\ MaxFaults \in Nat
BY ItemsAssumption, NamesAssumption, OrdersAssumption DEF ItemIds, FolderIds

LEMMA SetAsSequence ==
  ASSUME NEW S, IsFiniteSet(S)
  PROVE  /\ Cardinality(S) \in Nat
         /\ SetToSeq(S) \in Seq(S) /\ Len(SetToSeq(S)) = Cardinality(S)
         /\ \A k, l \in 1..Cardinality(S) : SetToSeq(S)[k] = SetToSeq(S)[l] => k = l
         /\ \A x \in S : \E k \in 1..Cardinality(S) : SetToSeq(S)[k] = x
<1>1. PICK N \in Nat : N = Cardinality(S)
  BY FS_CardinalityType
<1>2. PICK f : f \in Bijection(1..N, S)
  BY <1>1, FS_CardinalityType DEF ExistsBijection
<1>3. f \in [1..N -> S] /\ IsInjective(f)
  BY <1>2 DEF Bijection, Injection
<1>4. PICK t : t = SetToSeq(S)
  OBVIOUS
<1>5. t \in [1..N -> S] /\ IsInjective(t)
  BY <1>1, <1>3, <1>4 DEF SetToSeq
<1>6. t \in Seq(S) /\ Len(t) = N
  BY <1>5
<1>7. \A k, l \in 1..N : t[k] = t[l] => k = l
  BY <1>5 DEF IsInjective
<1>8. t \in Injection(1..N, S)
  BY <1>5 DEF Injection
<1>9. t \in Surjection(1..N, S)
  BY <1>1, <1>8, Interval, FS_Injection
<1>10. \A x \in S : \E k \in 1..N : t[k] = x
  BY <1>9 DEF Surjection
<1> QED BY <1>1, <1>4, <1>6, <1>7, <1>10

LEMMA SharedIsNat ==
  ASSUME NEW rights
  PROVE  /\ Cardinality({r \in Recipients : rights[r] /= "none"}) \in Nat
<1>1. {r \in Recipients : rights[r] /= "none"} \subseteq Recipients
  OBVIOUS
<1> QED BY <1>1, Constants, FS_Subset, FS_CardinalityType

\* A folder as the server lists it: one item for each that is in it.
LEMMA ListingIs ==
  ASSUME ServerTyped, NEW g
  PROVE  /\ Listing(g) \in Seq(Item) /\ Sorted(Listing(g)) = Listing(g)
         /\ \A k \in DOMAIN Listing(g) : \E i \in Children(g) : Listing(g)[k] = Listed(i)
         /\ \A i \in Children(g) : \E k \in DOMAIN Listing(g) : Listing(g)[k] = Listed(i)
         /\ \A k, l \in DOMAIN Listing(g) : Listing(g)[k].id = Listing(g)[l].id => k = l
<1> DEFINE S == {Listed(i) : i \in Children(g)}
           u == SetToSeq(S)
<1>1. \A i \in Children(g) : Listed(i) \in Item /\ Listed(i).id = i
  BY SharedIsNat DEF ServerTyped, Listed, Item, Children, SharedWith
<1>2. IsFiniteSet(Children(g))
  BY Constants, FS_Subset DEF Children
<1>3. IsFiniteSet(S)
  <2> DEFINE f == [i \in Children(g) |-> Listed(i)]
  <2>1. f \in Surjection(Children(g), S)
    BY DEF Surjection
  <2> QED BY <1>2, <2>1, FS_Surjection
<1>4. \A x \in S : x \in Item /\ \A y \in S : x.id = y.id => x = y
  BY <1>1
<1> HIDE DEF S
<1>5. PICK N \in Nat : N = Cardinality(S)
  BY <1>3, FS_CardinalityType
<1>6. /\ u \in Seq(S) /\ Len(u) = N
      /\ \A k, l \in 1..N : u[k] = u[l] => k = l
      /\ \A x \in S : \E k \in 1..N : u[k] = x
  BY <1>3, <1>5, SetAsSequence
<1> HIDE DEF u
<1>7. u \in Seq(Item) /\ \A k \in 1..N : u[k] \in S
  BY <1>4, <1>5, <1>6
<1>8. PICK p : /\ Reorders(p, 1..N, N)
               /\ \A k \in 1..N : Sorted(u)[k] = u[p[k]]
  BY <1>6, <1>7, SortedList
<1>9. PICK t : t = Sorted(u)
  OBVIOUS
<1>10. t \in Seq(Item) /\ Len(t) = N /\ Sorted(t) = t
  BY <1>6, <1>7, <1>9, SortedList, SortedStays
<1>11. DOMAIN t = 1..N /\ \A k \in 1..N : t[k] = u[p[k]] /\ p[k] \in 1..N
  BY <1>8, <1>9, <1>10 DEF Reorders
<1>12. \A k \in 1..N : t[k] \in S
  BY <1>7, <1>11
<1>13. \A k, l \in 1..N : t[k].id = t[l].id => k = l
  <2> SUFFICES ASSUME NEW k \in 1..N, NEW l \in 1..N, t[k].id = t[l].id PROVE k = l
    OBVIOUS
  <2>1. t[k] = t[l]
    BY <1>4, <1>12
  <2>2. p[k] = p[l]
    BY <1>6, <1>11, <2>1
  <2> QED BY <1>8, <2>2 DEF Reorders
<1>14. \A x \in S : \E k \in 1..N : t[k] = x
  <2> TAKE x \in S
  <2>1. PICK n \in 1..N : u[n] = x
    BY <1>6
  <2>2. PICK k \in 1..N : p[k] = n
    BY <1>8 DEF Reorders
  <2> QED BY <1>11, <2>1, <2>2
<1>15. Listing(g) = t
  BY <1>9 DEF Listing, u, S
<1>16. \A x : x \in S <=> \E i \in Children(g) : x = Listed(i)
  BY DEF S
<1>17. t \in Seq(Item) /\ Sorted(t) = t /\ DOMAIN t = 1..N
  BY <1>10, <1>11
<1>18. \A k \in 1..N : \E i \in Children(g) : t[k] = Listed(i)
  BY <1>12, <1>16
<1>19. \A i \in Children(g) : \E k \in 1..N : t[k] = Listed(i)
  BY <1>14, <1>16
<1> QED BY <1>13, <1>15, <1>17, <1>18, <1>19

LEMMA IdsOfItems ==
  ASSUME NEW s \in Seq(Item)
  PROVE  IdsOf(s) \in Seq(ItemIds) /\ Len(IdsOf(s)) = Len(s)
<1>1. PICK N \in Nat : N = Len(s)
  OBVIOUS
<1>4. \A n \in 1..N : s[n] \in Item
  BY <1>1
<1>5. \A x \in Item : x.id \in ItemIds
  BY DEF Item
<1>2. \A n \in 1..N : s[n].id \in ItemIds
  BY <1>4, <1>5
<1>3. IdsOf(s) \in [1..N -> ItemIds]
  BY <1>1, <1>2 DEF IdsOf
<1> QED BY <1>1, <1>3

\* Sorting the items sorts what is kept of the folder whose array they share.
LEMMA KeptSorted ==
  ASSUME KeptTyped, NEW s \in Seq(Item)
  PROVE  /\ SortedWith(content, s) \in [FolderIds -> Seq(Item)]
         /\ \A g \in FolderIds : g /= held => SortedWith(content, s)[g] = content[g]
         /\ held /= Nil /\ Len(s) = Len(content[held]) => SortedWith(content, s)[held] = s
<1>1. CASE held = Nil
  BY <1>1 DEF SortedWith, KeptTyped
<1>2. CASE held /= Nil
  <2> DEFINE new == [n \in DOMAIN content[held] |->
                       IF n \in DOMAIN s THEN s[n] ELSE content[held][n]]
  <2>1. held \in FolderIds /\ content[held] \in Seq(Item)
    BY <1>2 DEF KeptTyped
  <2>2. PICK N \in Nat : N = Len(content[held])
    BY <2>1
  <2>3. \A n \in 1..N : content[held][n] \in Item /\ (n \in DOMAIN s => s[n] \in Item)
    BY <2>1, <2>2
  <2>4. new \in [1..N -> Item]
    BY <2>1, <2>2, <2>3
  <2>5. new \in Seq(Item) /\ Len(new) = N
    BY <2>4
  <2>6. SortedWith(content, s) = [content EXCEPT ![held] = new]
    BY <1>2 DEF SortedWith
  <2>7. Len(s) = N => new = s
    <3> SUFFICES ASSUME Len(s) = N PROVE new = s
      OBVIOUS
    <3>1. DOMAIN s = 1..N
      OBVIOUS
    <3>2. \A n \in 1..N : new[n] = s[n]
      BY <2>1, <2>2, <3>1
    <3> QED BY <2>5, <3>1, <3>2
  <2> HIDE DEF new
  <2> QED BY <2>1, <2>2, <2>5, <2>6, <2>7 DEF KeptTyped
<1> QED BY <1>1, <1>2

\* A key acts upon an item.
LEMMA PickedIsItem ==
  ASSUME Typed, NEW item, item \in ToSet(Selectable) \/ Pick(item)
  PROVE  item \in Item
<1>1. Selectable \in Seq(Item)
  BY DEF Selectable, Typed, RowsTyped, KeptTyped
<1>2. \E c \in DOMAIN Selectable : item = Selectable[c]
  BY DEF Pick, ToSet
<1> QED BY <1>1, <1>2

LEMMA NotesTypes ==
  ASSUME Typed, NEW condition \in BOOLEAN, Notes(condition)
  PROVE  odd' \in BOOLEAN /\ (odd' <=> odd \/ condition \/ Finishing)
BY DEF Notes, Typed, ServerTyped, Finishing

\* What was fetched stays.
LEMMA RoutinesStay ==
  ASSUME RoutinesTyped, folderContexts \subseteq folderContexts', routines' = routines
  PROVE  RoutinesTyped'
<1>1. \A r : RoutineTyped(r) => RoutineTyped(r)'
  BY DEF RoutineTyped
<1> QED BY <1>1 DEF RoutinesTyped

LEMMA FreshTypes ==
  ASSUME Typed, Fresh
  PROVE  Typed'
<1> USE DEF Typed
<1>1. Listing(Home) \in Seq(Item)
  BY ListingIs
<1>2. ServerTyped'
  BY DEF ServerTyped, Fresh, cliServer
<1>3. KeptTyped'
  <2>1. folderContexts' = {Home} /\ Home \in FolderIds
    BY Constants DEF Fresh
  <2>2. <<>> \in Seq(Item)
    OBVIOUS
  <2>3. fetched' \in [FolderIds -> Seq(Item)] /\ content' = fetched'
    BY <1>1, <2>2 DEF Fresh
  <2> QED BY <1>1, <2>1, <2>3 DEF Fresh, KeptTyped
<1>4. PathTyped'
  BY DEF Fresh, PathTyped
<1>5. RowsTyped'
  <2>1. table' \in Seq(ItemIds)
    BY <1>1, IdsOfItems DEF Fresh
  <2>2. <<>> \in Seq(Item)
    OBVIOUS
  <2> QED BY <2>1, <2>2 DEF Fresh, RowsTyped, NoFilter
<1>6. DialogTyped'
  BY DEF Fresh, DialogTyped
<1>7. RoutinesTyped'
  BY DEF Fresh, RoutinesTyped, RoutineTyped
<1> QED BY <1>2, <1>3, <1>4, <1>5, <1>6, <1>7

LEMMA ItemRowsTypes ==
  ASSUME Typed, CreateItemRows
  PROVE  /\ items' \in Seq(Item) /\ content' \in [FolderIds -> Seq(Item)]
         /\ table' \in Seq(ItemIds)
<1>1. Sorted(items) \in Seq(Item)
  BY SortedStays DEF Typed, KeptTyped
<1> QED BY <1>1, KeptSorted, IdsOfItems DEF CreateItemRows, Typed

LEMMA ModelTypes ==
  ASSUME Typed, NEW g \in FolderIds, NewModel(g)
  PROVE  /\ KeptTyped' /\ RowsTyped' /\ odd' \in BOOLEAN
         /\ context' = g /\ g \in folderContexts' /\ folderContexts \subseteq folderContexts'
<1> USE DEF Typed
<1> DEFINE new == IF g \in folderContexts THEN fetched[g] ELSE Listing(g)
           empty == g \in folderContexts /\ content[g] = <<>>
           list == IF g \notin folderContexts \/ empty THEN new ELSE content[g]
<1>1. new \in Seq(Item) /\ list \in Seq(Item)
  BY ListingIs DEF KeptTyped
<1>2. Sorted(list) \in Seq(Item)
  BY <1>1, SortedStays
<1>3. /\ folderContexts' = folderContexts \cup {g}
      /\ fetched' = [fetched EXCEPT ![g] = new]
      /\ content' = [content EXCEPT ![g] = Sorted(list)]
      /\ items' = Sorted(list) /\ held' = g
      /\ table' = IdsOf(items')
      /\ context' = g /\ filter' = NoFilter
      /\ Notes((empty /\ new /= <<>>) \/ AtWork)
  BY DEF NewModel
<1> HIDE DEF new, list, empty
<1>4. KeptTyped'
  BY <1>1, <1>2, <1>3 DEF KeptTyped
<1>5. table' \in Seq(ItemIds)
  BY <1>2, <1>3, IdsOfItems
<1>6. RowsTyped'
  <2>1. <<>> \in Seq(Item)
    OBVIOUS
  <2> QED BY <1>3, <1>5, <2>1 DEF RowsTyped, NoFilter
<1>7. odd' \in BOOLEAN
  BY <1>3 DEF Notes, ServerTyped, Finishing, AtWork, empty
<1> QED BY <1>3, <1>4, <1>6, <1>7

LEMMA BackTypes ==
  ASSUME Typed, Back
  PROVE  Typed'
<1> USE DEF Typed
<1>1. folderViews[Len(folderViews) - 1] \in folderContexts
  BY DEF Back, PathTyped
<1>2. PICK g \in FolderIds : g = folderViews[Len(folderViews) - 1]
  BY <1>1 DEF KeptTyped
<1>3. /\ KeptTyped' /\ RowsTyped' /\ odd' \in BOOLEAN
      /\ context' = g /\ g \in folderContexts' /\ folderContexts \subseteq folderContexts'
  BY <1>2, ModelTypes DEF Back
<1>4. ServerTyped'
  BY <1>3 DEF Back, ServerTyped, cliServer
<1>5. PathTyped'
  <2>1. folderViews' = SubSeq(folderViews, 1, Len(folderViews) - 1) /\ Len(folderViews) > 1
    BY DEF Back
  <2>2. folderViews' \in Seq(folderContexts) /\ Len(folderViews') = Len(folderViews) - 1
    BY <2>1 DEF PathTyped
  <2>3. folderViews' \in Seq(folderContexts')
    BY <1>3, <2>2, SeqMonotonic
  <2> QED BY <1>3, <2>1, <2>2, <2>3 DEF PathTyped
<1>6. DialogTyped'
  BY DEF Back, DialogTyped
<1>7. RoutinesTyped'
  BY <1>3, RoutinesStay DEF Back
<1> QED BY <1>3, <1>4, <1>5, <1>6, <1>7

LEMMA EnterTypes ==
  ASSUME Typed, NEW item, EnterFolder(item)
  PROVE  Typed'
<1> USE DEF Typed
<1>1. PICK g \in Folders : g = item.id
  BY DEF EnterFolder
<1>2. CASE NewModel(item.id) /\ folderViews' = Append(folderViews, item.id) /\ UNCHANGED faults
  <2>1. /\ KeptTyped' /\ RowsTyped' /\ odd' \in BOOLEAN
        /\ context' = g /\ g \in folderContexts' /\ folderContexts \subseteq folderContexts'
    BY <1>1, <1>2, ModelTypes, Constants
  <2>2. ServerTyped'
    BY <1>2, <2>1 DEF EnterFolder, ServerTyped, cliServer
  <2>3. PathTyped'
    <3>1. folderViews \in Seq(folderContexts')
      BY <2>1, SeqMonotonic DEF PathTyped
    <3>2. folderViews' \in Seq(folderContexts') /\ Len(folderViews') > 0
      BY <1>1, <1>2, <2>1, <3>1 DEF PathTyped
    <3> QED BY <2>1, <3>2 DEF PathTyped
  <2>4. DialogTyped'
    BY DEF EnterFolder, DialogTyped
  <2>5. RoutinesTyped'
    BY <2>1, RoutinesStay DEF EnterFolder
  <2> QED BY <2>1, <2>2, <2>3, <2>4, <2>5
<1>3. CASE NewModelFails(item.id) /\ UNCHANGED folderViews
  <2>1. /\ items' \in Seq(Item) /\ content' \in [FolderIds -> Seq(Item)]
        /\ table' \in Seq(ItemIds)
    BY <1>3, ItemRowsTypes DEF NewModelFails
  <2>2. ServerTyped'
    BY <1>3, Constants DEF EnterFolder, ServerTyped, cliServer, NewModelFails, Notes
  <2>3. KeptTyped' /\ PathTyped'
    BY <1>3, <2>1 DEF NewModelFails, KeptTyped, PathTyped
  <2>4. RowsTyped'
    <3>1. <<>> \in Seq(Item)
      OBVIOUS
    <3> QED BY <1>3, <2>1, <3>1 DEF NewModelFails, RowsTyped, NoFilter
  <2>5. DialogTyped'
    BY DEF EnterFolder, DialogTyped
  <2>6. RoutinesTyped'
    BY <1>3, RoutinesStay DEF EnterFolder, NewModelFails
  <2> QED BY <2>2, <2>3, <2>4, <2>5, <2>6
<1> QED BY <1>2, <1>3 DEF EnterFolder

\* The keys of the filter.
LEMMA FilterTypes ==
  ASSUME Typed, Slash \/ Erase \/ KeepFilter \/ LeaveFilter \/ \E s \in Strings : Type(s)
  PROVE  Typed'
<1> USE DEF Typed
<1>1. Filtering
  BY DEF Slash, Erase, KeepFilter, LeaveFilter, Type
<1>2. /\ items' \in Seq(Item) /\ content' \in [FolderIds -> Seq(Item)]
      /\ table' \in Seq(ItemIds)
  <2>1. CASE UNCHANGED <<content, items, table>>
    BY <2>1 DEF KeptTyped, RowsTyped
  <2>2. CASE LeaveFilter
    BY <2>2, ItemRowsTypes DEF LeaveFilter
  <2>3. CASE Erase
    <3>1. Sorted(items) \in Seq(Item)
      BY SortedStays DEF KeptTyped
    <3> QED BY <2>3, <3>1, IdsOfItems DEF Erase, KeptTyped, RowsTyped
  <2>4. CASE \E s \in Strings : Type(s)
    <3>1. PICK s \in Strings : Type(s)
      BY <2>4
    <3>3. PICK of \in SUBSET DOMAIN items : of = {n \in DOMAIN items : items[n].id \in s}
      OBVIOUS
    <3>4. SortedPart(items, of) \in Seq(Item)
      BY FoundAre DEF KeptTyped
    <3>2. SortedPart(items, {n \in DOMAIN items : items[n].id \in s}) \in Seq(Item)
      BY <3>3, <3>4
    <3> QED BY <3>1, <3>2, IdsOfItems DEF Type, FilterRows, KeptTyped
  <2> QED BY <2>1, <2>2, <2>3, <2>4 DEF Slash, KeepFilter
<1>3. filter' \in [on : BOOLEAN, typed : BOOLEAN, found : Seq(Item), off : BOOLEAN]
  <2>1. <<>> \in Seq(Item)
    OBVIOUS
  <2>2. CASE \E s \in Strings : Type(s)
    <3>1. PICK s \in Strings : Type(s)
      BY <2>2
    <3>3. PICK of \in SUBSET DOMAIN items : of = {n \in DOMAIN items : items[n].id \in s}
      OBVIOUS
    <3>4. SortedPart(items, of) \in Seq(Item)
      BY FoundAre DEF KeptTyped
    <3>2. SortedPart(items, {n \in DOMAIN items : items[n].id \in s}) \in Seq(Item)
      BY <3>3, <3>4
    <3> QED BY <3>1, <3>2 DEF Type, FilterRows, NoFilter
  <2> QED BY <2>1, <2>2 DEF Slash, Erase, KeepFilter, LeaveFilter, RowsTyped, NoFilter
<1>4. odd' \in BOOLEAN
  BY DEF Slash, Erase, KeepFilter, LeaveFilter, Type, Notes, Finishing, ServerTyped
<1>5. ServerTyped' /\ PathTyped' /\ DialogTyped'
  BY <1>1, <1>4 DEF Filtering, ServerTyped, PathTyped, DialogTyped, cliServer, path
<1>6. KeptTyped' /\ RowsTyped'
  BY <1>1, <1>2, <1>3 DEF Filtering, KeptTyped, RowsTyped
<1>7. RoutinesTyped'
  BY <1>1, RoutinesStay DEF Filtering
<1> QED BY <1>5, <1>6, <1>7

\* What a dialog is opened for.
LEMMA OpenTypes ==
  ASSUME Typed, NEW d \in Dialogs, NEW condition \in BOOLEAN, Open(d, condition),
         faults' \in 0..MaxFaults,
         d.kind \notin {"folder", "upload"} => d.item \in Item,
         d.kind = "share" => d.users \in Rights
  PROVE  Typed'
<1> USE DEF Typed
<1>1. odd' \in BOOLEAN
  BY DEF Open, Notes, Finishing, ServerTyped, About
<1>2. ServerTyped' /\ KeptTyped' /\ PathTyped' /\ RowsTyped'
  BY <1>1 DEF Open, ServerTyped, KeptTyped, PathTyped, RowsTyped, cliServer, cliPage, kept, path
<1>3. DialogTyped'
  BY DEF Open, DialogTyped
<1>4. RoutinesTyped'
  BY RoutinesStay DEF Open, kept
<1> QED BY <1>2, <1>3, <1>4

LEMMA RequestTypes ==
  ASSUME Typed,
         \/ \E kind \in {"folder", "upload"} : NewItem(kind)
         \/ \E item \in ToSet(Selectable) :
              \/ NewShareRequest(item)
              \/ \E kind \in {"rename", "delete", "edit", "view"} : NewItemRequest(item, kind)
  PROVE  Typed'
<1> USE DEF Typed
<1>1. faults \in 0..MaxFaults /\ \A i : shares \in [ItemIds -> Rights] /\ Nobody \in Rights
  BY DEF ServerTyped, Nobody, Rights
<1>2. CASE \E kind \in {"folder", "upload"} : NewItem(kind)
  <2>1. PICK kind \in {"folder", "upload"} : NewItem(kind)
    BY <1>2
  <2>2. Dialog(kind, Nil) \in Dialogs /\ Dialog(kind, Nil).kind = kind
    BY DEF Dialog, Dialogs, Kinds
  <2> QED BY <1>1, <2>1, <2>2, OpenTypes DEF NewItem
<1>3. CASE \E item \in ToSet(Selectable) : NewShareRequest(item)
  <2>1. PICK item \in Item : NewShareRequest(item)
    BY <1>3, PickedIsItem
  <2>2. shares[item.id] \in Rights
    BY DEF ServerTyped, Item
  <2> DEFINE d(users) == [Dialog("share", item) EXCEPT !.users = users]
  <2>3. \A users \in Rights : /\ d(users) \in Dialogs /\ d(users).kind = "share"
                              /\ d(users).item = item /\ d(users).users = users
    BY DEF Dialog, Dialogs, Kinds
  <2>4. CASE Open(d(shares[item.id]), FALSE) /\ UNCHANGED faults
    BY <1>1, <2>2, <2>3, <2>4, OpenTypes
  <2>5. CASE faults < MaxFaults /\ faults' = faults + 1 /\ Open(d(Nobody), TRUE)
    <3>1. faults' \in 0..MaxFaults
      BY <1>1, <2>5, Constants
    <3> QED BY <1>1, <2>3, <2>5, <3>1, OpenTypes
  <2> QED BY <2>1, <2>4, <2>5 DEF NewShareRequest
<1>4. CASE \E item \in ToSet(Selectable) :
             \E kind \in {"rename", "delete", "edit", "view"} : NewItemRequest(item, kind)
  <2>1. PICK item \in Item : \E kind \in {"rename", "delete", "edit", "view"} : NewItemRequest(item, kind)
    BY <1>4, PickedIsItem
  <2>2. PICK kind \in {"rename", "delete", "edit", "view"} : NewItemRequest(item, kind)
    BY <2>1
  <2>3. /\ Dialog(kind, item) \in Dialogs /\ Dialog(kind, item).kind = kind
        /\ Dialog(kind, item).item = item
    BY DEF Dialog, Dialogs, Kinds
  <2> QED BY <1>1, <2>2, <2>3, OpenTypes DEF NewItemRequest
<1> QED BY <1>2, <1>3, <1>4

LEMMA EventTypes ==
  ASSUME Typed, Event
  PROVE  ServerTyped' /\ KeptTyped' /\ PathTyped' /\ RowsTyped' /\ DialogTyped'
<1> USE DEF Typed
<1>1. /\ items' \in Seq(Item) /\ content' \in [FolderIds -> Seq(Item)]
      /\ table' \in Seq(ItemIds)
  BY ItemRowsTypes DEF Event
<1>2. odd' \in BOOLEAN
  BY DEF Event, Notes, Finishing, ServerTyped
<1>3. ServerTyped' /\ PathTyped' /\ KeptTyped' /\ DialogTyped'
  BY <1>1, <1>2 DEF Event, ServerTyped, PathTyped, KeptTyped, DialogTyped, cliServer, path
<1>4. RowsTyped'
  <2>1. <<>> \in Seq(Item)
    OBVIOUS
  <2> QED BY <1>1, <2>1 DEF Event, RowsTyped, NoFilter
<1> QED BY <1>3, <1>4

LEMMA ConfirmTypes ==
  ASSUME Typed, NEW t \in DOMAIN routines, Confirm(t)
  PROVE  Typed'
<1> USE DEF Typed
<1>1. ServerTyped' /\ KeptTyped' /\ PathTyped' /\ RowsTyped' /\ DialogTyped'
  BY EventTypes DEF Confirm
<1>2. PICK r : r = [at |-> "call", kind |-> dialog.kind, item |-> dialog.item, context |-> context]
  OBVIOUS
<1>3. routines' = [routines EXCEPT ![t] = r] /\ folderContexts' = folderContexts
  BY <1>2 DEF Confirm, Event
<1>4. RoutineTyped(r)
  <2>1. dialog \in Dialogs /\ dialog.kind \in Kinds /\ dialog.item \in Item \cup {Nil}
    BY DEF Confirm, DialogTyped, Dialogs
  <2>2. context \in folderContexts \cup {Nowhere} /\ (dialog.kind /= "delete" => context \in folderContexts)
    BY DEF Confirm, PathTyped
  <2>3. dialog.kind \notin {"folder", "upload"} => dialog.item \in Item
    BY DEF Confirm, DialogTyped
  <2> QED BY <1>2, <2>1, <2>2, <2>3 DEF RoutineTyped, Stages
<1>5. \A x : RoutineTyped(x) => RoutineTyped(x)'
  BY <1>3 DEF RoutineTyped
<1>6. RoutinesTyped'
  BY <1>3, <1>4, <1>5 DEF RoutinesTyped
<1> QED BY <1>1, <1>6

\* The requests of the dialog of shares.
LEMMA RequestsTypes ==
  ASSUME Typed, NEW rs \in SUBSET Recipients, NEW new \in Rights, Requests(rs, new)
  PROVE  Typed'
<1> USE DEF Typed
<1>1. dialog \in Dialogs /\ dialog.item \in Item /\ dialog.users \in Rights /\ dialog.kind = "share"
  BY DEF Requests, Sharing, DialogTyped
<1>2. PICK i \in ItemIds : i = dialog.item.id
  BY <1>1 DEF Item
<1>3. PICK done \in SUBSET rs :
       /\ shares' = [shares EXCEPT ![i] =
            [r \in Recipients |-> IF r \in done THEN new[r] ELSE shares[i][r]]]
       /\ dialog' = [dialog EXCEPT !.users =
            Again([r \in Recipients |-> IF r \in done THEN new[r] ELSE dialog.users[r]], shares'[i])]
       /\ \/ done = rs /\ UNCHANGED faults
          \/ done /= rs /\ faults < MaxFaults /\ faults' = faults + 1
  BY <1>2 DEF Requests
<1>4. shares' \in [ItemIds -> Rights] /\ shares'[i] \in Rights
  BY <1>2, <1>3 DEF ServerTyped, Rights
<1>5. dialog'.users \in Rights /\ dialog' \in Dialogs /\ dialog'.kind = "share" /\ dialog'.item = dialog.item
  <2>1. [r \in Recipients |-> IF r \in done THEN new[r] ELSE dialog.users[r]] \in Rights
    BY <1>1 DEF Rights
  <2>2. Again([r \in Recipients |-> IF r \in done THEN new[r] ELSE dialog.users[r]], shares'[i]) \in Rights
    BY <1>4, <2>1 DEF Again
  <2> QED BY <1>1, <1>3, <2>2 DEF Dialogs
<1>6. ServerTyped'
  BY <1>3, <1>4, Constants DEF Requests, ServerTyped, Now
<1>7. KeptTyped' /\ PathTyped' /\ RowsTyped'
  BY DEF Requests, KeptTyped, PathTyped, RowsTyped, kept, cliPage, path
<1>8. DialogTyped'
  BY <1>1, <1>5 DEF DialogTyped
<1>9. RoutinesTyped'
  BY RoutinesStay DEF Requests, kept
<1> QED BY <1>6, <1>7, <1>8, <1>9

LEMMA SharesTypes ==
  ASSUME Typed,
         \/ \E r \in Recipients, right \in {"read", "write"} : Add(r, right)
         \/ \E new \in [Recipients -> {"read", "write"}] : Edit(new)
         \/ \E rs \in SUBSET Recipients : Unshare(rs)
  PROVE  Typed'
<1>1. CASE \E r \in Recipients, right \in {"read", "write"} : Add(r, right)
  <2>1. PICK r \in Recipients, right \in {"read", "write"} : Add(r, right)
    BY <1>1
  <2>2. [x \in Recipients |-> right] \in Rights /\ {r} \in SUBSET Recipients
    BY DEF Rights
  <2> QED BY <2>1, <2>2, RequestsTypes DEF Add, shareItem
<1>2. CASE \E new \in [Recipients -> {"read", "write"}] : Edit(new)
  <2>1. PICK new \in [Recipients -> {"read", "write"}] : Edit(new)
    BY <1>2
  <2>2. new \in Rights /\ Shared \in SUBSET Recipients
    BY DEF Rights, Shared
  <2> QED BY <2>1, <2>2, RequestsTypes DEF Edit
<1>3. CASE \E rs \in SUBSET Recipients : Unshare(rs)
  <2>1. PICK rs \in SUBSET Recipients : Unshare(rs)
    BY <1>3
  <2>2. Nobody \in Rights
    BY DEF Rights, Nobody
  <2> QED BY <2>1, <2>2, RequestsTypes DEF Unshare
<1> QED BY <1>1, <1>2, <1>3

LEMMA ReturnTypes ==
  ASSUME Typed, ReturnFromShares
  PROVE  Typed'
<1> USE DEF Typed
<1>1. dialog.item \in Item
  BY DEF ReturnFromShares, Sharing, DialogTyped
<1>2. PICK x : x = [dialog.item EXCEPT !.sharedWith = Cardinality(Shared)]
  OBVIOUS
<1>3. x \in Item
  BY <1>1, <1>2, SharedIsNat DEF Item, Shared
<1>4. Sorted(items) \in Seq(Item)
  BY SortedStays DEF KeptTyped
<1>5. PICK sorted : sorted = SortedWith(content, Sorted(items)) /\ sorted \in [FolderIds -> Seq(Item)]
  BY <1>4, KeptSorted
<1>6. KeptTyped'
  <2>1. CASE context = Nowhere
    <3>1. content' = sorted /\ items' = <<>> /\ held' = Nil
      BY <1>5, <2>1 DEF ReturnFromShares
    <3>2. <<>> \in Seq(Item)
      OBVIOUS
    <3> QED BY <1>5, <3>1, <3>2 DEF ReturnFromShares, KeptTyped
  <2>2. CASE context /= Nowhere
    <3>1. context \in folderContexts /\ context \in FolderIds
      BY <2>2 DEF PathTyped, KeptTyped
    <3>2. PICK g \in FolderIds : g = context
      BY <3>1
    <3>3. PICK new : new = [n \in DOMAIN sorted[g] |-> IF sorted[g][n].id = x.id THEN x ELSE sorted[g][n]]
      OBVIOUS
    <3>4. new \in Seq(Item)
      <4>1. PICK N \in Nat : N = Len(sorted[g])
        BY <1>5
      <4>2. DOMAIN sorted[g] = 1..N /\ \A n \in 1..N : sorted[g][n] \in Item
        BY <1>5, <4>1
      <4>3. new \in [1..N -> Item]
        BY <1>3, <3>3, <4>2
      <4> QED BY <4>3
    <3>5. content' = [sorted EXCEPT ![g] = Sorted(new)] /\ items' = Sorted(new) /\ held' = g
      BY <1>2, <1>5, <2>2, <3>2, <3>3 DEF ReturnFromShares
    <3>6. Sorted(new) \in Seq(Item)
      BY <3>4, SortedStays
    <3> QED BY <1>5, <3>1, <3>2, <3>5, <3>6 DEF ReturnFromShares, KeptTyped
  <2> QED BY <2>1, <2>2
<1>7. RowsTyped'
  <2>1. table' \in Seq(ItemIds)
    BY <1>6, IdsOfItems DEF ReturnFromShares, KeptTyped
  <2>2. <<>> \in Seq(Item)
    OBVIOUS
  <2> QED BY <2>1, <2>2 DEF ReturnFromShares, RowsTyped, NoFilter
<1>8. ServerTyped' /\ PathTyped' /\ DialogTyped'
  BY DEF ReturnFromShares, ServerTyped, PathTyped, DialogTyped, Notes, Finishing, cliServer, path
<1>9. RoutinesTyped'
  BY RoutinesStay DEF ReturnFromShares
<1> QED BY <1>6, <1>7, <1>8, <1>9

LEMMA DialogStepTypes ==
  ASSUME Typed, InDialog
  PROVE  Typed'
<1>1. CASE Cancel
  <2>1. ServerTyped' /\ KeptTyped' /\ PathTyped' /\ RowsTyped' /\ DialogTyped'
    BY <1>1 DEF Cancel, Typed, ServerTyped, KeptTyped, PathTyped, RowsTyped, DialogTyped,
                cliServer, kept, cliPage, path, cliHistory
  <2>2. RoutinesTyped'
    BY <1>1, RoutinesStay DEF Cancel, Typed, kept
  <2> QED BY <2>1, <2>2 DEF Typed
<1>2. CASE DialogPanics
  BY <1>2, FreshTypes DEF DialogPanics
<1>3. CASE ReturnFromView
  <2>1. ServerTyped' /\ KeptTyped' /\ PathTyped' /\ RowsTyped' /\ DialogTyped'
    BY <1>3, EventTypes DEF ReturnFromView
  <2>2. RoutinesTyped'
    BY <1>3, RoutinesStay DEF ReturnFromView, Event, Typed
  <2> QED BY <2>1, <2>2 DEF Typed
<1>4. CASE ReturnFromShares
  BY <1>4, ReturnTypes
<1>5. CASE \E t \in DOMAIN routines : Confirm(t)
  BY <1>5, ConfirmTypes
<1> QED BY <1>1, <1>2, <1>3, <1>4, <1>5, SharesTypes DEF InDialog

LEMMA KeyTypes ==
  ASSUME Typed, Key
  PROVE  Typed'
<1>1. CASE Start \/ PickPanics
  BY <1>1, FreshTypes DEF Start, PickPanics
<1>2. CASE Back
  BY <1>2, BackTypes
<1>3. CASE \E item \in ToSet(Selectable) : EnterFolder(item)
  BY <1>3, EnterTypes
<1> QED BY <1>1, <1>2, <1>3, FilterTypes, RequestTypes DEF Key

\* What the server does of a request.
LEMMA ServeTypes ==
  ASSUME Typed, NEW t \in DOMAIN routines, routines[t].at = "call", NEW i \in ItemIds,
         Serve(routines[t], i), clock' = Now, UNCHANGED isPassVault,
         odd' \in BOOLEAN, faults' \in 0..MaxFaults
  PROVE  ServerTyped' /\ Became(routines[t], i) \in Item
<1> USE DEF Typed
<1>1. RoutineTyped(routines[t]) /\ routines[t] /= Idle
  BY DEF RoutinesTyped, Idle
<1>2. PICK r : r = routines[t]
  OBVIOUS
<1>3. /\ r.kind \in Kinds /\ r.context \in folderContexts \cup {Nowhere}
      /\ r.kind \notin {"folder", "upload"} => r.item \in Item
  BY <1>1, <1>2 DEF RoutineTyped
<1>4. Now \in Int /\ Now \in Nat
  BY DEF Now, ServerTyped
<1>5. parent' \in [ItemIds -> FolderIds \cup {Nil, Nowhere}] /\ changed' \in [ItemIds -> Int]
      /\ shares' = shares
  <2>1. CASE Makes(r, i)
    <3>1. r.context \in FolderIds
      BY <2>1, Constants DEF Makes, IsThere
    <3> QED BY <1>4, <2>1, <3>1 DEF Makes, Stamp, ServerTyped
  <2>2. CASE Removes(r, i)
    BY <2>2 DEF Removes, ServerTyped
  <2>3. CASE Renames(r, i)
    BY <1>4, <2>3 DEF Renames, Stamp, ServerTyped
  <2> QED BY <1>2, <2>1, <2>2, <2>3 DEF Serve
<1>6. ServerTyped'
  BY <1>4, <1>5 DEF ServerTyped
<1>7. Became(r, i) \in Item
  <2>1. CASE r.kind \in {"folder", "upload"}
    BY <1>4, <2>1 DEF Became, Item
  <2>2. CASE r.kind \notin {"folder", "upload"}
    <3>1. r.item \in Item /\ r.kind \in {"rename", "edit", "delete"}
      BY <1>3, <2>2 DEF Kinds
    <3> QED BY <1>4, <3>1 DEF Became, Item
  <2> QED BY <2>1, <2>2
<1> QED BY <1>2, <1>6, <1>7

\* A goroutine that ends, or goes on, leaves the others as they are.
LEMMA RoutineSteps ==
  ASSUME RoutinesTyped, NEW t \in DOMAIN routines, NEW r, RoutineTyped(r),
         routines' = [routines EXCEPT ![t] = r], folderContexts' = folderContexts
  PROVE  RoutinesTyped'
<1>1. \A x : RoutineTyped(x) => RoutineTyped(x)'
  BY DEF RoutineTyped
<1> QED BY <1>1 DEF RoutinesTyped

LEMMA AnsweredTypes ==
  ASSUME Typed, NEW t \in DOMAIN routines, Answered(t)
  PROVE  Typed'
<1> USE DEF Typed
<1>1. PICK i \in ItemIds :
        /\ Serve(routines[t], i)
        /\ routines' = [routines EXCEPT ![t] = [@ EXCEPT !.at = "apply", !.item = Became(routines[t], i)]]
  BY DEF Answered
<1>2. routines[t].at = "call" /\ clock' = Now /\ UNCHANGED <<isPassVault, odd, faults>>
  BY DEF Answered, PageStays
<1>3. ServerTyped' /\ Became(routines[t], i) \in Item
  BY <1>1, <1>2, ServeTypes DEF ServerTyped
<1>4. KeptTyped' /\ PathTyped' /\ RowsTyped' /\ DialogTyped'
  BY DEF Answered, PageStays, KeptTyped, PathTyped, RowsTyped, DialogTyped, cliPage, path
<1>5. PICK r : r = [routines[t] EXCEPT !.at = "apply", !.item = Became(routines[t], i)]
  OBVIOUS
<1>6. RoutineTyped(r)
  <2>1. RoutineTyped(routines[t]) /\ routines[t] /= Idle
    BY <1>2 DEF RoutinesTyped, Idle
  <2> QED BY <1>3, <1>5, <2>1 DEF RoutineTyped, Stages
<1>7. RoutinesTyped'
  BY <1>1, <1>5, <1>6, RoutineSteps DEF Answered, PageStays
<1> QED BY <1>3, <1>4, <1>7

LEMMA FailedTypes ==
  ASSUME Typed, NEW t \in DOMAIN routines, Unconfirmed(t) \/ Refused(t)
  PROVE  Typed'
<1> USE DEF Typed
<1>1. routines' = [routines EXCEPT ![t] = Idle] /\ RoutineTyped(Idle) /\ routines[t].at = "call"
  BY DEF Unconfirmed, Refused, RoutineTyped
<1>2. RoutinesTyped'
  BY <1>1, RoutineSteps DEF Unconfirmed, Refused, PageStays
<1>3. KeptTyped' /\ PathTyped' /\ RowsTyped' /\ DialogTyped'
  BY DEF Unconfirmed, Refused, PageStays, KeptTyped, PathTyped, RowsTyped, DialogTyped, cliPage, path
<1>6. MaxFaults \in Nat /\ faults \in 0..MaxFaults
  BY Constants DEF ServerTyped
<1>7. faults' = faults \/ (faults < MaxFaults /\ faults' = faults + 1)
  BY DEF Unconfirmed, Refused
<1>8. faults' \in 0..MaxFaults
  BY <1>6, <1>7
<1>9. odd' \in BOOLEAN /\ UNCHANGED isPassVault
  BY DEF Unconfirmed, Refused, ServerTyped, PageStays
<1>4. faults' \in 0..MaxFaults /\ odd' \in BOOLEAN /\ UNCHANGED isPassVault
  BY <1>8, <1>9
<1>5. ServerTyped'
  <2>1. CASE Unconfirmed(t)
    BY <1>1, <1>4, <2>1, ServeTypes DEF Unconfirmed
  <2>2. CASE Refused(t)
    BY <1>4, <2>2 DEF Refused, ServerTyped, cliServer
  <2> QED BY <2>1, <2>2
<1> QED BY <1>2, <1>3, <1>5

\* The items, if they share an array of which one element changes.
LEMMA WritesTypes ==
  ASSUME KeptTyped, NEW g, NEW n \in Nat, NEW x \in Item, Writes(g, n, x)
  PROVE  items' \in Seq(Item)
<1>1. CASE held = g /\ n \in DOMAIN items
  <2>1. items' = [items EXCEPT ![n] = x]
    BY <1>1 DEF Writes
  <2> QED BY <1>1, <2>1, ExceptSeq DEF KeptTyped
<1>2. CASE ~(held = g /\ n \in DOMAIN items)
  BY <1>2 DEF Writes, KeptTyped
<1> QED BY <1>1, <1>2

LEMMA InsertTypes ==
  ASSUME KeptTyped, NEW g \in FolderIds, NEW x \in Item, InsertItem(g, x)
  PROVE  /\ content' \in [FolderIds -> Seq(Item)] /\ items' \in Seq(Item)
         /\ held' \in {held, Nil}
<1>1. content[g] \in Seq(Item)
  BY DEF KeptTyped
<1>2. Append(content[g], x) \in Seq(Item) /\ Len(content[g]) + 1 \in Nat
  BY <1>1
<1>3. content' \in [FolderIds -> Seq(Item)]
  BY <1>2 DEF InsertItem, KeptTyped
<1>4. items' \in Seq(Item)
  BY <1>2, WritesTypes DEF InsertItem
<1> QED BY <1>3, <1>4 DEF InsertItem

LEMMA RemoveTypes ==
  ASSUME KeptTyped, NEW g \in FolderIds, NEW i, removeItem(g, i)
  PROVE  content' \in [FolderIds -> Seq(Item)] /\ items' \in Seq(Item)
<1>1. content[g] \in Seq(Item)
  BY DEF KeptTyped
<1>2. CASE UNCHANGED <<content, items>>
  BY <1>2 DEF KeptTyped
<1>3. CASE ~UNCHANGED <<content, items>>
  <2>1. PICK n \in DOMAIN content[g] :
          /\ content' = [content EXCEPT ![g] = Front([content[g] EXCEPT ![n] = Last(content[g])])]
          /\ Writes(g, n, Last(content[g]))
    BY <1>3 DEF removeItem, Position
  <2>2. PICK N \in Nat : N = Len(content[g])
    BY <1>1
  <2>3. n \in 1..N /\ n \in Nat /\ N > 0 /\ Last(content[g]) \in Item
    BY <1>1, <2>1, <2>2 DEF Last
  <2>4. PICK c : c = [content[g] EXCEPT ![n] = Last(content[g])]
    OBVIOUS
  <2>5. c \in Seq(Item) /\ Len(c) = N
    BY <1>1, <2>2, <2>3, <2>4
  <2>6. Front(c) \in Seq(Item)
    BY <2>3, <2>5 DEF Front
  <2>7. content' \in [FolderIds -> Seq(Item)]
    BY <2>1, <2>4, <2>6 DEF KeptTyped
  <2> QED BY <2>1, <2>3, <2>7, WritesTypes
<1> QED BY <1>2, <1>3

LEMMA UpdateTypes ==
  ASSUME KeptTyped, NEW g \in FolderIds, NEW x \in Item, NEW whole \in BOOLEAN, updateItem(g, x, whole)
  PROVE  content' \in [FolderIds -> Seq(Item)] /\ items' \in Seq(Item)
<1>1. content[g] \in Seq(Item)
  BY DEF KeptTyped
<1>2. CASE UNCHANGED <<content, items>>
  BY <1>2 DEF KeptTyped
<1>3. CASE ~UNCHANGED <<content, items>>
  <2> DEFINE new(n) == IF whole THEN x ELSE [content[g][n] EXCEPT !.name = x.name, !.at = x.at]
  <2>1. PICK n \in DOMAIN content[g] :
          content' = [content EXCEPT ![g][n] = new(n)] /\ Writes(g, n, new(n))
    BY <1>3 DEF updateItem, Position
  <2>2. n \in Nat /\ content[g][n] \in Item
    BY <1>1, <2>1
  <2>3. new(n) \in Item
    BY <2>2 DEF Item
  <2>4. [content[g] EXCEPT ![n] = new(n)] \in Seq(Item)
    BY <1>1, <2>1, <2>3, ExceptSeq
  <2>5. content' = [content EXCEPT ![g] = [content[g] EXCEPT ![n] = new(n)]]
    BY <2>1
  <2> HIDE DEF new
  <2>6. content' \in [FolderIds -> Seq(Item)]
    BY <2>4, <2>5 DEF KeptTyped
  <2> QED BY <2>1, <2>2, <2>3, <2>6, WritesTypes
<1> QED BY <1>2, <1>3

LEMMA ApplyTypes ==
  ASSUME Typed, NEW t \in DOMAIN routines, Apply(t)
  PROVE  Typed'
<1> USE DEF Typed
<1>1. PICK r : r = routines[t]
  OBVIOUS
<1>2. RoutineTyped(r) /\ r.at = "apply" /\ r /= Idle
  BY <1>1 DEF RoutinesTyped, Idle, Apply
<1>3. PICK g, x : g = r.context /\ x = r.item
  OBVIOUS
<1>4. /\ x \in Item /\ g \in folderContexts \cup {Nowhere} /\ r.kind \in Kinds
      /\ r.kind /= "delete" => g \in folderContexts
  BY <1>2, <1>3 DEF RoutineTyped
<1>5. folderContexts \subseteq FolderIds
  BY DEF KeptTyped
<1>6. content' \in [FolderIds -> Seq(Item)] /\ items' \in Seq(Item) /\ held' \in {held, Nil}
  <2>1. CASE r.kind \in {"folder", "upload"} /\ InsertItem(g, x)
    <3>1. g \in FolderIds
      BY <1>4, <1>5, <2>1
    <3> QED BY <1>4, <2>1, <3>1, InsertTypes
  <2>2. CASE g /= Nowhere /\ UNCHANGED held /\ removeItem(g, x.id)
    <3>1. g \in FolderIds
      BY <1>4, <1>5, <2>2
    <3> QED BY <1>4, <2>2, <3>1, RemoveTypes
  <2>3. CASE g /= Nowhere /\ UNCHANGED held /\ updateItem(g, x, r.kind = "edit")
    <3>1. g \in FolderIds
      BY <1>4, <1>5, <2>3
    <3> QED BY <1>4, <2>3, <3>1, UpdateTypes
  <2>4. CASE UNCHANGED <<content, items, held>>
    BY <2>4 DEF KeptTyped
  <2> QED BY <1>1, <1>3, <2>1, <2>2, <2>3, <2>4 DEF Apply
<1>7. KeptTyped'
  BY <1>6 DEF Apply, PageStays, KeptTyped
<1>8. ServerTyped' /\ PathTyped' /\ RowsTyped' /\ DialogTyped'
  BY DEF Apply, PageStays, Notes, Finishing, ServerTyped, PathTyped, RowsTyped, DialogTyped, cliServer, path
<1>9. PICK new : new = [r EXCEPT !.at = "items"]
  OBVIOUS
<1>10. RoutineTyped(new)
  BY <1>2, <1>4, <1>3, <1>9 DEF RoutineTyped, Stages
<1>11. RoutinesTyped'
  BY <1>1, <1>9, <1>10, RoutineSteps DEF Apply, PageStays
<1> QED BY <1>7, <1>8, <1>11

LEMMA SetItemsTypes ==
  ASSUME Typed, NEW t \in DOMAIN routines, SetItems(t)
  PROVE  Typed'
<1> USE DEF Typed
<1>1. PICK r : r = routines[t]
  OBVIOUS
<1>2. RoutineTyped(r) /\ r.at = "items" /\ r /= Idle
  BY <1>1 DEF RoutinesTyped, Idle, SetItems
<1>3. r.context \in folderContexts \cup {Nowhere}
  BY <1>2 DEF RoutineTyped
<1>4. KeptTyped'
  <2>1. <<>> \in Seq(Item)
    OBVIOUS
  <2> QED BY <1>1, <1>3, <2>1 DEF SetItems, PageStays, KeptTyped
<1>5. ServerTyped' /\ PathTyped' /\ RowsTyped' /\ DialogTyped'
  BY DEF SetItems, PageStays, ServerTyped, PathTyped, RowsTyped, DialogTyped, cliServer, path
<1>6. PICK new : new = [r EXCEPT !.at = "rows"]
  OBVIOUS
<1>7. RoutineTyped(new)
  BY <1>2, <1>6 DEF RoutineTyped, Stages
<1>8. RoutinesTyped'
  BY <1>1, <1>6, <1>7, RoutineSteps DEF SetItems, PageStays
<1> QED BY <1>4, <1>5, <1>8

LEMMA SetRowsTypes ==
  ASSUME Typed, NEW t \in DOMAIN routines, SetRows(t)
  PROVE  Typed'
<1> USE DEF Typed
<1>1. /\ items' \in Seq(Item) /\ content' \in [FolderIds -> Seq(Item)]
      /\ table' \in Seq(ItemIds)
  BY ItemRowsTypes DEF SetRows
<1>2. KeptTyped' /\ RowsTyped'
  BY <1>1 DEF SetRows, PageStays, KeptTyped, RowsTyped
<1>3. ServerTyped' /\ PathTyped' /\ DialogTyped'
  BY DEF SetRows, PageStays, ServerTyped, PathTyped, DialogTyped, cliServer, path
<1>4. RoutineTyped(Idle)
  BY DEF RoutineTyped
<1>5. RoutinesTyped'
  BY <1>4, RoutineSteps DEF SetRows, PageStays
<1> QED BY <1>2, <1>3, <1>5

LEMMA TypesInit == CliInit => Typed
<1> SUFFICES ASSUME CliInit PROVE Typed
  OBVIOUS
<1>1. \A i \in ItemIds : -i \in Int
  BY Constants
<1>2. ServerTyped
  <2>1. \A i \in DOMAIN InFolder : InFolder[i] \in FolderIds
    BY ItemsAssumption
  <2>2. 0 \in 0..MaxFaults
    BY Constants
  <2> QED BY <1>1, <2>1, <2>2 DEF CliInit, ServerTyped, Rights, Nobody
<1>3. Listing(Home) \in Seq(Item) /\ <<>> \in Seq(Item)
  BY <1>2, ListingIs
<1>4. KeptTyped
  BY <1>3, Constants DEF CliInit, KeptTyped
<1>5. PathTyped
  BY DEF CliInit, PathTyped
<1>6. RowsTyped
  BY <1>3, IdsOfItems DEF CliInit, RowsTyped, NoFilter
<1>7. DialogTyped /\ RoutinesTyped
  BY DEF CliInit, DialogTyped, RoutinesTyped, RoutineTyped
<1> QED BY <1>2, <1>4, <1>5, <1>6, <1>7 DEF Typed

LEMMA TypesNext == Typed /\ [CliNext]_cliVars => Typed'
<1> SUFFICES ASSUME Typed, [CliNext]_cliVars PROVE Typed'
  OBVIOUS
<1>1. CASE UNCHANGED cliVars
  <2>1. ServerTyped' /\ KeptTyped' /\ PathTyped' /\ RowsTyped' /\ DialogTyped'
    BY <1>1 DEF Typed, ServerTyped, KeptTyped, PathTyped, RowsTyped, DialogTyped,
                cliVars, cliServer, kept, cliPage, path, cliHistory
  <2>2. RoutinesTyped'
    BY <1>1, RoutinesStay DEF Typed, cliVars, kept
  <2> QED BY <2>1, <2>2 DEF Typed
<1>2. CASE \E t \in DOMAIN routines : Goroutine(t)
  BY <1>2, AnsweredTypes, FailedTypes, ApplyTypes, SetItemsTypes, SetRowsTypes DEF Goroutine
<1> QED BY <1>1, <1>2, KeyTypes, DialogStepTypes DEF CliNext

LEMMA TypesHold == CliSpec => []Typed
BY TypesInit, TypesNext, PTL DEF CliSpec

-----------------------------------------------------------------------------
(* Bounds.                                                                 *)

\* What the user has still to be charged for: requests under way, and one that
\* the dialog may begin.
Calling == {t \in DOMAIN routines : routines[t].at = "call"}
Asking == IF dialog /= Nil /\ dialog.kind \notin {"view", "share"} THEN 1 ELSE 0

ClockInv == clock + Cardinality(Calling) + Asking <= MaxOrders

LEMMA CallingIs ==
  ASSUME Typed
  PROVE  /\ IsFiniteSet(Calling) /\ Cardinality(Calling) \in Nat
         /\ Working \in Nat /\ Cardinality(Calling) <= Working
         /\ clock \in Nat /\ Asking \in {0, 1} /\ MaxOrders \in Nat
<1> DEFINE W == {t \in DOMAIN routines : routines[t] /= Idle}
<1>1. W \subseteq 1..MaxRoutines /\ IsFiniteSet(1..MaxRoutines)
  BY Constants, Interval DEF Typed, RoutinesTyped
<1>2. IsFiniteSet(W) /\ Cardinality(W) \in Nat
  BY <1>1, FS_Subset, FS_CardinalityType
<1>3. Calling \subseteq W
  BY DEF Calling, Idle
<1>4. IsFiniteSet(Calling) /\ Cardinality(Calling) \in Nat /\ Cardinality(Calling) <= Cardinality(W)
  BY <1>2, <1>3, FS_Subset, FS_CardinalityType
<1> QED BY <1>2, <1>4, Constants DEF Working, Typed, ServerTyped, Asking

LEMMA ClockNext ==
  ASSUME Typed, Typed', ClockInv, [CliNext]_cliVars
  PROVE  ClockInv'
<1>0. /\ IsFiniteSet(Calling) /\ Cardinality(Calling) \in Nat
      /\ Working \in Nat /\ Cardinality(Calling) <= Working
      /\ clock \in Nat /\ Asking \in {0, 1} /\ MaxOrders \in Nat
  BY CallingIs
<1>1. (clock \in Nat)' /\ (Asking \in {0, 1})'
  BY DEF Typed, ServerTyped, Asking
<1>2. ASSUME Fresh PROVE ClockInv'
  <2>1. Calling' = {} /\ Asking' = 0 /\ clock' = clock
    BY <1>2 DEF Fresh, Calling, Idle, Asking
  <2>2. Cardinality(Calling') = 0
    BY <2>1, FS_EmptySet
  <2> QED BY <1>0, <2>1, <2>2 DEF ClockInv
<1>3. ASSUME UNCHANGED <<routines, dialog, clock>> PROVE ClockInv'
  BY <1>3 DEF ClockInv, Calling, Asking
<1>4. ASSUME NEW d, NEW condition, Open(d, condition), UNCHANGED <<>> PROVE ClockInv'
  <2>1. Calling' = Calling /\ clock' = clock /\ clock + Working < MaxOrders
    BY <1>4 DEF Open, Calling, Willing
  <2> QED BY <1>0, <1>1, <2>1 DEF ClockInv
<1>5. CASE UNCHANGED cliVars
  BY <1>3, <1>5 DEF cliVars, cliHistory
<1>6. CASE Key
  <2>1. CASE Start \/ PickPanics
    BY <1>2, <2>1 DEF Start, PickPanics
  <2>2. CASE Back \/ \E item \in ToSet(Selectable) : EnterFolder(item)
    BY <1>3, <2>2 DEF Back, EnterFolder
  <2>3. CASE Slash \/ Erase \/ KeepFilter \/ LeaveFilter \/ \E s \in Strings : Type(s)
    BY <1>3, <2>3 DEF Slash, Erase, KeepFilter, LeaveFilter, Type, Filtering
  <2>4. CASE \/ \E kind \in {"folder", "upload"} : NewItem(kind)
             \/ \E item \in ToSet(Selectable) :
                  \/ NewShareRequest(item)
                  \/ \E kind \in {"rename", "delete", "edit", "view"} : NewItemRequest(item, kind)
    BY <1>4, <2>4 DEF NewItem, NewShareRequest, NewItemRequest
  <2> QED BY <1>6, <2>1, <2>2, <2>3, <2>4 DEF Key
<1>7. CASE InDialog
  <2>1. CASE Cancel \/ ReturnFromView \/ ReturnFromShares
    <3>1. Calling' = Calling /\ clock' = clock /\ Asking' = 0
      BY <2>1 DEF Cancel, ReturnFromView, ReturnFromShares, Event, Calling, Asking, cliHistory
    <3> QED BY <1>0, <3>1 DEF ClockInv
  <2>2. CASE DialogPanics
    BY <1>2, <2>2 DEF DialogPanics
  <2>3. CASE \E t \in DOMAIN routines : Confirm(t)
    <3>1. PICK t \in DOMAIN routines : Confirm(t)
      BY <2>3
    <3>2. Asking = 1 /\ Asking' = 0 /\ clock' = clock
      BY <3>1 DEF Confirm, Event, Asking
    <3>3. Calling' = Calling \cup {t} /\ t \notin Calling
      BY <3>1 DEF Confirm, Calling, Idle
    <3>4. Cardinality(Calling') = Cardinality(Calling) + 1
      BY <1>0, <3>3, FS_AddElement
    <3> QED BY <1>0, <3>2, <3>4 DEF ClockInv
  <2>4. ASSUME NEW rs, NEW new, Requests(rs, new) PROVE ClockInv'
    <3>1. Calling' = Calling /\ clock' = clock + 1 /\ clock + Working < MaxOrders
      BY <2>4 DEF Requests, Calling, Willing, Now
    <3>2. dialog \in Dialogs /\ dialog.kind = "share"
      BY <2>4 DEF Requests, Sharing, Typed, DialogTyped
    <3>3. dialog'.kind = "share"
      BY <2>4, <3>2 DEF Requests, Dialogs
    <3>4. Asking' = 0
      BY <3>3 DEF Asking
    <3> QED BY <1>0, <3>1, <3>4 DEF ClockInv
  <2> QED BY <1>7, <2>1, <2>2, <2>3, <2>4 DEF InDialog, Add, shareItem, Edit, Unshare
<1>8. CASE \E t \in DOMAIN routines : Goroutine(t)
  <2>1. PICK t \in DOMAIN routines : Goroutine(t)
    BY <1>8
  <2>2. dialog' = dialog /\ Asking' = Asking
    BY <2>1 DEF Goroutine, Answered, Unconfirmed, Refused, Apply, SetItems, SetRows, PageStays, Asking
  <2>3. CASE Answered(t) \/ Unconfirmed(t) \/ Refused(t)
    <3>1. Calling' = Calling \ {t} /\ t \in Calling
      <4>1. t \in Calling /\ DOMAIN routines' = DOMAIN routines
        BY <2>3 DEF Answered, Unconfirmed, Refused, Calling
      <4>2. routines'[t].at \in {"apply", "idle"}
        <5>1. CASE Answered(t)
          <6>1. PICK i \in ItemIds : routines' = [routines EXCEPT ![t] = [@ EXCEPT !.at = "apply", !.item = Became(routines[t], i)]]
            BY <5>1 DEF Answered
          <6>2. PICK r : r = routines[t]
            OBVIOUS
          <6>3. r \in [at : Stages, kind : Kinds, item : Item \cup {Nil}, context : folderContexts \cup {Nowhere}]
            BY <5>1, <6>2 DEF Answered, Idle, Typed, RoutinesTyped, RoutineTyped
          <6>4. routines'[t] = [r EXCEPT !.at = "apply", !.item = Became(r, i)]
            BY <6>1, <6>2
          <6> QED BY <6>3, <6>4
        <5>2. CASE Unconfirmed(t) \/ Refused(t)
          BY <5>2 DEF Unconfirmed, Refused, Idle
        <5> QED BY <2>3, <5>1, <5>2
      <4>3. \A u \in DOMAIN routines \ {t} : routines'[u] = routines[u]
        BY <2>3 DEF Answered, Unconfirmed, Refused
      <4> QED BY <4>1, <4>2, <4>3 DEF Calling
    <3>2. Cardinality(Calling') = Cardinality(Calling) - 1
      BY <1>0, <3>1, FS_RemoveElement
    <3>3. clock' \in {clock, clock + 1}
      BY <2>3 DEF Answered, Unconfirmed, Refused, Now
    <3> QED BY <1>0, <2>2, <3>2, <3>3 DEF ClockInv
  <2>4. CASE Apply(t) \/ SetItems(t) \/ SetRows(t)
    <3>1. clock' = clock /\ DOMAIN routines' = DOMAIN routines
      BY <2>4 DEF Apply, SetItems, SetRows
    <3>2. routines[t].at \in {"apply", "items", "rows"} /\ routines'[t].at \in {"items", "rows", "idle"}
      <4>1. PICK r : r = routines[t]
        OBVIOUS
      <4>2. CASE Apply(t) \/ SetItems(t)
        <5>3. r.at \in {"apply", "items"}
          BY <4>1, <4>2 DEF Apply, SetItems
        <5>0. RoutineTyped(r) /\ r /= Idle
          BY <4>1, <5>3 DEF Idle, Typed, RoutinesTyped
        <5>1. r \in [at : Stages, kind : Kinds, item : Item \cup {Nil}, context : folderContexts \cup {Nowhere}]
          BY <5>0 DEF RoutineTyped
        <5>2. routines'[t] = [r EXCEPT !.at = "items"] \/ routines'[t] = [r EXCEPT !.at = "rows"]
          BY <4>1, <4>2 DEF Apply, SetItems
        <5> QED BY <4>1, <4>2, <5>1, <5>2 DEF Apply, SetItems
      <4>3. CASE SetRows(t)
        BY <4>3 DEF SetRows, Idle
      <4> QED BY <2>4, <4>2, <4>3
    <3>3. \A u \in DOMAIN routines \ {t} : routines'[u] = routines[u]
      BY <2>4 DEF Apply, SetItems, SetRows
    <3>4. Calling' = Calling
      BY <3>1, <3>2, <3>3 DEF Calling
    <3> QED BY <2>2, <3>1, <3>4 DEF ClockInv
  <2> QED BY <2>1, <2>3, <2>4 DEF Goroutine
<1> QED BY <1>5, <1>6, <1>7, <1>8 DEF CliNext

\* Everything the page keeps is of its type: an item for each row, the folders that were
\* fetched for those on the path, and no more done than the bounds allow.
THEOREM PageTypeCorrect == CliSpec => []CliTypeOK
<1>1. CliInit => ClockInv
  <2> SUFFICES ASSUME CliInit PROVE ClockInv
    OBVIOUS
  <2>1. Calling = {} /\ clock = 0 /\ Asking = 0
    BY DEF CliInit, Calling, Asking, Idle
  <2>2. Cardinality(Calling) = 0
    BY <2>1, FS_EmptySet
  <2> QED BY <2>1, <2>2, Constants DEF ClockInv
<1>2. Typed /\ Typed' /\ ClockInv /\ [CliNext]_cliVars => ClockInv'
  BY ClockNext
<1>3. Typed /\ ClockInv => CliTypeOK
  <2> SUFFICES ASSUME Typed, ClockInv PROVE CliTypeOK
    OBVIOUS
  <2>1. clock \in 0..MaxOrders
    BY CallingIs DEF ClockInv
  <2>2. \A t \in 1..MaxRoutines : routines[t] = Idle \/ routines[t] \in
           [at : {"call", "apply", "items", "rows"}, kind : Kinds, item : Item \cup {Nil},
            context : folderContexts \cup {Nowhere}]
    BY DEF Typed, RoutinesTyped, RoutineTyped, Stages
  <2> QED BY <2>1, <2>2 DEF CliTypeOK, Typed, ServerTyped, KeptTyped, PathTyped, RowsTyped, DialogTyped
<1> QED BY <1>1, <1>2, <1>3, TypesHold, PTL DEF CliSpec

-----------------------------------------------------------------------------
(* Rows and items.                                                         *)

\* While no goroutine is at its end, the items are sorted, and the rows are made of
\* what keys act upon.
ShownInv ==
  ~ Finishing => /\ Sorted(items) = items
                 /\ ~ filter.off => table = IdsOf(Selectable)

LEMMA FreshShown ==
  ASSUME Typed, Fresh
  PROVE  ShownInv'
<1>1. items' = Listing(Home) /\ table' = IdsOf(items') /\ filter' = NoFilter
  BY DEF Fresh
<1>2. Sorted(items') = items'
  BY <1>1, ListingIs DEF Typed
<1>3. Sorted(items)' = items'
  BY <1>2 DEF Sorted
<1> QED BY <1>1, <1>3 DEF ShownInv, Selectable, NoFilter, IdsOf

LEMMA ItemRowsShown ==
  ASSUME Typed, CreateItemRows, filter'.typed => filter'.off
  PROVE  ShownInv'
<1>1. items' = Sorted(items) /\ table' = IdsOf(items')
  BY DEF CreateItemRows
<1>2. Sorted(items') = items'
  BY <1>1, SortedStays DEF Typed, KeptTyped
<1> QED BY <1>1, <1>2 DEF ShownInv, Selectable

LEMMA ModelShown ==
  ASSUME Typed, NEW g \in FolderIds, NewModel(g)
  PROVE  ShownInv'
<1> DEFINE new == IF g \in folderContexts THEN fetched[g] ELSE Listing(g)
           empty == g \in folderContexts /\ content[g] = <<>>
           list == IF g \notin folderContexts \/ empty THEN new ELSE content[g]
<1>1. list \in Seq(Item)
  BY ListingIs DEF Typed, KeptTyped
<1>2. items' = Sorted(list) /\ table' = IdsOf(items') /\ filter' = NoFilter
  BY DEF NewModel
<1> HIDE DEF list
<1>3. Sorted(items') = items'
  BY <1>1, <1>2, SortedStays
<1> QED BY <1>2, <1>3 DEF ShownInv, Selectable, NoFilter

LEMMA SharesShown ==
  ASSUME Typed, ReturnFromShares
  PROVE  ShownInv'
<1>1. table' = IdsOf(items') /\ filter' = NoFilter
  BY DEF ReturnFromShares
<1>2. Sorted(items') = items'
  <2>1. CASE context = Nowhere
    <3>1. items' = <<>> /\ <<>> \in Seq(Item)
      BY <2>1 DEF ReturnFromShares
    <3>2. Sorted(<<>>) \in Seq(Item) /\ Len(Sorted(<<>>)) = 0
      BY <3>1, SortedStays
    <3> QED BY <3>1, <3>2, EmptySeq
  <2>2. CASE context /= Nowhere
    <3>1. context \in FolderIds
      BY <2>2 DEF Typed, PathTyped, KeptTyped
    <3> DEFINE x == [dialog.item EXCEPT !.sharedWith = Cardinality(Shared)]
               c == SortedWith(content, Sorted(items))[context]
               new == [n \in DOMAIN c |-> IF c[n].id = x.id THEN x ELSE c[n]]
    <3>2. items' = Sorted(new)
      BY <2>2 DEF ReturnFromShares
    <3>3. x \in Item
      <4>1. dialog.item \in Item
        BY DEF ReturnFromShares, Sharing, Typed, DialogTyped
      <4> QED BY <4>1, SharedIsNat DEF Item, Shared
    <3>4. c \in Seq(Item)
      BY <3>1, KeptSorted, SortedStays DEF Typed, KeptTyped
    <3> HIDE DEF x, c
    <3>5. new \in Seq(Item)
      <4>1. PICK N \in Nat : N = Len(c)
        BY <3>4
      <4>2. new \in [1..N -> Item]
        BY <3>3, <3>4, <4>1
      <4> QED BY <4>2
    <3> QED BY <3>2, <3>5, SortedStays
  <2> QED BY <2>1, <2>2
<1> QED BY <1>1, <1>2 DEF ShownInv, Selectable, NoFilter

\* The keys of the filter.
LEMMA FilterShown ==
  ASSUME Typed, ShownInv, Slash \/ Erase \/ KeepFilter \/ LeaveFilter \/ \E s \in Strings : Type(s)
  PROVE  ShownInv'
<1>1. Filtering
  BY DEF Slash, Erase, KeepFilter, LeaveFilter, Type
<1>2. Finishing' <=> Finishing
  BY <1>1 DEF Filtering, Finishing
<1>3. CASE Slash \/ KeepFilter
  <2>1. UNCHANGED <<items, table>> /\ filter' \in {[filter EXCEPT !.on = TRUE], [filter EXCEPT !.on = FALSE]}
    BY <1>3 DEF Slash, KeepFilter
  <2>2. filter'.typed = filter.typed /\ filter'.found = filter.found /\ filter'.off = filter.off
    BY <2>1 DEF Typed, RowsTyped
  <2> QED BY <1>2, <2>1, <2>2 DEF ShownInv, Selectable
<1>4. CASE LeaveFilter
  <2>1. filter'.typed = filter.typed /\ filter'.off = filter.typed
    BY <1>4 DEF LeaveFilter, Typed, RowsTyped
  <2> QED BY <1>4, <2>1, ItemRowsShown DEF LeaveFilter
<1>5. CASE Erase
  <2>1. items' = items
    BY <1>5 DEF Erase
  <2>2. CASE filter.typed
    BY <1>2, <1>5, <2>1, <2>2 DEF Erase, ShownInv, Selectable, NoFilter
  <2>3. CASE ~ filter.typed
    <3>1. table' = table /\ filter' = [filter EXCEPT !.on = FALSE]
      BY <1>5, <2>3 DEF Erase
    <3>2. filter'.typed = filter.typed /\ filter'.off = filter.off
      BY <3>1 DEF Typed, RowsTyped
    <3> QED BY <1>2, <2>1, <2>3, <3>1, <3>2 DEF ShownInv, Selectable
  <2> QED BY <2>2, <2>3
<1>6. CASE \E s \in Strings : Type(s)
  <2>1. PICK found : FilterRows(found) /\ items' = items
    BY <1>6 DEF Type
  <2> QED BY <1>2, <2>1 DEF FilterRows, ShownInv, Selectable, NoFilter
<1> QED BY <1>3, <1>4, <1>5, <1>6

\* A goroutine that was not at its end, and is not now, leaves the page alone.
LEMMA QuietShown ==
  ASSUME Typed, ShownInv, UNCHANGED <<items, table, filter>>, Finishing => Finishing'
  PROVE  ShownInv'
BY DEF ShownInv, Selectable

LEMMA AnswerShown ==
  ASSUME Typed, ShownInv, NEW t \in DOMAIN routines, Answered(t) \/ Unconfirmed(t) \/ Refused(t)
  PROVE  ShownInv'
<1>1. UNCHANGED <<items, table, filter>>
  BY DEF Answered, Unconfirmed, Refused, cliPage
<1>2. routines[t].at = "call"
  BY DEF Answered, Unconfirmed, Refused
<1>3. DOMAIN routines' = DOMAIN routines /\ \A u \in DOMAIN routines \ {t} : routines'[u] = routines[u]
  BY DEF Answered, Unconfirmed, Refused
<1>4. Finishing => Finishing'
  BY <1>2, <1>3 DEF Finishing
<1> QED BY <1>1, <1>4, QuietShown

\* One that changed the content, or the items, is at its end.
LEMMA AtItsEnd ==
  ASSUME Typed, NEW t \in DOMAIN routines, Apply(t) \/ SetItems(t)
  PROVE  Finishing'
<1>1. routines[t].at \in {"apply", "items"}
  BY DEF Apply, SetItems
<1>2. RoutineTyped(routines[t]) /\ routines[t] /= Idle
  BY <1>1 DEF Typed, RoutinesTyped, Idle
<1>3. PICK r : r = routines[t]
  OBVIOUS
<1>4. r \in [at : Stages, kind : Kinds, item : Item \cup {Nil}, context : folderContexts \cup {Nowhere}]
  BY <1>2, <1>3 DEF RoutineTyped
<1>5. routines' = [routines EXCEPT ![t] = [r EXCEPT !.at = "items"]]
      \/ routines' = [routines EXCEPT ![t] = [r EXCEPT !.at = "rows"]]
  BY <1>3 DEF Apply, SetItems
<1>6. t \in DOMAIN routines' /\ routines'[t].at \in {"items", "rows"}
  BY <1>4, <1>5
<1> QED BY <1>6 DEF Finishing

LEMMA ShownNext ==
  ASSUME Typed, ShownInv, [CliNext]_cliVars
  PROVE  ShownInv'
<1>1. CASE UNCHANGED cliVars
  BY <1>1, QuietShown DEF cliVars, cliPage, Finishing
<1>2. CASE Key
  <2>1. CASE Start \/ PickPanics
    BY <2>1, FreshShown DEF Start, PickPanics
  <2>2. CASE Back
    <3>1. folderViews[Len(folderViews) - 1] \in FolderIds
      BY <2>2 DEF Back, Typed, PathTyped, KeptTyped
    <3> QED BY <2>2, <3>1, ModelShown DEF Back
  <2>3. CASE \E item \in ToSet(Selectable) : EnterFolder(item)
    <3>1. PICK item : EnterFolder(item)
      BY <2>3
    <3>2. CASE NewModel(item.id)
      BY <3>1, <3>2, ModelShown, Constants DEF EnterFolder
    <3>3. CASE NewModelFails(item.id)
      BY <3>3, ItemRowsShown DEF NewModelFails, NoFilter
    <3> QED BY <3>1, <3>2, <3>3 DEF EnterFolder
  <2>4. CASE Slash \/ Erase \/ KeepFilter \/ LeaveFilter \/ \E s \in Strings : Type(s)
    BY <2>4, FilterShown
  <2>5. CASE \/ \E kind \in {"folder", "upload"} : NewItem(kind)
             \/ \E item \in ToSet(Selectable) :
                  \/ NewShareRequest(item)
                  \/ \E kind \in {"rename", "delete", "edit", "view"} : NewItemRequest(item, kind)
    <3>1. UNCHANGED <<items, table, filter, routines>>
      BY <2>5 DEF NewItem, NewShareRequest, NewItemRequest, Open, cliPage
    <3> QED BY <3>1, QuietShown DEF Finishing
  <2> QED BY <1>2, <2>1, <2>2, <2>3, <2>4, <2>5 DEF Key
<1>3. CASE InDialog
  <2>1. CASE Cancel
    BY <2>1, QuietShown DEF Cancel, cliPage, Finishing
  <2>2. CASE DialogPanics
    BY <2>2, FreshShown DEF DialogPanics
  <2>3. ASSUME Event PROVE ShownInv'
    BY <2>3, ItemRowsShown DEF Event, NoFilter
  <2>4. ASSUME NEW rs, NEW new, Requests(rs, new) PROVE ShownInv'
    BY <2>4, QuietShown DEF Requests, cliPage, Finishing
  <2> QED BY <1>3, <2>1, <2>2, <2>3, <2>4, SharesShown
          DEF InDialog, ReturnFromView, Confirm, Add, shareItem, Edit, Unshare
<1>4. CASE \E t \in DOMAIN routines : Goroutine(t)
  <2>1. PICK t \in DOMAIN routines : Goroutine(t)
    BY <1>4
  <2>2. CASE SetRows(t)
    <3>1. filter'.typed = filter.typed /\ filter'.off = (filter.off \/ filter.typed)
      BY <2>2 DEF SetRows, Typed, RowsTyped
    <3> QED BY <2>2, <3>1, ItemRowsShown DEF SetRows
  <2> QED BY <2>1, <2>2, AnswerShown, AtItsEnd DEF Goroutine, ShownInv
<1> QED BY <1>1, <1>2, <1>3, <1>4 DEF CliNext

\* A key acts upon the item whose row the cursor is on, except after a filter was left or
\* a goroutine ended under it: as long as no goroutine stands between its change of the
\* items and its rows, the rows are those of what Update picks from.
THEOREM PageActsOnWhatIsShown == CliSpec => []ActsOnWhatIsShown
<1>1. CliInit => ShownInv
  <2> SUFFICES ASSUME CliInit PROVE ShownInv
    OBVIOUS
  <2>1. items = Listing(Home) /\ table = IdsOf(items) /\ filter = NoFilter
    BY DEF CliInit
  <2>2. Sorted(items) = items
    BY <2>1, TypesInit, ListingIs DEF Typed
  <2> QED BY <2>1, <2>2 DEF ShownInv, Selectable, NoFilter
<1>2. Typed /\ ShownInv /\ [CliNext]_cliVars => ShownInv'
  BY ShownNext
<1>3. ShownInv => ActsOnWhatIsShown
  BY DEF ShownInv, ActsOnWhatIsShown
<1> QED BY <1>1, <1>2, <1>3, TypesHold, PTL DEF CliSpec

-----------------------------------------------------------------------------
(* What is kept, and what the server has.                                  *)

\* The ids in a list, each of which is there once.
IdsIn(c) == {x.id : x \in ToSet(c)}
Distinct(c) == \A m, n \in DOMAIN c : c[m].id = c[n].id => m = n

\* An item has the name that the server has, and as many recipients.
Named(x) == x.name = changed[x.id]
Counted(x) == x.sharedWith = SharedWith(x.id)

\* An item is, or was, in a folder.
KnownIn(x, g) == parent[x.id] \in {g, Nowhere}

\* The server served a request, and the page does not know of it yet.
Awaits(kinds, i) ==
  \E t \in DOMAIN routines :
    routines[t].at = "apply" /\ routines[t].kind \in kinds /\ routines[t].item.id = i

Makers == {"folder", "upload"}

\* What was never made was never fetched or shared.
NeverMade ==
  /\ \A i \in ItemIds : parent[i] = Nil => shares[i] = Nobody
  /\ \A g \in folderContexts : g = Home \/ parent[g] /= Nil

\* What was found is among the items.
FoundTrue ==
  ~ Finishing /\ filter.typed /\ ~ filter.off => ToSet(filter.found) \subseteq ToSet(items)

\* The items are the content of the folder that the path names, or soon will be.
AtPlace ==
  /\ context = Here
  /\ \A t, u \in DOMAIN routines :
       routines[t].at \in {"items", "rows"} /\ routines[u].at \in {"items", "rows"} => t = u
  /\ (\A t \in DOMAIN routines : routines[t].at /= "items") => held = Here /\ items = content[Here]

\* A list is what the server has in a folder.
UpToDate(c, g) ==
  /\ Distinct(c) /\ IdsIn(c) = Children(g)
  /\ \A x \in ToSet(c) : Named(x) /\ Counted(x)

\* The folders that are not shown are kept as the server has them.
OthersTrue ==
  \A g \in folderContexts :
    /\ \A x \in ToSet(content[g]) : KnownIn(x, g)
    /\ g /= Here /\ IsThere(g) => UpToDate(content[g], g)

\* The folder that is shown is, too, but for the requests that were served and the
\* item whose shares are shown.
HereTrue ==
  IsThere(Here) =>
    /\ Distinct(content[Here])
    /\ \A i \in ItemIds : i \in IdsIn(content[Here]) <=>
         (parent[i] = Here /\ ~ Awaits(Makers, i)) \/ Awaits({"delete"}, i)
    /\ \A x \in ToSet(content[Here]) : ~ Awaits({"delete"}, x.id) =>
         /\ Awaits({"rename", "edit"}, x.id) \/ Named(x)
         /\ (Sharing /\ dialog.item.id = x.id) \/ Counted(x)

\* A goroutine has the item as the server has it.
RoutineTrue(r) ==
  r /= Idle =>
    /\ r.context = Here
    /\ r.item /= Nil =>
         /\ KnownIn(r.item, Here)
         /\ IsThere(Here) /\ parent[r.item.id] = Here => Named(r.item) /\ Counted(r.item)
    /\ r.at = "apply" =>
         IF r.kind = "delete" THEN parent[r.item.id] = Nowhere
         ELSE IsThere(Here) => parent[r.item.id] = Here

Carries(t, i) == routines[t] /= Idle /\ routines[t].item /= Nil /\ routines[t].item.id = i

\* No two goroutines work at the same item.
RoutinesTrue ==
  /\ \A t \in DOMAIN routines : RoutineTrue(routines[t])
  /\ \A t, u \in DOMAIN routines : \A i \in ItemIds : Carries(t, i) /\ Carries(u, i) => t = u

\* The dialog has the item as the server has it, and no goroutine works at it.
DialogTrue ==
  dialog /= Nil /\ dialog.item /= Nil =>
    /\ KnownIn(dialog.item, Here)
    /\ \A t \in DOMAIN routines : ~ Carries(t, dialog.item.id)
    /\ IsThere(Here) /\ parent[dialog.item.id] = Here =>
         Named(dialog.item) /\ (dialog.kind /= "share" => Counted(dialog.item))
    /\ IsThere(Here) /\ dialog.kind = "share" => dialog.users = shares[dialog.item.id]

Ordinary == AtPlace /\ OthersTrue /\ HereTrue /\ RoutinesTrue /\ DialogTrue

PagesInv == NeverMade /\ FoundTrue /\ (~ odd => Ordinary)

-----------------------------------------------------------------------------
(* Lists.                                                                  *)

LEMMA ElementOf ==
  ASSUME NEW c, NEW x
  PROVE  x \in ToSet(c) <=> \E n \in DOMAIN c : c[n] = x
BY DEF ToSet

LEMMA SortedKeeps ==
  ASSUME NEW s \in Seq(Item)
  PROVE  /\ Sorted(s) \in Seq(Item) /\ Len(Sorted(s)) = Len(s)
         /\ ToSet(Sorted(s)) = ToSet(s)
         /\ Distinct(s) => Distinct(Sorted(s))
<1>1. PICK N \in Nat : N = Len(s)
  OBVIOUS
<1>2. PICK t : t = Sorted(s)
  OBVIOUS
<1>3. PICK p : Reorders(p, 1..N, N) /\ \A k \in 1..N : t[k] = s[p[k]]
  BY <1>1, <1>2, SortedList
<1>4. t \in Seq(Item) /\ Len(t) = N /\ DOMAIN t = 1..N /\ DOMAIN s = 1..N
  BY <1>1, <1>2, SortedList
<1>5. ToSet(t) = ToSet(s)
  <2>1. \A k \in 1..N : \E n \in 1..N : t[k] = s[n]
    BY <1>3 DEF Reorders
  <2>2. \A n \in 1..N : \E k \in 1..N : t[k] = s[n]
    BY <1>3 DEF Reorders
  <2>3. \A x : x \in ToSet(t) <=> x \in ToSet(s)
    <3> TAKE x
    <3>1. x \in ToSet(t) <=> \E k \in 1..N : t[k] = x
      BY <1>4, ElementOf
    <3>2. x \in ToSet(s) <=> \E n \in 1..N : s[n] = x
      BY <1>4, ElementOf
    <3> QED BY <2>1, <2>2, <3>1, <3>2
  <2> QED BY <2>3
<1>6. Distinct(s) => Distinct(t)
  <2> SUFFICES ASSUME Distinct(s), NEW m \in 1..N, NEW n \in 1..N, t[m].id = t[n].id PROVE m = n
    BY <1>4 DEF Distinct
  <2>2. p[m] \in 1..N /\ p[n] \in 1..N /\ s[p[m]].id = s[p[n]].id
    BY <1>3 DEF Reorders
  <2>1. p[m] = p[n]
    BY <1>4, <2>2 DEF Distinct
  <2> QED BY <1>3, <2>1 DEF Reorders
<1> QED BY <1>1, <1>2, <1>4, <1>5, <1>6

LEMMA EmptySorted == Sorted(<<>>) = <<>>
<1>1. <<>> \in Seq(Item) /\ Len(<<>>) = 0
  OBVIOUS
<1>2. Sorted(<<>>) \in Seq(Item) /\ Len(Sorted(<<>>)) = 0
  BY <1>1, SortedStays
<1> QED BY <1>2, EmptySeq

LEMMA Elements ==
  ASSUME NEW c \in Seq(Item)
  PROVE  /\ \A x \in ToSet(c) : x \in Item /\ x.id \in ItemIds /\ \E n \in DOMAIN c : c[n] = x
         /\ \A n \in DOMAIN c : n \in 1..Len(c) /\ c[n] \in ToSet(c) /\ c[n].id \in IdsIn(c)
         /\ Distinct(c) => \A x, y \in ToSet(c) : x.id = y.id => x = y
<1>1. \A x \in ToSet(c) : x \in Item /\ x.id \in ItemIds /\ \E n \in DOMAIN c : c[n] = x
  <2> TAKE x \in ToSet(c)
  <2>1. PICK n \in DOMAIN c : c[n] = x
    BY ElementOf
  <2>2. x \in Item
    BY <2>1
  <2> QED BY <2>1, <2>2 DEF Item
<1>2. \A n \in DOMAIN c : n \in 1..Len(c) /\ c[n] \in ToSet(c) /\ c[n].id \in IdsIn(c)
  BY DEF ToSet, IdsIn
<1>3. Distinct(c) => \A x, y \in ToSet(c) : x.id = y.id => x = y
  BY DEF ToSet, Distinct
<1> QED BY <1>1, <1>2, <1>3

LEMMA AppendIs ==
  ASSUME NEW c \in Seq(Item), NEW x \in Item
  PROVE  /\ ToSet(Append(c, x)) = ToSet(c) \cup {x}
         /\ Distinct(c) /\ x.id \notin IdsIn(c) => Distinct(Append(c, x))
<1>1. PICK N \in Nat : N = Len(c)
  OBVIOUS
<1>2. PICK d : d = Append(c, x)
  OBVIOUS
<1>3. /\ DOMAIN d = 1..(N + 1) /\ DOMAIN c = 1..N
      /\ \A n \in 1..N : d[n] = c[n]
      /\ d[N + 1] = x
  BY <1>1, <1>2
<1>4. \A n \in 1..(N + 1) : n \in 1..N \/ n = N + 1
  BY <1>1
<1>5. 1..N \subseteq 1..(N + 1) /\ N + 1 \in 1..(N + 1)
  BY <1>1
<1>6. ToSet(d) = ToSet(c) \cup {x}
  BY <1>3, <1>4, <1>5 DEF ToSet
<1>7. Distinct(c) /\ x.id \notin IdsIn(c) => Distinct(d)
  <2> SUFFICES ASSUME Distinct(c), x.id \notin IdsIn(c) PROVE Distinct(d)
    OBVIOUS
  <2>1. \A n \in 1..N : d[n].id /= x.id
    BY <1>3, Elements
  <2> QED BY <1>3, <1>4, <2>1 DEF Distinct
<1> QED BY <1>2, <1>6, <1>7

LEMMA CutIs ==
  ASSUME NEW c \in Seq(Item), NEW n \in DOMAIN c
  PROVE  LET d == Front([c EXCEPT ![n] = Last(c)])
         IN /\ ToSet(d) \subseteq ToSet(c)
            /\ Distinct(c) => Distinct(d) /\ ToSet(d) = ToSet(c) \ {c[n]}
<1>1. PICK N \in Nat : N = Len(c)
  OBVIOUS
<1>2. PICK d : d = Front([c EXCEPT ![n] = Last(c)])
  OBVIOUS
<1>3. DOMAIN c = 1..N /\ n \in 1..N /\ N - 1 \in Nat /\ N \in 1..N
  BY <1>1
<1>4. Last(c) = c[N]
  BY <1>1 DEF Last
<1>9. PICK e : e = [c EXCEPT ![n] = Last(c)]
  OBVIOUS
<1>10. e \in Seq(Item) /\ Len(e) = N /\ \A k \in 1..N : e[k] = IF k = n THEN c[N] ELSE c[k]
  BY <1>1, <1>3, <1>4, <1>9
<1>11. d = SubSeq(e, 1, N - 1)
  BY <1>2, <1>9, <1>10 DEF Front
<1>12. 1..(N - 1) \subseteq 1..N /\ \A k \in 1..N : k \in 1..(N - 1) \/ k = N
  BY <1>3
<1>13. N \notin 1..(N - 1)
  BY <1>3
<1>5. /\ DOMAIN d = 1..(N - 1)
      /\ \A k \in 1..(N - 1) : d[k] = IF k = n THEN c[N] ELSE c[k]
  <2>1. d \in Seq(Item) /\ Len(d) = N - 1 /\ \A k \in 1..(N - 1) : d[k] = e[k]
    BY <1>3, <1>10, <1>11
  <2>2. DOMAIN d = 1..(N - 1)
    BY <1>3, <2>1
  <2> QED BY <1>10, <1>12, <2>1, <2>2
<1>6. ToSet(d) \subseteq ToSet(c)
  BY <1>3, <1>5, <1>12 DEF ToSet
<1>7. Distinct(c) => Distinct(d)
  <2> SUFFICES ASSUME Distinct(c), NEW k \in 1..(N - 1), NEW l \in 1..(N - 1), d[k].id = d[l].id
               PROVE  k = l
    BY <1>5 DEF Distinct
  <2> QED BY <1>3, <1>5, <1>12, <1>13 DEF Distinct
<1>8. Distinct(c) => ToSet(d) = ToSet(c) \ {c[n]}
  <2> SUFFICES ASSUME Distinct(c) PROVE ToSet(d) = ToSet(c) \ {c[n]}
    OBVIOUS
  <2>1. \A k \in 1..N : c[k] = c[n] => k = n
    BY <1>3 DEF Distinct
  <2>2. \A k \in 1..(N - 1) : d[k] \in ToSet(c) \ {c[n]}
    BY <1>3, <1>5, <1>12, <1>13, <2>1 DEF ToSet
  <2>3. ASSUME NEW k \in 1..N, k /= n PROVE \E l \in 1..(N - 1) : d[l] = c[k]
    <3>1. CASE k = N
      BY <1>3, <1>5, <1>12, <2>3, <3>1
    <3>2. CASE k /= N
      BY <1>5, <1>12, <2>3, <3>2
    <3> QED BY <3>1, <3>2
  <2>4. \A x \in ToSet(d) : \E k \in 1..(N - 1) : d[k] = x
    BY <1>5, ElementOf
  <2>5. \A x \in ToSet(c) : \E k \in 1..N : c[k] = x
    BY <1>3, ElementOf
  <2>6. \A k \in 1..(N - 1) : d[k] \in ToSet(d)
    BY <1>5, ElementOf
  <2>7. ToSet(d) \subseteq ToSet(c) \ {c[n]}
    BY <2>2, <2>4
  <2>8. \A x \in ToSet(c) \ {c[n]} : x \in ToSet(d)
    BY <2>3, <2>5, <2>6
  <2> QED BY <2>7, <2>8
<1> QED BY <1>2, <1>6, <1>7, <1>8

LEMMA ChangeIs ==
  ASSUME NEW c \in Seq(Item), NEW n \in DOMAIN c, NEW x \in Item, x.id = c[n].id
  PROVE  LET d == [c EXCEPT ![n] = x]
         IN /\ ToSet(d) \subseteq ToSet(c) \cup {x}
            /\ Distinct(c) => Distinct(d) /\ ToSet(d) = (ToSet(c) \ {c[n]}) \cup {x}
<1>1. PICK d : d = [c EXCEPT ![n] = x]
  OBVIOUS
<1>2. DOMAIN d = DOMAIN c /\ \A k \in DOMAIN c : d[k] = IF k = n THEN x ELSE c[k]
  BY <1>1
<1>3. ToSet(d) \subseteq ToSet(c) \cup {x}
  BY <1>2 DEF ToSet
<1>4. Distinct(c) => Distinct(d)
  BY <1>2 DEF Distinct
<1>5. Distinct(c) => ToSet(d) = (ToSet(c) \ {c[n]}) \cup {x}
  <2> SUFFICES ASSUME Distinct(c) PROVE ToSet(d) = (ToSet(c) \ {c[n]}) \cup {x}
    OBVIOUS
  <2>1. \A k \in DOMAIN c : c[k] = c[n] => k = n
    BY DEF Distinct
  <2> QED BY <1>2, <2>1 DEF ToSet
<1> QED BY <1>1, <1>3, <1>4, <1>5

\* What is in a folder below another is below it, too.
LEMMA WithinRises ==
  ASSUME NEW i \in ItemIds
  PROVE  /\ i \in Within(i) /\ Within(i) \subseteq ItemIds
         /\ \A y \in Within(i) : y /= i => parent[y] \in Within(i)
<1>1. i \in Within(i) /\ Within(i) \subseteq ItemIds
  BY DEF Within
<1>2. ASSUME NEW y \in Within(i), y /= i, parent[y] \notin Within(i) PROVE FALSE
  <2> DEFINE W == Within(i) \ {y}
  <2>1. W \in SUBSET ItemIds /\ i \in W
    BY <1>1, <1>2
  <2>2. ASSUME NEW z \in ItemIds, parent[z] \in W PROVE z \in W
    <3>1. z /= y
      BY <1>2, <2>2
    <3>2. z \in Within(i)
      BY <2>2 DEF Within
    <3> QED BY <3>1, <3>2
  <2>3. y \in W
    BY <2>1, <2>2 DEF Within
  <2> QED BY <2>3
<1> QED BY <1>1, <1>2

-----------------------------------------------------------------------------
(* The server.                                                             *)

LEMMA SharesOfNobody ==
  ASSUME NEW i, shares[i] = Nobody
  PROVE  SharedWith(i) = 0
<1>1. {r \in Recipients : shares[i][r] /= "none"} = {}
  BY DEF Nobody
<1> QED BY <1>1, FS_EmptySet DEF SharedWith

\* A request that is served makes, deletes or renames one item, in the folder that is
\* shown. Every other folder that is there then has the same items as before.
LEMMA ServedIs ==
  ASSUME Typed, NeverMade, NEW t \in DOMAIN routines, routines[t].at = "call",
         NEW i \in ItemIds, Serve(routines[t], i), RoutineTrue(routines[t])
  PROVE  /\ routines[t] /= Idle /\ routines[t].context = Here
         /\ UNCHANGED shares
         /\ \A j \in ItemIds \ {i} : changed'[j] = changed[j] /\ parent'[j] \in {parent[j], Nowhere}
         /\ \A g \in folderContexts : IsThere(g)' =>
              /\ IsThere(g)
              /\ \A j \in ItemIds \ {i} : parent'[j] = g <=> parent[j] = g
         /\ routines[t].kind \in Makers => parent[i] = Nil /\ parent'[i] = Here
         /\ routines[t].kind \notin Makers =>
              /\ routines[t].item \in Item /\ i = routines[t].item.id /\ parent[i] = Here
              /\ parent'[i] = IF routines[t].kind = "delete" THEN Nowhere ELSE Here
         /\ changed'[i] = IF routines[t].kind = "delete" THEN changed[i] ELSE Now
<1>1. PICK r : r = routines[t]
  OBVIOUS
<1>2. RoutineTyped(r) /\ r /= Idle
  BY <1>1 DEF Typed, RoutinesTyped, Idle
<1>3. /\ r.kind \in Kinds /\ r.context = Here
      /\ r.kind \notin Makers => r.item \in Item /\ r.item /= Nil /\ KnownIn(r.item, Here)
  BY <1>1, <1>2, Constants DEF RoutineTyped, RoutineTrue, Makers
<1>4. /\ parent \in [ItemIds -> FolderIds \cup {Nil, Nowhere}] /\ changed \in [ItemIds -> Int]
      /\ folderContexts \subseteq FolderIds /\ Here \in folderContexts
  BY DEF Typed, ServerTyped, KeptTyped, PathTyped, Here
<1>5. CASE Makes(r, i)
  <2>1. /\ r.kind \in Makers /\ parent[i] = Nil /\ UNCHANGED shares
        /\ parent' = [parent EXCEPT ![i] = Here] /\ changed' = [changed EXCEPT ![i] = Now]
    BY <1>3, <1>5 DEF Makes, Makers, Stamp
  <2>2. /\ \A j \in ItemIds \ {i} : changed'[j] = changed[j] /\ parent'[j] = parent[j]
        /\ parent'[i] = Here /\ changed'[i] = Now
    BY <1>4, <2>1
  <2>3. \A g \in folderContexts : g /= i
    BY <2>1, Constants DEF NeverMade
  <2>4. \A g \in folderContexts : IsThere(g)' => IsThere(g)
    BY <1>4, <2>2, <2>3 DEF IsThere, FolderIds, ItemIds
  <2>5. r.kind /= "delete"
    BY <2>1 DEF Makers
  <2> QED BY <1>1, <1>2, <1>3, <2>1, <2>2, <2>4, <2>5
<1>6. CASE Removes(r, i)
  <2>1. /\ r.kind = "delete" /\ i = r.item.id /\ parent[i] \in FolderIds /\ UNCHANGED <<changed, shares>>
        /\ parent' = [x \in ItemIds |-> IF x \in Within(i) THEN Nowhere ELSE parent[x]]
    BY <1>6 DEF Removes
  <2>2. parent[i] = Here
    BY <1>3, <2>1, Constants DEF KnownIn, Makers
  <2>3. i \in Within(i) /\ \A y \in Within(i) : y \in ItemIds /\ (y /= i => parent[y] \in Within(i))
    BY WithinRises
  <2>4. \A j \in ItemIds : parent'[j] = IF j \in Within(i) THEN Nowhere ELSE parent[j]
    BY <2>1
  <2>5. ASSUME NEW g \in folderContexts, IsThere(g)'
        PROVE  IsThere(g) /\ \A j \in ItemIds \ {i} : parent'[j] = g <=> parent[j] = g
    <3>1. g \notin Within(i)
      <4>1. CASE g = Home
        BY <2>3, <4>1, Constants
      <4>2. CASE g /= Home
        <5>1. g \in ItemIds /\ parent'[g] \in FolderIds
          BY <2>5, <4>2, Constants DEF IsThere
        <5> QED BY <2>4, <5>1, Constants
      <4> QED BY <4>1, <4>2
    <3>2. g /= Nowhere
      BY <1>4, Constants
    <3>3. IsThere(g)
      BY <2>4, <2>5, <3>1, Constants DEF IsThere
    <3>4. ASSUME NEW j \in ItemIds \ {i} PROVE parent'[j] = g <=> parent[j] = g
      <4>1. CASE j \in Within(i)
        <5>1. parent'[j] = Nowhere /\ parent[j] \in Within(i)
          BY <2>3, <2>4, <4>1
        <5> QED BY <3>1, <3>2, <5>1
      <4>2. CASE j \notin Within(i)
        BY <2>4, <4>2
      <4> QED BY <4>1, <4>2
    <3> QED BY <3>3, <3>4
  <2> QED BY <1>1, <1>2, <1>3, <2>1, <2>2, <2>3, <2>4, <2>5 DEF Makers
<1>7. CASE Renames(r, i)
  <2>1. /\ r.kind \in {"rename", "edit"} /\ i = r.item.id /\ parent[i] \in FolderIds
        /\ UNCHANGED <<parent, shares>> /\ changed' = [changed EXCEPT ![i] = Now]
    BY <1>7 DEF Renames, Stamp
  <2>2. parent[i] = Here
    BY <1>3, <2>1, Constants DEF KnownIn, Makers
  <2>3. changed'[i] = Now /\ \A j \in ItemIds \ {i} : changed'[j] = changed[j]
    BY <1>4, <2>1
  <2>4. \A g : IsThere(g)' <=> IsThere(g)
    BY <2>1 DEF IsThere
  <2> QED BY <1>1, <1>2, <1>3, <2>1, <2>2, <2>3, <2>4 DEF Makers
<1> QED BY <1>1, <1>5, <1>6, <1>7 DEF Serve

\* The request of a goroutine whatever it is about.
LEMMA ServedAnyhow ==
  ASSUME Typed, NEW t \in DOMAIN routines, NEW i \in ItemIds, Serve(routines[t], i)
  PROVE  UNCHANGED shares /\ \A j \in ItemIds : parent'[j] = Nil => parent[j] = Nil
<1>1. parent \in [ItemIds -> FolderIds \cup {Nil, Nowhere}]
  BY DEF Typed, ServerTyped
<1>2. CASE Makes(routines[t], i)
  BY <1>1, <1>2 DEF Makes
<1>3. CASE Removes(routines[t], i)
  BY <1>1, <1>3, Constants DEF Removes
<1>4. CASE Renames(routines[t], i)
  BY <1>4 DEF Renames
<1> QED BY <1>2, <1>3, <1>4 DEF Serve

LEMMA NeverMadeInit == CliInit => NeverMade
BY DEF CliInit, NeverMade

LEMMA NeverMadeStays ==
  ASSUME NeverMade, UNCHANGED <<parent, shares>>,
         \A g \in folderContexts' : g \in folderContexts \/ g = Home \/ parent[g] /= Nil
  PROVE  NeverMade'
BY DEF NeverMade

LEMMA NeverMadeNext ==
  ASSUME Typed, NeverMade, [CliNext]_cliVars
  PROVE  NeverMade'
<1>1. ASSUME Fresh PROVE NeverMade'
  BY <1>1, NeverMadeStays DEF Fresh, cliServer
<1>2. ASSUME UNCHANGED <<parent, shares, folderContexts>> PROVE NeverMade'
  BY <1>2, NeverMadeStays
<1>3. ASSUME NEW g, NewModel(g), UNCHANGED cliServer PROVE NeverMade'
  <2>1. folderContexts' = folderContexts \cup {g} /\ (g \in folderContexts \/ IsThere(g))
    BY <1>3 DEF NewModel
  <2>2. g \in folderContexts \/ g = Home \/ parent[g] /= Nil
    BY <2>1, Constants DEF IsThere
  <2> QED BY <1>3, <2>1, <2>2, NeverMadeStays DEF cliServer
<1>4. CASE UNCHANGED cliVars
  BY <1>2, <1>4 DEF cliVars, cliServer, kept
<1>5. CASE Key
  <2>1. CASE Start \/ PickPanics
    BY <1>1, <2>1 DEF Start, PickPanics
  <2>2. CASE Back
    BY <1>3, <2>2 DEF Back
  <2>3. CASE \E item \in ToSet(Selectable) : EnterFolder(item)
    <3>1. PICK item : EnterFolder(item)
      BY <2>3
    <3>2. CASE NewModel(item.id)
      BY <1>3, <3>1, <3>2 DEF EnterFolder
    <3>3. CASE NewModelFails(item.id)
      BY <1>2, <3>1, <3>3 DEF EnterFolder, NewModelFails, cliServer
    <3> QED BY <3>1, <3>2, <3>3 DEF EnterFolder
  <2>4. CASE Slash \/ Erase \/ KeepFilter \/ LeaveFilter \/ \E s \in Strings : Type(s)
    BY <1>2, <2>4 DEF Slash, Erase, KeepFilter, LeaveFilter, Type, Filtering, cliServer
  <2>5. CASE \/ \E kind \in {"folder", "upload"} : NewItem(kind)
             \/ \E item \in ToSet(Selectable) :
                  \/ NewShareRequest(item)
                  \/ \E kind \in {"rename", "delete", "edit", "view"} : NewItemRequest(item, kind)
    BY <1>2, <2>5 DEF NewItem, NewShareRequest, NewItemRequest, Open, cliServer, kept
  <2> QED BY <1>5, <2>1, <2>2, <2>3, <2>4, <2>5 DEF Key
<1>6. CASE InDialog
  <2>1. CASE Cancel \/ ReturnFromView \/ ReturnFromShares \/ \E t \in DOMAIN routines : Confirm(t)
    BY <1>2, <2>1 DEF Cancel, ReturnFromView, ReturnFromShares, Confirm, Event, cliServer, kept
  <2>2. CASE DialogPanics
    BY <1>1, <2>2 DEF DialogPanics
  <2>3. ASSUME NEW rs, NEW new, Requests(rs, new) PROVE NeverMade'
    <3>1. PICK i : i = dialog.item.id
      OBVIOUS
    <3>2. parent[i] \in FolderIds /\ UNCHANGED <<parent, folderContexts>>
      BY <2>3, <3>1 DEF Requests, kept
    <3>3. \A j \in ItemIds \ {i} : shares'[j] = shares[j]
      BY <2>3, <3>1 DEF Requests, Typed, ServerTyped
    <3>4. parent[i] /= Nil
      BY <3>2, Constants
    <3> QED BY <3>2, <3>3, <3>4 DEF NeverMade
  <2> QED BY <1>6, <2>1, <2>2, <2>3 DEF InDialog, Add, shareItem, Edit, Unshare
<1>7. CASE \E t \in DOMAIN routines : Goroutine(t)
  <2>1. PICK t \in DOMAIN routines : Goroutine(t)
    BY <1>7
  <2>2. CASE Answered(t) \/ Unconfirmed(t)
    <3>1. PICK i \in ItemIds : Serve(routines[t], i)
      BY <2>2 DEF Answered, Unconfirmed
    <3>2. UNCHANGED shares /\ \A j \in ItemIds : parent'[j] = Nil => parent[j] = Nil
      BY <3>1, ServedAnyhow
    <3>3. folderContexts' = folderContexts
      BY <2>2 DEF Answered, Unconfirmed, PageStays
    <3>4. \A g \in folderContexts : g = Home \/ g \in ItemIds
      BY DEF Typed, KeptTyped, FolderIds, ItemIds
    <3> QED BY <3>2, <3>3, <3>4 DEF NeverMade
  <2>3. CASE Refused(t) \/ Apply(t) \/ SetItems(t) \/ SetRows(t)
    BY <1>2, <2>3 DEF Refused, Apply, SetItems, SetRows, PageStays, cliServer
  <2> QED BY <2>1, <2>2, <2>3 DEF Goroutine
<1> QED BY <1>4, <1>5, <1>6, <1>7 DEF CliNext

\* What was found stays among the items.
LEMMA FoundNext ==
  ASSUME Typed, FoundTrue, [CliNext]_cliVars
  PROVE  FoundTrue'
<1>1. ASSUME filter' = NoFilter PROVE FoundTrue'
  BY <1>1 DEF FoundTrue, NoFilter
<1>2. ASSUME UNCHANGED <<items, filter>>, Finishing => Finishing' PROVE FoundTrue'
  BY <1>2 DEF FoundTrue
<1>3. CASE UNCHANGED cliVars
  BY <1>2, <1>3 DEF cliVars, cliPage, Finishing
<1>4. CASE Key
  <2>1. CASE Start \/ PickPanics \/ Back
    BY <1>1, <2>1 DEF Start, PickPanics, Fresh, Back, NewModel
  <2>2. CASE \E item \in ToSet(Selectable) : EnterFolder(item)
    BY <1>1, <2>2 DEF EnterFolder, NewModel, NewModelFails
  <2>3. CASE Slash \/ KeepFilter \/ (Erase /\ ~ filter.typed)
    <3>1. UNCHANGED <<items, routines>>
      BY <2>3 DEF Slash, KeepFilter, Erase, Filtering
    <3>2. filter' \in {[filter EXCEPT !.on = TRUE], [filter EXCEPT !.on = FALSE]}
      BY <2>3 DEF Slash, KeepFilter, Erase
    <3>3. filter'.typed = filter.typed /\ filter'.found = filter.found /\ filter'.off = filter.off
      BY <3>2 DEF Typed, RowsTyped
    <3> QED BY <3>1, <3>3 DEF FoundTrue, Finishing
  <2>4. CASE LeaveFilter
    <3>1. filter'.typed = filter.typed /\ filter'.off = filter.typed
      BY <2>4 DEF LeaveFilter, Typed, RowsTyped
    <3> QED BY <3>1 DEF FoundTrue
  <2>5. CASE Erase /\ filter.typed
    BY <2>5 DEF Erase, FoundTrue, NoFilter
  <2>6. CASE \E s \in Strings : Type(s)
    <3>1. PICK s \in Strings : Type(s)
      BY <2>6
    <3>2. PICK of \in SUBSET DOMAIN items : of = {n \in DOMAIN items : items[n].id \in s}
      OBVIOUS
    <3>4. items' = items /\ filter'.found = SortedPart(items, of)
      BY <3>1, <3>2 DEF Type, FilterRows, NoFilter
    <3>3. ToSet(filter'.found) \subseteq ToSet(items')
      BY <3>4, FoundAre DEF Typed, KeptTyped
    <3> QED BY <3>3 DEF FoundTrue
  <2>7. CASE \/ \E kind \in {"folder", "upload"} : NewItem(kind)
             \/ \E item \in ToSet(Selectable) :
                  \/ NewShareRequest(item)
                  \/ \E kind \in {"rename", "delete", "edit", "view"} : NewItemRequest(item, kind)
    BY <1>2, <2>7 DEF NewItem, NewShareRequest, NewItemRequest, Open, cliPage, Finishing
  <2> QED BY <1>4, <2>1, <2>2, <2>3, <2>4, <2>5, <2>6, <2>7 DEF Key
<1>5. CASE InDialog
  <2>1. CASE Cancel
    BY <1>2, <2>1 DEF Cancel, cliPage, Finishing
  <2>2. CASE DialogPanics \/ ReturnFromView \/ ReturnFromShares \/ \E t \in DOMAIN routines : Confirm(t)
    BY <1>1, <2>2 DEF DialogPanics, Fresh, ReturnFromView, ReturnFromShares, Confirm, Event
  <2>3. ASSUME NEW rs, NEW new, Requests(rs, new) PROVE FoundTrue'
    BY <1>2, <2>3 DEF Requests, cliPage, Finishing
  <2> QED BY <1>5, <2>1, <2>2, <2>3 DEF InDialog, Add, shareItem, Edit, Unshare
<1>6. CASE \E t \in DOMAIN routines : Goroutine(t)
  <2>1. PICK t \in DOMAIN routines : Goroutine(t)
    BY <1>6
  <2>2. CASE Answered(t) \/ Unconfirmed(t) \/ Refused(t)
    <3>1. UNCHANGED <<items, filter>> /\ routines[t].at = "call"
      BY <2>2 DEF Answered, Unconfirmed, Refused, cliPage
    <3>2. DOMAIN routines' = DOMAIN routines /\ \A u \in DOMAIN routines \ {t} : routines'[u] = routines[u]
      BY <2>2 DEF Answered, Unconfirmed, Refused
    <3> QED BY <1>2, <3>1, <3>2 DEF Finishing
  <2>3. CASE Apply(t) \/ SetItems(t)
    BY <2>3, AtItsEnd DEF FoundTrue
  <2>4. CASE SetRows(t)
    <3>1. filter'.typed = filter.typed /\ filter'.off = (filter.off \/ filter.typed)
      BY <2>4 DEF SetRows, Typed, RowsTyped
    <3> QED BY <3>1 DEF FoundTrue
  <2> QED BY <2>1, <2>2, <2>3, <2>4 DEF Goroutine
<1> QED BY <1>3, <1>4, <1>5, <1>6 DEF CliNext

-----------------------------------------------------------------------------
(* Folders that are opened.                                                *)

LEMMA ListingTrue ==
  ASSUME ServerTyped, NEW g
  PROVE  UpToDate(Listing(g), g) /\ \A x \in ToSet(Listing(g)) : parent[x.id] = g
<1>1. PICK c : c = Listing(g)
  OBVIOUS
<1>2. /\ c \in Seq(Item)
      /\ \A k \in DOMAIN c : \E i \in Children(g) : c[k] = Listed(i)
      /\ \A i \in Children(g) : \E k \in DOMAIN c : c[k] = Listed(i)
      /\ \A k, l \in DOMAIN c : c[k].id = c[l].id => k = l
  BY <1>1, ListingIs
<1>3. \A i : Listed(i).id = i /\ Listed(i).name = changed[i] /\ Listed(i).sharedWith = SharedWith(i)
  BY DEF Listed
<1>4. \A x \in ToSet(c) : \E i \in Children(g) : x = Listed(i)
  BY <1>2, ElementOf
<1>5. \A i \in Children(g) : Listed(i) \in ToSet(c)
  BY <1>2, ElementOf
<1>6. Distinct(c)
  BY <1>2 DEF Distinct
<1>7. IdsIn(c) = Children(g)
  BY <1>3, <1>4, <1>5 DEF IdsIn
<1>8. \A x \in ToSet(c) : Named(x) /\ Counted(x) /\ parent[x.id] = g
  BY <1>3, <1>4 DEF Named, Counted, Children
<1> QED BY <1>1, <1>6, <1>7, <1>8 DEF UpToDate

\* Nothing is under way.
LEMMA Resting ==
  ASSUME \A t \in DOMAIN routines : routines[t] = Idle
  PROVE  /\ \A kinds, i : ~ Awaits(kinds, i)
         /\ RoutinesTrue
         /\ \A t \in DOMAIN routines : routines[t].at \notin {"items", "rows"}
BY DEF Awaits, RoutinesTrue, RoutineTrue, Carries, Idle

LEMMA RestingTrue ==
  ASSUME Typed, \A t \in DOMAIN routines : routines[t] = Idle, ~ Sharing
  PROVE  HereTrue <=> (IsThere(Here) => UpToDate(content[Here], Here))
<1>1. /\ \A kinds, i : ~ Awaits(kinds, i)
      /\ RoutinesTrue
      /\ \A t \in DOMAIN routines : routines[t].at \notin {"items", "rows"}
  BY Resting
<1>2. PICK c : c = content[Here]
  OBVIOUS
<1>3. c \in Seq(Item)
  BY <1>2 DEF Typed, KeptTyped, PathTyped, Here
<1>4. IdsIn(c) \subseteq ItemIds
  BY <1>3, Elements DEF IdsIn
<1>5. IdsIn(c) = Children(Here) <=> \A i \in ItemIds : i \in IdsIn(c) <=> parent[i] = Here
  BY <1>4 DEF Children
<1> QED BY <1>1, <1>2, <1>5 DEF HereTrue, UpToDate

LEMMA RestingAnyhow ==
  (Typed /\ (\A t \in DOMAIN routines : routines[t] = Idle) /\ ~ Sharing)
    => (HereTrue <=> (IsThere(Here) => UpToDate(content[Here], Here)))
BY RestingTrue

\* The first page.
FirstPage ==
  /\ Here = Home /\ context = Home /\ folderContexts = {Home}
  /\ held = Home /\ items = Listing(Home) /\ content[Home] = Listing(Home)
  /\ (\A t \in DOMAIN routines : routines[t] = Idle) /\ dialog = Nil

LEMMA FirstTrue == Typed /\ FirstPage => Ordinary
<1> SUFFICES ASSUME Typed, FirstPage PROVE Ordinary
  OBVIOUS
<1> USE DEF FirstPage
<1>1. UpToDate(Listing(Home), Home) /\ \A x \in ToSet(Listing(Home)) : parent[x.id] = Home
  BY ListingTrue DEF Typed
<1>2. AtPlace
  BY Resting DEF AtPlace
<1>3. OthersTrue
  BY <1>1 DEF OthersTrue, KnownIn
<1>4. HereTrue
  BY <1>1, RestingTrue DEF Sharing
<1>5. RoutinesTrue /\ DialogTrue
  BY Resting DEF DialogTrue
<1> QED BY <1>2, <1>3, <1>4, <1>5 DEF Ordinary

LEMMA OrdinaryInit == CliInit => Ordinary
<1> SUFFICES ASSUME CliInit PROVE Ordinary
  OBVIOUS
<1>1. Typed /\ FirstPage
  BY TypesInit, Constants DEF CliInit, Here, FirstPage
<1> QED BY <1>1, FirstTrue

LEMMA FreshOrdinary ==
  ASSUME Typed, Fresh
  PROVE  Ordinary'
<1>1. Typed'
  BY FreshTypes
<1>2. FirstPage'
  <2>1. folderViews' = <<Home>>
    BY DEF Fresh
  <2>2. Here' = Home
    BY <2>1 DEF Here
  <2>3. /\ context' = Home /\ folderContexts' = {Home} /\ held' = Home
        /\ items' = Listing(Home) /\ content'[Home] = Listing(Home) /\ dialog' = Nil
    BY Constants DEF Fresh
  <2>4. \A t \in DOMAIN routines' : routines'[t] = Idle
    BY DEF Fresh
  <2>5. Listing(Home)' = Listing(Home)
    BY DEF Fresh, cliServer, Listing, Listed, Children, SharedWith
  <2> QED BY <2>2, <2>3, <2>4, <2>5 DEF FirstPage
<1> QED BY <1>1, <1>2, FirstTrue, PTL

\* Without anything under way, every folder that is there is kept as the server has it.
LEMMA AllUpToDate ==
  ASSUME Typed, Ordinary, dialog = Nil, ~ AtWork
  PROVE  \A g \in folderContexts :
           /\ \A x \in ToSet(content[g]) : KnownIn(x, g)
           /\ IsThere(g) => UpToDate(content[g], g)
<1>1. \A t \in DOMAIN routines : routines[t] = Idle
  BY DEF AtWork
<1>2. IsThere(Here) => UpToDate(content[Here], Here)
  BY <1>1, RestingTrue DEF Ordinary, Sharing
<1> QED BY <1>2 DEF Ordinary, OthersTrue

\* A folder that is opened when nothing is under way.
LEMMA ModelOrdinary ==
  ASSUME Typed, Typed', Ordinary, dialog = Nil, NEW g \in FolderIds, NewModel(g), ~ odd',
         Here' = g, UNCHANGED <<cliServer, dialog, routines>>
  PROVE  Ordinary'
<1> DEFINE new == IF g \in folderContexts THEN fetched[g] ELSE Listing(g)
           empty == g \in folderContexts /\ content[g] = <<>>
           list == IF g \notin folderContexts \/ empty THEN new ELSE content[g]
<1>1. /\ folderContexts' = folderContexts \cup {g}
      /\ content' = [content EXCEPT ![g] = Sorted(list)]
      /\ items' = Sorted(list) /\ held' = g /\ context' = g
      /\ ~ AtWork /\ (empty => new = <<>>)
      /\ g \in folderContexts \/ IsThere(g)
  BY DEF NewModel, Notes
<1>2. \A h \in folderContexts :
        /\ \A x \in ToSet(content[h]) : KnownIn(x, h)
        /\ IsThere(h) => UpToDate(content[h], h)
  BY <1>1, AllUpToDate
<1>3. /\ list \in Seq(Item)
      /\ \A x \in ToSet(list) : KnownIn(x, g)
      /\ IsThere(g) => UpToDate(list, g)
  <2>1. CASE g \in folderContexts
    BY <1>1, <1>2, <2>1 DEF Typed, KeptTyped
  <2>2. CASE g \notin folderContexts
    BY <2>2, ListingTrue, ListingIs DEF KnownIn, Typed
  <2> QED BY <2>1, <2>2
<1> HIDE DEF new, empty, list
<1>4. PICK c : c = Sorted(list)
  OBVIOUS
<1>5. /\ c \in Seq(Item) /\ ToSet(c) = ToSet(list)
      /\ Distinct(list) => Distinct(c)
  BY <1>3, <1>4, SortedKeeps
<1>6. \A x \in ToSet(c) : KnownIn(x, g)
  BY <1>3, <1>5
<1>7. IsThere(g) => UpToDate(c, g)
  BY <1>3, <1>5 DEF UpToDate, IdsIn
<1>8. \A h \in folderContexts' :
        content'[h] = IF h = g THEN c ELSE content[h]
  BY <1>1, <1>4 DEF Typed, KeptTyped
<1>9. /\ \A h : IsThere(h)' <=> IsThere(h)
      /\ \A x, h : KnownIn(x, h)' <=> KnownIn(x, h)
      /\ \A d, h : UpToDate(d, h)' <=> UpToDate(d, h)
  BY DEF cliServer, IsThere, KnownIn, UpToDate, Distinct, IdsIn, Children, Named, Counted, SharedWith
<1>10. \A h \in folderContexts' :
         /\ \A x \in ToSet(content'[h]) : KnownIn(x, h)'
         /\ IsThere(h)' => UpToDate(content[h], h)'
  <2> TAKE h \in folderContexts'
  <2>1. PICK d : d = content'[h]
    OBVIOUS
  <2>2. \A x \in ToSet(d) : KnownIn(x, h)
    BY <1>1, <1>2, <1>6, <1>8, <2>1
  <2>3. IsThere(h) => UpToDate(d, h)
    BY <1>1, <1>2, <1>7, <1>8, <2>1
  <2>4. UpToDate(content[h], h)' <=> UpToDate(d, h)'
    BY <2>1 DEF UpToDate, Distinct, IdsIn
  <2> QED BY <1>9, <2>1, <2>2, <2>3, <2>4
<1>11. \A t \in DOMAIN routines' : routines'[t] = Idle
  BY <1>1 DEF AtWork
<1>12. OthersTrue'
  BY <1>10 DEF OthersTrue
<1>13. g \in folderContexts' /\ content'[g] = c
  BY <1>1, <1>8
<1>14. HereTrue'
  <2>1. (IsThere(Here) => UpToDate(content[Here], Here))'
    BY <1>10, <1>13
  <2>2. (Typed /\ (\A t \in DOMAIN routines : routines[t] = Idle) /\ ~ Sharing)'
    BY <1>11 DEF Sharing
  <2> QED BY <2>1, <2>2, RestingAnyhow, PTL
<1>15. AtPlace'
  BY <1>1, <1>4, <1>11, <1>13 DEF AtPlace, Idle
<1>16. RoutinesTrue' /\ DialogTrue'
  BY <1>11 DEF RoutinesTrue, RoutineTrue, Carries, DialogTrue
<1> QED BY <1>12, <1>14, <1>15, <1>16 DEF Ordinary

-----------------------------------------------------------------------------
(* Steps that leave the server as it is.                                   *)

SameServer == UNCHANGED <<parent, changed, shares, folderContexts, folderViews>>

LEMMA HereIs ==
  ASSUME Typed
  PROVE  /\ Here \in folderContexts /\ Here \in FolderIds /\ Here /= Nowhere /\ Here /= Nil
         /\ content[Here] \in Seq(Item) /\ Sorted(items) \in Seq(Item)
         /\ \A g \in folderContexts : g \in FolderIds /\ content[g] \in Seq(Item)
<1>1. folderContexts \subseteq FolderIds /\ content \in [FolderIds -> Seq(Item)] /\ items \in Seq(Item)
  BY DEF Typed, KeptTyped
<1>2. Here \in folderContexts
  BY DEF Typed, PathTyped, Here
<1> QED BY <1>1, <1>2, SortedStays, Constants

LEMMA SameTruth ==
  ASSUME SameServer
  PROVE  /\ Here' = Here
         /\ \A h : IsThere(h)' <=> IsThere(h)
         /\ \A x, h : KnownIn(x, h)' <=> KnownIn(x, h)
         /\ \A d, h : UpToDate(d, h)' <=> UpToDate(d, h)
         /\ \A x : (Named(x)' <=> Named(x)) /\ (Counted(x)' <=> Counted(x))
BY DEF SameServer, Here, IsThere, KnownIn, UpToDate, Distinct, IdsIn, Children, Named, Counted, SharedWith

\* A goroutine that was served works at an item.
LEMMA AwaitsCarries ==
  ASSUME Typed, NEW kinds, NEW i, Awaits(kinds, i)
  PROVE  \E t \in DOMAIN routines : Carries(t, i)
<1>1. PICK t \in DOMAIN routines : routines[t].at = "apply" /\ routines[t].item.id = i
  BY DEF Awaits
<1>2. routines[t] /= Idle /\ RoutineTyped(routines[t])
  BY <1>1 DEF Idle, Typed, RoutinesTyped
<1>3. routines[t].item /= Nil
  BY <1>1, <1>2, Constants DEF RoutineTyped
<1> QED BY <1>1, <1>2, <1>3 DEF Carries

\* The contents stay, or are in another order.
LEMMA KeptTrue ==
  ASSUME Typed, OthersTrue, HereTrue, SameServer,
         \A kinds, i : Awaits(kinds, i)' <=> Awaits(kinds, i),
         \A g \in folderContexts \ {Here} : content'[g] = content[g],
         ToSet(content'[Here]) = ToSet(content[Here]),
         Distinct(content[Here]) => Distinct(content'[Here]),
         Sharing => Sharing' /\ dialog'.item.id = dialog.item.id
  PROVE  OthersTrue' /\ HereTrue'
<1>1. /\ Here' = Here
      /\ \A h : IsThere(h)' <=> IsThere(h)
      /\ \A x, h : KnownIn(x, h)' <=> KnownIn(x, h)
      /\ \A d, h : UpToDate(d, h)' <=> UpToDate(d, h)
      /\ \A x : (Named(x)' <=> Named(x)) /\ (Counted(x)' <=> Counted(x))
  BY SameTruth
<1>2. UNCHANGED <<parent, folderContexts>>
  BY DEF SameServer
<1>3. OthersTrue'
  <2>1. ASSUME NEW g \in folderContexts
        PROVE  /\ \A x \in ToSet(content'[g]) : KnownIn(x, g)'
               /\ g /= Here /\ IsThere(g)' => UpToDate(content[g], g)'
    <3>1. CASE g = Here
      BY <1>1, <3>1 DEF OthersTrue
    <3>2. CASE g /= Here
      <4>1. PICK d : d = content[g] /\ d = content'[g]
        BY <3>2
      <4>2. UpToDate(content[g], g)' <=> UpToDate(d, g)'
        BY <4>1 DEF UpToDate, Distinct, IdsIn
      <4> QED BY <1>1, <4>1, <4>2 DEF OthersTrue
    <3> QED BY <3>1, <3>2
  <2> QED BY <1>1, <1>2, <2>1 DEF OthersTrue
<1>4. HereTrue'
  <2>1. PICK c, d : c = content[Here] /\ d = content'[Here]
    OBVIOUS
  <2>2. ToSet(d) = ToSet(c) /\ IdsIn(d) = IdsIn(c) /\ (Distinct(c) => Distinct(d))
    BY <2>1 DEF IdsIn
  <2>3. Distinct(content[Here])' <=> Distinct(d)
    BY <1>1, <2>1 DEF Distinct
  <2>4. IdsIn(content[Here])' = IdsIn(d)
    BY <1>1, <2>1 DEF IdsIn
  <2> QED BY <1>1, <1>2, <2>1, <2>2, <2>3, <2>4 DEF HereTrue
<1> QED BY <1>3, <1>4

\* Another goroutine begins, goes on or ends.
LEMMA RoutinesKept ==
  ASSUME Typed, RoutinesTrue, SameServer, UNCHANGED context,
         NEW t \in DOMAIN routines, NEW r, routines' = [routines EXCEPT ![t] = r],
         RoutineTrue(r),
         r = Idle \/ r.item = Nil \/ (Carries(t, r.item.id)) \/
           \A u \in DOMAIN routines : ~ Carries(u, r.item.id)
  PROVE  RoutinesTrue'
<1>1. /\ Here' = Here
      /\ \A h : IsThere(h)' <=> IsThere(h)
      /\ \A x, h : KnownIn(x, h)' <=> KnownIn(x, h)
      /\ \A x : (Named(x)' <=> Named(x)) /\ (Counted(x)' <=> Counted(x))
      /\ UNCHANGED parent
  BY SameTruth DEF SameServer
<1>2. \A x : RoutineTrue(x) => RoutineTrue(x)'
  BY <1>1 DEF RoutineTrue
<1>3. DOMAIN routines' = DOMAIN routines /\ routines'[t] = r /\ \A u \in DOMAIN routines \ {t} : routines'[u] = routines[u]
  OBVIOUS
<1>4. \A u \in DOMAIN routines' : RoutineTrue(routines[u])'
  BY <1>2, <1>3 DEF RoutinesTrue
<1>5. \A u \in DOMAIN routines \ {t} : \A i : Carries(u, i)' <=> Carries(u, i)
  BY <1>3 DEF Carries
<1>6. \A i : Carries(t, i)' => Carries(t, i) \/ \A u \in DOMAIN routines : ~ Carries(u, i)
  BY <1>3 DEF Carries
<1>7. \A u, v \in DOMAIN routines' : \A i \in ItemIds : Carries(u, i)' /\ Carries(v, i)' => u = v
  BY <1>3, <1>5, <1>6 DEF RoutinesTrue
<1> QED BY <1>4, <1>7 DEF RoutinesTrue

LEMMA RoutinesSame ==
  ASSUME RoutinesTrue, SameServer, UNCHANGED <<context, routines>>
  PROVE  RoutinesTrue' /\ \A kinds, i : Awaits(kinds, i)' <=> Awaits(kinds, i)
<1>1. /\ Here' = Here
      /\ \A h : IsThere(h)' <=> IsThere(h)
      /\ \A x, h : KnownIn(x, h)' <=> KnownIn(x, h)
      /\ \A x : (Named(x)' <=> Named(x)) /\ (Counted(x)' <=> Counted(x))
      /\ UNCHANGED parent
  BY SameTruth DEF SameServer
<1>2. \A x : RoutineTrue(x) => RoutineTrue(x)'
  BY <1>1 DEF RoutineTrue
<1> QED BY <1>2 DEF RoutinesTrue, Carries, Awaits

LEMMA DialogStays ==
  ASSUME DialogTrue, SameServer, UNCHANGED dialog,
         \A u \in DOMAIN routines' : u \in DOMAIN routines /\ \A i : Carries(u, i)' => Carries(u, i)
  PROVE  DialogTrue'
<1>1. /\ Here' = Here
      /\ \A h : IsThere(h)' <=> IsThere(h)
      /\ \A x, h : KnownIn(x, h)' <=> KnownIn(x, h)
      /\ \A x : (Named(x)' <=> Named(x)) /\ (Counted(x)' <=> Counted(x))
      /\ UNCHANGED <<parent, shares>>
  BY SameTruth DEF SameServer
<1> QED BY <1>1 DEF DialogTrue

\* The items are sorted, and with them the content.
LEMMA RowsAtPlace ==
  ASSUME Typed, AtPlace, \A t \in DOMAIN routines : routines[t].at /= "items",
         CreateItemRows, SameServer, UNCHANGED <<held, context>>,
         \A t, u \in DOMAIN routines' :
           routines'[t].at \in {"items", "rows"} /\ routines'[u].at \in {"items", "rows"} => t = u
  PROVE  /\ AtPlace'
         /\ \A g \in folderContexts \ {Here} : content'[g] = content[g]
         /\ ToSet(content'[Here]) = ToSet(content[Here])
         /\ Distinct(content[Here]) => Distinct(content'[Here])
<1>1. held = Here /\ items = content[Here] /\ Here' = Here
  BY SameTruth DEF AtPlace
<1>2. PICK c : c = Sorted(items)
  OBVIOUS
<1>3. /\ c \in Seq(Item) /\ Len(c) = Len(content[Here]) /\ ToSet(c) = ToSet(content[Here])
      /\ Distinct(content[Here]) => Distinct(c)
  BY <1>1, <1>2, HereIs, SortedKeeps
<1>4. items' = c /\ content' = SortedWith(content, c)
  BY <1>2 DEF CreateItemRows
<1>5. content'[Here] = c /\ \A g \in FolderIds : g /= Here => content'[g] = content[g]
  BY <1>1, <1>3, <1>4, KeptSorted, HereIs DEF Typed
<1>6. AtPlace'
  BY <1>1, <1>4, <1>5 DEF AtPlace
<1> QED BY <1>3, <1>5, <1>6, HereIs

\* The keys of the filter.
LEMMA FilterOrdinary ==
  ASSUME Typed, Ordinary, Slash \/ Erase \/ KeepFilter \/ LeaveFilter \/ \E s \in Strings : Type(s), ~ odd'
  PROVE  Ordinary'
<1>1. Filtering /\ SameServer /\ UNCHANGED <<context, routines, dialog>>
  BY DEF Slash, Erase, KeepFilter, LeaveFilter, Type, Filtering, SameServer, cliServer, path
<1>2. /\ AtPlace'
      /\ \A g \in folderContexts \ {Here} : content'[g] = content[g]
      /\ ToSet(content'[Here]) = ToSet(content[Here])
      /\ Distinct(content[Here]) => Distinct(content'[Here])
  <2>1. CASE UNCHANGED <<content, items>>
    BY <1>1, <2>1, SameTruth DEF Ordinary, AtPlace, Filtering
  <2>2. CASE LeaveFilter
    <3>1. ~ Finishing
      BY <2>2 DEF LeaveFilter, Notes
    <3>2. \A t \in DOMAIN routines : routines[t].at \notin {"items", "rows"}
      BY <3>1 DEF Finishing
    <3> QED BY <1>1, <2>2, <3>2, RowsAtPlace DEF LeaveFilter, Ordinary, Filtering
  <2> QED BY <2>1, <2>2 DEF Slash, Erase, KeepFilter, Type
<1>3. RoutinesTrue' /\ \A kinds, i : Awaits(kinds, i)' <=> Awaits(kinds, i)
  BY <1>1, RoutinesSame DEF Ordinary
<1>4. DialogTrue'
  BY <1>1, DialogStays DEF Ordinary, Carries
<1>5. OthersTrue' /\ HereTrue'
  <2>1. Sharing => Sharing' /\ dialog'.item.id = dialog.item.id
    BY <1>1 DEF Sharing
  <2> QED BY <1>1, <1>2, <1>3, <2>1, KeptTrue DEF Ordinary
<1> QED BY <1>2, <1>3, <1>4, <1>5 DEF Ordinary

-----------------------------------------------------------------------------
(* Dialogs.                                                                *)

\* An item that is picked is kept as the server has it, and no goroutine works at it.
LEMMA OpenOrdinary ==
  ASSUME Typed, Ordinary, FoundTrue, dialog = Nil, NEW d \in Dialogs, NEW condition \in BOOLEAN,
         Open(d, condition), ~ odd', d.item /= Nil => d.item \in ToSet(Selectable),
         d.kind = "share" => d.item \in Item /\ d.users = shares[d.item.id]
  PROVE  Ordinary'
<1>1. SameServer /\ UNCHANGED <<context, routines, content, items, held>> /\ dialog' = d
  BY DEF Open, SameServer, cliServer, kept, cliPage, path
<1>2. /\ ~ Finishing
      /\ d.item /= Nil => ~ filter.off /\ \A t \in DOMAIN routines : ~ Carries(t, d.item.id)
  BY DEF Open, Notes, About, Carries
<1>3. /\ AtPlace /\ OthersTrue /\ HereTrue /\ RoutinesTrue
      /\ held = Here /\ items = content[Here]
  BY <1>2 DEF Ordinary, AtPlace, Finishing
<1>4. Here' = Here /\ AtPlace'
  BY <1>1, <1>3, SameTruth DEF AtPlace
<1>5. RoutinesTrue' /\ \A kinds, i : Awaits(kinds, i)' <=> Awaits(kinds, i)
  BY <1>1, <1>3, RoutinesSame
<1>6. OthersTrue' /\ HereTrue'
  <2>1. ~ Sharing
    BY DEF Sharing
  <2> QED BY <1>1, <1>3, <1>5, <2>1, KeptTrue
<1>7. DialogTrue'
  <2> SUFFICES ASSUME d.item /= Nil PROVE DialogTrue'
    BY <1>1 DEF DialogTrue
  <2>1. d.item \in ToSet(content[Here])
    BY <1>2, <1>3 DEF FoundTrue, Selectable
  <2>2. PICK x \in ToSet(content[Here]) : x = d.item
    BY <2>1
  <2>3. x.id \in ItemIds /\ Here \in folderContexts
    BY HereIs, Elements
  <2>4. KnownIn(x, Here)
    BY <1>3, <2>3 DEF OthersTrue
  <2>5. ~ Awaits({"delete"}, x.id) /\ ~ Awaits({"rename", "edit"}, x.id)
    BY <1>2, <2>2, AwaitsCarries
  <2>6. IsThere(Here) => Named(x) /\ Counted(x)
    BY <1>3, <2>5 DEF HereTrue, Sharing
  <2>7. /\ \A h : IsThere(h)' <=> IsThere(h)
        /\ KnownIn(x, Here)' <=> KnownIn(x, Here)
        /\ (Named(x)' <=> Named(x)) /\ (Counted(x)' <=> Counted(x))
        /\ shares' = shares
    BY <1>1, <1>4, SameTruth DEF SameServer
  <2>8. \A t \in DOMAIN routines' : ~ Carries(t, x.id)'
    BY <1>1, <1>2, <2>2 DEF Carries
  <2> QED BY <1>1, <1>4, <2>2, <2>4, <2>6, <2>7, <2>8 DEF DialogTrue
<1> QED BY <1>4, <1>5, <1>6, <1>7 DEF Ordinary

LEMMA PickedIs ==
  ASSUME NEW item, Pick(item)
  PROVE  item \in ToSet(Selectable) /\ dialog = Nil
BY ElementOf DEF Pick, Keys

LEMMA RequestOrdinary ==
  ASSUME Typed, Ordinary, FoundTrue, ~ odd',
         \/ \E kind \in {"folder", "upload"} : NewItem(kind)
         \/ \E item \in ToSet(Selectable) :
              \/ NewShareRequest(item)
              \/ \E kind \in {"rename", "delete", "edit", "view"} : NewItemRequest(item, kind)
  PROVE  Ordinary'
<1>1. CASE \E kind \in {"folder", "upload"} : NewItem(kind)
  <2>1. PICK kind \in {"folder", "upload"} : NewItem(kind)
    BY <1>1
  <2>2. Dialog(kind, Nil) \in Dialogs /\ Dialog(kind, Nil).kind = kind /\ Dialog(kind, Nil).item = Nil
    BY DEF Dialog, Dialogs, Kinds
  <2> QED BY <2>1, <2>2, OpenOrdinary DEF NewItem, Keys
<1>2. CASE \E item \in ToSet(Selectable) : NewShareRequest(item)
  <2>1. PICK item \in Item : NewShareRequest(item)
    BY <1>2, PickedIsItem
  <2>2. shares[item.id] \in Rights /\ item \in ToSet(Selectable) /\ dialog = Nil
    BY <2>1, PickedIs DEF NewShareRequest, Typed, ServerTyped, Item
  <2>3. PICK d : d = [Dialog("share", item) EXCEPT !.users = shares[item.id]]
    OBVIOUS
  <2>4. d \in Dialogs /\ d.kind = "share" /\ d.item = item /\ d.users = shares[item.id]
    BY <2>2, <2>3 DEF Dialog, Dialogs, Kinds
  <2>5. Open(d, FALSE)
    BY <2>1, <2>3 DEF NewShareRequest, Open, Notes
  <2> QED BY <2>1, <2>2, <2>4, <2>5, OpenOrdinary
<1>3. CASE \E item \in ToSet(Selectable) :
             \E kind \in {"rename", "delete", "edit", "view"} : NewItemRequest(item, kind)
  <2>1. PICK item \in Item : \E kind \in {"rename", "delete", "edit", "view"} : NewItemRequest(item, kind)
    BY <1>3, PickedIsItem
  <2>2. PICK kind \in {"rename", "delete", "edit", "view"} : NewItemRequest(item, kind)
    BY <2>1
  <2>3. /\ Dialog(kind, item) \in Dialogs /\ Dialog(kind, item).kind = kind
        /\ Dialog(kind, item).item = item
    BY DEF Dialog, Dialogs, Kinds
  <2>4. item \in ToSet(Selectable) /\ dialog = Nil
    BY <2>2, PickedIs DEF NewItemRequest
  <2> QED BY <2>2, <2>3, <2>4, OpenOrdinary DEF NewItemRequest
<1> QED BY <1>1, <1>2, <1>3

LEMMA CancelOrdinary ==
  ASSUME Typed, Ordinary, Cancel
  PROVE  Ordinary'
<1>1. SameServer /\ UNCHANGED <<context, routines, content, items, held>> /\ dialog' = Nil /\ ~ Sharing
  BY DEF Cancel, SameServer, cliServer, kept, cliPage, path, Cancelable, Sharing
<1>2. AtPlace'
  BY <1>1, SameTruth DEF Ordinary, AtPlace
<1>3. RoutinesTrue' /\ \A kinds, i : Awaits(kinds, i)' <=> Awaits(kinds, i)
  BY <1>1, RoutinesSame DEF Ordinary
<1>4. OthersTrue' /\ HereTrue'
  BY <1>1, <1>3, KeptTrue DEF Ordinary
<1> QED BY <1>1, <1>2, <1>3, <1>4 DEF Ordinary, DialogTrue

\* The dialog has ended, and a goroutine may begin with its item.
LEMMA EventOrdinary ==
  ASSUME Typed, Ordinary, Event, ~ odd', ReturnFromView \/ \E t \in DOMAIN routines : Confirm(t)
  PROVE  Ordinary'
<1>1. /\ SameServer /\ UNCHANGED <<context, held>> /\ dialog' = Nil /\ ~ Finishing
      /\ CreateItemRows /\ dialog /= Nil /\ ~ Sharing
  BY DEF Event, ReturnFromView, Confirm, SameServer, cliServer, path, Notes, Sharing
<1>2. AtPlace /\ \A t \in DOMAIN routines : routines[t].at \notin {"items", "rows"}
  BY <1>1 DEF Finishing, Ordinary
<1>3. RoutinesTrue' /\ (\A kinds, i : Awaits(kinds, i)' <=> Awaits(kinds, i))
      /\ \A t \in DOMAIN routines' : routines'[t].at \notin {"items", "rows"}
  <2>1. CASE ReturnFromView
    BY <1>1, <1>2, <2>1, RoutinesSame DEF ReturnFromView, Ordinary
  <2>2. CASE \E t \in DOMAIN routines : Confirm(t)
    <3>1. PICK t \in DOMAIN routines : Confirm(t)
      BY <2>2
    <3>2. PICK r : r = [at |-> "call", kind |-> dialog.kind, item |-> dialog.item, context |-> context]
      OBVIOUS
    <3>3. routines' = [routines EXCEPT ![t] = r] /\ routines[t] = Idle /\ dialog.kind /= "share"
      BY <3>1, <3>2 DEF Confirm
    <3>4. RoutineTrue(r)
      BY <1>2, <3>2, <3>3, <1>1 DEF RoutineTrue, AtPlace, Ordinary, DialogTrue
    <3>5. r.item = Nil \/ \A u \in DOMAIN routines : ~ Carries(u, r.item.id)
      BY <1>1, <3>2 DEF Ordinary, DialogTrue
    <3>6. RoutinesTrue'
      BY <1>1, <3>3, <3>4, <3>5, RoutinesKept DEF Ordinary
    <3>7. /\ DOMAIN routines' = DOMAIN routines /\ routines'[t] = r
          /\ \A u \in DOMAIN routines \ {t} : routines'[u] = routines[u]
      BY <3>3
    <3>8. r.at = "call" /\ routines[t].at = "idle"
      BY <3>2, <3>3 DEF Idle
    <3>9. \A kinds, i : Awaits(kinds, i)' <=> Awaits(kinds, i)
      BY <3>7, <3>8 DEF Awaits
    <3> QED BY <1>2, <3>6, <3>7, <3>8, <3>9
  <2> QED BY <2>1, <2>2
<1>4. /\ AtPlace'
      /\ \A g \in folderContexts \ {Here} : content'[g] = content[g]
      /\ ToSet(content'[Here]) = ToSet(content[Here])
      /\ Distinct(content[Here]) => Distinct(content'[Here])
  BY <1>1, <1>2, <1>3, RowsAtPlace
<1>5. OthersTrue' /\ HereTrue'
  BY <1>1, <1>3, <1>4, KeptTrue DEF Ordinary
<1> QED BY <1>1, <1>3, <1>4, <1>5 DEF Ordinary, DialogTrue

-----------------------------------------------------------------------------
(* Shares.                                                                 *)

LEMMA RequestsOrdinary ==
  ASSUME Typed, Ordinary, NEW rs \in SUBSET Recipients, NEW new \in Rights, Requests(rs, new)
  PROVE  Ordinary'
<1>1. PICK x : x = dialog.item
  OBVIOUS
<1>2. /\ dialog \in Dialogs /\ x \in Item /\ x /= Nil /\ x.id \in ItemIds /\ Sharing /\ dialog /= Nil
      /\ dialog.kind = "share" /\ dialog.users \in Rights
  BY <1>1, Constants DEF Requests, Sharing, Typed, DialogTyped, Item
<1>3. PICK done \in SUBSET rs :
       /\ shares' = [shares EXCEPT ![x.id] =
            [r \in Recipients |-> IF r \in done THEN new[r] ELSE shares[x.id][r]]]
       /\ dialog' = [dialog EXCEPT !.users =
            Again([r \in Recipients |-> IF r \in done THEN new[r] ELSE dialog.users[r]], shares'[x.id])]
  BY <1>1 DEF Requests
<1>4. /\ UNCHANGED <<parent, changed, folderContexts, content, items, held, folderViews, context, routines>>
      /\ parent[x.id] \in FolderIds
  BY <1>1 DEF Requests, kept, cliPage, path
<1>5. parent[x.id] = Here /\ Here \in folderContexts
  BY <1>1, <1>2, <1>4, HereIs, Constants DEF Ordinary, DialogTrue, KnownIn
<1>6. \A j \in ItemIds \ {x.id} : shares'[j] = shares[j]
  BY <1>3 DEF Typed, ServerTyped
<1>7. /\ Here' = Here
      /\ \A h : IsThere(h)' <=> IsThere(h)
      /\ \A y, h : KnownIn(y, h)' <=> KnownIn(y, h)
      /\ \A y : Named(y)' <=> Named(y)
      /\ \A y : y.id \in ItemIds \ {x.id} => (Counted(y)' <=> Counted(y))
      /\ \A h : Children(h)' = Children(h)
  BY <1>4, <1>6 DEF Here, IsThere, KnownIn, Named, Counted, SharedWith, Children
<1>8. dialog' \in Dialogs /\ dialog'.item = x /\ dialog'.kind = "share" /\ dialog' /= Nil
      /\ (dialog.users = shares[x.id] => dialog'.users = shares'[x.id])
  <2>1. \A r \in Recipients : shares[x.id] \in Rights /\ new[r] \in {"none", "read", "write"}
    BY <1>2 DEF Typed, ServerTyped, Rights
  <2>2. PICK known : known = shares'[x.id]
    OBVIOUS
  <2>3. known = [r \in Recipients |-> IF r \in done THEN new[r] ELSE shares[x.id][r]]
    BY <1>2, <1>3, <2>2 DEF Typed, ServerTyped
  <2>4. PICK users : users = [r \in Recipients |-> IF r \in done THEN new[r] ELSE dialog.users[r]]
    OBVIOUS
  <2>5. dialog' = [dialog EXCEPT !.users = Again(users, known)]
    BY <1>3, <2>2, <2>4
  <2>6. users \in Rights /\ known \in Rights
    BY <1>2, <2>1, <2>3, <2>4 DEF Rights
  <2>7. Again(users, known) \in Rights /\ (dialog.users = shares[x.id] => Again(users, known) = known)
    BY <2>3, <2>4, <2>6 DEF Again
  <2> HIDE DEF Again
  <2>8. dialog' \in Dialogs /\ dialog'.item = x /\ dialog'.kind = "share" /\ dialog'.users = Again(users, known)
    BY <1>1, <1>2, <2>5, <2>7 DEF Dialogs
  <2> QED BY <2>2, <2>7, <2>8, Constants
<1>9. AtPlace'
  BY <1>4, <1>7 DEF Ordinary, AtPlace
<1>10. OthersTrue'
  <2>1. ASSUME NEW g \in folderContexts, g /= Here, IsThere(g) PROVE UpToDate(content[g], g)'
    <3>1. UpToDate(content[g], g) /\ content[g] \in Seq(Item)
      BY <2>1, HereIs DEF Ordinary, OthersTrue
    <3>2. ASSUME NEW y \in ToSet(content[g]) PROVE y.id \in ItemIds \ {x.id}
      <4>1. y.id \in Children(g)
        BY <3>1 DEF UpToDate, IdsIn
      <4> QED BY <1>5, <2>1, <4>1 DEF Children
    <3> QED BY <1>4, <1>7, <3>1, <3>2 DEF UpToDate, Distinct, IdsIn
  <2> QED BY <1>4, <1>7, <2>1 DEF Ordinary, OthersTrue
<1>11. \A kinds, i : Awaits(kinds, i)' <=> Awaits(kinds, i)
  BY <1>4 DEF Awaits
<1>12. HereTrue'
  <2> SUFFICES ASSUME IsThere(Here) PROVE HereTrue'
    BY <1>7 DEF HereTrue
  <2>1. PICK c : c = content[Here]
    OBVIOUS
  <2>2. /\ Distinct(c)
        /\ \A i \in ItemIds : i \in IdsIn(c) <=>
             (parent[i] = Here /\ ~ Awaits(Makers, i)) \/ Awaits({"delete"}, i)
        /\ \A y \in ToSet(c) : ~ Awaits({"delete"}, y.id) =>
             /\ Awaits({"rename", "edit"}, y.id) \/ Named(y)
             /\ x.id = y.id \/ Counted(y)
    BY <1>1, <1>2, <2>1 DEF Ordinary, HereTrue
  <2>3. \A y \in ToSet(c) : y.id \in ItemIds
    BY <2>1, HereIs, Elements
  <2>4. content'[Here'] = c /\ Sharing' /\ dialog'.item.id = x.id
    BY <1>4, <1>7, <1>8, <2>1 DEF Sharing
  <2>5. /\ \A i \in ItemIds : i \in IdsIn(c) <=>
             (parent'[i] = Here' /\ ~ Awaits(Makers, i)') \/ Awaits({"delete"}, i)'
        /\ \A y \in ToSet(c) : ~ Awaits({"delete"}, y.id)' =>
             /\ Awaits({"rename", "edit"}, y.id)' \/ Named(y)'
             /\ x.id = y.id \/ Counted(y)'
    BY <1>4, <1>7, <1>11, <2>2, <2>3
  <2> QED BY <2>2, <2>4, <2>5 DEF HereTrue, Distinct, IdsIn
<1>13. RoutinesTrue'
  <2>1. \A u \in DOMAIN routines : ~ Carries(u, x.id)
    BY <1>1, <1>2 DEF Ordinary, DialogTrue
  <2>2. ASSUME NEW u \in DOMAIN routines PROVE RoutineTrue(routines[u])'
    <3>1. PICK r : r = routines[u]
      OBVIOUS
    <3>2. RoutineTrue(r) /\ RoutineTyped(r)
      BY <3>1 DEF Ordinary, RoutinesTrue, Typed, RoutinesTyped
    <3>3. r /= Idle /\ r.item /= Nil => r.item.id \in ItemIds \ {x.id}
      BY <2>1, <3>1, <3>2 DEF Carries, RoutineTyped, Item
    <3>4. RoutineTrue(r)'
      BY <1>4, <1>7, <3>2, <3>3 DEF RoutineTrue
    <3> QED BY <1>4, <3>1, <3>4 DEF RoutineTrue
  <2> QED BY <1>4, <2>2 DEF Ordinary, RoutinesTrue, Carries
<1>14. DialogTrue'
  <2>1. \A u \in DOMAIN routines' : ~ Carries(u, x.id)'
    BY <1>1, <1>2, <1>4 DEF Ordinary, DialogTrue, Carries
  <2>2. KnownIn(x, Here) /\ (IsThere(Here) => Named(x) /\ dialog.users = shares[x.id])
    BY <1>1, <1>2, <1>5 DEF Ordinary, DialogTrue
  <2> QED BY <1>7, <1>8, <2>1, <2>2 DEF DialogTrue
<1> QED BY <1>9, <1>10, <1>12, <1>13, <1>14 DEF Ordinary

LEMMA ShareOrdinary ==
  ASSUME Typed, Ordinary,
         \/ \E r \in Recipients, right \in {"read", "write"} : Add(r, right)
         \/ \E new \in [Recipients -> {"read", "write"}] : Edit(new)
         \/ \E rs \in SUBSET Recipients : Unshare(rs)
  PROVE  Ordinary'
<1>1. CASE \E r \in Recipients, right \in {"read", "write"} : Add(r, right)
  <2>1. PICK r \in Recipients, right \in {"read", "write"} : Add(r, right)
    BY <1>1
  <2>2. [x \in Recipients |-> right] \in Rights /\ {r} \in SUBSET Recipients
    BY DEF Rights
  <2> QED BY <2>1, <2>2, RequestsOrdinary DEF Add, shareItem
<1>2. CASE \E new \in [Recipients -> {"read", "write"}] : Edit(new)
  <2>1. PICK new \in [Recipients -> {"read", "write"}] : Edit(new)
    BY <1>2
  <2>2. new \in Rights /\ Shared \in SUBSET Recipients
    BY DEF Rights, Shared
  <2> QED BY <2>1, <2>2, RequestsOrdinary DEF Edit
<1>3. CASE \E rs \in SUBSET Recipients : Unshare(rs)
  <2>1. PICK rs \in SUBSET Recipients : Unshare(rs)
    BY <1>3
  <2>2. Nobody \in Rights
    BY DEF Rights, Nobody
  <2> QED BY <2>1, <2>2, RequestsOrdinary DEF Unshare
<1> QED BY <1>1, <1>2, <1>3

\* The item of the dialog goes to the content with as many recipients as it has now.
LEMMA ReturnOrdinary ==
  ASSUME Typed, Ordinary, ReturnFromShares, ~ odd'
  PROVE  Ordinary'
<1>1. /\ SameServer /\ UNCHANGED <<context, routines>> /\ dialog' = Nil /\ Sharing /\ ~ Finishing
  BY DEF ReturnFromShares, SameServer, cliServer, path, Notes
<1>2. /\ dialog \in Dialogs /\ dialog.item \in Item /\ dialog.item /= Nil /\ dialog /= Nil
      /\ dialog.kind = "share" /\ dialog.users \in Rights
  BY <1>1, Constants DEF Sharing, Typed, DialogTyped
<1>3. PICK x : x = [dialog.item EXCEPT !.sharedWith = Cardinality(Shared)]
  OBVIOUS
<1>4. /\ x \in Item /\ x.id = dialog.item.id /\ x.name = dialog.item.name
      /\ x.sharedWith = Cardinality(Shared) /\ x.id \in ItemIds
  BY <1>2, <1>3, SharedIsNat DEF Item, Shared
<1>5. held = Here /\ items = content[Here] /\ context = Here
  BY <1>1 DEF Ordinary, AtPlace, Finishing
<1>6. PICK s : s = SortedWith(content, Sorted(items))
  OBVIOUS
<1>7. /\ s \in [FolderIds -> Seq(Item)] /\ s[Here] = Sorted(content[Here])
      /\ \A g \in FolderIds : g /= Here => s[g] = content[g]
  BY <1>5, <1>6, KeptSorted, HereIs, SortedKeeps DEF Typed
<1>8. PICK c : c = Sorted(content[Here])
  OBVIOUS
<1>9. /\ c \in Seq(Item) /\ ToSet(c) = ToSet(content[Here])
      /\ Distinct(content[Here]) => Distinct(c)
  BY <1>8, HereIs, SortedKeeps
<1>10. PICK new : new = [n \in DOMAIN c |-> IF c[n].id = x.id THEN x ELSE c[n]]
  OBVIOUS
<1>11. new \in Seq(Item)
  <2>1. PICK N \in Nat : N = Len(c)
    BY <1>9
  <2>2. new \in [1..N -> Item]
    BY <1>4, <1>9, <1>10, <2>1
  <2> QED BY <2>2
<1>12. DOMAIN new = DOMAIN c /\ \A n \in DOMAIN c : new[n] = (IF c[n].id = x.id THEN x ELSE c[n]) /\ new[n].id = c[n].id
  BY <1>10
<1>13. content' = [s EXCEPT ![Here] = Sorted(new)] /\ items' = Sorted(new) /\ held' = Here
  <2>1. context /= Nowhere
    BY <1>5, HereIs
  <2>2. \A n \in DOMAIN s[Here] : s[Here] = c
    BY <1>7, <1>8
  <2> QED BY <1>3, <1>5, <1>6, <1>7, <1>8, <1>10, <2>1 DEF ReturnFromShares
<1>14. PICK d : d = Sorted(new)
  OBVIOUS
<1>15. d \in Seq(Item) /\ ToSet(d) = ToSet(new) /\ (Distinct(new) => Distinct(d))
  BY <1>11, <1>14, SortedKeeps
<1>16. content'[Here] = d /\ items' = d /\ \A g \in FolderIds : g /= Here => content'[g] = content[g]
  BY <1>7, <1>13, <1>14, HereIs
<1>17. /\ \A y \in ToSet(d) : \E z \in ToSet(content[Here]) :
              z.id = y.id /\ y = IF z.id = x.id THEN x ELSE z
       /\ \A z \in ToSet(content[Here]) : \E y \in ToSet(d) : z.id = y.id
       /\ Distinct(content[Here]) => Distinct(d)
  <2>1. \A y \in ToSet(d) : \E n \in DOMAIN c : new[n] = y
    BY <1>12, <1>15, ElementOf
  <2>2. \A z \in ToSet(content[Here]) : \E n \in DOMAIN c : c[n] = z
    BY <1>9, ElementOf
  <2>3. \A n \in DOMAIN c : c[n] \in ToSet(content[Here]) /\ new[n] \in ToSet(d)
    BY <1>9, <1>12, <1>15, ElementOf
  <2>4. Distinct(content[Here]) => Distinct(new)
    BY <1>9, <1>12 DEF Distinct
  <2> QED BY <1>12, <1>15, <2>1, <2>2, <2>3, <2>4
<1>18. /\ Here' = Here
       /\ \A h : IsThere(h)' <=> IsThere(h)
       /\ \A y, h : KnownIn(y, h)' <=> KnownIn(y, h)
       /\ \A e, h : UpToDate(e, h)' <=> UpToDate(e, h)
       /\ \A y : (Named(y)' <=> Named(y)) /\ (Counted(y)' <=> Counted(y))
       /\ UNCHANGED <<parent, folderContexts>>
  BY <1>1, SameTruth DEF SameServer
<1>19. RoutinesTrue' /\ \A kinds, i : Awaits(kinds, i)' <=> Awaits(kinds, i)
  BY <1>1, RoutinesSame DEF Ordinary
<1>20. AtPlace'
  BY <1>1, <1>5, <1>13, <1>14, <1>16, <1>18 DEF Ordinary, AtPlace
<1>21. OthersTrue'
  <2>1. ASSUME NEW g \in folderContexts
        PROVE  /\ \A y \in ToSet(content'[g]) : KnownIn(y, g)'
               /\ g /= Here /\ IsThere(g)' => UpToDate(content[g], g)'
    <3>1. CASE g = Here
      <4>1. \A z \in ToSet(content[Here]) : KnownIn(z, Here)
        BY <3>1 DEF Ordinary, OthersTrue
      <4> QED BY <1>16, <1>17, <1>18, <3>1, <4>1 DEF KnownIn
    <3>2. CASE g /= Here
      <4>1. PICK e : e = content[g] /\ e = content'[g]
        BY <1>16, <3>2, HereIs
      <4>2. UpToDate(content[g], g)' <=> UpToDate(e, g)'
        BY <4>1 DEF UpToDate, Distinct, IdsIn
      <4> QED BY <1>18, <3>2, <4>1, <4>2 DEF Ordinary, OthersTrue
    <3> QED BY <3>1, <3>2
  <2> QED BY <1>18, <2>1 DEF OthersTrue
<1>22. HereTrue'
  <2> SUFFICES ASSUME IsThere(Here) PROVE HereTrue'
    BY <1>18 DEF HereTrue
  <2>1. /\ Distinct(content[Here])
        /\ \A i \in ItemIds : i \in IdsIn(content[Here]) <=>
             (parent[i] = Here /\ ~ Awaits(Makers, i)) \/ Awaits({"delete"}, i)
        /\ \A y \in ToSet(content[Here]) : ~ Awaits({"delete"}, y.id) =>
             /\ Awaits({"rename", "edit"}, y.id) \/ Named(y)
             /\ dialog.item.id = y.id \/ Counted(y)
    BY DEF Ordinary, HereTrue
  <2>2. IdsIn(d) = IdsIn(content[Here]) /\ Distinct(d)
    <3>1. \A i : i \in IdsIn(d) <=> i \in IdsIn(content[Here])
      BY <1>17 DEF IdsIn
    <3> QED BY <1>17, <2>1, <3>1
  <2>3. dialog.users = shares[x.id] /\ KnownIn(x, Here) /\ (parent[x.id] = Here => Named(x))
    BY <1>2, <1>4 DEF Ordinary, DialogTrue, KnownIn, Named
  <2>4. Counted(x)
    BY <1>4, <2>3 DEF Counted, Shared, SharedWith
  <2>5. ASSUME NEW y \in ToSet(d), ~ Awaits({"delete"}, y.id)
        PROVE  (Awaits({"rename", "edit"}, y.id) \/ Named(y)) /\ Counted(y)
    <3>1. PICK z \in ToSet(content[Here]) : z.id = y.id /\ y = IF z.id = x.id THEN x ELSE z
      BY <1>17
    <3>2. CASE z.id = x.id
      <4>1. x.id \in IdsIn(content[Here])
        BY <3>1, <3>2 DEF IdsIn
      <4>2. parent[x.id] = Here
        BY <1>4, <2>1, <2>5, <3>1, <3>2, <4>1
      <4> QED BY <2>3, <2>4, <3>1, <3>2, <4>2
    <3>3. CASE z.id /= x.id
      BY <1>4, <2>1, <2>5, <3>1, <3>3
    <3> QED BY <3>2, <3>3
  <2>6. content'[Here'] = d
    BY <1>16, <1>18
  <2>7. /\ \A i \in ItemIds : i \in IdsIn(d) <=>
             (parent'[i] = Here' /\ ~ Awaits(Makers, i)') \/ Awaits({"delete"}, i)'
        /\ \A y \in ToSet(d) : ~ Awaits({"delete"}, y.id)' =>
             /\ Awaits({"rename", "edit"}, y.id)' \/ Named(y)'
             /\ Counted(y)'
    BY <1>18, <1>19, <2>1, <2>2, <2>5
  <2> QED BY <2>2, <2>6, <2>7 DEF HereTrue, Distinct, IdsIn
<1> QED BY <1>1, <1>19, <1>20, <1>21, <1>22 DEF Ordinary, DialogTrue

-----------------------------------------------------------------------------
(* Goroutines.                                                             *)

\* A request is served: the page does not know of it yet, and the goroutine has the
\* item as the server has it now.
LEMMA AnsweredOrdinary ==
  ASSUME Typed, NeverMade, Ordinary, NEW t \in DOMAIN routines, Answered(t)
  PROVE  Ordinary'
<1>1. PICK r : r = routines[t]
  OBVIOUS
<1>2. PICK i \in ItemIds :
        /\ Serve(r, i)
        /\ routines' = [routines EXCEPT ![t] = [r EXCEPT !.at = "apply", !.item = Became(r, i)]]
  BY <1>1 DEF Answered
<1>3. r.at = "call" /\ RoutineTrue(r) /\ RoutineTyped(r) /\ r /= Idle
  BY <1>1 DEF Answered, Ordinary, RoutinesTrue, Typed, RoutinesTyped, Idle
<1>4. /\ r.context = Here
      /\ UNCHANGED shares
      /\ \A j \in ItemIds \ {i} : changed'[j] = changed[j] /\ parent'[j] \in {parent[j], Nowhere}
      /\ \A g \in folderContexts : IsThere(g)' =>
           /\ IsThere(g)
           /\ \A j \in ItemIds \ {i} : parent'[j] = g <=> parent[j] = g
      /\ r.kind \in Makers => parent[i] = Nil /\ parent'[i] = Here
      /\ r.kind \notin Makers =>
           /\ r.item \in Item /\ i = r.item.id /\ parent[i] = Here
           /\ parent'[i] = IF r.kind = "delete" THEN Nowhere ELSE Here
      /\ changed'[i] = IF r.kind = "delete" THEN changed[i] ELSE Now
  BY <1>1, <1>2, <1>3, ServedIs
<1>5. /\ UNCHANGED <<folderContexts, folderViews, context, content, items, held, dialog>>
      /\ Here' = Here
  BY DEF Answered, PageStays, cliPage, path, Here
<1>6. PICK x : x = Became(r, i)
  OBVIOUS
<1>7. PICK new : new = [r EXCEPT !.at = "apply", !.item = x]
  OBVIOUS
<1>8. /\ r \in [at : Stages, kind : Kinds, item : Item \cup {Nil}, context : folderContexts \cup {Nowhere}]
      /\ Typed'
  BY <1>3, AnsweredTypes DEF RoutineTyped
<1>9. /\ new.at = "apply" /\ new.item = x /\ new.kind = r.kind /\ new.context = Here /\ r.kind \in Kinds
      /\ routines' = [routines EXCEPT ![t] = new]
  BY <1>2, <1>4, <1>6, <1>7, <1>8
<1>10. /\ DOMAIN routines' = DOMAIN routines /\ routines'[t] = new
       /\ \A u \in DOMAIN routines \ {t} : routines'[u] = routines[u]
  BY <1>9
<1>11. x \in Item /\ x.id = i /\ x /= Nil
  <2>1. Typed /\ routines[t].at = "call" /\ Serve(routines[t], i) /\ clock' = Now /\ UNCHANGED isPassVault
        /\ odd' \in BOOLEAN /\ faults' \in 0..MaxFaults
    BY <1>1, <1>2 DEF Answered, PageStays, Typed, ServerTyped
  <2>2. x \in Item
    BY <1>1, <1>6, <2>1, ServeTypes
  <2>3. x.id = i
    BY <1>4, <1>6, <1>9 DEF Became, Makers, Kinds, Item
  <2> QED BY <2>2, <2>3, Constants
<1>12. /\ parent \in [ItemIds -> FolderIds \cup {Nil, Nowhere}]
       /\ Here \in folderContexts /\ Here \in FolderIds /\ Here /= Nowhere
       /\ Nil \notin FolderIds /\ Nil /= Nowhere /\ Nowhere \notin FolderIds
       /\ folderContexts \subseteq FolderIds
  BY HereIs, Constants DEF Typed, ServerTyped, KeptTyped
<1>13. \A j : SharedWith(j)' = SharedWith(j)
  BY <1>4 DEF SharedWith
<1>14. \A y, g : y.id \in ItemIds /\ g \in folderContexts /\ KnownIn(y, g) => KnownIn(y, g)'
  <2> TAKE y, g
  <2> HAVE y.id \in ItemIds /\ g \in folderContexts /\ KnownIn(y, g)
  <2>1. CASE y.id /= i
    BY <1>4, <2>1 DEF KnownIn
  <2>2. CASE y.id = i
    <3>1. parent[i] \in {g, Nowhere} /\ g \in FolderIds
      BY <1>12, <2>2 DEF KnownIn
    <3>2. r.kind \notin Makers
      BY <1>4, <1>12, <3>1
    <3>3. g = Here
      BY <1>4, <1>12, <3>1, <3>2
    <3> QED BY <1>4, <2>2, <3>2, <3>3 DEF KnownIn
  <2> QED BY <2>1, <2>2
\* Nobody else works at the item.
<1>15. \A u \in DOMAIN routines \ {t} : ~ Carries(u, i)
  <2> SUFFICES ASSUME NEW u \in DOMAIN routines \ {t}, Carries(u, i) PROVE FALSE
    OBVIOUS
  <2>1. CASE r.kind \in Makers
    <3>1. RoutineTrue(routines[u])
      BY DEF Ordinary, RoutinesTrue
    <3>2. parent[i] \in {Here, Nowhere}
      BY <3>1 DEF Carries, RoutineTrue, KnownIn
    <3> QED BY <1>4, <1>12, <2>1, <3>2
  <2>2. CASE r.kind \notin Makers
    <3>1. Carries(t, i)
      BY <1>1, <1>3, <1>4, <2>2, Constants DEF Carries
    <3> QED BY <3>1 DEF Ordinary, RoutinesTrue
  <2> QED BY <2>1, <2>2
<1>16. dialog /= Nil /\ dialog.item /= Nil => dialog.item.id /= i /\ dialog.item.id \in ItemIds
  <2> SUFFICES ASSUME dialog /= Nil, dialog.item /= Nil PROVE dialog.item.id /= i /\ dialog.item.id \in ItemIds
    OBVIOUS
  <2>1. dialog.item.id \in ItemIds
    BY DEF Typed, DialogTyped, Dialogs, Item
  <2>2. CASE r.kind \in Makers
    BY <1>4, <1>12, <2>1, <2>2 DEF Ordinary, DialogTrue, KnownIn
  <2>3. CASE r.kind \notin Makers
    BY <1>1, <1>3, <1>4, <2>1, <2>3, Constants DEF Ordinary, DialogTrue, Carries
  <2> QED BY <2>1, <2>2, <2>3
<1>17. \A kinds, j : Awaits(kinds, j)' <=> Awaits(kinds, j) \/ (r.kind \in kinds /\ j = i)
  <2> TAKE kinds, j
  <2>1. routines[t].at /= "apply"
    BY <1>1, <1>3
  <2> QED BY <1>9, <1>10, <1>11, <2>1 DEF Awaits
<1>18. \A kinds : ~ Awaits(kinds, i)
  <2> SUFFICES ASSUME NEW kinds, Awaits(kinds, i) PROVE FALSE
    OBVIOUS
  <2>1. PICK u \in DOMAIN routines : routines[u].at = "apply" /\ routines[u].item.id = i
    BY DEF Awaits
  <2>2. u /= t /\ routines[u] /= Idle /\ RoutineTyped(routines[u])
    BY <1>1, <1>3, <2>1 DEF Idle, Typed, RoutinesTyped
  <2>3. Carries(u, i)
    BY <2>1, <2>2, Constants DEF Carries, RoutineTyped
  <2> QED BY <1>15, <2>2, <2>3
<1>19. AtPlace'
  <2>1. \A u \in DOMAIN routines' : routines'[u].at \in {"items", "rows"} =>
          u \in DOMAIN routines /\ routines'[u] = routines[u]
    BY <1>9, <1>10
  <2>2. (\A u \in DOMAIN routines' : routines'[u].at /= "items") => \A u \in DOMAIN routines : routines[u].at /= "items"
    BY <1>1, <1>3, <1>10
  <2> QED BY <1>5, <2>1, <2>2 DEF Ordinary, AtPlace
<1>20. OthersTrue'
  <2>1. ASSUME NEW g \in folderContexts
        PROVE  /\ \A y \in ToSet(content[g]) : KnownIn(y, g)'
               /\ g /= Here /\ IsThere(g)' => UpToDate(content[g], g)'
    <3>1. PICK c : c = content[g] /\ c \in Seq(Item)
      BY HereIs
    <3>2. \A y \in ToSet(c) : y.id \in ItemIds /\ KnownIn(y, g)
      BY <3>1, Elements DEF Ordinary, OthersTrue
    <3>3. \A y \in ToSet(c) : KnownIn(y, g)'
      BY <1>14, <3>2
    <3>4. ASSUME g /= Here, IsThere(g)' PROVE UpToDate(c, g)'
      <4>1. UpToDate(c, g)
        BY <1>4, <3>1, <3>4 DEF Ordinary, OthersTrue
      <4>2. parent[i] /= g /\ parent'[i] /= g
        BY <1>4, <1>12, <3>4
      <4>3. Children(g)' = Children(g)
        BY <1>4, <3>4, <4>2 DEF Children
      <4>4. \A y \in ToSet(c) : y.id \in ItemIds \ {i}
        <5>1. \A y \in ToSet(c) : y.id \in Children(g)
          BY <4>1 DEF UpToDate, IdsIn
        <5> QED BY <4>2, <5>1 DEF Children
      <4>5. \A y \in ToSet(c) : Named(y)' /\ Counted(y)'
        BY <1>4, <1>13, <4>1, <4>4 DEF UpToDate, Named, Counted
      <4> QED BY <4>1, <4>3, <4>5 DEF UpToDate, Distinct, IdsIn
    <3>5. UpToDate(content[g], g)' <=> UpToDate(c, g)'
      BY <1>5, <3>1 DEF UpToDate, Distinct, IdsIn
    <3> QED BY <3>1, <3>3, <3>4, <3>5
  <2> QED BY <1>5, <2>1 DEF OthersTrue
<1>21. HereTrue'
  <2> SUFFICES ASSUME IsThere(Here)' PROVE HereTrue'
    BY DEF HereTrue
  <2>1. PICK c : c = content[Here] /\ c \in Seq(Item)
    BY HereIs
  <2>0. IsThere(Here)
    BY <1>4, <1>5, <1>12 DEF IsThere
  <2>2. /\ Distinct(c)
        /\ \A j \in ItemIds : j \in IdsIn(c) <=>
             (parent[j] = Here /\ ~ Awaits(Makers, j)) \/ Awaits({"delete"}, j)
        /\ \A y \in ToSet(c) : ~ Awaits({"delete"}, y.id) =>
             /\ Awaits({"rename", "edit"}, y.id) \/ Named(y)
             /\ (Sharing /\ dialog.item.id = y.id) \/ Counted(y)
    BY <2>0, <2>1 DEF Ordinary, HereTrue
  <2>3. \A y \in ToSet(c) : y.id \in ItemIds
    BY <2>1, Elements
  <2>4. content'[Here'] = c /\ (Sharing' <=> Sharing) /\ dialog' = dialog
    BY <1>5, <2>1 DEF Sharing
  <2>5. \A j \in ItemIds \ {i} : parent'[j] = Here <=> parent[j] = Here
    BY <1>4, <1>5, <1>12 DEF IsThere
  <2>6. ASSUME NEW j \in ItemIds
        PROVE  j \in IdsIn(c) <=> (parent'[j] = Here /\ ~ Awaits(Makers, j)') \/ Awaits({"delete"}, j)'
    <3>1. CASE j /= i
      BY <1>17, <2>2, <2>5, <3>1
    <3>2. CASE j = i
      <4>1. i \in IdsIn(c) <=> parent[i] = Here
        BY <1>18, <2>2, <3>2
      <4>2. CASE r.kind \in Makers
        BY <1>4, <1>12, <1>17, <1>18, <3>2, <4>1, <4>2 DEF Makers
      <4>3. CASE r.kind \notin Makers
        BY <1>4, <1>12, <1>17, <1>18, <3>2, <4>1, <4>3
      <4> QED BY <4>2, <4>3
    <3> QED BY <3>1, <3>2
  <2>7. ASSUME NEW y \in ToSet(c), ~ Awaits({"delete"}, y.id)'
        PROVE  /\ Awaits({"rename", "edit"}, y.id)' \/ Named(y)'
               /\ (Sharing /\ dialog.item.id = y.id) \/ Counted(y)'
    <3>1. ~ Awaits({"delete"}, y.id)
      BY <1>17, <2>7
    <3>2. Counted(y)' <=> Counted(y)
      BY <1>13 DEF Counted
    <3>3. CASE y.id /= i
      <4>1. Named(y)' <=> Named(y)
        BY <1>4, <2>3, <3>3 DEF Named
      <4> QED BY <1>17, <2>2, <3>1, <3>2, <4>1
    <3>4. CASE y.id = i
      <4>1. y.id \in IdsIn(c)
        BY DEF IdsIn
      <4>2. parent[i] = Here
        BY <1>18, <2>2, <3>4, <4>1
      <4>3. r.kind \notin Makers /\ r.kind /= "delete"
        BY <1>4, <1>12, <1>17, <2>7, <3>4, <4>2
      <4>4. Awaits({"rename", "edit"}, y.id)'
        BY <1>9, <1>17, <3>4, <4>3 DEF Kinds, Makers
      <4> QED BY <2>2, <3>1, <3>2, <4>4
    <3> QED BY <3>3, <3>4
  <2> QED BY <1>5, <2>2, <2>4, <2>6, <2>7 DEF HereTrue, Distinct, IdsIn
\* The item of the goroutine is as the server has it now.
<1>22. RoutineTrue(new)'
  <2>1. KnownIn(x, Here)'
    BY <1>4, <1>5, <1>9, <1>11, <1>12 DEF KnownIn
  <2>2. IF new.kind = "delete" THEN parent'[x.id] = Nowhere ELSE parent'[x.id] = Here
    BY <1>4, <1>9, <1>11 DEF Makers
  <2>3. ASSUME IsThere(Here)', parent'[x.id] = Here PROVE Named(x)' /\ Counted(x)'
    <3>1. r.kind /= "delete" /\ changed'[i] = Now
      BY <1>4, <1>9, <1>11, <1>12, <2>2, <2>3
    <3>2. CASE r.kind \in Makers
      <4>1. x.name = Now /\ x.sharedWith = 0
        BY <1>6, <3>2 DEF Became, Makers
      <4>2. SharedWith(i) = 0
        BY <1>4, <3>2, SharesOfNobody DEF NeverMade
      <4> QED BY <1>11, <1>13, <3>1, <4>1, <4>2 DEF Named, Counted
    <3>3. CASE r.kind \notin Makers
      <4>1. r.kind \in {"rename", "edit"} /\ r.item \in Item /\ r.item /= Nil
        BY <1>4, <1>9, <3>1, <3>3, Constants DEF Kinds, Makers
      <4>2. x.name = Now /\ x.sharedWith = r.item.sharedWith
        BY <1>6, <4>1 DEF Became, Item
      <4>3. IsThere(Here)
        BY <1>4, <1>5, <1>12, <2>3 DEF IsThere
      <4>4. Counted(r.item)
        BY <1>3, <1>4, <3>3, <4>1, <4>3 DEF RoutineTrue
      <4> QED BY <1>4, <1>11, <1>13, <3>1, <3>3, <4>2, <4>4 DEF Named, Counted
    <3> QED BY <3>2, <3>3
  <2> QED BY <1>5, <1>9, <2>1, <2>2, <2>3 DEF RoutineTrue
\* The items of the other goroutines, and of the dialog, stay as they are.
<1>23. ASSUME NEW y, y.id \in ItemIds \ {i}
       PROVE  /\ Named(y)' <=> Named(y)
              /\ Counted(y)' <=> Counted(y)
              /\ IsThere(Here)' => IsThere(Here) /\ (parent'[y.id] = Here <=> parent[y.id] = Here)
              /\ parent[y.id] = Nowhere => parent'[y.id] = Nowhere
  BY <1>4, <1>5, <1>12, <1>13, <1>23 DEF Named, Counted, IsThere
<1>24. ASSUME NEW u \in DOMAIN routines \ {t} PROVE RoutineTrue(routines[u])'
  <2>1. PICK q : q = routines[u]
    OBVIOUS
  <2>2. RoutineTrue(q) /\ RoutineTyped(q)
    BY <2>1 DEF Ordinary, RoutinesTrue, Typed, RoutinesTyped
  <2>3. q /= Idle /\ q.item /= Nil => q.item.id \in ItemIds \ {i}
    BY <1>15, <2>1, <2>2 DEF Carries, RoutineTyped, Item
  <2>4. q /= Idle /\ q.at = "apply" => q.item /= Nil
    BY <2>2, Constants DEF RoutineTyped
  <2>5. q /= Idle /\ q.item /= Nil => KnownIn(q.item, Here)'
    BY <1>5, <1>12, <1>14, <2>2, <2>3 DEF RoutineTrue
  <2>6. q /= Idle /\ q.item /= Nil /\ IsThere(Here)' /\ parent'[q.item.id] = Here =>
          Named(q.item)' /\ Counted(q.item)'
    BY <1>23, <2>2, <2>3 DEF RoutineTrue
  <2>7. q /= Idle /\ q.at = "apply" =>
          IF q.kind = "delete" THEN parent'[q.item.id] = Nowhere
          ELSE IsThere(Here)' => parent'[q.item.id] = Here
    BY <1>23, <2>2, <2>3, <2>4 DEF RoutineTrue
  <2>8. RoutineTrue(q)'
    <3> SUFFICES ASSUME q /= Idle PROVE RoutineTrue(q)'
      BY DEF RoutineTrue
    <3>1. q.context = Here'
      BY <1>5, <2>2 DEF RoutineTrue
    <3> QED BY <1>5, <2>5, <2>6, <2>7, <3>1 DEF RoutineTrue
  <2> QED BY <1>10, <2>1, <2>8 DEF RoutineTrue
<1>25. RoutinesTrue'
  <2>1. RoutineTrue(routines[t])'
    BY <1>10, <1>22 DEF RoutineTrue
  <2>2. \A u \in DOMAIN routines \ {t} : \A j : Carries(u, j)' <=> Carries(u, j)
    BY <1>10 DEF Carries
  <2>3. \A j : Carries(t, j)' => j = i
    BY <1>9, <1>10, <1>11 DEF Carries
  <2>4. \A u, v \in DOMAIN routines' : \A j \in ItemIds : Carries(u, j)' /\ Carries(v, j)' => u = v
    BY <1>10, <1>15, <2>2, <2>3 DEF Ordinary, RoutinesTrue
  <2> QED BY <1>10, <1>24, <2>1, <2>4 DEF RoutinesTrue
<1>26. DialogTrue'
  <2> SUFFICES ASSUME dialog /= Nil, dialog.item /= Nil PROVE DialogTrue'
    BY <1>5 DEF DialogTrue
  <2>1. PICK y : y = dialog.item
    OBVIOUS
  <2>2. y.id \in ItemIds \ {i}
    BY <1>16, <2>1
  <2>3. \A u \in DOMAIN routines' : ~ Carries(u, y.id)'
    BY <1>9, <1>10, <1>11, <2>1, <2>2 DEF Ordinary, DialogTrue, Carries
  <2>4. KnownIn(y, Here)'
    BY <1>5, <1>12, <1>14, <2>1, <2>2 DEF Ordinary, DialogTrue
  <2>5. /\ Named(y)' <=> Named(y)
        /\ Counted(y)' <=> Counted(y)
        /\ IsThere(Here)' => IsThere(Here) /\ (parent'[y.id] = Here <=> parent[y.id] = Here)
    BY <1>23, <2>2
  <2> QED BY <1>4, <1>5, <2>1, <2>3, <2>4, <2>5 DEF Ordinary, DialogTrue
<1> QED BY <1>19, <1>20, <1>21, <1>25, <1>26 DEF Ordinary

LEMMA RefusedOrdinary ==
  ASSUME Typed, Ordinary, NEW t \in DOMAIN routines, Refused(t)
  PROVE  Ordinary'
<1>1. /\ SameServer /\ UNCHANGED <<context, content, items, held, dialog>>
      /\ routines[t].at = "call" /\ routines' = [routines EXCEPT ![t] = Idle]
  BY DEF Refused, PageStays, SameServer, cliServer, cliPage, path
<1>2. /\ DOMAIN routines' = DOMAIN routines /\ routines'[t] = Idle
      /\ \A u \in DOMAIN routines \ {t} : routines'[u] = routines[u]
  BY <1>1
<1>3. RoutineTrue(Idle)
  BY DEF RoutineTrue
<1>4. RoutinesTrue'
  BY <1>1, <1>3, RoutinesKept DEF Ordinary
<1>5. \A kinds, i : Awaits(kinds, i)' <=> Awaits(kinds, i)
  BY <1>1, <1>2 DEF Awaits, Idle
<1>6. OthersTrue' /\ HereTrue'
  BY <1>1, <1>5, KeptTrue DEF Ordinary, Sharing
<1>7. DialogTrue'
  BY <1>1, <1>2, DialogStays DEF Ordinary, Carries
<1>8. AtPlace'
  BY <1>1, <1>2, SameTruth DEF Ordinary, AtPlace, Idle
<1> QED BY <1>4, <1>6, <1>7, <1>8 DEF Ordinary

\* The items are the content again.
LEMMA SetItemsOrdinary ==
  ASSUME Typed, Ordinary, NEW t \in DOMAIN routines, SetItems(t)
  PROVE  Ordinary'
<1>1. PICK r : r = routines[t]
  OBVIOUS
<1>2. /\ r.at = "items" /\ r /= Idle /\ RoutineTrue(r) /\ RoutineTyped(r)
  BY <1>1 DEF SetItems, Idle, Ordinary, RoutinesTrue, Typed, RoutinesTyped
<1>3. PICK new : new = [r EXCEPT !.at = "rows"]
  OBVIOUS
<1>4. /\ new.at = "rows" /\ new.item = r.item /\ new.kind = r.kind /\ new.context = r.context
      /\ routines' = [routines EXCEPT ![t] = new]
  BY <1>1, <1>2, <1>3 DEF SetItems, RoutineTyped
<1>5. SameServer /\ UNCHANGED <<context, content, dialog>>
  BY DEF SetItems, PageStays, SameServer, cliServer, path
<1>6. r.context = Here
  BY <1>2 DEF RoutineTrue
<1>7. items' = content[Here] /\ held' = Here
  BY <1>1, <1>6, HereIs DEF SetItems
<1>8. /\ DOMAIN routines' = DOMAIN routines /\ routines'[t] = new
      /\ \A u \in DOMAIN routines \ {t} : routines'[u] = routines[u]
  BY <1>4
<1>9. RoutineTrue(new)
  BY <1>2, <1>4 DEF RoutineTrue
<1>10. \A u \in DOMAIN routines' : \A i : Carries(u, i)' => Carries(u, i)
  BY <1>1, <1>2, <1>4, <1>8 DEF Carries
<1>11. RoutinesTrue'
  <2>1. new.item = Nil \/ Carries(t, new.item.id)
    BY <1>1, <1>2, <1>4 DEF Carries
  <2> QED BY <1>4, <1>5, <1>9, <2>1, RoutinesKept DEF Ordinary
<1>12. \A kinds, i : Awaits(kinds, i)' <=> Awaits(kinds, i)
  BY <1>1, <1>2, <1>4, <1>8 DEF Awaits
<1>13. OthersTrue' /\ HereTrue'
  BY <1>5, <1>12, KeptTrue DEF Ordinary, Sharing
<1>14. DialogTrue'
  BY <1>5, <1>8, <1>10, DialogStays DEF Ordinary
<1>15. AtPlace'
  <2>1. \A u \in DOMAIN routines \ {t} : routines[u].at \notin {"items", "rows"}
    BY <1>1, <1>2 DEF Ordinary, AtPlace
  <2> QED BY <1>5, <1>7, <1>8, <2>1, SameTruth DEF Ordinary, AtPlace
<1> QED BY <1>11, <1>13, <1>14, <1>15 DEF Ordinary

LEMMA SetRowsOrdinary ==
  ASSUME Typed, Ordinary, NEW t \in DOMAIN routines, SetRows(t)
  PROVE  Ordinary'
<1>1. /\ SameServer /\ UNCHANGED <<context, held, dialog>> /\ CreateItemRows
      /\ routines[t].at = "rows" /\ routines' = [routines EXCEPT ![t] = Idle]
  BY DEF SetRows, PageStays, SameServer, cliServer, path
<1>2. /\ DOMAIN routines' = DOMAIN routines /\ routines'[t] = Idle
      /\ \A u \in DOMAIN routines \ {t} : routines'[u] = routines[u]
  BY <1>1
<1>3. RoutineTrue(Idle)
  BY DEF RoutineTrue
<1>4. RoutinesTrue'
  BY <1>1, <1>3, RoutinesKept DEF Ordinary
<1>5. \A kinds, i : Awaits(kinds, i)' <=> Awaits(kinds, i)
  BY <1>1, <1>2 DEF Awaits, Idle
<1>6. /\ \A u \in DOMAIN routines \ {t} : routines[u].at \notin {"items", "rows"}
  BY <1>1 DEF Ordinary, AtPlace
<1>7. /\ AtPlace'
      /\ \A g \in folderContexts \ {Here} : content'[g] = content[g]
      /\ ToSet(content'[Here]) = ToSet(content[Here])
      /\ Distinct(content[Here]) => Distinct(content'[Here])
  <2>1. \A u \in DOMAIN routines : routines[u].at /= "items"
    BY <1>1, <1>6
  <2>2. \A u \in DOMAIN routines' : routines'[u].at \notin {"items", "rows"}
    BY <1>2, <1>6 DEF Idle
  <2> QED BY <1>1, <2>1, <2>2, RowsAtPlace DEF Ordinary
<1>8. OthersTrue' /\ HereTrue'
  BY <1>1, <1>5, <1>7, KeptTrue DEF Ordinary, Sharing
<1>9. DialogTrue'
  BY <1>1, <1>2, DialogStays DEF Ordinary, Carries
<1> QED BY <1>4, <1>7, <1>8, <1>9 DEF Ordinary

\* What a goroutine does to the content of its folder.
AppliedTo(c, d, r) ==
  /\ \A y \in ToSet(d) : y \in ToSet(c) \/ y.id = r.item.id
  /\ Distinct(c) =>
       IF r.kind \in Makers
       THEN r.item.id \notin IdsIn(c) => Distinct(d) /\ ToSet(d) = ToSet(c) \cup {r.item}
       ELSE IF r.kind = "delete"
       THEN Distinct(d) /\ ToSet(d) = {y \in ToSet(c) : y.id /= r.item.id}
       ELSE r.item.id \in IdsIn(c) =>
              /\ Distinct(d) /\ IdsIn(d) = IdsIn(c)
              /\ \A y \in ToSet(d) :
                   IF y.id /= r.item.id THEN y \in ToSet(c)
                   ELSE /\ y.name = r.item.name
                        /\ y.sharedWith = r.item.sharedWith \/
                             \E z \in ToSet(c) : z.id = y.id /\ y.sharedWith = z.sharedWith

LEMMA RemoveApplied ==
  ASSUME Typed, NEW g \in FolderIds, NEW r, r.item \in Item, r.kind = "delete", removeItem(g, r.item.id)
  PROVE  /\ AppliedTo(content[g], content'[g], r)
         /\ \A h \in FolderIds \ {g} : content'[h] = content[h]
<1>1. PICK c : c = content[g] /\ c \in Seq(Item) /\ content \in [FolderIds -> Seq(Item)]
  BY DEF Typed, KeptTyped
<1>2. CASE Position(c, r.item.id) = {} /\ UNCHANGED <<content, items>>
  <2>1. \A y \in ToSet(c) : y.id /= r.item.id
    <3>1. \A n \in DOMAIN c : c[n].id /= r.item.id
      BY <1>2 DEF Position
    <3> QED BY <3>1, ElementOf
  <2>2. {y \in ToSet(c) : y.id /= r.item.id} = ToSet(c)
    BY <2>1
  <2>3. AppliedTo(c, c, r)
    BY <2>2 DEF AppliedTo, Makers
  <2> QED BY <1>1, <1>2, <2>3
<1>3. CASE \E n \in Position(c, r.item.id) :
              content' = [content EXCEPT ![g] = Front([c EXCEPT ![n] = Last(c)])]
  <2>1. PICK n \in Position(c, r.item.id) :
              content' = [content EXCEPT ![g] = Front([c EXCEPT ![n] = Last(c)])]
    BY <1>3
  <2>2. n \in DOMAIN c /\ c[n].id = r.item.id /\ c[n] \in ToSet(c)
    BY <1>1, <2>1, Elements DEF Position
  <2>3. PICK d : d = Front([c EXCEPT ![n] = Last(c)])
    OBVIOUS
  <2>4. /\ ToSet(d) \subseteq ToSet(c)
        /\ Distinct(c) => Distinct(d) /\ ToSet(d) = ToSet(c) \ {c[n]}
    BY <1>1, <2>2, <2>3, CutIs
  <2>5. Distinct(c) => \A y \in ToSet(c) : y = c[n] <=> y.id = r.item.id
    BY <1>1, <2>2, Elements
  <2>6. Distinct(c) => ToSet(d) = {y \in ToSet(c) : y.id /= r.item.id}
    BY <2>4, <2>5
  <2>7. AppliedTo(c, d, r)
    BY <2>4, <2>6 DEF AppliedTo, Makers
  <2> QED BY <1>1, <2>1, <2>3, <2>7
<1> QED BY <1>1, <1>2, <1>3 DEF removeItem

LEMMA UpdateApplied ==
  ASSUME Typed, NEW g \in FolderIds, NEW r, r.item \in Item, r.kind \in {"rename", "edit"},
         NEW whole \in BOOLEAN, updateItem(g, r.item, whole)
  PROVE  /\ AppliedTo(content[g], content'[g], r)
         /\ \A h \in FolderIds \ {g} : content'[h] = content[h]
<1>1. PICK c, x : c = content[g] /\ x = r.item
  OBVIOUS
<1>2. c \in Seq(Item) /\ content \in [FolderIds -> Seq(Item)] /\ x \in Item
  BY <1>1 DEF Typed, KeptTyped
<1> DEFINE to(n) == IF whole THEN x ELSE [c[n] EXCEPT !.name = x.name, !.at = x.at]
<1>3. CASE Position(c, x.id) = {} /\ UNCHANGED <<content, items>>
  <2>1. x.id \notin IdsIn(c)
    <3>1. \A n \in DOMAIN c : c[n].id /= x.id
      BY <1>3 DEF Position
    <3> QED BY <3>1, ElementOf DEF IdsIn
  <2>2. r.kind \notin Makers /\ r.kind /= "delete"
    BY DEF Makers
  <2>3. AppliedTo(c, c, r)
    BY <1>1, <2>1, <2>2 DEF AppliedTo
  <2> QED BY <1>1, <1>3, <2>3
<1>4. CASE \E n \in Position(c, x.id) : content' = [content EXCEPT ![g][n] = to(n)]
  <2>1. PICK n \in Position(c, x.id) : content' = [content EXCEPT ![g][n] = to(n)]
    BY <1>4
  <2>2. n \in DOMAIN c /\ c[n].id = x.id /\ c[n] \in ToSet(c) /\ c[n] \in Item
    BY <1>2, <2>1, Elements DEF Position
  <2>3. PICK y : y = to(n)
    OBVIOUS
  <2>4. /\ y \in Item /\ y.id = x.id /\ y.name = x.name
        /\ y.sharedWith = x.sharedWith \/ y.sharedWith = c[n].sharedWith
    BY <1>2, <2>2, <2>3 DEF Item
  <2>5. PICK d : d = [c EXCEPT ![n] = y]
    OBVIOUS
  <2>6. content' = [content EXCEPT ![g] = d]
    BY <1>1, <2>1, <2>3, <2>5
  <2>7. /\ ToSet(d) \subseteq ToSet(c) \cup {y}
        /\ Distinct(c) => Distinct(d) /\ ToSet(d) = (ToSet(c) \ {c[n]}) \cup {y}
    <3> HIDE DEF to
    <3>1. y.id = c[n].id /\ y \in Item
      BY <2>2, <2>4
    <3> QED BY <1>2, <2>2, <2>5, <3>1, ChangeIs
  <2>8. ASSUME Distinct(c)
        PROVE  /\ IdsIn(d) = IdsIn(c)
               /\ \A z \in ToSet(d) :
                    IF z.id /= x.id THEN z \in ToSet(c) ELSE z = y
    <3>1. \A z \in ToSet(c) : z = c[n] <=> z.id = x.id
      BY <1>2, <2>2, <2>8, Elements
    <3>2. \A i : i \in IdsIn(d) <=> i \in IdsIn(c)
      BY <2>2, <2>4, <2>7, <2>8 DEF IdsIn
    <3> QED BY <2>4, <2>7, <2>8, <3>1, <3>2
  <2>9. AppliedTo(c, d, r)
    <3>1. \A z \in ToSet(d) : z \in ToSet(c) \/ z.id = r.item.id
      BY <1>1, <2>4, <2>7
    <3>2. ASSUME Distinct(c), NEW z \in ToSet(d), z.id = r.item.id
          PROVE  /\ z.name = r.item.name
                 /\ z.sharedWith = r.item.sharedWith \/
                      \E w \in ToSet(c) : w.id = z.id /\ z.sharedWith = w.sharedWith
      BY <1>1, <2>2, <2>4, <2>8, <3>2
    <3>3. r.kind \notin Makers /\ r.kind /= "delete"
      BY DEF Makers
    <3> QED BY <1>1, <2>7, <2>8, <3>1, <3>2, <3>3 DEF AppliedTo
  <2> QED BY <1>1, <1>2, <2>6, <2>9
<1> QED BY <1>1, <1>3, <1>4 DEF updateItem

LEMMA InsertApplied ==
  ASSUME Typed, NEW g \in FolderIds, NEW r, r.item \in Item, r.kind \in Makers, InsertItem(g, r.item)
  PROVE  /\ AppliedTo(content[g], content'[g], r)
         /\ \A h \in FolderIds \ {g} : content'[h] = content[h]
<1>1. content[g] \in Seq(Item) /\ content \in [FolderIds -> Seq(Item)]
  BY DEF Typed, KeptTyped
<1>2. content'[g] = Append(content[g], r.item) /\ \A h \in FolderIds \ {g} : content'[h] = content[h]
  BY <1>1 DEF InsertItem
<1> QED BY <1>1, <1>2, AppendIs DEF AppliedTo

\* The page learns what the server did.
LEMMA ApplyOrdinary ==
  ASSUME Typed, Ordinary, NEW t \in DOMAIN routines, Apply(t), ~ odd'
  PROVE  Ordinary'
<1>1. PICK r : r = routines[t]
  OBVIOUS
<1>2. PICK new : new = [r EXCEPT !.at = "items"]
  OBVIOUS
<1>3. PICK x : x = r.item
  OBVIOUS
<1>4. /\ r.at = "apply" /\ r /= Idle /\ RoutineTrue(r) /\ RoutineTyped(r)
  BY <1>1 DEF Apply, Idle, Ordinary, RoutinesTrue, Typed, RoutinesTyped
<1>5. /\ x \in Item /\ x.id \in ItemIds /\ x /= Nil /\ r.kind \in Kinds /\ r.context = Here
      /\ new.at = "items" /\ new.item = x /\ new.kind = r.kind /\ new.context = Here
  BY <1>2, <1>3, <1>4, Constants DEF RoutineTyped, RoutineTrue, Item
<1>6. /\ SameServer /\ UNCHANGED <<context, dialog>> /\ ~ Finishing
      /\ routines' = [routines EXCEPT ![t] = new]
  BY <1>1, <1>2 DEF Apply, Notes, PageStays, SameServer, cliServer, path
<1>7. /\ DOMAIN routines' = DOMAIN routines /\ routines'[t] = new
      /\ \A u \in DOMAIN routines \ {t} : routines'[u] = routines[u]
  BY <1>6
<1>8. /\ Here' = Here
      /\ \A h : IsThere(h)' <=> IsThere(h)
      /\ \A y, h : KnownIn(y, h)' <=> KnownIn(y, h)
      /\ \A e, h : UpToDate(e, h)' <=> UpToDate(e, h)
      /\ \A y : (Named(y)' <=> Named(y)) /\ (Counted(y)' <=> Counted(y))
      /\ UNCHANGED <<parent, folderContexts>>
  BY <1>6, SameTruth DEF SameServer
<1>9. Here \in FolderIds /\ Here /= Nowhere /\ Here \in folderContexts
  BY HereIs
<1>10. PICK c, d : c = content[Here] /\ d = content'[Here] /\ c \in Seq(Item)
  BY HereIs
<1>11. /\ AppliedTo(c, d, r)
       /\ \A h \in FolderIds \ {Here} : content'[h] = content[h]
  <2>1. CASE r.kind \in Makers /\ InsertItem(Here, r.item)
    BY <1>3, <1>5, <1>9, <1>10, <2>1, InsertApplied
  <2>2. CASE r.kind = "delete" /\ removeItem(Here, r.item.id)
    BY <1>3, <1>5, <1>9, <1>10, <2>2, RemoveApplied
  <2>3. CASE r.kind \in {"rename", "edit"} /\ updateItem(Here, r.item, r.kind = "edit")
    BY <1>3, <1>5, <1>9, <1>10, <2>3, UpdateApplied
  <2> QED BY <1>1, <1>5, <1>9, <2>1, <2>2, <2>3 DEF Apply, Makers
\* No other goroutine works at the item.
<1>12. Carries(t, x.id) /\ \A u \in DOMAIN routines \ {t} : ~ Carries(u, x.id)
  <2>1. Carries(t, x.id)
    BY <1>1, <1>3, <1>4, <1>5 DEF Carries
  <2> QED BY <1>5, <2>1 DEF Ordinary, RoutinesTrue
<1>13. ASSUME NEW kinds, NEW u \in DOMAIN routines \ {t},
              routines[u].at = "apply" /\ routines[u].kind \in kinds /\ routines[u].item.id = x.id
       PROVE  FALSE
  <2>1. routines[u] /= Idle /\ RoutineTyped(routines[u])
    BY <1>13 DEF Idle, Typed, RoutinesTyped
  <2>2. Carries(u, x.id)
    BY <1>13, <2>1, Constants DEF Carries, RoutineTyped
  <2> QED BY <1>12, <2>2
<1>14. \A kinds : Awaits(kinds, x.id) <=> r.kind \in kinds
  BY <1>1, <1>3, <1>4, <1>13 DEF Awaits
<1>15. \A kinds, j : Awaits(kinds, j)' <=> Awaits(kinds, j) /\ j /= x.id
  <2> TAKE kinds, j
  <2>1. routines'[t].at /= "apply" /\ (routines[t].item.id = j => j = x.id)
    BY <1>1, <1>3, <1>5, <1>7
  <2> QED BY <1>7, <1>13, <2>1 DEF Awaits
<1>16. RoutinesTrue'
  <2>1. RoutineTrue(new)
    BY <1>3, <1>4, <1>5 DEF RoutineTrue
  <2> QED BY <1>5, <1>6, <1>12, <2>1, RoutinesKept DEF Ordinary
<1>17. DialogTrue'
  <2>1. \A u \in DOMAIN routines' : u \in DOMAIN routines /\ \A j : Carries(u, j)' => Carries(u, j)
    BY <1>1, <1>3, <1>4, <1>5, <1>7 DEF Carries
  <2> QED BY <1>6, <2>1, DialogStays DEF Ordinary
<1>18. AtPlace'
  <2>1. \A u \in DOMAIN routines' : routines'[u].at \in {"items", "rows"} => u = t
    BY <1>6, <1>7 DEF Finishing
  <2> QED BY <1>5, <1>6, <1>7, <1>8, <2>1 DEF Ordinary, AtPlace
<1>19. \A y \in ToSet(d) : KnownIn(y, Here)
  <2>1. \A y \in ToSet(c) : KnownIn(y, Here)
    BY <1>9, <1>10 DEF Ordinary, OthersTrue
  <2>2. KnownIn(x, Here)
    BY <1>3, <1>4, <1>5 DEF RoutineTrue
  <2> QED BY <1>3, <1>11, <2>1, <2>2 DEF AppliedTo, KnownIn
<1>20. OthersTrue'
  <2>1. ASSUME NEW g \in folderContexts
        PROVE  /\ \A y \in ToSet(content'[g]) : KnownIn(y, g)'
               /\ g /= Here /\ IsThere(g)' => UpToDate(content[g], g)'
    <3>1. CASE g = Here
      BY <1>8, <1>10, <1>19, <3>1
    <3>2. CASE g /= Here
      <4>1. PICK e : e = content[g] /\ e = content'[g]
        BY <1>11, <3>2, HereIs
      <4>2. UpToDate(content[g], g)' <=> UpToDate(e, g)'
        BY <4>1 DEF UpToDate, Distinct, IdsIn
      <4> QED BY <1>8, <3>2, <4>1, <4>2 DEF Ordinary, OthersTrue
    <3> QED BY <3>1, <3>2
  <2> QED BY <1>8, <2>1 DEF OthersTrue
<1>21. HereTrue'
  <2> SUFFICES ASSUME IsThere(Here) PROVE HereTrue'
    BY <1>8 DEF HereTrue
  <2>1. /\ Distinct(c)
        /\ \A j \in ItemIds : j \in IdsIn(c) <=>
             (parent[j] = Here /\ ~ Awaits(Makers, j)) \/ Awaits({"delete"}, j)
        /\ \A y \in ToSet(c) : ~ Awaits({"delete"}, y.id) =>
             /\ Awaits({"rename", "edit"}, y.id) \/ Named(y)
             /\ (Sharing /\ dialog.item.id = y.id) \/ Counted(y)
    BY <1>10 DEF Ordinary, HereTrue
  <2>2. /\ r.kind = "delete" => parent[x.id] = Nowhere
        /\ r.kind /= "delete" => parent[x.id] = Here /\ Named(x) /\ Counted(x)
    BY <1>3, <1>4, <1>5 DEF RoutineTrue
  <2>3. x.id \in IdsIn(c) <=> r.kind \notin Makers
    BY <1>5, <1>9, <1>14, <2>1, <2>2 DEF Makers
  <2>4. /\ Distinct(d)
        /\ \A j : j \in IdsIn(d) <=>
             IF j = x.id THEN r.kind /= "delete" ELSE j \in IdsIn(c)
        /\ \A y \in ToSet(d) : y.id /= x.id => y \in ToSet(c)
        /\ \A y \in ToSet(d) : y.id = x.id =>
             Named(y) /\ ((Sharing /\ dialog.item.id = x.id) \/ Counted(y))
    <3>1. CASE r.kind \in Makers
      <4>1. Distinct(d) /\ ToSet(d) = ToSet(c) \cup {x}
        BY <1>3, <1>11, <2>1, <2>3, <3>1 DEF AppliedTo
      <4>2. \A y \in ToSet(c) : y.id /= x.id
        BY <2>3, <3>1 DEF IdsIn
      <4>3. r.kind /= "delete"
        BY <3>1 DEF Makers
      <4>4. \A j : j \in IdsIn(d) <=> IF j = x.id THEN r.kind /= "delete" ELSE j \in IdsIn(c)
        BY <4>1, <4>3 DEF IdsIn
      <4> QED BY <2>2, <4>1, <4>2, <4>3, <4>4
    <3>2. CASE r.kind = "delete"
      <4>1. Distinct(d) /\ ToSet(d) = {y \in ToSet(c) : y.id /= x.id}
        BY <1>3, <1>11, <2>1, <3>2 DEF AppliedTo, Makers
      <4>2. \A j : j \in IdsIn(d) <=> IF j = x.id THEN r.kind /= "delete" ELSE j \in IdsIn(c)
        BY <3>2, <4>1 DEF IdsIn
      <4> QED BY <4>1, <4>2
    <3>3. CASE r.kind \notin Makers /\ r.kind /= "delete"
      <4>1. /\ Distinct(d) /\ IdsIn(d) = IdsIn(c)
            /\ \A y \in ToSet(d) :
                 IF y.id /= x.id THEN y \in ToSet(c)
                 ELSE /\ y.name = x.name
                      /\ y.sharedWith = x.sharedWith \/
                           \E z \in ToSet(c) : z.id = y.id /\ y.sharedWith = z.sharedWith
        BY <1>3, <1>11, <2>1, <2>3, <3>3 DEF AppliedTo
      <4>2. ASSUME NEW y \in ToSet(d), y.id = x.id
            PROVE  Named(y) /\ ((Sharing /\ dialog.item.id = x.id) \/ Counted(y))
        <5>1. Named(y)
          BY <2>2, <3>3, <4>1, <4>2 DEF Named
        <5>2. CASE y.sharedWith = x.sharedWith
          BY <2>2, <3>3, <4>2, <5>1, <5>2 DEF Counted
        <5>3. CASE \E z \in ToSet(c) : z.id = y.id /\ y.sharedWith = z.sharedWith
          <6>1. PICK z \in ToSet(c) : z.id = y.id /\ y.sharedWith = z.sharedWith
            BY <5>3
          <6>2. ~ Awaits({"delete"}, z.id)
            BY <1>14, <3>3, <4>2, <6>1
          <6> QED BY <2>1, <4>2, <5>1, <6>1, <6>2 DEF Counted
        <5> QED BY <4>1, <4>2, <5>2, <5>3
      <4> QED BY <2>3, <3>3, <4>1, <4>2
    <3> QED BY <3>1, <3>2, <3>3
  <2>5. ASSUME NEW j \in ItemIds
        PROVE  j \in IdsIn(d) <=> (parent[j] = Here /\ ~ Awaits(Makers, j)') \/ Awaits({"delete"}, j)'
    BY <1>9, <1>15, <2>1, <2>2, <2>4
  <2>6. ASSUME NEW y \in ToSet(d), ~ Awaits({"delete"}, y.id)'
        PROVE  /\ Awaits({"rename", "edit"}, y.id)' \/ Named(y)
               /\ (Sharing /\ dialog.item.id = y.id) \/ Counted(y)
    BY <1>15, <2>1, <2>4, <2>6
  <2>7. /\ Distinct(content[Here])' <=> Distinct(d)
        /\ IdsIn(content[Here])' = IdsIn(d)
        /\ Sharing' <=> Sharing
    BY <1>6, <1>8, <1>10 DEF Distinct, IdsIn, Sharing
  <2> QED BY <1>6, <1>8, <1>10, <2>4, <2>5, <2>6, <2>7 DEF HereTrue
<1> QED BY <1>16, <1>17, <1>18, <1>20, <1>21 DEF Ordinary

-----------------------------------------------------------------------------
(* Every step.                                                             *)

\* A page that is opened has the path end with its folder.
LEMMA OpenedOrdinary ==
  ASSUME Typed, Typed', Ordinary, ~ odd', Back \/ \E item \in ToSet(Selectable) : EnterFolder(item)
  PROVE  Ordinary'
<1>1. folderViews \in Seq(folderContexts) /\ folderContexts \subseteq FolderIds
  BY DEF Typed, PathTyped, KeptTyped
<1>2. CASE Back
  <2>1. PICK n \in Nat : n = Len(folderViews) /\ n > 1
    BY <1>1, <1>2 DEF Back
  <2>2. PICK g : g = folderViews[n - 1] /\ g \in FolderIds
    BY <1>1, <2>1
  <2>3. folderViews' = SubSeq(folderViews, 1, n - 1)
    BY <1>2, <2>1 DEF Back
  <2>4. Len(folderViews') = n - 1 /\ folderViews'[n - 1] = g
    BY <1>1, <2>1, <2>2, <2>3
  <2>5. Here' = g
    BY <2>4 DEF Here
  <2>6. NewModel(g) /\ dialog = Nil /\ UNCHANGED <<cliServer, dialog, routines>>
    BY <1>2, <2>1, <2>2 DEF Back, Keys
  <2> QED BY <2>2, <2>5, <2>6, ModelOrdinary
<1>3. CASE \E item \in ToSet(Selectable) : EnterFolder(item)
  <2>1. PICK item : EnterFolder(item)
    BY <1>3
  <2>2. PICK g : g = item.id /\ g \in FolderIds
    BY <2>1, Constants DEF EnterFolder
  <2>3. /\ NewModel(g) /\ folderViews' = Append(folderViews, g)
        /\ dialog = Nil /\ UNCHANGED <<cliServer, dialog, routines>>
    BY <2>1, <2>2 DEF EnterFolder, Pick, Keys, NewModelFails, Notes
  <2>4. Here' = g
    BY <1>1, <2>3 DEF Here
  <2> QED BY <2>2, <2>3, <2>4, ModelOrdinary
<1> QED BY <1>2, <1>3

\* Nothing happens.
LEMMA StutterOrdinary ==
  ASSUME Typed, Ordinary, UNCHANGED cliVars
  PROVE  Ordinary'
<1>1. SameServer /\ UNCHANGED <<context, routines, content, items, held, dialog>>
  BY DEF cliVars, SameServer, cliServer, kept, cliPage, path
<1>2. AtPlace'
  BY <1>1, SameTruth DEF Ordinary, AtPlace
<1>3. RoutinesTrue' /\ \A kinds, i : Awaits(kinds, i)' <=> Awaits(kinds, i)
  BY <1>1, RoutinesSame DEF Ordinary
<1>4. DialogTrue'
  BY <1>1, DialogStays DEF Ordinary, Carries
<1>5. OthersTrue' /\ HereTrue'
  BY <1>1, <1>3, KeptTrue DEF Ordinary, Sharing
<1> QED BY <1>2, <1>3, <1>4, <1>5 DEF Ordinary

\* What was out of the ordinary is so until the program is started again.
LEMMA OddStays ==
  ASSUME Typed, [CliNext]_cliVars, ~ odd'
  PROVE  Fresh \/ ~ odd
<1> SUFFICES ASSUME ~ Fresh PROVE ~ odd
  OBVIOUS
<1>1. odd \in BOOLEAN
  BY DEF Typed, ServerTyped
<1>2. CASE UNCHANGED cliVars
  BY <1>2 DEF cliVars, cliHistory
<1>3. CASE Key
  <2>1. CASE Start \/ PickPanics
    BY <2>1 DEF Start, PickPanics
  <2>2. CASE Back
    BY <2>2 DEF Back, NewModel, Notes
  <2>3. CASE Slash \/ Erase \/ KeepFilter \/ LeaveFilter \/ \E s \in Strings : Type(s)
    BY <2>3 DEF Slash, Erase, KeepFilter, LeaveFilter, Type, Notes
  <2>4. CASE \E item \in ToSet(Selectable) : EnterFolder(item)
    BY <2>4 DEF EnterFolder, NewModel, NewModelFails, Notes
  <2>5. CASE \E item \in ToSet(Selectable) : NewShareRequest(item)
    BY <2>5 DEF NewShareRequest, Open, Notes
  <2>6. CASE \E item \in ToSet(Selectable) :
               \E kind \in {"rename", "delete", "edit", "view"} : NewItemRequest(item, kind)
    BY <2>6 DEF NewItemRequest, Open, Notes
  <2>7. CASE \E kind \in {"folder", "upload"} : NewItem(kind)
    BY <2>7 DEF NewItem, Open, Notes
  <2> QED BY <1>3, <2>1, <2>2, <2>3, <2>4, <2>5, <2>6, <2>7 DEF Key
<1>4. CASE InDialog
  <2>1. CASE Cancel
    BY <2>1 DEF Cancel, cliHistory
  <2>2. CASE DialogPanics
    BY <2>2 DEF DialogPanics
  <2>3. CASE ReturnFromView \/ ReturnFromShares \/ \E t \in DOMAIN routines : Confirm(t)
    BY <2>3 DEF ReturnFromView, ReturnFromShares, Confirm, Event, Notes
  <2>4. CASE \/ \E r \in Recipients, right \in {"read", "write"} : Add(r, right)
             \/ \E new \in [Recipients -> {"read", "write"}] : Edit(new)
             \/ \E rs \in SUBSET Recipients : Unshare(rs)
    BY <2>4 DEF Add, shareItem, Edit, Unshare, Requests
  <2> QED BY <1>4, <2>1, <2>2, <2>3, <2>4 DEF InDialog
<1>5. CASE \E t \in DOMAIN routines : Goroutine(t)
  BY <1>5 DEF Goroutine, Answered, Unconfirmed, Refused, Apply, SetItems, SetRows, Notes
<1> QED BY <1>2, <1>3, <1>4, <1>5 DEF CliNext

LEMMA OrdinaryNext ==
  ASSUME Typed, Typed', NeverMade, FoundTrue, ~ odd => Ordinary, [CliNext]_cliVars, ~ odd'
  PROVE  Ordinary'
<1>1. CASE Fresh
  BY <1>1, FreshOrdinary
<1>2. CASE ~ Fresh
  <2>1. Ordinary
    BY <1>2, OddStays
  <2>2. CASE UNCHANGED cliVars
    BY <2>1, <2>2, StutterOrdinary
  <2>3. CASE Key
    <3>1. CASE Back \/ \E item \in ToSet(Selectable) : EnterFolder(item)
      BY <2>1, <3>1, OpenedOrdinary
    <3>2. CASE Slash \/ Erase \/ KeepFilter \/ LeaveFilter \/ \E s \in Strings : Type(s)
      BY <2>1, <3>2, FilterOrdinary
    <3>3. CASE \/ \E kind \in {"folder", "upload"} : NewItem(kind)
               \/ \E item \in ToSet(Selectable) :
                    \/ NewShareRequest(item)
                    \/ \E kind \in {"rename", "delete", "edit", "view"} : NewItemRequest(item, kind)
      BY <2>1, <3>3, RequestOrdinary
    <3>4. ~ Start /\ ~ PickPanics
      BY <1>2 DEF Start, PickPanics
    <3> QED BY <2>3, <3>1, <3>2, <3>3, <3>4 DEF Key
  <2>4. CASE InDialog
    <3>1. CASE Cancel
      BY <2>1, <3>1, CancelOrdinary
    <3>2. CASE ReturnFromView \/ \E t \in DOMAIN routines : Confirm(t)
      BY <2>1, <3>2, EventOrdinary DEF ReturnFromView, Confirm
    <3>3. CASE ReturnFromShares
      BY <2>1, <3>3, ReturnOrdinary
    <3>4. CASE \/ \E r \in Recipients, right \in {"read", "write"} : Add(r, right)
               \/ \E new \in [Recipients -> {"read", "write"}] : Edit(new)
               \/ \E rs \in SUBSET Recipients : Unshare(rs)
      BY <2>1, <3>4, ShareOrdinary
    <3>5. ~ DialogPanics
      BY <1>2 DEF DialogPanics
    <3> QED BY <2>4, <3>1, <3>2, <3>3, <3>4, <3>5 DEF InDialog
  <2>5. CASE \E t \in DOMAIN routines : Goroutine(t)
    <3>1. PICK t \in DOMAIN routines : Goroutine(t)
      BY <2>5
    <3>2. ~ Unconfirmed(t)
      BY DEF Unconfirmed
    <3> QED BY <2>1, <3>1, <3>2, AnsweredOrdinary, RefusedOrdinary, ApplyOrdinary, SetItemsOrdinary,
               SetRowsOrdinary DEF Goroutine
  <2> QED BY <2>2, <2>3, <2>4, <2>5 DEF CliNext
<1> QED BY <1>1, <1>2

LEMMA PagesInvHolds == CliSpec => []PagesInv
<1>1. CliInit => PagesInv
  <2> SUFFICES ASSUME CliInit PROVE PagesInv
    OBVIOUS
  <2>1. FoundTrue
    BY DEF CliInit, FoundTrue, NoFilter
  <2> QED BY <2>1, NeverMadeInit, OrdinaryInit DEF PagesInv
<1>2. Typed /\ Typed' /\ PagesInv /\ [CliNext]_cliVars => PagesInv'
  <2> SUFFICES ASSUME Typed, Typed', PagesInv, [CliNext]_cliVars PROVE PagesInv'
    OBVIOUS
  <2>1. NeverMade /\ FoundTrue /\ (~ odd => Ordinary)
    BY DEF PagesInv
  <2>2. NeverMade'
    BY <2>1, NeverMadeNext
  <2>3. FoundTrue'
    BY <2>1, FoundNext
  <2>4. ~ odd' => Ordinary'
    BY <2>1, OrdinaryNext
  <2> QED BY <2>2, <2>3, <2>4 DEF PagesInv
<1> QED BY <1>1, <1>2, TypesHold, PTL DEF CliSpec

\* A list without repetitions is as long as there are ids in it.
LEMMA LengthIs ==
  ASSUME NEW c \in Seq(Item), Distinct(c)
  PROVE  Len(c) = Cardinality(IdsIn(c)) /\ IdsIn(c) = {c[n].id : n \in DOMAIN c}
<1>1. PICK N \in Nat : N = Len(c) /\ DOMAIN c = 1..N
  OBVIOUS
<1>2. PICK f : f = [n \in 1..N |-> c[n].id]
  OBVIOUS
<1>3. IdsIn(c) = {c[n].id : n \in DOMAIN c}
  BY DEF IdsIn, ToSet
<1>4. \A i \in IdsIn(c) : \E n \in 1..N : f[n] = i
  BY <1>1, <1>2, <1>3
<1>5. \A n \in 1..N : f[n] \in IdsIn(c)
  BY <1>1, <1>2, <1>3
<1>6. \A m, n \in 1..N : f[m] = f[n] => m = n
  BY <1>1, <1>2 DEF Distinct
<1>7. f \in Bijection(1..N, IdsIn(c))
  BY <1>2, <1>4, <1>5, <1>6 DEF Bijection, Injection, Surjection, IsInjective
<1>8. IsFiniteSet(1..N) /\ Cardinality(1..N) = N
  BY FS_Interval
<1>9. Cardinality(IdsIn(c)) = N
  <2>1. ExistsBijection(1..N, IdsIn(c))
    BY <1>7 DEF ExistsBijection
  <2> QED BY <1>8, <2>1, FS_Bijection
<1> QED BY <1>1, <1>3, <1>9

\* Without anything out of the ordinary, and nothing under way, the page shows the
\* folder that the path names, and every folder that was fetched and is there still
\* is kept as the server has it.
THEOREM PageStaysTrue == CliSpec => []PageIsTrue
<1>1. Typed /\ PagesInv => PageIsTrue
  <2> SUFFICES ASSUME Typed, PagesInv, ~ odd, dialog = Nil, ~ AtWork
               PROVE  /\ context = Here /\ items = content[Here]
                      /\ \A g \in folderContexts : IsThere(g) =>
                           LET c == content[g]
                           IN /\ {c[n].id : n \in DOMAIN c} = Children(g) /\ Len(c) = Cardinality(Children(g))
                              /\ \A n \in DOMAIN c :
                                   c[n].name = changed[c[n].id] /\ c[n].sharedWith = SharedWith(c[n].id)
    BY DEF PageIsTrue
  <2>1. Ordinary
    BY DEF PagesInv
  <2>2. \A t \in DOMAIN routines : routines[t].at /= "items"
    BY DEF AtWork, Idle
  <2>3. context = Here /\ items = content[Here]
    BY <2>1, <2>2 DEF Ordinary, AtPlace
  <2>4. ASSUME NEW g \in folderContexts, IsThere(g), NEW c, c = content[g]
        PROVE  /\ {c[n].id : n \in DOMAIN c} = Children(g) /\ Len(c) = Cardinality(Children(g))
               /\ \A n \in DOMAIN c :
                    c[n].name = changed[c[n].id] /\ c[n].sharedWith = SharedWith(c[n].id)
    <3>1. UpToDate(c, g) /\ c \in Seq(Item)
      BY <2>1, <2>4, AllUpToDate, HereIs
    <3>2. {c[n].id : n \in DOMAIN c} = Children(g) /\ Len(c) = Cardinality(Children(g))
      BY <3>1, LengthIs DEF UpToDate
    <3>3. \A n \in DOMAIN c : c[n] \in ToSet(c)
      BY <3>1, Elements
    <3> QED BY <3>1, <3>2, <3>3 DEF UpToDate, Named, Counted
  <2> QED BY <2>3, <2>4
<1> QED BY <1>1, TypesHold, PagesInvHolds, PTL
=============================================================================
