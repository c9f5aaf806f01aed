------------------------ MODULE FileReceiptStoreProofs ------------------------
(***************************************************************************)
(* FileReceiptStore keeps its promises for every number of tasks, receipts *)
(* and limit: what a caller was told survives, what is stored is readable, *)
(* what survives is a legal history, one writer of a revision wins, and    *)
(* the files implement the contract of ReceiptStore.                       *)
(***************************************************************************)
EXTENDS FileStoreRefinement, HandoffReceiptsProofs

(* next follows old among the receipts of i: it is the first one, or what  *)
(* a legal transition makes of old.                                        *)
Follows(i, old, next) ==
  IF old = None THEN \E plan \in Plans : next = FirstReceipt(i, plan)
  ELSE next # None /\ Succeeds(old, next)

(* The receipts the store accepts for i, and the files it keeps them in.   *)
Stored(i) == {r \in Receipts : r.id = i /\ ValidReceipt(r) /\ Writable(r)}
WholeFiles(i) == {NoFile} \cup {File(r, TRUE) : r \in Stored(i)}

(* Every .json file is whole and readable, there is none without a durable *)
(* directory, and what tasks see is at most one receipt ahead of what a    *)
(* power loss leaves.                                                      *)
FilesInv ==
  \A i \in Ids :
    /\ visible[i] \in WholeFiles(i) /\ durable[i] \in WholeFiles(i)
    /\ dir # "durable" => visible[i] = NoFile /\ durable[i] = NoFile
    /\ visible[i] # durable[i] => Follows(i, durable[i].receipt, visible[i].receipt)

(* A write offers a first receipt, or the successor of one a caller was    *)
(* given; its expected revision is the one before.                         *)
Derived(q) ==
  /\ q.id \in Ids /\ q.next \in Receipts /\ ValidReceipt(q.next) /\ q.next.id = q.id
  /\ \/ q.expected = None /\ \E plan \in Plans : q.next = FirstReceipt(q.id, plan)
     \/ \E r \in exposed : r.id = q.id /\ r.revision = q.expected /\ Succeeds(r, q.next)

Working == {"check", "temp", "syncTemp", "rename", "syncDir", "return"}
Loading == {"loadLock", "read"}
Syncing == {"syncLeaf", "syncParents"}

(* What a task runs, and what it has found out about its directory.        *)
RequestInv(t) ==
  LET q == Request(t)
  IN  /\ At(t, "idle") <=> q.op = "none"
      /\ At(t, "idle") => task[t] = NoTask
      /\ q.op = "load" => q = Operation("load", q.id, None, None) /\ q.id \in Ids
      /\ q.op = "cas" => Derived(q)
      /\ task[t].pc \in {"mkdir", "lock"} \cup Working => q.op = "cas"
      /\ task[t].pc \in Loading => q.op = "load"
      /\ task[t].pc \in Syncing \cup {"lock"} \cup Working =>
           dir # "absent" /\ (q.op = "cas" => Writable(q.next))
      /\ task[t].pc \in {"lock"} \cup Working => dir = "durable"

(* Who works on the file of a receipt holds its lock.                      *)
Holds(t) ==
  \/ task[t].pc \in Working \cup {"read"}
  \/ task[t].pc \in Syncing /\ Request(t).op = "load"

(* What the holder of a lock knows of the file: a load of the receipt it   *)
(* found, a write of the receipt it replaces and has replaced.             *)
HolderInv(t) ==
  LET q == Request(t)
      seen == visible[q.id]
      kept == durable[q.id]
  IN  /\ Holds(t) => lock[q.id] = t
      /\ q.op = "load" /\ task[t].pc \in Syncing =>
           seen # NoFile /\ task[t].found = seen.receipt
      /\ q.op = "load" /\ At(t, "syncParents") => seen = kept
      /\ task[t].pc \in {"temp", "syncTemp", "rename"} =>
           seen = kept /\ Follows(q.id, seen.receipt, q.next)
      /\ At(t, "rename") => task[t].temp = "synced"
      /\ task[t].pc \in {"syncDir", "return"} => seen = File(q.next, TRUE)
      /\ At(t, "return") => seen = kept

(* A write that has checked what is in place is ahead of all that callers  *)
(* were told.                                                              *)
AheadInv(t) ==
  task[t].pc \in Working \ {"check"} =>
    \A r \in Told : r.id = Request(t).id => r.revision < Request(t).next.revision

(* What a task that is done answers.                                       *)
ResultInv(t) ==
  /\ task[t].result.result = "none" <=> ~At(t, "done")
  /\ task[t].result.result # "corrupt"
  /\ task[t].result.result = "too_large" =>
       Request(t).op = "cas" /\ ~Writable(Request(t).next)
  /\ task[t].result.receipt # None =>
       Request(t).op = "load" /\ task[t].result.result = "ok"

TaskInv(t) == RequestInv(t) /\ HolderInv(t) /\ AheadInv(t) /\ ResultInv(t)
StoreInv == FilesInv /\ ToldIsDurable /\ \A t \in Tasks : TaskInv(t)

-----------------------------------------------------------------------------
(* Receipts and files *)

(* A receipt that follows another is a valid receipt of the same handoff   *)
(* with the next revision.                                                 *)
LEMMA FollowsNext ==
  ASSUME NEW i \in Ids, NEW old \in Receipts \cup {None}, NEW next, Follows(i, old, next),
         old # None => old.id = i
  PROVE  /\ next \in Receipts /\ ValidReceipt(next) /\ next.id = i /\ next # None
         /\ old = None => next.revision = 0
         /\ old # None => next.revision = old.revision + 1
<1>1. CASE old = None
  BY <1>1, FirstReceiptValid, FileStoreAssumption DEF Follows, FirstReceipt
<1>2. CASE old # None
  <2>1. PICK t \in Transitions : Accepts(old, t) /\ next = NextReceipt(old, t)
    BY <1>2 DEF Follows, Succeeds
  <2> QED
    BY <1>2, <2>1, NextReceiptIdentity, NextReceiptValid, FileStoreAssumption
<1> QED
  BY <1>1, <1>2

(* A file is whole, so what a power loss leaves of it is its receipt.      *)
LEMMA WholeFileFacts ==
  ASSUME NEW i, NEW file \in WholeFiles(i)
  PROVE  /\ file = NoFile \/ (file = File(file.receipt, TRUE) /\ file.receipt \in Stored(i))
         /\ file.receipt \in Receipts \cup {None}
         /\ file.receipt # None => file.receipt.id = i
         /\ file.receipt = None <=> file = NoFile
         /\ Surviving(file) = file
         /\ ReadResult(file, i) = "ok"
<1>1. CASE file = NoFile
  BY <1>1 DEF NoFile, Surviving, ReadResult
<1>2. CASE \E r \in Stored(i) : file = File(r, TRUE)
  <2>1. PICK r \in Stored(i) : file = File(r, TRUE)
    BY <1>2
  <2>2. /\ r \in Receipts /\ r # None /\ r.id = i /\ ValidReceipt(r)
        /\ Size(r) \in Nat /\ MaxBytes \in Nat /\ Size(r) <= MaxBytes
    BY FileStoreAssumption DEF Stored, Writable
  <2>3. file.receipt = r /\ file.state = "synced" /\ file # NoFile /\ file # Torn
    BY <2>1, <2>2 DEF File, NoFile, Torn
  <2>4. ~(Size(file.receipt) > MaxBytes)
    BY <2>2, <2>3
  <2>5. Surviving(file) = file /\ ReadResult(file, i) = "ok"
    BY <2>2, <2>3, <2>4 DEF Surviving, ReadResult
  <2> QED
    BY <2>1, <2>2, <2>3, <2>5
<1> QED
  BY <1>1, <1>2 DEF WholeFiles

(* What would survive is the receipt in the durable entry.                 *)
LEMMA SurvivorIsKept ==
  ASSUME FilesInv, NEW i \in Ids
  PROVE  Survivor(i) = durable[i].receipt
BY WholeFileFacts, ZenonT(60) DEF FilesInv, Survivor, NoFile

(* A valid request of a write has the types of a request.                  *)
LEMMA DerivedWrite ==
  ASSUME NEW i \in Ids, NEW plan \in Plans
  PROVE  Derived(Operation("cas", i, FirstReceipt(i, plan), None))
BY FirstReceiptValid DEF Derived, Operation, FirstReceipt

LEMMA DerivedSuccessor ==
  ASSUME exposed \subseteq Receipts, NEW r \in exposed, NEW transition \in Transitions,
         Accepts(r, transition)
  PROVE  Derived(Operation("cas", r.id, NextReceipt(r, transition), r.revision))
<1>1. r.id \in Ids /\ Succeeds(r, NextReceipt(r, transition))
  BY DEF Receipts, Succeeds
<1> QED
  BY <1>1, NextReceiptIdentity, NextReceiptValid DEF Derived, Operation

LEMMA DerivedType ==
  ASSUME NEW q, Derived(q), exposed \subseteq Receipts
  PROVE  /\ q.id \in Ids /\ q.next \in Receipts /\ q.next # None /\ q.next.id = q.id
         /\ q.expected \in Revisions \cup {None}
         /\ q.expected = None => q.next.revision = 0
         /\ q.expected # None => q.next.revision = q.expected + 1
<1>1. CASE q.expected = None /\ \E plan \in Plans : q.next = FirstReceipt(q.id, plan)
  BY <1>1, FileStoreAssumption DEF Derived, FirstReceipt
<1>2. CASE \E r \in exposed : r.id = q.id /\ r.revision = q.expected /\ Succeeds(r, q.next)
  <2>1. PICK r \in exposed : r.id = q.id /\ r.revision = q.expected /\ Succeeds(r, q.next)
    BY <1>2
  <2>2. r \in Receipts /\ r.revision \in Revisions
    BY DEF Receipts
  <2>3. q.next.revision = r.revision + 1
    BY <2>1, <2>2, NextReceiptIdentity DEF Succeeds
  <2> QED
    BY <2>1, <2>2, <2>3, FileStoreAssumption DEF Derived
<1> QED
  BY <1>1, <1>2 DEF Derived

-----------------------------------------------------------------------------
(* What every step leaves alone *)

(* A step of t leaves the tasks, locks and locked files of others alone,   *)
(* moves no durable entry but to what is visible, and tells callers        *)
(* nothing new but of a receipt that t has locked.                         *)
Spares(t) ==
  /\ \A u \in Tasks : u # t => task'[u] = task[u]
  /\ \A u \in Tasks, i \in Ids :
       u # t /\ lock[i] = u => lock'[i] = u /\ visible'[i] = visible[i]
  /\ \A i \in Ids : durable'[i] \in {durable[i], visible[i]}
  /\ dir = "durable" => dir' = "durable"
  /\ dir # "absent" => dir' # "absent"
  /\ exposed \subseteq exposed'
  /\ \A r \in Told' : r \in Told \/ lock[r.id] = t

(* What holds of a task keeps holding while others run.                    *)
LEMMA OthersKeep ==
  ASSUME TypeOK, NEW t, Spares(t), NEW u \in Tasks, u # t, TaskInv(u)
  PROVE  TaskInv(u)'
<1>1. task'[u] = task[u]
  BY DEF Spares
<1>2. RequestInv(u)'
  <2>1. Request(u).op = "cas" => Derived(Request(u))'
    <3>1. Request(u).op = "cas" => Derived(Request(u))
      BY DEF TaskInv, RequestInv
    <3> QED
      BY <1>1, <3>1 DEF Spares, Derived, Request
  <2> QED
    BY <1>1, <2>1
       DEF TaskInv, RequestInv, Request, At, Spares, NoTask, Operation, Writable, Syncing, Working
<1>3. Holds(u)' <=> Holds(u)
  BY <1>1 DEF Holds, Request
<1>4. Holds(u) => lock[Request(u).id] = u /\ Request(u).id \in Ids
  BY DEF TaskInv, HolderInv, RequestInv, Holds, Request, Derived, Working, Syncing, Loading
<1>5. Holds(u) =>
        /\ lock'[Request(u).id] = u
        /\ visible'[Request(u).id] = visible[Request(u).id]
        /\ durable'[Request(u).id] \in {durable[Request(u).id], visible[Request(u).id]}
  BY <1>4 DEF Spares
<1>6. HolderInv(u)'
  BY <1>1, <1>3, <1>4, <1>5
     DEF TaskInv, HolderInv, Holds, Request, At, Working, Syncing, Follows, File
<1>7. AheadInv(u)'
  <2>1. task[u].pc \in Working => lock[Request(u).id] = u
    BY <1>4 DEF Holds
  <2>2. ASSUME task[u].pc \in Working \ {"check"}, NEW r \in Told', r.id = Request(u).id
        PROVE  r.revision < Request(u).next.revision
    <3>1. r \in Told
      BY <2>1, <2>2 DEF Spares
    <3> QED
      BY <2>2, <3>1 DEF TaskInv, AheadInv
  <2> QED
    BY <1>1, <2>2 DEF AheadInv, Request
<1>8. ResultInv(u)'
  BY <1>1 DEF TaskInv, ResultInv, At, Request, Writable
<1> QED
  BY <1>2, <1>6, <1>7, <1>8 DEF TaskInv

(* Entries that become durable keep the files in order.                    *)
LEMMA FilesKeep ==
  ASSUME FilesInv, visible' = visible,
         \A i \in Ids : durable'[i] \in {durable[i], visible[i]},
         dir = "durable" => dir' = "durable"
  PROVE  FilesInv'
<1>1. ASSUME NEW i \in Ids
      PROVE  /\ durable'[i] \in WholeFiles(i)
             /\ dir' # "durable" => durable'[i] = NoFile
             /\ visible[i] # durable'[i] => Follows(i, durable'[i].receipt, visible[i].receipt)
  BY <1>1 DEF FilesInv
<1> QED
  BY <1>1 DEF FilesInv, WholeFiles, Stored, Writable, Follows, File, NoFile

(* What is durable only goes forward, so what callers were told stays.     *)
LEMMA ToldKeeps ==
  ASSUME FilesInv, FilesInv', ToldIsDurable,
         \A i \in Ids : durable'[i] \in {durable[i], visible[i]},
         \A r \in Told' : r \in Told \/ r = durable'[r.id].receipt,
         Told' \subseteq Receipts
  PROVE  ToldIsDurable'
<1> SUFFICES ASSUME NEW r \in Told'
             PROVE  /\ Survivor(r.id)' # None
                    /\ r.revision <= Survivor(r.id)'.revision
                    /\ r.revision = Survivor(r.id)'.revision => r = Survivor(r.id)'
  BY DEF ToldIsDurable
<1> DEFINE i == r.id
           old == durable[i].receipt
           new == durable'[i].receipt
<1>1. r \in Receipts /\ i \in Ids /\ r # None /\ r.revision \in Nat
  BY FileStoreAssumption, ReceiptAssumption DEF Receipts, Revisions
<1>2. Survivor(i)' = new /\ Survivor(i) = old
  <2>1. Survivor(i) = durable[i].receipt
    BY <1>1, SurvivorIsKept
  <2>2. Survivor(i)' = durable'[i].receipt
    BY <1>1, WholeFileFacts DEF FilesInv, Survivor, NoFile, Surviving, Torn, WholeFiles, File
  <2> QED
    BY <2>1, <2>2
<1>3. CASE r = new
  BY <1>1, <1>2, <1>3
<1>4. CASE r \in Told
  <2>1. old # None /\ r.revision <= old.revision /\ (r.revision = old.revision => r = old)
    BY <1>2, <1>4 DEF ToldIsDurable
  <2>2. CASE new = old
    BY <1>2, <2>1, <2>2
  <2>3. CASE new # old
    <3>1. new = visible[i].receipt /\ Follows(i, old, new)
      BY <1>1, <2>3 DEF FilesInv
    <3>2. old \in Receipts /\ old.id = i /\ old.revision \in Nat
      <4>1. old \in Receipts /\ old.id = i
        BY <1>1, <2>1, WholeFileFacts, ZenonT(60) DEF FilesInv
      <4> QED
        BY <4>1, ReceiptAssumption DEF Receipts, Revisions
    <3>3. new # None /\ new.revision = old.revision + 1
      BY <1>1, <2>1, <3>1, <3>2, FollowsNext
    <3> QED
      BY <1>1, <1>2, <2>1, <3>2, <3>3
  <2> QED
    BY <2>2, <2>3
<1> QED
  BY <1>1, <1>3, <1>4

(* What a step of t tells is what t answers when it is done.               *)
LEMMA ToldAfter ==
  ASSUME NEW t, \A u \in Tasks : u # t => task'[u] = task[u], exposed' \subseteq Told
  PROVE  \A r \in Told' :
           r \in Told \/ (t \in Tasks /\ At(t, "done")' /\ r \in Given(t)')
BY DEF Told, At, Given, Request

(* What callers are told are receipts.                                     *)
LEMMA ToldType ==
  ASSUME TypeOK
  PROVE  Told \subseteq Receipts
<1>1. \A t \in Tasks : Given(t) \subseteq Receipts
  BY DEF TypeOK, Given, Request, TaskRecords
<1> QED
  BY <1>1 DEF Told, TypeOK

(* A step that replaces the record of one task.                            *)
LEMMA TaskMoves ==
  ASSUME TypeOK, NEW t \in Tasks, NEW after \in TaskRecords,
         task' = [task EXCEPT ![t] = after]
  PROVE  /\ task' \in [Tasks -> TaskRecords] /\ task'[t] = after
         /\ \A u \in Tasks : u # t => task'[u] = task[u]
BY DEF TypeOK

(* What a step may do to the directory besides a rename: entries and the   *)
(* directory itself become durable, the directory is made.                 *)
Settling ==
  /\ visible' = visible
  /\ durable' \in [Ids -> Files] /\ \A i \in Ids : durable'[i] \in {durable[i], visible[i]}
  /\ dir' \in {"absent", "made", "durable"}
  /\ dir = "durable" => dir' = "durable"
  /\ dir # "absent" => dir' # "absent"

LEMMA Settlings ==
  ASSUME TypeOK
  PROVE  /\ UNCHANGED files => Settling
         /\ SyncEntries => Settling
         /\ SyncDirectory => Settling
BY DEF TypeOK, files, SyncEntries, SyncDirectory, Settling

(* What a step of one task has to show.                                    *)
LEMMA StepKeeps ==
  ASSUME TypeOK, StoreInv, TypeOK', NEW t, Spares(t), FilesInv',
         t \in Tasks => TaskInv(t)',
         \A r \in Told' : r \in Told \/ r = durable'[r.id].receipt
  PROVE  StoreInv'
<1>1. \A u \in Tasks : TaskInv(u)'
  BY OthersKeep DEF StoreInv
<1>2. Told' \subseteq Receipts
  <2>1. \A u \in Tasks : Given(u)' \subseteq Receipts
    BY DEF TypeOK, Given, Request, TaskRecords
  <2> QED
    BY <2>1 DEF Told, TypeOK
<1>3. ToldIsDurable'
  BY <1>2, ToldKeeps DEF StoreInv, Spares
<1> QED
  BY <1>1, <1>3 DEF StoreInv

(* The locks of other tasks stay taken.                                    *)
LocksSpared(t) ==
  /\ lock' \in [Ids -> Tasks \cup {None}]
  /\ \A i \in Ids : lock[i] \in Tasks \ {t} => lock'[i] = lock[i]

LEMMA UnlockedSpares ==
  ASSUME TypeOK, NEW t
  PROVE  /\ lock' = Unlocked(t) => LocksSpared(t)
         /\ UNCHANGED lock => LocksSpared(t)
BY DEF TypeOK, Unlocked, LocksSpared

(* A task moves on and is not done: it tells nobody anything.              *)
LEMMA MoveKeeps ==
  ASSUME TypeOK, StoreInv, Settling, NEW t \in Tasks, LocksSpared(t),
         NEW after \in TaskRecords, after.pc # "done",
         task' = [task EXCEPT ![t] = after],
         exposed \subseteq exposed', exposed' \subseteq Told,
         TaskInv(t)'
  PROVE  TypeOK' /\ StoreInv'
<1>1. /\ task' \in [Tasks -> TaskRecords] /\ task'[t] = after
      /\ \A u \in Tasks : u # t => task'[u] = task[u]
  BY TaskMoves
<1>2. TypeOK'
  BY <1>1, ToldType DEF TypeOK, Settling, LocksSpared
<1>3. \A r \in Told' : r \in Told
  BY <1>1, ToldAfter DEF At
<1>4. Spares(t)
  BY <1>1, <1>3 DEF Spares, Settling, LocksSpared
<1>5. FilesInv'
  BY FilesKeep DEF StoreInv, Settling
<1> QED
  BY <1>2, <1>3, <1>4, <1>5, StepKeeps

(* A task ends: it tells its caller a receipt only of a file it has locked *)
(* and that is durable.                                                    *)
LEMMA FinishKeeps ==
  ASSUME TypeOK, StoreInv, Settling, NEW t \in Tasks, task[t].pc \notin {"idle", "done"},
         NEW kind \in {"ok", "conflict", "busy", "too_large", "storage"},
         NEW receipt \in Receipts \cup {None}, Finish(t, kind, receipt),
         kind = "too_large" => Request(t).op = "cas" /\ ~Writable(Request(t).next),
         receipt # None =>
           /\ Request(t).op = "load" /\ kind = "ok" /\ lock[Request(t).id] = t
           /\ receipt.id = Request(t).id /\ receipt = durable'[Request(t).id].receipt,
         Request(t).op = "cas" /\ kind = "ok" =>
           /\ lock[Request(t).id] = t
           /\ Request(t).next = durable'[Request(t).id].receipt
  PROVE  TypeOK' /\ StoreInv'
<1> DEFINE after == [task[t] EXCEPT !.pc = "done", !.result = Reply(kind, receipt),
                                    !.temp = "none", !.found = None]
<1>1. after \in TaskRecords /\ task' = [task EXCEPT ![t] = after]
  <2>1. task[t] \in TaskRecords
    BY DEF TypeOK
  <2>2. Reply(kind, receipt) \in
          [result : {"none", "ok", "conflict", "busy", "too_large", "corrupt", "storage"},
           receipt : Receipts \cup {None}]
    BY DEF Reply
  <2>3. after \in TaskRecords
    BY <2>1, <2>2 DEF TaskRecords
  <2>4. task' = [task EXCEPT ![t] = after]
    BY DEF Finish
  <2> QED
    BY <2>3, <2>4
<1> HIDE DEF after
<1>2. /\ task' \in [Tasks -> TaskRecords] /\ task'[t] = after
      /\ \A u \in Tasks : u # t => task'[u] = task[u]
  BY <1>1, TaskMoves
<1>3. /\ after.pc = "done" /\ after.result = Reply(kind, receipt)
      /\ after.request = task[t].request /\ after.attended = task[t].attended
  BY DEF after, TypeOK, TaskRecords
<1>4. LocksSpared(t)
  BY UnlockedSpares DEF Finish, LockAfter
<1>5. TypeOK'
  BY <1>2, <1>4 DEF TypeOK, Settling, LocksSpared, Finish
<1>6. TaskInv(t)'
  <2>1. RequestInv(t)'
    <3>1. Request(t).op = "cas" => Derived(Request(t))'
      BY DEF StoreInv, TaskInv, RequestInv, Derived, Finish, Request
    <3> QED
      BY <1>2, <1>3, <3>1
         DEF StoreInv, TaskInv, RequestInv, Request, At, Syncing, Working, Loading, Operation
  <2>2. HolderInv(t)' /\ AheadInv(t)'
    BY <1>2, <1>3 DEF HolderInv, AheadInv, Holds, At, Working, Syncing
  <2>3. ResultInv(t)'
    BY <1>2, <1>3 DEF ResultInv, At, Request, Reply, Writable
  <2> QED
    BY <2>1, <2>2, <2>3 DEF TaskInv
<1>7. ASSUME NEW r \in Given(t)'
      PROVE  lock[r.id] = t /\ r = durable'[r.id].receipt
  <2>1. kind = "ok" /\ r = (IF Request(t).op = "cas" THEN Request(t).next ELSE receipt)
        /\ r # None
    BY <1>2, <1>3, <1>7 DEF Given, Request, Reply
  <2>2. Request(t).op = "cas" => Request(t).next.id = Request(t).id
    BY DEF StoreInv, TaskInv, RequestInv, Derived
  <2> QED
    BY <2>1, <2>2
<1>8. \A r \in Told' : r \in Told \/ (lock[r.id] = t /\ r = durable'[r.id].receipt)
  <2>1. exposed' \subseteq Told
    BY DEF Finish, Told
  <2> QED
    BY <1>2, <1>7, <2>1, ToldAfter
<1>9. Spares(t)
  BY <1>2, <1>4, <1>8 DEF Spares, Settling, LocksSpared, Finish
<1>10. FilesInv'
  BY FilesKeep DEF StoreInv, Settling
<1> QED
  BY <1>5, <1>6, <1>8, <1>9, <1>10, StepKeeps

LEMMA NoTaskType == NoTask \in TaskRecords /\ NoTask.pc # "done"
BY DEF NoTask, TaskRecords, Operation, NoReply, Reply

(* Nothing is to be said of a slot that is idle.                           *)
LEMMA IdleKeeps ==
  ASSUME NEW t, task'[t] = NoTask
  PROVE  TaskInv(t)'
BY DEF TaskInv, RequestInv, HolderInv, AheadInv, ResultInv, Holds, At, Request, NoTask,
       Operation, NoReply, Reply, Syncing, Working, Loading

-----------------------------------------------------------------------------
(* The steps of callers *)

LEMMA SubmitKeeps ==
  ASSUME TypeOK, StoreInv, NEW t \in Tasks, NEW operation, NEW point,
         Submit(t, operation, point),
         \/ /\ point = "mkdir" /\ operation.op = "cas" /\ Derived(operation)
            /\ operation = Operation("cas", operation.id, operation.next, operation.expected)
         \/ \E i \in Ids : point = "loadLock" /\ operation = Operation("load", i, None, None)
  PROVE  TypeOK' /\ StoreInv'
<1> DEFINE after == [task[t] EXCEPT !.pc = point, !.request = operation, !.attended = TRUE]
<1>1. operation \in [op : {"none", "load", "cas"}, id : Ids \cup {None},
                     next : Receipts \cup {None}, expected : Revisions \cup {None}]
  BY DerivedType DEF Operation, TypeOK
<1>2. after \in TaskRecords /\ after.pc = point /\ after.request = operation
      /\ after.result = task[t].result
  BY <1>1, ZenonT(60) DEF TypeOK, TaskRecords
<1>3. task' = [task EXCEPT ![t] = after] /\ UNCHANGED <<files, lock, exposed>>
  BY DEF Submit, Step
<1>4. task'[t] = after
  BY <1>2, <1>3, TaskMoves
<1> HIDE DEF after
<1>5. TaskInv(t)'
  <2>1. operation.op = "cas" => Derived(operation)'
    BY <1>3 DEF Derived, Operation
  <2>2. RequestInv(t)'
    BY <1>2, <1>4, <2>1
       DEF RequestInv, Request, At, Operation, Syncing, Working, Loading
  <2>3. HolderInv(t)' /\ AheadInv(t)'
    BY <1>2, <1>4 DEF HolderInv, AheadInv, Holds, Request, At, Syncing, Working
  <2>4. ResultInv(t)'
    <3>1. ResultInv(t) /\ ~At(t, "done")
      BY DEF StoreInv, TaskInv, Submit, Step, At
    <3>2. task[t].result.receipt = None
      BY <3>1 DEF ResultInv
    <3> QED
      BY <1>2, <1>4, <3>1, <3>2 DEF ResultInv, At, Operation
  <2> QED
    BY <2>2, <2>3, <2>4 DEF TaskInv
<1> QED
  BY <1>2, <1>3, <1>5, Settlings, UnlockedSpares, MoveKeeps DEF Told

LEMMA CallerStepKeeps ==
  ASSUME TypeOK, StoreInv, NEW t \in Tasks, CallerStep(t)
  PROVE  TypeOK' /\ StoreInv'
<1>1. CASE \E i \in Ids : StartLoad(t, i)
  BY <1>1, SubmitKeeps DEF StartLoad
<1>2. CASE \E i \in Ids, plan \in Plans : StartCreate(t, i, plan)
  <2>1. PICK i \in Ids, plan \in Plans : StartCreate(t, i, plan)
    BY <1>2
  <2> DEFINE q == Operation("cas", i, FirstReceipt(i, plan), None)
  <2>2. Derived(q) /\ q = Operation("cas", q.id, q.next, q.expected) /\ q.op = "cas"
    BY DerivedWrite DEF Operation
  <2> HIDE DEF q
  <2> QED
    BY <2>1, <2>2, SubmitKeeps DEF StartCreate, q
<1>3. CASE \E receipt \in exposed, transition \in Transitions :
             StartAdvance(t, receipt, transition)
  <2>1. PICK r \in exposed, transition \in Transitions : StartAdvance(t, r, transition)
    BY <1>3
  <2> DEFINE q == Operation("cas", r.id, NextReceipt(r, transition), r.revision)
  <2>2. Derived(q)
    BY <2>1, DerivedSuccessor DEF StartAdvance, TypeOK
  <2>3. q = Operation("cas", q.id, q.next, q.expected) /\ q.op = "cas"
    BY DEF Operation
  <2> HIDE DEF q
  <2> QED
    BY <2>1, <2>2, <2>3, SubmitKeeps DEF StartAdvance, q
<1>4. CASE Cancel(t)
  <2> DEFINE after == [task[t] EXCEPT !.attended = FALSE]
  <2>1. after \in TaskRecords /\ after.pc = task[t].pc /\ after.request = task[t].request
        /\ after.result = task[t].result /\ after.found = task[t].found
        /\ after.temp = task[t].temp /\ after.attended = FALSE
    BY ZenonT(60) DEF TypeOK, TaskRecords
  <2>2. task' = [task EXCEPT ![t] = after] /\ UNCHANGED <<files, lock, exposed>>
    BY <1>4 DEF Cancel
  <2> HIDE DEF after
  <2>3. /\ task' \in [Tasks -> TaskRecords] /\ task'[t] = after
        /\ \A u \in Tasks : u # t => task'[u] = task[u]
    BY <2>1, <2>2, TaskMoves
  <2>4. TypeOK'
    BY <2>2, <2>3 DEF TypeOK, files
  <2>5. \A r \in Told' : r \in Told
    <3>1. Given(t)' = {}
      BY <2>1, <2>3 DEF Given
    <3>2. exposed' \subseteq Told
      BY <2>2 DEF Told
    <3> QED
      BY <2>3, <3>1, <3>2, ToldAfter
  <2>6. Spares(t) /\ FilesInv'
    BY <2>2, <2>3, <2>5, FilesKeep DEF Spares, StoreInv, files
  <2>7. TaskInv(t)'
    <3>1. Request(t).op = "cas" => Derived(Request(t))'
      <4>1. Request(t).op = "cas" => Derived(Request(t))
        BY DEF StoreInv, TaskInv, RequestInv
      <4> QED
        BY <2>1, <2>2, <2>3, <4>1 DEF Derived, Request
    <3>2. task[t].attended = TRUE /\ ~At(t, "idle")
      BY <1>4 DEF Cancel, StoreInv, TaskInv, RequestInv, NoTask
    <3>3. RequestInv(t)'
      BY <2>1, <2>2, <2>3, <3>1, <3>2
         DEF StoreInv, TaskInv, RequestInv, Request, At, files, Operation, Writable
    <3>4. HolderInv(t)' /\ ResultInv(t)'
      BY <2>1, <2>2, <2>3
         DEF StoreInv, TaskInv, HolderInv, ResultInv, Holds, Request, At, files, Follows, File,
             Writable
    <3>5. AheadInv(t)'
      BY <2>1, <2>3, <2>5 DEF StoreInv, TaskInv, AheadInv, Request
    <3> QED
      BY <3>3, <3>4, <3>5 DEF TaskInv
  <2> QED
    BY <2>4, <2>5, <2>6, <2>7, StepKeeps
<1>5. CASE Deliver(t)
  <2>1. /\ task' = [task EXCEPT ![t] = NoTask] /\ UNCHANGED <<files, lock>>
        /\ exposed \subseteq exposed' /\ exposed' \subseteq Told
    BY <1>5 DEF Deliver, Told
  <2>2. TaskInv(t)'
    BY <2>1, IdleKeeps DEF TypeOK
  <2> QED
    BY <2>1, <2>2, NoTaskType, Settlings, UnlockedSpares, MoveKeeps
<1> QED
  BY <1>1, <1>2, <1>3, <1>4, <1>5 DEF CallerStep

-----------------------------------------------------------------------------
(* The system calls of a task *)

(* A running task makes its next call with the same request.               *)
LEMMA AdvanceKeeps ==
  ASSUME TypeOK, StoreInv, Settling, NEW t \in Tasks, LocksSpared(t),
         NEW after \in TaskRecords, task' = [task EXCEPT ![t] = after], UNCHANGED exposed,
         task[t].pc \notin {"idle", "done"}, after.pc \notin {"idle", "done", "mkdir"},
         after.request = task[t].request, after.result = task[t].result,
         after.pc \in {"lock"} \cup Working => Request(t).op = "cas" /\ dir' = "durable",
         after.pc \in Loading => Request(t).op = "load",
         after.pc \in Syncing \cup {"lock"} \cup Working =>
           dir' # "absent" /\ (Request(t).op = "cas" => Writable(Request(t).next)),
         after.pc \in Working \ {"check"} =>
           \A r \in Told : r.id = Request(t).id => r.revision < Request(t).next.revision,
         HolderInv(t)'
  PROVE  TypeOK' /\ StoreInv'
<1>1. /\ task' \in [Tasks -> TaskRecords] /\ task'[t] = after
      /\ \A u \in Tasks : u # t => task'[u] = task[u]
  BY TaskMoves
<1>2. RequestInv(t)'
  <2>1. Request(t).op = "cas" => Derived(Request(t))
    BY DEF StoreInv, TaskInv, RequestInv
  <2>2. Request(t)' = Request(t) /\ (Request(t).op = "cas" => Derived(Request(t))')
    BY <1>1, <2>1 DEF Derived, Request
  <2>3. RequestInv(t)
    BY DEF StoreInv, TaskInv
  <2> QED
    BY <1>1, <2>2, <2>3 DEF RequestInv, At, Operation, Writable, Syncing, Working, Loading
<1>3. ResultInv(t)'
  BY <1>1 DEF StoreInv, TaskInv, ResultInv, At, Request, Writable
<1>4. \A r \in Told' : r \in Told
  <2>1. exposed' \subseteq Told
    BY DEF Told
  <2> QED
    BY <1>1, <2>1, ToldAfter DEF At
<1>5. AheadInv(t)'
  BY <1>1, <1>4 DEF AheadInv, Request
<1>6. TaskInv(t)'
  BY <1>2, <1>3, <1>5 DEF TaskInv
<1> QED
  BY <1>6, MoveKeeps DEF Told

(* A failure or a refusal tells nobody anything.                           *)
LEMMA RefusalKeeps ==
  ASSUME TypeOK, StoreInv, NEW t \in Tasks, task[t].pc \notin {"idle", "done"},
         NEW kind \in {"conflict", "busy", "too_large", "storage"},
         kind = "too_large" => Request(t).op = "cas" /\ ~Writable(Request(t).next),
         Finish(t, kind, None), UNCHANGED files
  PROVE  TypeOK' /\ StoreInv'
BY Settlings, FinishKeeps

LEMMA MakeDirKeeps ==
  ASSUME TypeOK, StoreInv, NEW t \in Tasks, MakeDir(t)
  PROVE  TypeOK' /\ StoreInv'
<1>1. Request(t).op = "cas" /\ task[t].pc = "mkdir"
  BY DEF MakeDir, Step, At, StoreInv, TaskInv, RequestInv
<1>2. CASE ~Writable(Request(t).next)
  BY <1>1, <1>2, RefusalKeeps DEF MakeDir
<1>3. CASE Writable(Request(t).next)
  <2> DEFINE after == [task[t] EXCEPT !.pc = "syncLeaf"]
  <2>1. /\ task' = [task EXCEPT ![t] = after] /\ UNCHANGED <<visible, durable, lock, exposed>>
        /\ dir' = IF dir = "absent" THEN "made" ELSE dir
    BY <1>3 DEF MakeDir, Step
  <2>2. after \in TaskRecords /\ after.pc = "syncLeaf" /\ after.request = task[t].request
        /\ after.result = task[t].result
    BY ZenonT(60) DEF TypeOK, TaskRecords
  <2> HIDE DEF after
  <2>3. Settling /\ dir' # "absent"
    BY <2>1 DEF Settling, TypeOK
  <2>4. HolderInv(t)'
    BY <1>1, <2>1, <2>2, TaskMoves DEF HolderInv, Holds, At, Request, Working, Syncing
  <2> QED
    BY <1>1, <1>3, <2>1, <2>2, <2>3, <2>4, AdvanceKeeps, UnlockedSpares
       DEF Working, Loading, Syncing
<1> QED
  BY <1>2, <1>3

LEMMA SyncLeafKeeps ==
  ASSUME TypeOK, StoreInv, NEW t \in Tasks, SyncLeaf(t)
  PROVE  TypeOK' /\ StoreInv'
<1> DEFINE after == [task[t] EXCEPT !.pc = "syncParents"]
<1>1. /\ task' = [task EXCEPT ![t] = after] /\ UNCHANGED <<dir, visible, lock, exposed>>
      /\ durable' = visible /\ task[t].pc = "syncLeaf"
  BY DEF SyncLeaf, Step, At, SyncEntries
<1>2. after \in TaskRecords /\ after.pc = "syncParents" /\ after.request = task[t].request
      /\ after.result = task[t].result /\ after.found = task[t].found
  BY ZenonT(60) DEF TypeOK, TaskRecords
<1> HIDE DEF after
<1>3. TaskInv(t)
  BY DEF StoreInv
<1>4. HolderInv(t)'
  BY <1>1, <1>2, <1>3, TaskMoves DEF TaskInv, HolderInv, Holds, At, Request, Working, Syncing
<1>5. Settling
  BY Settlings DEF SyncLeaf
<1> QED
  BY <1>1, <1>2, <1>3, <1>4, <1>5, AdvanceKeeps, UnlockedSpares
     DEF TaskInv, RequestInv, Working, Loading, Syncing

LEMMA SyncParentsKeeps ==
  ASSUME TypeOK, StoreInv, NEW t \in Tasks, SyncParents(t)
  PROVE  TypeOK' /\ StoreInv'
<1>1. At(t, "syncParents") /\ SyncDirectory /\ Settling /\ TaskInv(t)
  BY Settlings DEF SyncParents, Step, StoreInv
<1>2. Request(t).op \in {"cas", "load"}
  BY <1>1 DEF TypeOK, TaskRecords, TaskInv, RequestInv, At, Request
<1>3. CASE Request(t).op = "cas"
  <2> DEFINE after == [task[t] EXCEPT !.pc = "lock"]
  <2>1. task' = [task EXCEPT ![t] = after] /\ UNCHANGED <<lock, exposed>>
    BY <1>3 DEF SyncParents, Step
  <2>2. after \in TaskRecords /\ after.pc = "lock" /\ after.request = task[t].request
        /\ after.result = task[t].result
    BY ZenonT(60) DEF TypeOK, TaskRecords
  <2> HIDE DEF after
  <2>3. dir' = "durable" /\ Writable(Request(t).next)
    BY <1>1, <1>3 DEF SyncDirectory, TypeOK, TaskInv, RequestInv, At, Syncing
  <2>4. HolderInv(t)'
    BY <1>1, <2>1, <2>2, TaskMoves DEF HolderInv, Holds, At, Request, Working, Syncing
  <2> QED
    BY <1>1, <1>3, <2>1, <2>2, <2>3, <2>4, AdvanceKeeps, UnlockedSpares
       DEF At, Working, Loading, Syncing
<1>4. CASE Request(t).op = "load"
  <2>1. /\ lock[Request(t).id] = t /\ Request(t).id \in Ids
        /\ durable[Request(t).id] # NoFile
        /\ task[t].found = durable[Request(t).id].receipt
    BY <1>1, <1>4 DEF TaskInv, RequestInv, HolderInv, Holds, At, Syncing
  <2>2. /\ task[t].found \in Receipts /\ task[t].found.id = Request(t).id
        /\ task[t].found = durable'[Request(t).id].receipt
    <3>1. durable[Request(t).id] \in WholeFiles(Request(t).id)
      BY <2>1 DEF StoreInv, FilesInv
    <3>2. /\ durable[Request(t).id].receipt \in Receipts
          /\ durable[Request(t).id].receipt.id = Request(t).id
      BY <2>1, <3>1, WholeFileFacts
    <3> QED
      BY <1>1, <2>1, <3>2 DEF SyncDirectory
  <2> QED
    BY <1>1, <1>4, <2>1, <2>2, FinishKeeps DEF SyncParents, At
<1> QED
  BY <1>2, <1>3, <1>4

(* A lock that is taken is one that was free.                              *)
LEMMA AcquireSpares ==
  ASSUME TypeOK, NEW t \in Tasks, NEW i, lock[i] = None, lock' = [lock EXCEPT ![i] = t]
  PROVE  LocksSpared(t)
BY FileStoreAssumption DEF TypeOK, LocksSpared

LEMMA LockKeeps ==
  ASSUME TypeOK, StoreInv, NEW t \in Tasks, Lock(t)
  PROVE  TypeOK' /\ StoreInv'
<1>1. At(t, "lock") /\ UNCHANGED files /\ TaskInv(t)
  BY DEF Lock, Acquire, StoreInv
<1>2. CASE lock[Request(t).id] = None
  <2> DEFINE after == [task[t] EXCEPT !.pc = "check"]
  <2>1. /\ task' = [task EXCEPT ![t] = after] /\ UNCHANGED exposed
        /\ lock' = [lock EXCEPT ![Request(t).id] = t]
    BY <1>2 DEF Lock, Acquire, Step
  <2>2. after \in TaskRecords /\ after.pc = "check" /\ after.request = task[t].request
        /\ after.result = task[t].result
    BY ZenonT(60) DEF TypeOK, TaskRecords
  <2> HIDE DEF after
  <2>3. /\ Request(t).op = "cas" /\ Request(t).id \in Ids /\ Writable(Request(t).next)
        /\ dir = "durable"
    BY <1>1 DEF TaskInv, RequestInv, Derived, At
  <2>4. HolderInv(t)'
    BY <1>1, <2>1, <2>2, <2>3, TaskMoves
       DEF HolderInv, Holds, At, Request, Working, Syncing, TypeOK
  <2> QED
    BY <1>1, <1>2, <2>1, <2>2, <2>3, <2>4, AdvanceKeeps, AcquireSpares, Settlings
       DEF At, Working, Loading, Syncing, files
<1>3. CASE lock[Request(t).id] # None
  BY <1>1, <1>3, RefusalKeeps DEF Lock, Acquire, At
<1> QED
  BY <1>2, <1>3

(* What the checks of a write establish: nothing has been renamed since    *)
(* the receipt it was derived from, which is what is in place.             *)
LEMMA FitsFollows ==
  ASSUME TypeOK, StoreInv, NEW q, Derived(q), Fits(visible[q.id].receipt, q.next, q.expected)
  PROVE  /\ visible[q.id] = durable[q.id]
         /\ Follows(q.id, visible[q.id].receipt, q.next)
         /\ \A r \in Told : r.id = q.id => r.revision < q.next.revision
<1> DEFINE i == q.id
           seen == visible[i].receipt
           kept == durable[i].receipt
<1>1. /\ i \in Ids /\ q.next \in Receipts /\ q.next # None /\ q.next.id = i
      /\ visible[i] \in WholeFiles(i) /\ durable[i] \in WholeFiles(i)
      /\ visible[i] # durable[i] => Follows(i, kept, seen)
  BY DerivedType DEF StoreInv, FilesInv, TypeOK
<1>2. /\ seen \in Receipts \cup {None} /\ kept \in Receipts \cup {None}
      /\ kept # None => kept.id = i
      /\ seen = None <=> visible[i] = NoFile
      /\ kept = None <=> durable[i] = NoFile
  BY <1>1, WholeFileFacts
<1>3. Survivor(i) = kept
  BY <1>1, SurvivorIsKept DEF StoreInv
<1>4. \A r \in Told : r.id = i =>
        kept # None /\ r.revision <= kept.revision /\ (r.revision = kept.revision => r = kept)
  BY <1>3 DEF StoreInv, ToldIsDurable
<1>5. \A r \in Receipts : r.revision \in Nat
  BY ReceiptAssumption DEF Receipts, Revisions
<1>6. CASE seen = None
  <2>1. visible[i] = durable[i]
    BY <1>1, <1>2, <1>6, FollowsNext
  <2>2. q.expected = None
    BY <1>6 DEF Fits
  <2>3. \E plan \in Plans : q.next = FirstReceipt(i, plan)
    <3>1. \A r \in exposed : r.revision # None
      BY FileStoreAssumption DEF TypeOK, Receipts
    <3> QED
      BY <2>2, <3>1 DEF Derived
  <2>4. \A r \in Told : r.id # i
    BY <1>2, <1>4, <1>6, <2>1
  <2> QED
    BY <1>6, <2>1, <2>3, <2>4 DEF Follows
<1>7. CASE seen # None
  <2>1. seen.revision = q.expected /\ q.next.revision = seen.revision + 1 /\ seen \in Receipts
    BY <1>2, <1>7 DEF Fits
  <2>2. PICK r \in exposed : r.id = i /\ r.revision = q.expected /\ Succeeds(r, q.next)
    BY <2>1, FileStoreAssumption DEF Derived, Receipts
  <2>3. r \in Told /\ r \in Receipts
    BY DEF Told, TypeOK
  <2>4. kept # None /\ r.revision <= kept.revision /\ (r.revision = kept.revision => r = kept)
    BY <1>4, <2>2, <2>3
  <2>5. visible[i] = durable[i]
    <3>1. ASSUME visible[i] # durable[i]
          PROVE  FALSE
      <4>1. seen.revision = kept.revision + 1
        BY <1>1, <1>2, <2>4, <3>1, FollowsNext
      <4> QED
        BY <1>2, <1>5, <2>1, <2>2, <2>3, <2>4, <4>1
    <3> QED
      BY <3>1
  <2>6. r = seen
    BY <2>1, <2>2, <2>4, <2>5
  <2>7. ASSUME NEW told \in Told, told.id = i
        PROVE  told.revision < q.next.revision
    <3>1. told \in Receipts /\ told.revision <= seen.revision
      BY <1>4, <2>5, <2>7, ToldType
    <3> QED
      BY <1>5, <2>1, <3>1
  <2>8. Follows(i, seen, q.next)
    BY <1>1, <1>7, <2>2, <2>6 DEF Follows
  <2> QED
    BY <2>5, <2>7, <2>8
<1> QED
  BY <1>6, <1>7

(* A writer that has checked and not yet renamed.                          *)
LEMMA WriterHolds ==
  ASSUME NEW t, task'[t].request = task[t].request, UNCHANGED <<visible, durable, lock>>,
         task'[t].pc \in {"temp", "syncTemp", "rename"},
         task'[t].pc = "rename" => task'[t].temp = "synced",
         Request(t).op = "cas", lock[Request(t).id] = t,
         visible[Request(t).id] = durable[Request(t).id],
         Follows(Request(t).id, visible[Request(t).id].receipt, Request(t).next)
  PROVE  HolderInv(t)'
<1>1. Request(t)' = Request(t)
  BY DEF Request
<1>2. Follows(Request(t).id, visible[Request(t).id].receipt, Request(t).next)'
  BY <1>1 DEF Follows
<1> QED
  BY <1>1, <1>2 DEF HolderInv, Holds, At, Working, Syncing

LEMMA CheckKeeps ==
  ASSUME TypeOK, StoreInv, NEW t \in Tasks, Check(t)
  PROVE  TypeOK' /\ StoreInv'
<1> DEFINE q == Request(t)
<1>1. /\ At(t, "check") /\ UNCHANGED files /\ TaskInv(t)
      /\ q.op = "cas" /\ Derived(q) /\ Writable(q.next) /\ dir = "durable"
      /\ lock[q.id] = t
  BY DEF Check, StoreInv, TaskInv, RequestInv, HolderInv, Holds, At, Working
<1>2. ReadResult(visible[q.id], q.id) = "ok"
  BY <1>1, WholeFileFacts DEF StoreInv, FilesInv, Derived
<1>3. CASE ~Fits(visible[q.id].receipt, q.next, q.expected)
  BY <1>1, <1>2, <1>3, RefusalKeeps DEF Check, At
<1>4. CASE Fits(visible[q.id].receipt, q.next, q.expected)
  <2> DEFINE after == [task[t] EXCEPT !.pc = "temp"]
  <2>1. task' = [task EXCEPT ![t] = after] /\ UNCHANGED <<lock, exposed>>
    BY <1>2, <1>4 DEF Check, Step
  <2>2. after \in TaskRecords /\ after.pc = "temp" /\ after.request = task[t].request
        /\ after.result = task[t].result
    BY ZenonT(60) DEF TypeOK, TaskRecords
  <2> HIDE DEF after
  <2>3. /\ visible[q.id] = durable[q.id]
        /\ Follows(q.id, visible[q.id].receipt, q.next)
        /\ \A r \in Told : r.id = q.id => r.revision < q.next.revision
    BY <1>1, <1>4, FitsFollows
  <2>4. HolderInv(t)'
    BY <1>1, <2>1, <2>2, <2>3, TaskMoves, WriterHolds DEF files
  <2> QED
    BY <1>1, <2>1, <2>2, <2>3, <2>4, AdvanceKeeps, UnlockedSpares, Settlings
       DEF At, Working, Loading, Syncing, files
<1> QED
  BY <1>3, <1>4

(* Writing and syncing the temporary file.                                 *)
LEMMA TempKeeps ==
  ASSUME TypeOK, StoreInv, NEW t \in Tasks, WriteTemp(t) \/ SyncTemp(t)
  PROVE  TypeOK' /\ StoreInv'
<1>1. PICK after :
        /\ task' = [task EXCEPT ![t] = after] /\ UNCHANGED <<files, lock, exposed>>
        /\ task[t].pc \in {"temp", "syncTemp"} /\ after.pc \in {"syncTemp", "rename"}
        /\ after.pc = "rename" => after.temp = "synced"
        /\ after \in TaskRecords /\ after.request = task[t].request
        /\ after.result = task[t].result
  <2>1. CASE WriteTemp(t)
    <3> DEFINE after == [task[t] EXCEPT !.pc = "syncTemp", !.temp = "written"]
    <3>1. after \in TaskRecords /\ after.request = task[t].request
          /\ after.result = task[t].result /\ after.pc = "syncTemp"
      BY ZenonT(60) DEF TypeOK, TaskRecords
    <3> QED
      BY <2>1, <3>1 DEF WriteTemp, Step, At
  <2>2. CASE SyncTemp(t)
    <3> DEFINE after == [task[t] EXCEPT !.pc = "rename", !.temp = "synced"]
    <3>1. after \in TaskRecords /\ after.request = task[t].request
          /\ after.result = task[t].result /\ after.pc = "rename" /\ after.temp = "synced"
      BY ZenonT(60) DEF TypeOK, TaskRecords
    <3> QED
      BY <2>2, <3>1 DEF SyncTemp, Step, At
  <2> QED
    BY <2>1, <2>2
<1>2. TaskInv(t)
  BY DEF StoreInv
<1>3. HolderInv(t)'
  <2>1. /\ Request(t).op = "cas" /\ lock[Request(t).id] = t
        /\ visible[Request(t).id] = durable[Request(t).id]
        /\ Follows(Request(t).id, visible[Request(t).id].receipt, Request(t).next)
    BY <1>1, <1>2 DEF TaskInv, RequestInv, HolderInv, Holds, Working
  <2> QED
    BY <1>1, <2>1, TaskMoves, WriterHolds DEF files
<1>4. AheadInv(t) /\ RequestInv(t)
  BY <1>2 DEF TaskInv
<1> QED
  BY <1>1, <1>3, <1>4, AdvanceKeeps, UnlockedSpares, Settlings
     DEF RequestInv, AheadInv, Working, Loading, Syncing, files

(* The rename: what tasks see is now one receipt ahead of what is durable. *)
LEMMA RenameKeeps ==
  ASSUME TypeOK, StoreInv, NEW t \in Tasks, Rename(t)
  PROVE  TypeOK' /\ StoreInv'
<1> DEFINE q == Request(t)
           after == [task[t] EXCEPT !.pc = "syncDir", !.temp = "none"]
<1>1. /\ task[t].pc = "rename" /\ UNCHANGED <<dir, durable, lock, exposed>>
      /\ task' = [task EXCEPT ![t] = after]
      /\ visible' = [visible EXCEPT ![q.id] = File(q.next, task[t].temp = "synced")]
  BY DEF Rename, Step, At
<1>2. after \in TaskRecords /\ after.pc = "syncDir" /\ after.request = q
      /\ after.result = task[t].result
  BY ZenonT(60) DEF TypeOK, TaskRecords, Request
<1> HIDE DEF after
<1>3. /\ task' \in [Tasks -> TaskRecords] /\ task'[t] = after
      /\ \A u \in Tasks : u # t => task'[u] = task[u]
  BY <1>1, <1>2, TaskMoves
<1>4. TaskInv(t)
  BY DEF StoreInv
<1>5. /\ q.op = "cas" /\ Derived(q) /\ Writable(q.next) /\ lock[q.id] = t /\ q.id \in Ids
      /\ task[t].temp = "synced" /\ dir = "durable"
      /\ visible[q.id] = durable[q.id] /\ Follows(q.id, visible[q.id].receipt, q.next)
  BY <1>1, <1>4
     DEF TaskInv, RequestInv, HolderInv, Holds, At, Working, Derived
<1>6. q.next \in Stored(q.id)
  BY <1>5, DerivedType DEF TypeOK, Stored, Derived
<1>7. /\ visible'[q.id] = File(q.next, TRUE) /\ visible'[q.id] \in WholeFiles(q.id)
      /\ visible' \in [Ids -> Files]
      /\ \A i \in Ids : i # q.id => visible'[i] = visible[i]
  <2>1. File(q.next, TRUE) \in WholeFiles(q.id) /\ File(q.next, TRUE) \in Files
    BY <1>6 DEF WholeFiles, Files, File, Stored
  <2>2. visible' = [visible EXCEPT ![q.id] = File(q.next, TRUE)]
    BY <1>1, <1>5
  <2> HIDE DEF q
  <2> QED
    BY <1>5, <2>1, <2>2 DEF TypeOK
<1>8. TypeOK'
  BY <1>1, <1>3, <1>7 DEF TypeOK
<1>9. \A r \in Told' : r \in Told
  <2>1. exposed' \subseteq Told
    BY <1>1 DEF Told
  <2> QED
    BY <1>2, <1>3, <2>1, ToldAfter DEF At
<1>10. Spares(t)
  BY <1>1, <1>3, <1>5, <1>7, <1>9 DEF Spares
<1>11. FilesInv'
  <2>1. visible'[q.id].receipt = q.next
    BY <1>7 DEF File
  <2> HIDE DEF q
  <2>2. ASSUME NEW i \in Ids
        PROVE  /\ visible'[i] \in WholeFiles(i) /\ durable[i] \in WholeFiles(i)
               /\ visible'[i] # durable[i] => Follows(i, durable[i].receipt, visible'[i].receipt)
    <3>1. CASE i = q.id
      BY <1>5, <1>7, <2>1, <3>1 DEF StoreInv, FilesInv
    <3>2. CASE i # q.id
      BY <1>7, <3>2 DEF StoreInv, FilesInv
    <3> QED
      BY <3>1, <3>2
  <2>3. dir' = "durable" /\ durable' = durable
    BY <1>1, <1>5
  <2> QED
    BY <2>2, <2>3 DEF FilesInv, WholeFiles, Stored, Writable, Follows, File, NoFile
<1>12. TaskInv(t)'
  <2>1. Request(t)' = q /\ Derived(q)'
    BY <1>1, <1>2, <1>3, <1>5 DEF Derived, Request
  <2>2. RequestInv(t)'
    BY <1>1, <1>2, <1>3, <1>5, <2>1
       DEF RequestInv, At, Operation, Writable, Syncing, Working, Loading
  <2>3. HolderInv(t)'
    BY <1>1, <1>2, <1>3, <1>5, <1>7, <2>1 DEF HolderInv, Holds, At, Working, Syncing, File
  <2>4. AheadInv(t)'
    BY <1>1, <1>2, <1>3, <1>4, <1>9, <2>1 DEF TaskInv, AheadInv, Working
  <2>5. ResultInv(t)'
    BY <1>1, <1>2, <1>3, <1>4 DEF TaskInv, ResultInv, At, Request
  <2> QED
    BY <2>2, <2>3, <2>4, <2>5 DEF TaskInv
<1> QED
  BY <1>8, <1>9, <1>10, <1>11, <1>12, StepKeeps

LEMMA SyncDirKeeps ==
  ASSUME TypeOK, StoreInv, NEW t \in Tasks, SyncDir(t)
  PROVE  TypeOK' /\ StoreInv'
<1> DEFINE after == [task[t] EXCEPT !.pc = "return"]
<1>1. /\ task' = [task EXCEPT ![t] = after] /\ UNCHANGED <<dir, visible, lock, exposed>>
      /\ durable' = visible /\ task[t].pc = "syncDir" /\ Settling
  BY Settlings DEF SyncDir, Step, At, SyncRename, SyncEntries
<1>2. after \in TaskRecords /\ after.pc = "return" /\ after.request = task[t].request
      /\ after.result = task[t].result
  BY ZenonT(60) DEF TypeOK, TaskRecords
<1> HIDE DEF after
<1>3. TaskInv(t)
  BY DEF StoreInv
<1>4. HolderInv(t)'
  BY <1>1, <1>2, <1>3, TaskMoves
     DEF TaskInv, RequestInv, HolderInv, Holds, At, Request, Working, Syncing, File
<1> QED
  BY <1>1, <1>2, <1>3, <1>4, AdvanceKeeps, UnlockedSpares
     DEF TaskInv, RequestInv, AheadInv, Working, Loading, Syncing

LEMMA WrittenKeeps ==
  ASSUME TypeOK, StoreInv, NEW t \in Tasks, Written(t)
  PROVE  TypeOK' /\ StoreInv'
<1>1. task[t].pc = "return" /\ Finish(t, "ok", None) /\ UNCHANGED files /\ TaskInv(t)
  BY DEF Written, At, StoreInv
<1>2. /\ Request(t).op = "cas" /\ lock[Request(t).id] = t
      /\ visible[Request(t).id] = durable[Request(t).id]
      /\ visible[Request(t).id] = File(Request(t).next, TRUE)
  BY <1>1 DEF TaskInv, RequestInv, HolderInv, Holds, At, Working
<1>3. Request(t).next = durable'[Request(t).id].receipt
  BY <1>1, <1>2 DEF files, File
<1> QED
  BY <1>1, <1>2, <1>3, FinishKeeps, Settlings

LEMMA LoadLockKeeps ==
  ASSUME TypeOK, StoreInv, NEW t \in Tasks, LoadLock(t)
  PROVE  TypeOK' /\ StoreInv'
<1>1. At(t, "loadLock") /\ UNCHANGED files /\ TaskInv(t)
  BY DEF LoadLock, Acquire, StoreInv
<1>2. Request(t).op = "load" /\ Request(t).id \in Ids
  BY <1>1 DEF TaskInv, RequestInv, At, Loading
<1>3. CASE dir = "absent"
  BY <1>1, <1>2, <1>3, FinishKeeps, Settlings DEF LoadLock, At
<1>4. CASE dir # "absent" /\ lock[Request(t).id] = None
  <2> DEFINE after == [task[t] EXCEPT !.pc = "read"]
  <2>1. /\ task' = [task EXCEPT ![t] = after] /\ UNCHANGED exposed
        /\ lock' = [lock EXCEPT ![Request(t).id] = t]
    BY <1>4 DEF LoadLock, Acquire, Step
  <2>2. after \in TaskRecords /\ after.pc = "read" /\ after.request = task[t].request
        /\ after.result = task[t].result
    BY ZenonT(60) DEF TypeOK, TaskRecords
  <2> HIDE DEF after
  <2>3. HolderInv(t)'
    BY <1>1, <1>2, <2>1, <2>2, TaskMoves
       DEF HolderInv, Holds, At, Request, Working, Syncing, TypeOK
  <2> QED
    BY <1>1, <1>2, <1>4, <2>1, <2>2, <2>3, AdvanceKeeps, AcquireSpares, Settlings
       DEF At, Working, Loading, Syncing
<1>5. CASE dir # "absent" /\ lock[Request(t).id] # None
  BY <1>1, <1>5, RefusalKeeps DEF LoadLock, Acquire, At
<1> QED
  BY <1>3, <1>4, <1>5

LEMMA ReadKeeps ==
  ASSUME TypeOK, StoreInv, NEW t \in Tasks, Read(t)
  PROVE  TypeOK' /\ StoreInv'
<1> DEFINE i == Request(t).id
<1>1. At(t, "read") /\ UNCHANGED files /\ TaskInv(t)
  BY DEF Read, StoreInv
<1>2. Request(t).op = "load" /\ i \in Ids /\ lock[i] = t
  BY <1>1 DEF TaskInv, RequestInv, HolderInv, Holds, At, Loading
<1>3. visible[i] \in WholeFiles(i) /\ (dir # "durable" => visible[i] = NoFile)
  BY <1>2 DEF StoreInv, FilesInv
<1>4. ReadResult(visible[i], i) = "ok" /\ visible[i].receipt \in Receipts \cup {None}
  BY <1>3, WholeFileFacts
<1>5. CASE visible[i] = NoFile
  <2>1. Finish(t, "ok", None)
    BY <1>4, <1>5 DEF Read, SyncsBefore, NoFile
  <2> QED
    BY <1>1, <1>2, <2>1, FinishKeeps, Settlings DEF At
<1>6. CASE visible[i] # NoFile
  <2> DEFINE after == [task[t] EXCEPT !.pc = "syncLeaf", !.found = visible[i].receipt]
  <2>1. task' = [task EXCEPT ![t] = after] /\ UNCHANGED <<lock, exposed>>
    BY <1>4, <1>6 DEF Read, SyncsBefore, Step
  <2>2. after \in TaskRecords /\ after.pc = "syncLeaf" /\ after.request = task[t].request
        /\ after.result = task[t].result /\ after.found = visible[i].receipt
    <3>1. ASSUME NEW receipt \in Receipts \cup {None}
          PROVE  [task[t] EXCEPT !.pc = "syncLeaf", !.found = receipt] \in TaskRecords
      <4>1. task[t] \in TaskRecords
        BY DEF TypeOK
      <4> QED
        BY <4>1, ZenonT(60) DEF TaskRecords
    <3>2. after \in TaskRecords
      BY <1>4, <3>1
    <3> QED
      BY <3>2 DEF TypeOK, TaskRecords
  <2> HIDE DEF after
  <2>3. HolderInv(t)'
    BY <1>1, <1>2, <1>6, <2>1, <2>2, TaskMoves
       DEF HolderInv, Holds, At, Request, Working, Syncing, files
  <2>4. dir' = "durable"
    BY <1>1, <1>3, <1>6 DEF files
  <2> QED
    BY <1>1, <1>2, <2>1, <2>2, <2>3, <2>4, AdvanceKeeps, UnlockedSpares, Settlings
       DEF At, Working, Loading, Syncing
<1> QED
  BY <1>5, <1>6

-----------------------------------------------------------------------------
(* Failures *)

LEMMA KillKeeps ==
  ASSUME TypeOK, StoreInv, NEW t \in Tasks, Kill(t)
  PROVE  TypeOK' /\ StoreInv'
<1>1. task' = [task EXCEPT ![t] = NoTask] /\ UNCHANGED files
      /\ exposed' = exposed /\ exposed \subseteq Told
  BY DEF Kill, Told
<1>2. TaskInv(t)'
  BY <1>1, IdleKeeps DEF TypeOK
<1>3. Settling /\ LocksSpared(t)
  BY <1>1, Settlings, UnlockedSpares DEF Kill
<1> QED
  BY <1>1, <1>2, <1>3, NoTaskType, MoveKeeps

LEMMA WritebackKeeps ==
  ASSUME TypeOK, StoreInv, Writeback
  PROVE  TypeOK' /\ StoreInv'
<1>1. Settling /\ UNCHANGED <<lock, task, exposed>>
  BY DEF Writeback, TypeOK, Settling
<1>2. Told' = Told
  BY <1>1 DEF Told, At, Given, Request
<1>3. TypeOK'
  BY <1>1 DEF TypeOK, Settling
<1>4. Spares(None) /\ FilesInv' /\ None \notin Tasks
  BY <1>1, <1>2, FilesKeep, FileStoreAssumption DEF Spares, Settling, StoreInv
<1> QED
  BY <1>2, <1>3, <1>4, StepKeeps

LEMMA PowerLossKeeps ==
  ASSUME TypeOK, StoreInv, PowerLoss
  PROVE  TypeOK' /\ StoreInv'
<1>1. \A i \in Ids : visible'[i] = durable[i] /\ durable'[i] = durable[i]
  <2>1. \A i \in Ids : Surviving(durable[i]) = durable[i]
    BY WholeFileFacts DEF StoreInv, FilesInv
  <2> QED
    BY <2>1 DEF PowerLoss, StoreInv, FilesInv
<1>2. visible' = durable /\ durable' = durable
  BY <1>1 DEF PowerLoss, TypeOK
<1>3. /\ task' = [t \in Tasks |-> NoTask] /\ lock' = [i \in Ids |-> None]
      /\ exposed' = exposed /\ dir' = IF dir = "durable" THEN dir ELSE "absent"
  BY DEF PowerLoss
<1>4. TypeOK'
  BY <1>2, <1>3, NoTaskType DEF TypeOK
<1>5. FilesInv'
  BY <1>2, <1>3 DEF StoreInv, FilesInv, WholeFiles, Stored, Writable, Follows
<1>6. \A t \in Tasks : TaskInv(t)'
  BY <1>3, IdleKeeps
<1>7. ToldIsDurable'
  <2>1. \A r \in Told' : r \in Told
    BY <1>3, NoTaskType DEF Told, At
  <2>2. Told' \subseteq Receipts
    BY <2>1, ToldType
  <2> QED
    BY <1>2, <1>5, <2>1, <2>2, ToldKeeps DEF StoreInv
<1> QED
  BY <1>4, <1>5, <1>6, <1>7 DEF StoreInv

-----------------------------------------------------------------------------
(* The inductive invariant *)

LEMMA Initially == Init => TypeOK /\ StoreInv
<1> SUFFICES ASSUME Init
             PROVE  TypeOK /\ StoreInv
  OBVIOUS
<1>1. TypeOK
  BY NoTaskType DEF Init, TypeOK, Files
<1>2. FilesInv
  BY DEF Init, FilesInv, WholeFiles
<1>3. Told = {}
  BY NoTaskType DEF Init, Told, At
<1>4. \A t \in Tasks : TaskInv(t)
  BY DEF Init, TaskInv, RequestInv, HolderInv, AheadInv, ResultInv, Holds, At, Request,
         NoTask, Operation, NoReply, Reply, Syncing, Working, Loading
<1> QED
  BY <1>1, <1>2, <1>3, <1>4 DEF StoreInv, ToldIsDurable

LEMMA Inductive ==
  ASSUME TypeOK, StoreInv, [Next]_vars
  PROVE  TypeOK' /\ StoreInv'
<1>1. CASE UNCHANGED vars
  <2>1. Settling /\ TypeOK'
    BY <1>1, Settlings DEF vars, files, TypeOK
  <2>2. Told' = Told
    BY <1>1 DEF vars, Told, At, Given, Request
  <2>3. Spares(None) /\ FilesInv' /\ None \notin Tasks
    BY <1>1, <2>1, <2>2, FilesKeep, FileStoreAssumption DEF Spares, Settling, StoreInv, vars
  <2> QED
    BY <2>1, <2>2, <2>3, StepKeeps
<1>2. ASSUME NEW t \in Tasks, TaskStep(t)
      PROVE  TypeOK' /\ StoreInv'
  BY <1>2, MakeDirKeeps, SyncLeafKeeps, SyncParentsKeeps, LockKeeps, CheckKeeps, TempKeeps,
     RenameKeeps, SyncDirKeeps, WrittenKeeps, LoadLockKeeps, ReadKeeps DEF TaskStep
<1>3. ASSUME NEW t \in Tasks, IoError(t)
      PROVE  TypeOK' /\ StoreInv'
  BY <1>3, RefusalKeeps DEF IoError
<1> QED
  BY <1>1, <1>2, <1>3, CallerStepKeeps, KillKeeps, WritebackKeeps, PowerLossKeeps DEF Next

LEMMA Invariants == Spec => [](TypeOK /\ StoreInv)
<1>1. TypeOK /\ StoreInv /\ [Next]_vars => (TypeOK /\ StoreInv)'
  BY Inductive
<1> QED
  BY Initially, <1>1, PTL DEF Spec

-----------------------------------------------------------------------------
(* The theorems *)

(* Every variable of the store keeps its type.                             *)
THEOREM StoreTypeCorrect == Spec => []TypeOK
BY Invariants, PTL

(* What a caller has been told, or is about to be told, survives a power   *)
(* loss, whoever renamed it into place and died (load_committed, write).   *)
THEOREM AcknowledgedIsDurable == Spec => []ToldIsDurable
<1>1. StoreInv => ToldIsDurable
  BY DEF StoreInv
<1> QED
  BY Invariants, <1>1, PTL

(* What the store accepted it can always read again: no load is answered   *)
(* Corrupt, and TooLarge is answered only to a write that is too long      *)
(* itself (write, read).                                                   *)
THEOREM AcceptedIsReadable == Spec => []NeverUnreadable
<1>1. ASSUME TypeOK, StoreInv
      PROVE  NeverUnreadable
  <2>1. ASSUME NEW t \in Tasks, ~Writable(Request(t).next), Request(t).op = "cas"
        PROVE  Size(Request(t).next) > MaxBytes
    <3>1. Request(t).next \in Receipts
      BY <1>1, <2>1, DerivedType DEF TypeOK, StoreInv, TaskInv, RequestInv
    <3>2. Size(Request(t).next) \in Nat /\ MaxBytes \in Nat
      BY <3>1, FileStoreAssumption
    <3> QED
      BY <2>1, <3>2 DEF Writable
  <2> QED
    BY <1>1, <2>1 DEF StoreInv, TaskInv, ResultInv, NeverUnreadable
<1> QED
  BY Invariants, <1>1, PTL

(* A step makes durable what tasks see or nothing.                         *)
LEMMA EntriesAdvance ==
  ASSUME TypeOK, StoreInv, [Next]_vars, NEW i \in Ids
  PROVE  durable'[i] \in {durable[i], visible[i]}
<1>1. PowerLoss => durable'[i] = durable[i]
  <2>1. dir # "durable" => durable[i] = NoFile
    BY DEF StoreInv, FilesInv
  <2>2. Surviving(durable[i]) = durable[i]
    BY WholeFileFacts DEF StoreInv, FilesInv
  <2> QED
    BY <2>1, <2>2 DEF PowerLoss
<1>2. Writeback => durable'[i] \in {durable[i], visible[i]}
  BY DEF Writeback, TypeOK
<1>3. ASSUME NEW t \in Tasks, CallerStep(t) \/ IoError(t) \/ Kill(t)
      PROVE  durable' = durable
  BY <1>3 DEF CallerStep, StartLoad, StartCreate, StartAdvance, Submit, Cancel, Deliver,
              IoError, Kill, files
<1>4. ASSUME NEW t \in Tasks, TaskStep(t)
      PROVE  durable' \in {durable, visible}
  BY <1>4 DEF TaskStep, MakeDir, SyncLeaf, SyncEntries, SyncParents, SyncDirectory, Lock,
              Check, WriteTemp, SyncTemp, Rename, SyncDir, SyncRename, Written, LoadLock,
              Read, files
<1> QED
  BY <1>1, <1>2, <1>3, <1>4 DEF Next, vars, files

(* What survives a power loss changes only as the journal means it to: a   *)
(* first receipt, then legal successors, never back and none skipped       *)
(* (write, load_committed).                                                *)
THEOREM DurableHistoryIsLegal == Spec => DurableHistory
<1> DEFINE Good ==
      \A i \in Ids :
        Survivor(i)' # Survivor(i) =>
          \/ Survivor(i) = None /\ \E plan \in Plans : Survivor(i)' = FirstReceipt(i, plan)
          \/ Survivor(i) # None /\ Succeeds(Survivor(i), Survivor(i)')
<1>1. ASSUME TypeOK, StoreInv, TypeOK', StoreInv', [Next]_vars
      PROVE  Good
  <2> SUFFICES ASSUME NEW i \in Ids, Survivor(i)' # Survivor(i)
               PROVE  \/ /\ Survivor(i) = None
                         /\ \E plan \in Plans : Survivor(i)' = FirstReceipt(i, plan)
                      \/ Survivor(i) # None /\ Succeeds(Survivor(i), Survivor(i)')
    OBVIOUS
  <2>1. Survivor(i) = durable[i].receipt
    BY <1>1, SurvivorIsKept DEF StoreInv
  <2>2. Survivor(i)' = durable'[i].receipt
    <3>1. durable'[i] \in WholeFiles(i) /\ (dir' # "durable" => durable'[i] = NoFile)
      BY <1>1 DEF StoreInv, FilesInv, WholeFiles, Stored, Writable
    <3>2. Surviving(durable'[i]) = durable'[i]
      BY <3>1, WholeFileFacts
    <3> QED
      BY <3>1, <3>2 DEF Survivor, Surviving, NoFile, Torn
  <2>3. durable'[i] = visible[i] /\ visible[i] # durable[i]
    BY <1>1, <2>1, <2>2, EntriesAdvance
  <2>4. Follows(i, durable[i].receipt, visible[i].receipt)
    BY <1>1, <2>3 DEF StoreInv, FilesInv
  <2> QED
    BY <2>1, <2>2, <2>3, <2>4 DEF Follows
<1>2. TypeOK /\ StoreInv /\ (TypeOK /\ StoreInv)' /\ [Next]_vars => [Good]_vars
  BY <1>1
<1> QED
  BY Invariants, <1>2, PTL DEF Spec, DurableHistory

(* Of all writes of one revision at most one is acknowledged, also after   *)
(* kills and power losses (write: lock, check, rename).                    *)
THEOREM OneWriterIsAcknowledged == Spec => OneWriterWins
<1> DEFINE Good ==
      \A t \in Tasks :
        At(t, "return") /\ At(t, "done")' /\ task'[t].result.result = "ok" =>
          \A r \in Told : r.id = Request(t).id => r.revision < Request(t).next.revision
<1>1. StoreInv => Good
  BY DEF StoreInv, TaskInv, AheadInv, At, Working
<1>2. TypeOK /\ StoreInv /\ [Next]_vars => [Good]_vars
  BY <1>1
<1> QED
  BY Invariants, <1>2, PTL DEF Spec, OneWriterWins

-----------------------------------------------------------------------------
(* The contract: every system call, kill and power loss is, for each       *)
(* receipt, one step that ReceiptStore allows, or none.                    *)

Refines(i) == [Store(i)!StoreNext]_(Store(i)!storeVars)

(* What the contract sees of a task stays as it is.                        *)
Steady(u, i) ==
  \/ ~Mine(u, i) /\ ~Mine(u, i)'
  \/ /\ Request(u)' = Request(u)
     /\ task'[u].result = task[u].result
     /\ At(u, "done")' <=> At(u, "done")
     /\ Renames(u, i)' <=> Renames(u, i)

LEMMA SteadyCall ==
  ASSUME NEW u, NEW i, Steady(u, i), i # None
  PROVE  /\ Call(u, i)' = Call(u, i)
         /\ Renames(u, i)' <=> Renames(u, i)
         /\ (visible'[i] = durable'[i] <=> visible[i] = durable[i]) \/ ~Renames(u, i) =>
              Stage(u, i)' = Stage(u, i) /\ Answered(u, i)' = Answered(u, i)
<1>1. CASE ~Mine(u, i) /\ ~Mine(u, i)'
  BY <1>1 DEF Call, Renames, Stage, Answered
<1>2. CASE /\ Request(u)' = Request(u)
           /\ task'[u].result = task[u].result
           /\ At(u, "done")' <=> At(u, "done")
           /\ Renames(u, i)' <=> Renames(u, i)
  <2>1. Mine(u, i)' <=> Mine(u, i)
    BY <1>2 DEF Mine
  <2>2. Call(u, i)' = Call(u, i)
    BY <1>2, <2>1 DEF Call
  <2>3. ASSUME (visible'[i] = durable'[i] <=> visible[i] = durable[i]) \/ ~Renames(u, i)
        PROVE  Stage(u, i)' = Stage(u, i)
    BY <1>2, <2>1, <2>3 DEF Stage
  <2> QED
    BY <1>2, <2>1, <2>2 DEF Stage, Answered
<1> QED
  BY <1>1, <1>2 DEF Steady

(* A task that does not change is steady, one of another receipt too.      *)
LEMMA SteadyTask ==
  ASSUME NEW u, NEW i, task'[u] = task[u]
  PROVE  Steady(u, i)
BY DEF Steady, Request, At, Renames, Mine

(* The durable receipt, in both states of a step.                          *)
LEMMA SurvivorsAreKept ==
  ASSUME FilesInv, FilesInv', NEW i \in Ids
  PROVE  Survivor(i) = durable[i].receipt /\ Survivor(i)' = durable'[i].receipt
<1>1. durable'[i] \in WholeFiles(i) /\ (dir' # "durable" => durable'[i] = NoFile)
  BY DEF FilesInv, WholeFiles, Stored, Writable
<1>2. Surviving(durable'[i]) = durable'[i]
  BY <1>1, WholeFileFacts
<1> QED
  BY <1>1, <1>2, SurvivorIsKept DEF Survivor, Surviving, NoFile, Torn

(* A renamed file that is not durable yet is ahead by one write, which     *)
(* matches what is durable, and which is the request of the task that      *)
(* renamed it.                                                             *)
LEMMA AheadByOne ==
  ASSUME TypeOK, StoreInv, NEW i \in Ids, visible[i] # durable[i]
  PROVE  /\ AheadWrite(i).next = visible[i].receipt
         /\ Store(i)!Matches(durable[i].receipt, AheadWrite(i).expected)
         /\ \A t \in Tasks : Renames(t, i) =>
              /\ task[t].pc = "syncDir" /\ Stage(t, i) = "pending"
              /\ Call(t, i) = AheadWrite(i)
              /\ lock[i] = t
<1> DEFINE seen == visible[i].receipt
           kept == durable[i].receipt
<1>1. /\ kept \in Receipts \cup {None} /\ (kept # None => kept.id = i)
      /\ Follows(i, kept, seen)
  BY WholeFileFacts DEF StoreInv, FilesInv
<1>2. /\ seen \in Receipts
      /\ kept = None => seen.revision = 0
      /\ kept # None => seen.revision = kept.revision + 1 /\ kept.revision \in Nat
  BY <1>1, FollowsNext, ReceiptAssumption DEF Receipts, Revisions
<1>3. Store(i)!Matches(kept, AheadWrite(i).expected)
  BY <1>1, <1>2, FileStoreAssumption DEF Store!Matches, AheadWrite
<1>4. ASSUME NEW t \in Tasks, Renames(t, i)
      PROVE  /\ task[t].pc = "syncDir" /\ Stage(t, i) = "pending"
             /\ Call(t, i) = AheadWrite(i)
             /\ lock[i] = t
  <2>1. TaskInv(t) /\ Request(t).id = i /\ task[t].pc \in {"syncDir", "return"}
    BY <1>4 DEF StoreInv, Renames, Mine
  <2>2. /\ lock[i] = t /\ task[t].pc = "syncDir" /\ Request(t).op = "cas"
        /\ Derived(Request(t)) /\ visible[i] = File(Request(t).next, TRUE)
    BY <2>1 DEF TaskInv, RequestInv, HolderInv, Holds, At, Working
  <2>3. seen = Request(t).next
    BY <2>2 DEF File
  <2>4. Request(t).expected =
          IF seen.revision = 0 THEN None ELSE seen.revision - 1
    <3>1. /\ Request(t).expected \in Revisions \cup {None}
          /\ Request(t).expected = None => seen.revision = 0
          /\ Request(t).expected # None => seen.revision = Request(t).expected + 1
      BY <2>2, <2>3, DerivedType DEF TypeOK
    <3> QED
      BY <3>1, ReceiptAssumption DEF Revisions
  <2> QED
    BY <1>4, <2>1, <2>2, <2>3, <2>4 DEF Stage, Call, AheadWrite, Mine, At
<1> QED
  BY <1>3, <1>4 DEF AheadWrite

(* At most one task has renamed a file it still works on.                  *)
LEMMA OneRenames ==
  ASSUME StoreInv, NEW i, NEW t \in Tasks, NEW u \in Tasks, Renames(t, i), Renames(u, i)
  PROVE  t = u
<1>1. ASSUME NEW w \in Tasks, Renames(w, i)
      PROVE  lock[i] = w
  <2>1. HolderInv(w) /\ Holds(w) /\ Request(w).id = i
    BY <1>1 DEF StoreInv, TaskInv, Renames, Mine, Holds, Working
  <2> QED
    BY <2>1 DEF HolderInv
<1> QED
  BY <1>1

-----------------------------------------------------------------------------
(* The shapes a step has for the contract of one receipt *)

(* Nothing the contract sees changes.                                      *)
LEMMA SteadyStep ==
  ASSUME TypeOK, StoreInv, StoreInv', NEW i \in Ids, \A u \in Tasks : Steady(u, i),
         visible'[i] = visible[i], durable'[i] = durable[i]
  PROVE  Refines(i)
<1>1. i # None
  BY FileStoreAssumption
<1>2. /\ Stages(i)' = Stages(i) /\ Calls(i)' = Calls(i) /\ Replies(i)' = Replies(i)
  BY <1>1, SteadyCall DEF Stages, Calls, Replies
<1>3. Survivor(i)' = Survivor(i)
  BY SurvivorsAreKept DEF StoreInv
<1>4. LeftBehind(i)' = LeftBehind(i)
  BY <1>1, SteadyCall DEF LeftBehind, AheadWrite
<1> QED
  BY <1>2, <1>3, <1>4 DEF Refines, Store!storeVars

(* The entry of the receipt becomes durable: the write that was ahead      *)
(* commits, for its task or late.                                          *)
LEMMA CommitStep ==
  ASSUME TypeOK, StoreInv, StoreInv', NEW i \in Ids, \A u \in Tasks : Steady(u, i),
         visible[i] # durable[i], visible'[i] = visible[i], durable'[i] = visible[i]
  PROVE  Refines(i)
<1>1. i # None
  BY FileStoreAssumption
<1>2. Calls(i)' = Calls(i)
  BY <1>1, SteadyCall DEF Calls
<1>3. /\ Survivor(i) = durable[i].receipt /\ Survivor(i)' = AheadWrite(i).next
      /\ Store(i)!Matches(Survivor(i), AheadWrite(i).expected)
  BY SurvivorsAreKept, AheadByOne DEF StoreInv
<1>4. LeftBehind(i)' = {}
  BY DEF LeftBehind
<1>5. CASE \E t \in Tasks : Renames(t, i)
  <2>1. PICK t \in Tasks : Renames(t, i)
    BY <1>5
  <2>2. LeftBehind(i) = {}
    BY <2>1 DEF LeftBehind
  <2>3. Stages(i)[t] = "pending" /\ Calls(i)[t] = AheadWrite(i)
    BY <2>1, AheadByOne DEF Stages, Calls
  <2>4. AheadWrite(i).op = "cas"
    BY DEF AheadWrite
  <2>5. \A u \in Tasks : u # t => Stage(u, i)' = Stage(u, i) /\ Answered(u, i)' = Answered(u, i)
    BY <1>1, <2>1, OneRenames, SteadyCall
  <2>6. Stage(t, i)' = "applied" /\ Answered(t, i)' = Answered(t, i)
    <3>1. Renames(t, i)' /\ Renames(t, i)
      BY <1>1, <2>1, SteadyCall
    <3>2. Mine(t, i)' /\ Mine(t, i) /\ ~At(t, "done")' /\ ~At(t, "done")
      BY <3>1 DEF Renames, At
    <3> QED
      BY <3>1, <3>2 DEF Stage, Answered
  <2>7. /\ Stages(i)' = [Stages(i) EXCEPT ![t] = "applied"]
        /\ Replies(i)' = Replies(i)
    BY <2>5, <2>6 DEF Stages, Replies
  <2>8. Store(i)!Commit(t)
    BY <1>2, <1>3, <1>4, <2>2, <2>3, <2>4, <2>7 DEF Store!Commit
  <2> QED
    BY <2>8 DEF Refines, Store!StoreNext, Store!StoreStep
<1>6. CASE \A t \in Tasks : ~Renames(t, i)
  <2>1. LeftBehind(i) = {AheadWrite(i)}
    BY <1>6 DEF LeftBehind
  <2>2. Stages(i)' = Stages(i) /\ Replies(i)' = Replies(i)
    BY <1>1, <1>6, SteadyCall DEF Stages, Replies
  <2>3. Store(i)!CommitLate(AheadWrite(i))
    BY <1>2, <1>3, <1>4, <2>1, <2>2 DEF Store!CommitLate
  <2>4. AheadWrite(i) \in LeftBehind(i)
    BY <2>1
  <2>5. Store(i)!StoreStep
    BY <2>3, <2>4 DEF Store!StoreStep
  <2> QED
    BY <2>5 DEF Refines, Store!StoreNext
<1> QED
  BY <1>5, <1>6

(* Entries move on, tasks do not.                                          *)
LEMMA EntryStep ==
  ASSUME TypeOK, StoreInv, StoreInv', NEW i \in Ids, \A u \in Tasks : Steady(u, i),
         visible'[i] = visible[i], durable'[i] \in {durable[i], visible[i]}
  PROVE  Refines(i)
BY SteadyStep, CommitStep

(* Only one task changes, and no file of the receipt.                      *)
LEMMA OneTaskStep ==
  ASSUME StoreInv, StoreInv', NEW i \in Ids, NEW t \in Tasks,
         \A u \in Tasks : u # t => task'[u] = task[u],
         visible'[i] = visible[i], durable'[i] = durable[i]
  PROVE  /\ Survivor(i)' = Survivor(i)
         /\ Stages(i)' = [Stages(i) EXCEPT ![t] = Stage(t, i)']
         /\ Calls(i)' = [Calls(i) EXCEPT ![t] = Call(t, i)']
         /\ Replies(i)' = [Replies(i) EXCEPT ![t] = Answered(t, i)']
         /\ (~Renames(t, i) /\ ~Renames(t, i)') \/ visible[i] = durable[i] =>
              LeftBehind(i)' = LeftBehind(i)
         /\ Renames(t, i) /\ ~Renames(t, i)' /\ visible[i] # durable[i] =>
              LeftBehind(i) = {} /\ LeftBehind(i)' = {AheadWrite(i)}
<1>1. i # None
  BY FileStoreAssumption
<1>2. \A u \in Tasks : u # t =>
        /\ Stage(u, i)' = Stage(u, i) /\ Call(u, i)' = Call(u, i)
        /\ Answered(u, i)' = Answered(u, i) /\ (Renames(u, i)' <=> Renames(u, i))
  BY <1>1, SteadyTask, SteadyCall
<1>3. /\ Stages(i)' = [Stages(i) EXCEPT ![t] = Stage(t, i)']
      /\ Calls(i)' = [Calls(i) EXCEPT ![t] = Call(t, i)']
      /\ Replies(i)' = [Replies(i) EXCEPT ![t] = Answered(t, i)']
  BY <1>2 DEF Stages, Calls, Replies
<1>4. Survivor(i)' = Survivor(i)
  BY SurvivorsAreKept DEF StoreInv
<1>5. AheadWrite(i)' = AheadWrite(i)
  BY DEF AheadWrite
<1>6. (~Renames(t, i) /\ ~Renames(t, i)') \/ visible[i] = durable[i] =>
        LeftBehind(i)' = LeftBehind(i)
  BY <1>2, <1>5 DEF LeftBehind
<1>7. Renames(t, i) /\ ~Renames(t, i)' /\ visible[i] # durable[i] =>
        LeftBehind(i) = {} /\ LeftBehind(i)' = {AheadWrite(i)}
  <2>1. SUFFICES ASSUME Renames(t, i), ~Renames(t, i)', visible[i] # durable[i]
                 PROVE  LeftBehind(i) = {} /\ LeftBehind(i)' = {AheadWrite(i)}
    OBVIOUS
  <2>2. \A u \in Tasks : ~Renames(u, i)'
    BY <1>2, <2>1, OneRenames
  <2> QED
    BY <1>5, <2>1, <2>2 DEF LeftBehind
<1> QED
  BY <1>3, <1>4, <1>6, <1>7

(* A task of another receipt.                                              *)
LEMMA OtherReceipt ==
  ASSUME TypeOK, StoreInv, StoreInv', NEW i \in Ids, NEW t \in Tasks,
         \A u \in Tasks : u # t => task'[u] = task[u],
         ~Mine(t, i), ~Mine(t, i)',
         visible'[i] = visible[i], durable'[i] \in {durable[i], visible[i]}
  PROVE  Refines(i)
<1>1. \A u \in Tasks : Steady(u, i)
  BY SteadyTask DEF Steady
<1> QED
  BY <1>1, EntryStep

(* A task answers: which step of the contract that is.                     *)
LEMMA AnswerShape ==
  ASSUME TypeOK, StoreInv, StoreInv', NEW i \in Ids, NEW t \in Tasks, Mine(t, i),
         task[t].pc \notin {"idle", "done"}, NEW kind, NEW receipt, Finish(t, kind, receipt),
         visible'[i] = visible[i], durable'[i] = durable[i]
  PROVE  /\ \A u \in Tasks : u # t => task'[u] = task[u]
         /\ Survivor(i)' = Survivor(i)
         /\ Stages(i)[t] = Stage(t, i)
         /\ Stage(t, i) = (IF Renames(t, i) /\ visible[i] = durable[i]
                           THEN "applied" ELSE "pending")
         /\ Stages(i)' = [Stages(i) EXCEPT ![t] = "answered"]
         /\ Calls(i)[t] = [op |-> Request(t).op, next |-> Request(t).next,
                           expected |-> Request(t).expected]
         /\ Calls(i)' = Calls(i)
         /\ kind \in {"busy", "too_large"} =>
              Replies(i)' = [Replies(i) EXCEPT ![t] = Reply("refused", None)]
         /\ kind \notin {"busy", "too_large"} =>
              Replies(i)' = [Replies(i) EXCEPT ![t] = Reply(kind, receipt)]
         /\ ~Renames(t, i) \/ visible[i] = durable[i] => LeftBehind(i)' = LeftBehind(i)
         /\ Renames(t, i) /\ visible[i] # durable[i] =>
              LeftBehind(i) = {} /\ LeftBehind(i)' = {AheadWrite(i)}
<1>1. /\ \A u \in Tasks : u # t => task'[u] = task[u]
      /\ task'[t].pc = "done" /\ task'[t].request = task[t].request
      /\ task'[t].result = Reply(kind, receipt)
  BY DEF Finish, TypeOK, TaskRecords
<1>2. Mine(t, i)' /\ At(t, "done")' /\ ~Renames(t, i)' /\ ~At(t, "done")
  BY <1>1 DEF Mine, Request, At, Renames
<1>3. /\ Stage(t, i)' = "answered"
      /\ Stage(t, i) = (IF Renames(t, i) /\ visible[i] = durable[i]
                        THEN "applied" ELSE "pending")
  BY <1>2 DEF Stage
<1>4. /\ Call(t, i)' = Call(t, i)
      /\ Call(t, i) = [op |-> Request(t).op, next |-> Request(t).next,
                       expected |-> Request(t).expected]
  BY <1>1, <1>2 DEF Call, Request
<1>5. Answered(t, i)' = IF kind \in {"busy", "too_large"} THEN Reply("refused", None)
                        ELSE Reply(kind, receipt)
  BY <1>1, <1>3 DEF Answered, Reply
<1>6. /\ Stages(i)[t] = Stage(t, i) /\ Calls(i)[t] = Call(t, i)
      /\ [Calls(i) EXCEPT ![t] = Call(t, i)] = Calls(i)
  BY DEF Stages, Calls
<1> QED
  BY <1>1, <1>2, <1>3, <1>4, <1>5, <1>6, OneTaskStep

(* Busy, TooLarge and a failed system call.                                *)
LEMMA RefusedStep ==
  ASSUME TypeOK, StoreInv, StoreInv', NEW i \in Ids, NEW t \in Tasks, Mine(t, i),
         task[t].pc \notin {"idle", "done", "syncDir", "return"},
         NEW kind \in {"busy", "too_large"}, Finish(t, kind, None), UNCHANGED files
  PROVE  Refines(i)
<1>1. /\ ~Renames(t, i) /\ task[t].pc \notin {"idle", "done"}
      /\ visible'[i] = visible[i] /\ durable'[i] = durable[i]
  BY DEF Renames, files
<1>2. /\ Survivor(i)' = Survivor(i)
      /\ Stages(i)[t] = (IF Renames(t, i) /\ visible[i] = durable[i]
                         THEN "applied" ELSE "pending")
      /\ Stages(i)' = [Stages(i) EXCEPT ![t] = "answered"]
      /\ Calls(i)' = Calls(i)
      /\ Replies(i)' = [Replies(i) EXCEPT ![t] = Reply("refused", None)]
      /\ ~Renames(t, i) \/ visible[i] = durable[i] => LeftBehind(i)' = LeftBehind(i)
  BY <1>1, AnswerShape DEF Calls
<1>3. LeftBehind(i)' = LeftBehind(i) /\ Stages(i)[t] = "pending"
  BY <1>1, <1>2
<1>4. Store(i)!AnswerRefused(t)
  BY <1>2, <1>3 DEF Store!AnswerRefused, Store!Answer, Store!Reply, Reply
<1> QED
  BY <1>4 DEF Refines, Store!StoreNext, Store!StoreStep

LEMMA ErrorStep ==
  ASSUME TypeOK, StoreInv, StoreInv', NEW i \in Ids, NEW t \in Tasks, Mine(t, i), IoError(t)
  PROVE  Refines(i)
<1>1. /\ task[t].pc \notin {"idle", "done"} /\ Finish(t, "storage", None)
      /\ visible' = visible /\ durable' = durable
  BY DEF IoError, files
<1>2. /\ Survivor(i)' = Survivor(i)
      /\ Stages(i)[t] = (IF Renames(t, i) /\ visible[i] = durable[i]
                         THEN "applied" ELSE "pending")
      /\ Stages(i)' = [Stages(i) EXCEPT ![t] = "answered"]
      /\ Calls(i)' = Calls(i) /\ Calls(i)[t] = Call(t, i)
      /\ Replies(i)' = [Replies(i) EXCEPT ![t] = Reply("storage", None)]
      /\ ~Renames(t, i) \/ visible[i] = durable[i] => LeftBehind(i)' = LeftBehind(i)
      /\ Renames(t, i) /\ visible[i] # durable[i] =>
           LeftBehind(i) = {} /\ LeftBehind(i)' = {AheadWrite(i)}
  BY <1>1, AnswerShape DEF Calls
<1>3. \/ LeftBehind(i)' = LeftBehind(i)
      \/ /\ Stages(i)[t] = "pending" /\ Calls(i)[t].op = "cas"
         /\ LeftBehind(i)' = LeftBehind(i) \cup {Calls(i)[t]}
  <2>1. CASE Renames(t, i) /\ visible[i] # durable[i]
    <3>1. Call(t, i) = AheadWrite(i) /\ AheadWrite(i).op = "cas"
      BY <2>1, AheadByOne DEF AheadWrite
    <3> QED
      BY <1>2, <2>1, <3>1
  <2>2. CASE ~Renames(t, i) \/ visible[i] = durable[i]
    BY <1>2, <2>2
  <2> QED
    BY <2>1, <2>2
<1>4. Store(i)!AnswerError(t)
  BY <1>2, <1>3 DEF Store!AnswerError, Store!Answer, Store!Reply, Reply
<1> QED
  BY <1>4 DEF Refines, Store!StoreNext, Store!StoreStep

(* A load answers with what is durable.                                    *)
LEMMA LoadedStep ==
  ASSUME TypeOK, StoreInv, StoreInv', NEW i \in Ids, NEW t \in Tasks, Mine(t, i),
         task[t].pc \notin {"idle", "done", "syncDir", "return"}, Request(t).op = "load",
         Finish(t, "ok", Survivor(i)), visible'[i] = visible[i], durable'[i] = durable[i]
  PROVE  Refines(i)
<1>1. ~Renames(t, i) /\ task[t].pc \notin {"idle", "done"}
  BY DEF Renames
<1>2. /\ Survivor(i)' = Survivor(i)
      /\ Stages(i)[t] = (IF Renames(t, i) /\ visible[i] = durable[i]
                         THEN "applied" ELSE "pending")
      /\ Stages(i)' = [Stages(i) EXCEPT ![t] = "answered"]
      /\ Calls(i)' = Calls(i) /\ Calls(i)[t].op = "load"
      /\ Replies(i)' = [Replies(i) EXCEPT ![t] = Reply("ok", Survivor(i))]
      /\ ~Renames(t, i) \/ visible[i] = durable[i] => LeftBehind(i)' = LeftBehind(i)
  BY <1>1, AnswerShape DEF Calls
<1>3. LeftBehind(i)' = LeftBehind(i) /\ Stages(i)[t] = "pending"
  BY <1>1, <1>2
<1>4. Store(i)!AnswerLoad(t)
  BY <1>2, <1>3 DEF Store!AnswerLoad, Store!Answer, Store!Reply, Reply
<1> QED
  BY <1>4 DEF Refines, Store!StoreNext, Store!StoreStep

(* A write acknowledges what is durable.                                   *)
LEMMA WrittenStep ==
  ASSUME TypeOK, StoreInv, StoreInv', NEW i \in Ids, NEW t \in Tasks, Mine(t, i), Written(t)
  PROVE  Refines(i)
<1>1. /\ task[t].pc = "return" /\ Finish(t, "ok", None)
      /\ visible' = visible /\ durable' = durable
  BY DEF Written, At, files
<1>2. /\ Renames(t, i) /\ visible[i] = durable[i] /\ task[t].pc \notin {"idle", "done"}
      /\ visible'[i] = visible[i] /\ durable'[i] = durable[i]
  BY <1>1 DEF Renames, Mine, StoreInv, TaskInv, HolderInv, At
<1>3. /\ Survivor(i)' = Survivor(i)
      /\ Stages(i)[t] = (IF Renames(t, i) /\ visible[i] = durable[i]
                         THEN "applied" ELSE "pending")
      /\ Stages(i)' = [Stages(i) EXCEPT ![t] = "answered"]
      /\ Calls(i)' = Calls(i)
      /\ Replies(i)' = [Replies(i) EXCEPT ![t] = Reply("ok", None)]
      /\ ~Renames(t, i) \/ visible[i] = durable[i] => LeftBehind(i)' = LeftBehind(i)
  BY <1>1, <1>2, AnswerShape DEF Calls
<1>4. LeftBehind(i)' = LeftBehind(i) /\ Stages(i)[t] = "applied"
  BY <1>1, <1>2, <1>3
<1>5. Store(i)!AnswerApplied(t)
  BY <1>3, <1>4 DEF Store!AnswerApplied, Store!Answer, Store!Reply, Reply
<1> QED
  BY <1>5 DEF Refines, Store!StoreNext, Store!StoreStep

(* What the contract sees of one task.                                     *)
LEMMA TaskSeen ==
  ASSUME NEW i, NEW t \in Tasks
  PROVE  /\ Stages(i)[t] = Stage(t, i) /\ Calls(i)[t] = Call(t, i)
         /\ Replies(i)[t] = Answered(t, i)
         /\ [Replies(i) EXCEPT ![t] = Answered(t, i)] = Replies(i)
         /\ \A q : [Calls(i) EXCEPT ![t] = q][t] = q
BY DEF Stages, Calls, Replies

LEMMA SlotsSeen ==
  ASSUME NEW i
  PROVE  /\ Stages(i) = [c \in Tasks |-> Stages(i)[c]]
         /\ Calls(i) = [c \in Tasks |-> Calls(i)[c]]
         /\ Replies(i) = [c \in Tasks |-> Replies(i)[c]]
BY DEF Stages, Calls, Replies

(* What is in place does not fit a write: it does not match what is        *)
(* durable, or a write that was left behind may still commit.              *)
LEMMA MismatchIsReal ==
  ASSUME TypeOK, StoreInv, NEW q, Derived(q), visible[q.id] = durable[q.id],
         ~Fits(visible[q.id].receipt, q.next, q.expected)
  PROVE  ~Store(q.id)!Matches(Survivor(q.id), q.expected)
<1> DEFINE i == q.id
           kept == durable[i].receipt
<1>1. /\ i \in Ids /\ Survivor(i) = kept /\ kept \in Receipts \cup {None}
  BY DerivedType, SurvivorIsKept, WholeFileFacts DEF StoreInv, FilesInv, TypeOK
<1>2. ASSUME kept = None, q.expected = None
      PROVE  FALSE
  <2>1. \E plan \in Plans : q.next = FirstReceipt(i, plan)
    <3>1. \A r \in exposed : r.revision # None
      BY FileStoreAssumption DEF TypeOK, Receipts
    <3> QED
      BY <1>2, <3>1 DEF Derived
  <2> QED
    BY <1>2, <2>1 DEF Fits, FirstReceipt
<1>3. ASSUME kept # None, kept.revision = q.expected
      PROVE  FALSE
  <2>1. PICK r \in exposed : r.id = i /\ r.revision = q.expected /\ Succeeds(r, q.next)
    BY <1>1, <1>3, FileStoreAssumption DEF Derived, Receipts
  <2>2. r = kept /\ r \in Receipts
    BY <1>1, <1>3, <2>1 DEF StoreInv, ToldIsDurable, Told, TypeOK
  <2>3. PICK transition \in Transitions :
          Accepts(r, transition) /\ q.next = NextReceipt(r, transition)
    BY <2>1 DEF Succeeds
  <2>4. q.next.plan = r.plan /\ q.next.revision = r.revision + 1 /\ r.revision < MaxRevision
    BY <2>2, <2>3, NextReceiptIdentity DEF Accepts, RoomForOneMore
  <2> QED
    BY <1>1, <1>3, <2>2, <2>4 DEF Fits
<1> QED
  BY <1>1, <1>2, <1>3 DEF Store!Matches

LEMMA ConflictStep ==
  ASSUME TypeOK, StoreInv, StoreInv', NEW i \in Ids, NEW t \in Tasks, Mine(t, i),
         At(t, "check"), Finish(t, "conflict", None), UNCHANGED files,
         ~Fits(visible[i].receipt, Request(t).next, Request(t).expected)
  PROVE  Refines(i)
<1>1. /\ ~Renames(t, i) /\ task[t].pc \notin {"idle", "done"}
      /\ visible'[i] = visible[i] /\ durable'[i] = durable[i]
  BY DEF Renames, files, At
<1>2. /\ Request(t).op = "cas" /\ Derived(Request(t)) /\ Request(t).id = i /\ lock[i] = t
  BY DEF StoreInv, TaskInv, RequestInv, HolderInv, Holds, Mine, At, Working
<1>3. /\ Survivor(i)' = Survivor(i)
      /\ Stages(i)[t] = (IF Renames(t, i) /\ visible[i] = durable[i]
                         THEN "applied" ELSE "pending")
      /\ Stages(i)' = [Stages(i) EXCEPT ![t] = "answered"]
      /\ Calls(i)[t] = [op |-> Request(t).op, next |-> Request(t).next,
                        expected |-> Request(t).expected]
      /\ Calls(i)' = Calls(i)
      /\ Replies(i)' = [Replies(i) EXCEPT ![t] = Reply("conflict", None)]
      /\ ~Renames(t, i) \/ visible[i] = durable[i] => LeftBehind(i)' = LeftBehind(i)
  BY <1>1, AnswerShape DEF Calls
<1>4. /\ LeftBehind(i)' = LeftBehind(i) /\ Stages(i)[t] = "pending"
      /\ Calls(i)[t].op = "cas" /\ Calls(i)[t].expected = Request(t).expected
  BY <1>1, <1>2, <1>3
<1>5. ~Store(i)!Matches(Survivor(i), Request(t).expected) \/ LeftBehind(i) # {}
  <2>1. CASE visible[i] = durable[i]
    BY <1>2, <2>1, MismatchIsReal
  <2>2. CASE visible[i] # durable[i]
    <3>1. \A u \in Tasks : ~Renames(u, i)
      BY <1>1, <1>2, <2>2, AheadByOne
    <3> QED
      BY <2>2, <3>1 DEF LeftBehind
  <2> QED
    BY <2>1, <2>2
<1>6. Store(i)!AnswerConflict(t)
  BY <1>3, <1>4, <1>5 DEF Store!AnswerConflict, Store!Answer, Store!Reply, Reply
<1> QED
  BY <1>6 DEF Refines, Store!StoreNext, Store!StoreStep

(* A call begins.                                                          *)
LEMMA InvokeStep ==
  ASSUME TypeOK, StoreInv, StoreInv', NEW i \in Ids, NEW t \in Tasks,
         NEW operation, NEW point \in {"mkdir", "loadLock"}, Submit(t, operation, point),
         \/ operation.op = "cas" /\ Derived(operation)
         \/ operation = Operation("load", operation.id, None, None)
  PROVE  Refines(i)
<1>1. /\ \A u \in Tasks : u # t => task'[u] = task[u]
      /\ task'[t].pc = point /\ task'[t].request = operation
      /\ visible'[i] = visible[i] /\ durable'[i] = durable[i]
      /\ task[t] = NoTask
  BY DEF Submit, Step, At, TypeOK, TaskRecords, files, StoreInv, TaskInv, RequestInv
<1>2. ~Mine(t, i) /\ ~Renames(t, i) /\ ~Renames(t, i)' /\ ~At(t, "done")'
  BY <1>1, FileStoreAssumption DEF Mine, Request, NoTask, Operation, Renames, At
<1>3. CASE operation.id # i
  <2>1. ~Mine(t, i)'
    BY <1>1, <1>3 DEF Mine, Request
  <2> QED
    BY <1>1, <1>2, <2>1, OtherReceipt
<1>4. CASE operation.id = i
  <2>1. Mine(t, i)' /\ Request(t)' = operation
    BY <1>1, <1>4 DEF Mine, Request
  <2>2. Stage(t, i)' = "pending" /\ Answered(t, i)' = NoReply
    BY <1>2, <2>1 DEF Stage, Answered
  <2>3. /\ Call(t, i)' = [op |-> operation.op, next |-> operation.next,
                          expected |-> operation.expected]
        /\ Call(t, i)' \in Store(i)!Requests
    <3>1. Call(t, i)' = [op |-> operation.op, next |-> operation.next,
                         expected |-> operation.expected]
      BY <2>1 DEF Call
    <3>2. CASE operation.op = "cas" /\ Derived(operation)
      <4>1. Store(i)!Receipts = Receipts /\ Store(i)!Revisions = Revisions
        BY DEF Store!Receipts, Receipts, Store!Revisions, Revisions, Store!Phases, Phases
      <4> QED
        BY <3>1, <3>2, <4>1, DerivedType DEF TypeOK, Store!Requests, Store!Writes
    <3>3. CASE operation = Operation("load", operation.id, None, None)
      BY <3>1, <3>3 DEF Store!Requests, Store!LoadRequest, Operation
    <3> QED
      BY <3>1, <3>2, <3>3
  <2>4. Stage(t, i) = "idle" /\ Answered(t, i) = NoReply
    BY <1>2 DEF Stage, Answered
  <2>5. /\ Survivor(i)' = Survivor(i) /\ LeftBehind(i)' = LeftBehind(i)
        /\ Stages(i)' = [Stages(i) EXCEPT ![t] = Stage(t, i)']
        /\ Calls(i)' = [Calls(i) EXCEPT ![t] = Call(t, i)']
        /\ Replies(i)' = [Replies(i) EXCEPT ![t] = Answered(t, i)']
    BY <1>1, <1>2, OneTaskStep
  <2>6. /\ Stages(i)[t] = "idle" /\ Replies(i)' = Replies(i)
        /\ (Calls(i)[t])' = Call(t, i)'
    BY <2>2, <2>4, <2>5, TaskSeen
  <2>7. Store(i)!Invoke(t, (Calls(i)[t])')
    BY <2>2, <2>4, <2>5, <2>6 DEF Store!Invoke
  <2> QED
    BY <2>3, <2>6, <2>7 DEF Refines, Store!StoreNext
<1> QED
  BY <1>3, <1>4

(* A slot that is empty has no part in the contract.                       *)
LEMMA EmptySlot ==
  ASSUME NEW i \in Ids, NEW t, task'[t] = NoTask
  PROVE  /\ ~Mine(t, i)' /\ ~Renames(t, i)' /\ Stage(t, i)' = "idle"
         /\ Call(t, i)' = Store(i)!NoRequest /\ Answered(t, i)' = Store(i)!NoAnswer
<1>1. ~Mine(t, i)' /\ ~Renames(t, i)'
  BY FileStoreAssumption DEF Mine, Request, NoTask, Operation, Renames
<1>2. Stage(t, i)' = "idle"
  BY <1>1 DEF Stage
<1>3. Call(t, i)' = [op |-> "none", next |-> None, expected |-> None]
      /\ Answered(t, i)' = NoReply
  BY <1>1, <1>2 DEF Call, Answered
<1> QED
  BY <1>1, <1>2, <1>3 DEF Store!NoRequest, Store!NoAnswer, NoReply, Reply

LEMMA ReturnStep ==
  ASSUME TypeOK, StoreInv, StoreInv', NEW i \in Ids, NEW t \in Tasks, Deliver(t)
  PROVE  Refines(i)
<1>1. /\ task'[t] = NoTask /\ \A u \in Tasks : u # t => task'[u] = task[u]
      /\ visible'[i] = visible[i] /\ durable'[i] = durable[i] /\ At(t, "done")
  BY DEF Deliver, files, TypeOK
<1>2. CASE ~Mine(t, i)
  BY <1>1, <1>2, EmptySlot, OtherReceipt
<1>3. CASE Mine(t, i)
  <2>1. Stage(t, i) = "answered" /\ ~Renames(t, i)
    BY <1>1, <1>3 DEF Stage, Renames, At
  <2>2. /\ Survivor(i)' = Survivor(i) /\ LeftBehind(i)' = LeftBehind(i)
        /\ Stages(i)[t] = "answered" /\ Stages(i)' = [Stages(i) EXCEPT ![t] = "idle"]
        /\ Calls(i)' = [Calls(i) EXCEPT ![t] = Store(i)!NoRequest]
        /\ Replies(i)' = [Replies(i) EXCEPT ![t] = Store(i)!NoAnswer]
    BY <1>1, <2>1, EmptySlot, OneTaskStep, TaskSeen
  <2>3. Store(i)!Return(t)
    BY <2>2 DEF Store!Return, Store!Hangup
  <2> QED
    BY <2>3 DEF Refines, Store!StoreNext
<1> QED
  BY <1>2, <1>3

(* A process is killed: a write that it has renamed may still commit.      *)
LEMMA KilledStep ==
  ASSUME TypeOK, StoreInv, StoreInv', NEW i \in Ids, NEW t \in Tasks, Kill(t)
  PROVE  Refines(i)
<1>1. /\ task'[t] = NoTask /\ \A u \in Tasks : u # t => task'[u] = task[u]
      /\ visible'[i] = visible[i] /\ durable'[i] = durable[i]
  BY DEF Kill, files, TypeOK
<1>2. /\ Survivor(i)' = Survivor(i)
      /\ Stages(i)' = [Stages(i) EXCEPT ![t] = "idle"]
      /\ Calls(i)' = [Calls(i) EXCEPT ![t] = Store(i)!NoRequest]
      /\ Replies(i)' = [Replies(i) EXCEPT ![t] = Store(i)!NoAnswer]
      /\ Stages(i)[t] = Stage(t, i) /\ Calls(i)[t] = Call(t, i)
  BY <1>1, EmptySlot, OneTaskStep, TaskSeen
<1>3. /\ Stages(i)' = [c \in Tasks |-> IF c \in {t} THEN "idle" ELSE Stages(i)[c]]
      /\ Calls(i)' = [c \in Tasks |-> IF c \in {t} THEN Store(i)!NoRequest ELSE Calls(i)[c]]
      /\ Replies(i)' = [c \in Tasks |-> IF c \in {t} THEN Store(i)!NoAnswer
                                        ELSE Replies(i)[c]]
  <2>1. Stages(i)' = [c \in Tasks |-> IF c \in {t} THEN "idle" ELSE Stages(i)[c]]
    BY <1>2, SlotsSeen
  <2>2. Calls(i)' = [c \in Tasks |-> IF c \in {t} THEN Store(i)!NoRequest ELSE Calls(i)[c]]
    BY <1>2, SlotsSeen
  <2>3. Replies(i)' =
          [c \in Tasks |-> IF c \in {t} THEN Store(i)!NoAnswer ELSE Replies(i)[c]]
    BY <1>2, SlotsSeen
  <2> QED
    BY <2>1, <2>2, <2>3
<1>4. /\ (~Renames(t, i) /\ ~Renames(t, i)') \/ visible[i] = durable[i] =>
           LeftBehind(i)' = LeftBehind(i)
      /\ Renames(t, i) /\ ~Renames(t, i)' /\ visible[i] # durable[i] =>
           LeftBehind(i) = {} /\ LeftBehind(i)' = {AheadWrite(i)}
      /\ ~Renames(t, i)'
  BY <1>1, EmptySlot, OneTaskStep
<1>5. LeftBehind(i)' \subseteq LeftBehind(i) \cup Store(i)!UnfinishedWrites({t})
  <2>1. CASE Renames(t, i) /\ visible[i] # durable[i]
    <3>1. /\ Call(t, i) = AheadWrite(i) /\ AheadWrite(i).op = "cas"
          /\ Stage(t, i) = "pending"
      BY <2>1, AheadByOne DEF AheadWrite
    <3>2. AheadWrite(i) \in Store(i)!UnfinishedWrites({t})
      BY <1>2, <3>1 DEF Store!UnfinishedWrites
    <3> QED
      BY <1>4, <2>1, <3>2
  <2>2. CASE ~Renames(t, i) \/ visible[i] = durable[i]
    BY <1>4, <2>2
  <2> QED
    BY <2>1, <2>2
<1>6. Store(i)!Outage({t})
  BY <1>2, <1>3, <1>5 DEF Store!Outage
<1> QED
  BY <1>6 DEF Refines, Store!StoreNext

(* Power is lost: what was not durable never commits.                      *)
LEMMA PowerLossStep ==
  ASSUME TypeOK, StoreInv, StoreInv', NEW i \in Ids, PowerLoss
  PROVE  Refines(i)
<1>1. visible'[i] = durable'[i] /\ durable'[i] = durable[i]
  <2>1. dir # "durable" => durable[i] = NoFile
    BY DEF StoreInv, FilesInv
  <2>2. Surviving(durable[i]) = durable[i]
    BY WholeFileFacts DEF StoreInv, FilesInv
  <2> QED
    BY <2>1, <2>2 DEF PowerLoss
<1>2. LeftBehind(i)' = {} /\ Survivor(i)' = Survivor(i)
  BY <1>1, SurvivorsAreKept DEF LeftBehind, StoreInv
<1>3. \A t \in Tasks : task'[t] = NoTask
  BY DEF PowerLoss
<1>4. /\ Stages(i)' = [c \in Tasks |-> "idle"]
      /\ Calls(i)' = [c \in Tasks |-> Store(i)!NoRequest]
      /\ Replies(i)' = [c \in Tasks |-> Store(i)!NoAnswer]
  BY <1>3, EmptySlot DEF Stages, Calls, Replies
<1>5. Store(i)!Outage(Tasks)
  BY <1>2, <1>4 DEF Store!Outage
<1> QED
  BY <1>5 DEF Refines, Store!StoreNext

(* A rename is not yet a step of the contract: the write stays pending.    *)
LEMMA RenamedStep ==
  ASSUME TypeOK, StoreInv, StoreInv', NEW i \in Ids, NEW t \in Tasks, Rename(t)
  PROVE  Refines(i)
<1>1. /\ task[t].pc = "rename" /\ UNCHANGED <<dir, durable>>
      /\ \A u \in Tasks : u # t => task'[u] = task[u]
      /\ task'[t].pc = "syncDir" /\ task'[t].request = task[t].request
      /\ \A j \in Ids : j # Request(t).id => visible'[j] = visible[j]
  BY DEF Rename, Step, At, TypeOK, TaskRecords
<1>2. Mine(t, i)' <=> Mine(t, i)
  BY <1>1 DEF Mine, Request
<1>3. CASE ~Mine(t, i)
  BY <1>1, <1>2, <1>3, OtherReceipt DEF Mine
<1>4. CASE Mine(t, i)
  <2>1. visible[i] = durable[i] /\ Follows(i, durable[i].receipt, Request(t).next)
    BY <1>1, <1>4 DEF Mine, StoreInv, TaskInv, HolderInv, At
  <2>2. visible'[i].receipt = Request(t).next
    <3>1. i \in Ids /\ visible' = [visible EXCEPT ![i] = File(Request(t).next, task[t].temp = "synced")]
      BY <1>4 DEF Rename, Mine
    <3> QED
      BY <3>1 DEF TypeOK, File
  <2>3. visible'[i] # durable'[i]
    <3>1. /\ durable[i].receipt \in Receipts \cup {None}
          /\ durable[i].receipt # None => durable[i].receipt.id = i
      BY WholeFileFacts DEF StoreInv, FilesInv
    <3>2. \A r \in Receipts : r.revision \in Nat
      BY ReceiptAssumption DEF Receipts, Revisions
    <3>3. Request(t).next # durable[i].receipt
      BY <2>1, <3>1, <3>2, FollowsNext
    <3> QED
      BY <1>1, <2>2, <3>3
  <2>4. Renames(t, i)' /\ ~Renames(t, i)
    BY <1>1, <1>2, <1>4 DEF Renames
  <2>5. \A u \in Tasks : u # t => ~Renames(u, i)' /\ ~Renames(u, i)
    <3>1. \A u \in Tasks : u # t => ~Renames(u, i)'
      <4>1. ASSUME NEW u \in Tasks, u # t, Renames(u, i)'
            PROVE  FALSE
        <5>1. Renames(u, i) /\ lock'[i] = t /\ lock'[i] = u
          BY <1>1, <2>4, <4>1 DEF StoreInv, TaskInv, HolderInv, Holds, Renames, Mine, Working, Request
        <5> QED
          BY <4>1, <5>1
      <4> QED
        BY <4>1
    <3> QED
      BY <1>1, <3>1 DEF Renames, Mine, Request
  <2>6. \A u \in Tasks : /\ Stage(u, i)' = Stage(u, i) /\ Call(u, i)' = Call(u, i)
                         /\ Answered(u, i)' = Answered(u, i)
    <3>1. ASSUME NEW u \in Tasks, u # t
          PROVE  /\ Stage(u, i)' = Stage(u, i) /\ Call(u, i)' = Call(u, i)
                 /\ Answered(u, i)' = Answered(u, i)
      BY <1>1, <2>5, <3>1, SteadyTask, SteadyCall, FileStoreAssumption
    <3>2. Stage(t, i)' = "pending" /\ Stage(t, i) = "pending"
      BY <1>1, <1>2, <1>4, <2>3, <2>4 DEF Stage, At
    <3>3. Call(t, i)' = Call(t, i) /\ Answered(t, i)' = Answered(t, i)
      BY <1>1, <1>2, <1>4, <3>2 DEF Call, Answered, Request
    <3> QED
      BY <3>1, <3>2, <3>3
  <2>7. Stages(i)' = Stages(i) /\ Calls(i)' = Calls(i) /\ Replies(i)' = Replies(i)
    BY <2>6 DEF Stages, Calls, Replies
  <2>8. LeftBehind(i)' = {} /\ LeftBehind(i) = {}
    BY <2>1, <2>4 DEF LeftBehind
  <2>9. Survivor(i)' = Survivor(i)
    BY <1>1, SurvivorsAreKept DEF StoreInv
  <2> QED
    BY <2>7, <2>8, <2>9 DEF Refines, Store!storeVars
<1> QED
  BY <1>3, <1>4

-----------------------------------------------------------------------------
(* Every step *)

(* A task moves on; its request, its answer and what it has renamed stay.  *)
LEMMA MovedStep ==
  ASSUME TypeOK, StoreInv, StoreInv', NEW i \in Ids, NEW t \in Tasks,
         \A u \in Tasks : u # t => task'[u] = task[u],
         task'[t].request = task[t].request, task'[t].result = task[t].result,
         At(t, "done")' <=> At(t, "done"), Renames(t, i)' <=> Renames(t, i),
         visible'[i] = visible[i], durable'[i] \in {durable[i], visible[i]}
  PROVE  Refines(i)
<1>1. Steady(t, i)
  BY DEF Steady, Request
<1>2. \A u \in Tasks : Steady(u, i)
  BY <1>1, SteadyTask
<1> QED
  BY <1>2, EntryStep

(* The same for a task that moves from one system call to the next.        *)
LEMMA PointStep ==
  ASSUME TypeOK, StoreInv, StoreInv', NEW i \in Ids, NEW t \in Tasks,
         NEW from, NEW after, Step(t, from, after),
         after.request = task[t].request, after.result = task[t].result,
         from # "done", after.pc # "done",
         from \in {"syncDir", "return"} <=> after.pc \in {"syncDir", "return"},
         visible'[i] = visible[i], durable'[i] \in {durable[i], visible[i]}
  PROVE  Refines(i)
<1>1. /\ \A u \in Tasks : u # t => task'[u] = task[u]
      /\ task'[t] = after /\ task[t].pc = from
  BY DEF Step, At, TypeOK
<1>2. At(t, "done")' <=> At(t, "done")
  BY <1>1 DEF At
<1>3. Renames(t, i)' <=> Renames(t, i)
  BY <1>1 DEF Renames, Mine, Request
<1> QED
  BY <1>1, <1>2, <1>3, MovedStep

(* A task of another receipt is done.                                      *)
LEMMA OtherFinish ==
  ASSUME TypeOK, StoreInv, StoreInv', NEW i \in Ids, NEW t \in Tasks, ~Mine(t, i),
         NEW kind, NEW receipt, Finish(t, kind, receipt),
         visible'[i] = visible[i], durable'[i] \in {durable[i], visible[i]}
  PROVE  Refines(i)
<1>1. /\ \A u \in Tasks : u # t => task'[u] = task[u]
      /\ task'[t].request = task[t].request
  BY DEF Finish, TypeOK, TaskRecords
<1>2. ~Mine(t, i)'
  BY <1>1 DEF Mine, Request
<1> QED
  BY <1>1, <1>2, OtherReceipt

(* Busy or TooLarge, whichever the receipt.                                *)
LEMMA RefusalStep ==
  ASSUME TypeOK, StoreInv, StoreInv', NEW i \in Ids, NEW t \in Tasks,
         task[t].pc \notin {"idle", "done", "syncDir", "return"},
         NEW kind \in {"busy", "too_large"}, Finish(t, kind, None), UNCHANGED files
  PROVE  Refines(i)
<1>1. visible'[i] = visible[i] /\ durable'[i] = durable[i]
  BY DEF files
<1> QED
  BY <1>1, RefusedStep, OtherFinish

LEMMA AcquireStep ==
  ASSUME TypeOK, StoreInv, StoreInv', NEW i \in Ids, NEW t \in Tasks,
         \/ Acquire(t, "lock", "check")
         \/ Acquire(t, "loadLock", "read"),
         UNCHANGED files
  PROVE  Refines(i)
<1>1. PICK from \in {"lock", "loadLock"}, to \in {"check", "read"} : Acquire(t, from, to)
  OBVIOUS
<1>2. task[t].pc = from /\ visible' = visible /\ durable' = durable
  BY <1>1 DEF Acquire, At, files
<1>3. CASE Step(t, from, [task[t] EXCEPT !.pc = to])
  <2>1. /\ [task[t] EXCEPT !.pc = to].pc = to
        /\ [task[t] EXCEPT !.pc = to].request = task[t].request
        /\ [task[t] EXCEPT !.pc = to].result = task[t].result
    BY DEF TypeOK, TaskRecords
  <2> QED
    BY <1>2, <1>3, <2>1, PointStep
<1>4. CASE Finish(t, "busy", None)
  BY <1>2, <1>4, RefusalStep
<1> QED
  BY <1>1, <1>3, <1>4 DEF Acquire

(* System calls that the contract does not see, and those that make        *)
(* entries durable.                                                        *)
LEMMA QuietStep ==
  ASSUME TypeOK, StoreInv, StoreInv', NEW i \in Ids, NEW t \in Tasks,
         MakeDir(t) \/ SyncLeaf(t) \/ WriteTemp(t) \/ SyncTemp(t) \/ SyncDir(t)
  PROVE  Refines(i)
<1>1. CASE MakeDir(t)
  <2> DEFINE after == [task[t] EXCEPT !.pc = "syncLeaf"]
  <2>1. CASE Step(t, "mkdir", after) /\ UNCHANGED <<visible, durable>>
    <3>1. /\ after.pc = "syncLeaf" /\ after.request = task[t].request
          /\ after.result = task[t].result
      BY DEF TypeOK, TaskRecords
    <3> HIDE DEF after
    <3> QED
      BY <2>1, <3>1, PointStep
  <2>2. CASE At(t, "mkdir") /\ Finish(t, "too_large", None) /\ UNCHANGED files
    BY <2>2, RefusalStep DEF At
  <2> QED
    BY <1>1, <2>1, <2>2 DEF MakeDir
<1>2. CASE SyncLeaf(t)
  <2>1. visible'[i] = visible[i] /\ durable'[i] = visible[i]
    BY <1>2 DEF SyncLeaf, SyncEntries
  <2> DEFINE after == [task[t] EXCEPT !.pc = "syncParents"]
  <2>2. Step(t, "syncLeaf", after)
    BY <1>2 DEF SyncLeaf
  <2>3. /\ after.pc = "syncParents" /\ after.request = task[t].request
        /\ after.result = task[t].result
    BY DEF TypeOK, TaskRecords
  <2> HIDE DEF after
  <2> QED
    BY <2>1, <2>2, <2>3, PointStep
<1>3. CASE WriteTemp(t)
  <2>1. visible' = visible /\ durable' = durable
    BY <1>3 DEF WriteTemp, files
  <2> DEFINE after == [task[t] EXCEPT !.pc = "syncTemp", !.temp = "written"]
  <2>2. Step(t, "temp", after)
    BY <1>3 DEF WriteTemp
  <2>3. /\ after.pc = "syncTemp" /\ after.request = task[t].request
        /\ after.result = task[t].result
    BY DEF TypeOK, TaskRecords
  <2> HIDE DEF after
  <2> QED
    BY <2>1, <2>2, <2>3, PointStep
<1>4. CASE SyncTemp(t)
  <2>1. visible' = visible /\ durable' = durable
    BY <1>4 DEF SyncTemp, files
  <2> DEFINE after == [task[t] EXCEPT !.pc = "rename", !.temp = "synced"]
  <2>2. Step(t, "syncTemp", after)
    BY <1>4 DEF SyncTemp
  <2>3. /\ after.pc = "rename" /\ after.request = task[t].request
        /\ after.result = task[t].result
    BY DEF TypeOK, TaskRecords
  <2> HIDE DEF after
  <2> QED
    BY <2>1, <2>2, <2>3, PointStep
<1>5. CASE SyncDir(t)
  <2>1. visible'[i] = visible[i] /\ durable'[i] = visible[i]
    BY <1>5 DEF SyncDir, SyncRename, SyncEntries
  <2> DEFINE after == [task[t] EXCEPT !.pc = "return"]
  <2>2. Step(t, "syncDir", after)
    BY <1>5 DEF SyncDir
  <2>3. /\ after.pc = "return" /\ after.request = task[t].request
        /\ after.result = task[t].result
    BY DEF TypeOK, TaskRecords
  <2> HIDE DEF after
  <2> QED
    BY <2>1, <2>2, <2>3, PointStep
<1> QED
  BY <1>1, <1>2, <1>3, <1>4, <1>5

(* A load that has synced what it read, a write that goes on.              *)
LEMMA SyncParentsStep ==
  ASSUME TypeOK, StoreInv, StoreInv', NEW i \in Ids, NEW t \in Tasks, SyncParents(t)
  PROVE  Refines(i)
<1>1. visible'[i] = visible[i] /\ durable'[i] = durable[i]
  BY DEF SyncParents, SyncDirectory
<1>2. CASE Request(t).op = "cas"
  <2> DEFINE after == [task[t] EXCEPT !.pc = "lock"]
  <2>1. Step(t, "syncParents", after)
    BY <1>2 DEF SyncParents
  <2>2. /\ after.pc = "lock" /\ after.request = task[t].request
        /\ after.result = task[t].result
    BY DEF TypeOK, TaskRecords
  <2> HIDE DEF after
  <2> QED
    BY <1>1, <2>1, <2>2, PointStep
<1>3. CASE Request(t).op # "cas"
  <2>1. At(t, "syncParents") /\ Finish(t, "ok", task[t].found)
    BY <1>3 DEF SyncParents
  <2>2. Request(t).op = "load" /\ Request(t).id \in Ids
    BY <1>3, <2>1 DEF TypeOK, TaskRecords, StoreInv, TaskInv, RequestInv, At, Request
  <2>3. task[t].found = Survivor(Request(t).id)
    BY <2>1, <2>2, SurvivorIsKept DEF StoreInv, TaskInv, HolderInv, At, Syncing
  <2>4. CASE Mine(t, i)
    BY <1>1, <2>1, <2>2, <2>3, <2>4, LoadedStep DEF Mine, At
  <2>5. CASE ~Mine(t, i)
    BY <1>1, <2>1, <2>5, OtherFinish
  <2> QED
    BY <2>4, <2>5
<1> QED
  BY <1>2, <1>3

LEMMA CheckStep ==
  ASSUME TypeOK, StoreInv, StoreInv', NEW i \in Ids, NEW t \in Tasks, Check(t)
  PROVE  Refines(i)
<1>1. At(t, "check") /\ UNCHANGED files /\ visible' = visible /\ durable' = durable
  BY DEF Check, files
<1>2. Request(t).id \in Ids
  BY <1>1, DerivedType DEF TypeOK, StoreInv, TaskInv, RequestInv, At, Working
<1>3. ReadResult(visible[Request(t).id], Request(t).id) = "ok"
  BY <1>2, WholeFileFacts DEF StoreInv, FilesInv
<1>4. CASE Fits(visible[Request(t).id].receipt, Request(t).next, Request(t).expected)
  <2> DEFINE after == [task[t] EXCEPT !.pc = "temp"]
  <2>1. Step(t, "check", after)
    BY <1>3, <1>4 DEF Check
  <2>2. /\ after.pc = "temp" /\ after.request = task[t].request
        /\ after.result = task[t].result
    BY DEF TypeOK, TaskRecords
  <2> HIDE DEF after
  <2> QED
    BY <1>1, <2>1, <2>2, PointStep
<1>5. CASE ~Fits(visible[Request(t).id].receipt, Request(t).next, Request(t).expected)
  <2>1. Finish(t, "conflict", None)
    BY <1>3, <1>5 DEF Check
  <2>2. CASE Mine(t, i)
    BY <1>1, <1>5, <2>1, <2>2, ConflictStep DEF Mine
  <2>3. CASE ~Mine(t, i)
    BY <1>1, <2>1, <2>3, OtherFinish
  <2> QED
    BY <2>2, <2>3
<1> QED
  BY <1>4, <1>5

LEMMA LoadLockStep ==
  ASSUME TypeOK, StoreInv, StoreInv', NEW i \in Ids, NEW t \in Tasks, LoadLock(t)
  PROVE  Refines(i)
<1>1. UNCHANGED files /\ visible' = visible /\ durable' = durable
  BY DEF LoadLock, files
<1>2. CASE dir = "absent"
  <2>1. At(t, "loadLock") /\ Finish(t, "ok", None)
    BY <1>2 DEF LoadLock
  <2>2. Request(t).op = "load"
    BY <2>1 DEF StoreInv, TaskInv, RequestInv, At, Loading
  <2>3. Survivor(i) = None
    BY <1>2 DEF Survivor
  <2>4. CASE Mine(t, i)
    BY <1>1, <2>1, <2>2, <2>3, <2>4, LoadedStep DEF At
  <2>5. CASE ~Mine(t, i)
    BY <1>1, <2>1, <2>5, OtherFinish
  <2> QED
    BY <2>4, <2>5
<1>3. CASE dir # "absent"
  BY <1>1, <1>3, AcquireStep DEF LoadLock
<1> QED
  BY <1>2, <1>3

LEMMA ReadStep ==
  ASSUME TypeOK, StoreInv, StoreInv', NEW i \in Ids, NEW t \in Tasks, Read(t)
  PROVE  Refines(i)
<1>1. At(t, "read") /\ visible' = visible /\ durable' = durable
  BY DEF Read, files
<1>2. Request(t).op = "load" /\ Request(t).id \in Ids
  BY <1>1 DEF StoreInv, TaskInv, RequestInv, At, Loading
<1>3. /\ ReadResult(visible[Request(t).id], Request(t).id) = "ok"
      /\ visible[Request(t).id] \in WholeFiles(Request(t).id)
  BY <1>2, WholeFileFacts DEF StoreInv, FilesInv
<1>4. CASE visible[Request(t).id] # NoFile
  <2> DEFINE after == [task[t] EXCEPT !.pc = "syncLeaf",
                                   !.found = visible[Request(t).id].receipt]
  <2>1. Step(t, "read", after)
    BY <1>3, <1>4 DEF Read, SyncsBefore
  <2>2. /\ after.pc = "syncLeaf" /\ after.request = task[t].request
        /\ after.result = task[t].result
    BY DEF TypeOK, TaskRecords
  <2> HIDE DEF after
  <2> QED
    BY <1>1, <2>1, <2>2, PointStep
<1>5. CASE visible[Request(t).id] = NoFile
  <2>1. Finish(t, "ok", None)
    BY <1>3, <1>5 DEF Read, SyncsBefore, NoFile
  <2>2. durable[Request(t).id] = NoFile
    <3>1. visible[Request(t).id] # durable[Request(t).id] =>
            Follows(Request(t).id, durable[Request(t).id].receipt, None)
      BY <1>2, <1>5 DEF StoreInv, FilesInv, NoFile
    <3>2. /\ durable[Request(t).id].receipt \in Receipts \cup {None}
          /\ durable[Request(t).id].receipt # None => durable[Request(t).id].receipt.id = Request(t).id
      BY <1>2, WholeFileFacts DEF StoreInv, FilesInv
    <3> QED
      BY <1>2, <1>5, <3>1, <3>2, FollowsNext
  <2>3. Survivor(Request(t).id) = None
    BY <1>2, <2>2, SurvivorIsKept DEF StoreInv, NoFile
  <2>4. CASE Mine(t, i)
    BY <1>1, <1>2, <2>1, <2>3, <2>4, LoadedStep DEF Mine, At
  <2>5. CASE ~Mine(t, i)
    BY <1>1, <2>1, <2>5, OtherFinish
  <2> QED
    BY <2>4, <2>5
<1> QED
  BY <1>4, <1>5

LEMMA TaskStepRefines ==
  ASSUME TypeOK, StoreInv, StoreInv', NEW i \in Ids, NEW t \in Tasks,
         TaskStep(t) \/ IoError(t) \/ Kill(t)
  PROVE  Refines(i)
<1>1. CASE Lock(t)
  BY <1>1, AcquireStep DEF Lock
<1>2. CASE Written(t)
  <2>1. visible' = visible /\ durable' = durable /\ At(t, "return") /\ Finish(t, "ok", None)
    BY <1>2 DEF Written, files
  <2> QED
    BY <1>2, <2>1, WrittenStep, OtherFinish
<1>3. CASE IoError(t)
  <2>1. visible' = visible /\ durable' = durable /\ Finish(t, "storage", None)
    BY <1>3 DEF IoError, files
  <2> QED
    BY <1>3, <2>1, ErrorStep, OtherFinish
<1>4. CASE MakeDir(t) \/ SyncLeaf(t) \/ WriteTemp(t) \/ SyncTemp(t) \/ SyncDir(t)
  BY <1>4, QuietStep
<1> QED
  BY <1>1, <1>2, <1>3, <1>4, SyncParentsStep, CheckStep, RenamedStep, LoadLockStep, ReadStep,
     KilledStep DEF TaskStep

LEMMA CallerStepRefines ==
  ASSUME TypeOK, StoreInv, StoreInv', NEW i \in Ids, NEW t \in Tasks, CallerStep(t)
  PROVE  Refines(i)
<1>1. CASE \E j \in Ids : StartLoad(t, j)
  <2>1. PICK j \in Ids : StartLoad(t, j)
    BY <1>1
  <2> DEFINE q == Operation("load", j, None, None)
  <2>2. Submit(t, q, "loadLock")
    BY <2>1 DEF StartLoad
  <2>3. q = Operation("load", q.id, None, None)
    BY DEF Operation
  <2> HIDE DEF q
  <2> QED
    BY <2>2, <2>3, InvokeStep
<1>2. CASE \E j \in Ids, plan \in Plans : StartCreate(t, j, plan)
  <2>1. PICK j \in Ids, plan \in Plans : StartCreate(t, j, plan)
    BY <1>2
  <2> DEFINE q == Operation("cas", j, FirstReceipt(j, plan), None)
  <2>2. Submit(t, q, "mkdir") /\ Derived(q)
    BY <2>1, DerivedWrite DEF StartCreate
  <2>3. q.op = "cas"
    BY DEF Operation
  <2> HIDE DEF q
  <2> QED
    BY <2>2, <2>3, InvokeStep
<1>3. CASE \E receipt \in exposed, transition \in Transitions :
             StartAdvance(t, receipt, transition)
  <2>1. PICK receipt \in exposed, transition \in Transitions :
          StartAdvance(t, receipt, transition)
    BY <1>3
  <2> DEFINE q == Operation("cas", receipt.id, NextReceipt(receipt, transition),
                            receipt.revision)
  <2>2. Submit(t, q, "mkdir") /\ Derived(q)
    BY <2>1, DerivedSuccessor DEF StartAdvance, TypeOK
  <2>3. q.op = "cas"
    BY DEF Operation
  <2> HIDE DEF q
  <2> QED
    BY <2>2, <2>3, InvokeStep
<1>4. CASE Cancel(t)
  <2>1. /\ \A u \in Tasks : u # t => task'[u] = task[u]
        /\ task'[t].pc = task[t].pc /\ task'[t].request = task[t].request
        /\ task'[t].result = task[t].result
        /\ visible' = visible /\ durable' = durable
    BY <1>4 DEF Cancel, files, TypeOK, TaskRecords
  <2>2. (At(t, "done")' <=> At(t, "done")) /\ (Renames(t, i)' <=> Renames(t, i))
    BY <2>1 DEF At, Renames, Mine, Request
  <2> QED
    BY <2>1, <2>2, MovedStep
<1> QED
  BY <1>1, <1>2, <1>3, <1>4, ReturnStep DEF CallerStep

LEMMA StepRefines ==
  ASSUME TypeOK, StoreInv, StoreInv', [Next]_vars, NEW i \in Ids
  PROVE  Refines(i)
<1>1. CASE UNCHANGED <<visible, task>> /\ durable'[i] \in {durable[i], visible[i]}
  <2>1. \A u \in Tasks : Steady(u, i)
    BY <1>1, SteadyTask
  <2> QED
    BY <1>1, <2>1, EntryStep
<1>2. CASE UNCHANGED vars
  BY <1>1, <1>2 DEF vars, files
<1>3. CASE Writeback
  <2>1. UNCHANGED <<visible, task>> /\ durable'[i] \in {durable[i], visible[i]}
    BY <1>3 DEF Writeback, TypeOK
  <2> QED
    BY <1>1, <2>1
<1> QED
  BY <1>2, <1>3, PowerLossStep, TaskStepRefines, CallerStepRefines DEF Next

(* With no file and no task, nothing is committed, pending or asked for.   *)
LEMMA StoreInitially ==
  ASSUME Init, NEW i \in Ids
  PROVE  Store(i)!StoreInit
BY FileStoreAssumption
   DEF Store!StoreInit, Init, Survivor, LeftBehind, Stage, Stages, Calls, Replies, Answered,
       Call, Mine, Request, Renames, At, Store!NoRequest, Store!NoAnswer, NoTask, Operation,
       NoReply, Reply, Surviving, NoFile, Torn

-----------------------------------------------------------------------------
(* The theorem *)

(* FileReceiptStore implements the contract of the trait ReceiptStore, for *)
(* every receipt: what is durable is committed, a write that was renamed   *)
(* and whose task failed or was killed may still commit, nothing else does *)
(* (load, compare_exchange).                                               *)
THEOREM ImplementsTheContract == Spec => KeepsTheContract
<1> DEFINE Starts == \A i \in Ids : Store(i)!StoreInit
           Steps == \A i \in Ids : Refines(i)
<1>1. Init => Starts
  BY StoreInitially
<1>2. (TypeOK /\ StoreInv) /\ (TypeOK /\ StoreInv)' /\ [Next]_vars => [Steps]_vars
  BY StepRefines
<1> HIDE DEF Starts, Steps
<1>3. Spec => Starts /\ [][Steps]_vars
  BY Invariants, <1>1, <1>2, PTL DEF Spec
<1> QED
  BY <1>3 DEF KeepsTheContract, Starts, Steps, Refines

=============================================================================
