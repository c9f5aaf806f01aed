--------------------------- MODULE FileReceiptStore ---------------------------
(***************************************************************************)
(* FileReceiptStore (src/src/handoff/file.rs): the ReceiptStore that keeps *)
(* one file per receipt in a directory of a local filesystem.  Every load  *)
(* and every compare_exchange is one task on Tokio's blocking pool, in any *)
(* process: dropping the caller's future does not stop it.  One action is  *)
(* one system call that other tasks, a kill or a power loss can observe.   *)
(*                                                                         *)
(* The filesystem has what tasks see (visible) and what a power loss       *)
(* leaves (durable).  Renames become durable by fsync of the directory or  *)
(* by themselves at any time; data that was not fsynced is torn by a power *)
(* loss.  A lock belongs to the task that took it and ends with it.        *)
(***************************************************************************)
EXTENDS HandoffReceipts

CONSTANTS
  Tasks,     \* slots of the blocking pools of all processes
  Size(_),   \* the length of a receipt as it is serialized
  MaxBytes   \* max_receipt_bytes

ASSUME FileStoreAssumption ==
  /\ None \notin Ids \cup Tasks \cup Receipts \cup Revisions
  /\ MaxBytes \in Nat
  /\ \A receipt \in Receipts : Size(receipt) \in Nat

VARIABLES
  dir,       \* the receipt directory: "absent", "made" or "durable"
  visible,   \* per id, the .json file as system calls see it
  durable,   \* per id, the directory entry a power loss leaves
  lock,      \* per id, the task that holds the lock file's OS lock
  task,      \* what each slot runs
  exposed    \* the receipts callers have been given

files == <<dir, visible, durable>>
vars == <<files, lock, task, exposed>>

NoFile == [state |-> "missing", receipt |-> None]
Torn == [state |-> "torn", receipt |-> None]
File(receipt, synced) ==
  [state |-> IF synced THEN "synced" ELSE "unsynced", receipt |-> receipt]
Files == {NoFile, Torn} \cup [state : {"synced", "unsynced"}, receipt : Receipts]

Operation(op, id, next, expected) ==
  [op |-> op, id |-> id, next |-> next, expected |-> expected]
Reply(kind, receipt) == [result |-> kind, receipt |-> receipt]
NoReply == Reply("none", None)

(* A task: the system call it is about to make, its operation, how far its *)
(* temporary file is, the receipt its load has read, what it answers when  *)
(* it is done, and whether its caller still awaits that.                   *)
NoTask ==
  [pc |-> "idle", request |-> Operation("none", None, None, None), temp |-> "none",
   found |-> None, result |-> NoReply, attended |-> FALSE]

TaskRecords ==
  [pc : {"idle", "mkdir", "syncLeaf", "syncParents", "lock", "check", "temp", "syncTemp",
         "rename", "syncDir", "return", "loadLock", "read", "done"},
   request : [op : {"none", "load", "cas"}, id : Ids \cup {None},
              next : Receipts \cup {None}, expected : Revisions \cup {None}],
   temp : {"none", "written", "synced"},
   found : Receipts \cup {None},
   result : [result : {"none", "ok", "conflict", "busy", "too_large", "corrupt", "storage"},
             receipt : Receipts \cup {None}],
   attended : BOOLEAN]

(* The shape of the directory, the locks and the tasks (handoff/file.rs).  *)
TypeOK ==
  /\ dir \in {"absent", "made", "durable"}
  /\ visible \in [Ids -> Files] /\ durable \in [Ids -> Files]
  /\ lock \in [Ids -> Tasks \cup {None}]
  /\ task \in [Tasks -> TaskRecords]
  /\ exposed \subseteq Receipts

Init ==
  /\ dir = "absent"
  /\ visible = [i \in Ids |-> NoFile]
  /\ durable = [i \in Ids |-> NoFile]
  /\ lock = [i \in Ids |-> None]
  /\ task = [t \in Tasks |-> NoTask]
  /\ exposed = {}

-----------------------------------------------------------------------------
(* Helpers *)

At(t, point) == task[t].pc = point
Request(t) == task[t].request

(* A step that only moves the task on.                                     *)
Step(t, from, after) ==
  /\ At(t, from)
  /\ task' = [task EXCEPT ![t] = after]
  /\ UNCHANGED exposed

Unlocked(t) == [i \in Ids |-> IF lock[i] = t THEN None ELSE lock[i]]

(* A bug: an error leaves the lock to the closing of the descriptor, which *)
(* an inherited copy of it keeps open.                                     *)
UnlockedOnOk(t, kind) == IF kind = "ok" THEN Unlocked(t) ELSE lock

(* ReceiptLock and TempPath are dropped however the function returns.      *)
LockAfter(t, kind) == Unlocked(t)

Finish(t, kind, receipt) ==
  /\ task' = [task EXCEPT ![t] =
       [@ EXCEPT !.pc = "done", !.result = Reply(kind, receipt), !.temp = "none",
                 !.found = None]]
  /\ lock' = LockAfter(t, kind)
  /\ UNCHANGED exposed

(* acquire_lock: try_lock, for a load as for a write.                      *)
Acquire(t, from, to) ==
  /\ At(t, from)
  /\ LET i == Request(t).id
     IN  IF lock[i] = None
         THEN Step(t, from, [task[t] EXCEPT !.pc = to]) /\ lock' = [lock EXCEPT ![i] = t]
         ELSE Finish(t, "busy", None)

(* fsync of the receipt directory: its entries are durable.                *)
SyncEntries == durable' = visible /\ UNCHANGED <<dir, visible>>

(* A bug: only the directory itself is synced, not its ancestors.          *)
SyncNoAncestors == UNCHANGED files

(* fsync of its ancestors: the directory itself is durable.                *)
SyncDirectory ==
  /\ dir' = IF dir = "made" THEN "durable" ELSE dir
  /\ UNCHANGED <<visible, durable>>

-----------------------------------------------------------------------------
(* Callers: the journal offers a first receipt, or the successor of a      *)
(* receipt it was given.                                                   *)

Submit(t, operation, point) ==
  /\ Step(t, "idle", [task[t] EXCEPT !.pc = point, !.request = operation, !.attended = TRUE])
  /\ UNCHANGED <<files, lock>>

StartLoad(t, i) == Submit(t, Operation("load", i, None, None), "loadLock")

StartCreate(t, i, plan) ==
  Submit(t, Operation("cas", i, FirstReceipt(i, plan), None), "mkdir")

StartAdvance(t, receipt, transition) ==
  /\ Accepts(receipt, transition)
  /\ Submit(t, Operation("cas", receipt.id, NextReceipt(receipt, transition),
                         receipt.revision), "mkdir")

(* The caller's future is dropped; the blocking task runs on.              *)
Cancel(t) ==
  /\ task[t].attended
  /\ task' = [task EXCEPT ![t].attended = FALSE]
  /\ UNCHANGED <<files, lock, exposed>>

(* The task ends; a caller that still waits gets its answer.               *)
Given(t) ==
  IF ~task[t].attended \/ task[t].result.result # "ok" THEN {}
  ELSE {IF Request(t).op = "cas" THEN Request(t).next ELSE task[t].result.receipt} \ {None}

Deliver(t) ==
  /\ At(t, "done")
  /\ exposed' = exposed \cup Given(t)
  /\ task' = [task EXCEPT ![t] = NoTask]
  /\ UNCHANGED <<files, lock>>

-----------------------------------------------------------------------------
(* write *)

(* A bug: a receipt may be one byte longer than what a read takes.         *)
WritableByOne(receipt) == Size(receipt) <= MaxBytes + 1

Writable(receipt) == Size(receipt) <= MaxBytes

(* A receipt that is too long is refused before anything is touched.       *)
MakeDir(t) ==
  \/ /\ Step(t, "mkdir", [task[t] EXCEPT !.pc = "syncLeaf"])
     /\ Writable(Request(t).next)
     /\ dir' = IF dir = "absent" THEN "made" ELSE dir
     /\ UNCHANGED <<visible, durable, lock>>
  \/ /\ At(t, "mkdir") /\ ~Writable(Request(t).next)
     /\ Finish(t, "too_large", None)
     /\ UNCHANGED files

(* sync_ancestors, from the directory up to the root; a load that has read *)
(* a receipt returns it then, a write goes on to its lock.                 *)
SyncLeaf(t) ==
  /\ Step(t, "syncLeaf", [task[t] EXCEPT !.pc = "syncParents"])
  /\ SyncEntries
  /\ UNCHANGED lock

SyncParents(t) ==
  /\ IF Request(t).op = "cas"
     THEN Step(t, "syncParents", [task[t] EXCEPT !.pc = "lock"]) /\ UNCHANGED lock
     ELSE At(t, "syncParents") /\ Finish(t, "ok", task[t].found)
  /\ SyncDirectory

Lock(t) == Acquire(t, "lock", "check") /\ UNCHANGED files

(* A bug: a receipt is inserted or replaced whatever is there.             *)
FitsAny(current, next, expected) == TRUE

(* The receipt in place has the expected revision, the same plan, and is   *)
(* the one before the receipt to be written.                               *)
Fits(current, next, expected) ==
  IF current = None
  THEN expected = None /\ next.revision = 0 /\ next.phase = "Prepared"
  ELSE /\ current.revision = expected
       /\ current.plan = next.plan
       /\ current.revision < MaxRevision
       /\ current.revision + 1 = next.revision

(* read: the length of the file, then its content, which must be a valid   *)
(* receipt of the identifier.                                              *)
ReadResult(file, i) ==
  IF file.receipt = None THEN IF file = NoFile THEN "ok" ELSE "corrupt"
  ELSE IF Size(file.receipt) > MaxBytes THEN "too_large"
  ELSE IF ValidReceipt(file.receipt) /\ file.receipt.id = i THEN "ok"
  ELSE "corrupt"

Check(t) ==
  /\ At(t, "check")
  /\ LET q == Request(t)
         answer == ReadResult(visible[q.id], q.id)
     IN  IF answer = "ok" /\ Fits(visible[q.id].receipt, q.next, q.expected)
         THEN Step(t, "check", [task[t] EXCEPT !.pc = "temp"]) /\ UNCHANGED lock
         ELSE Finish(t, IF answer = "ok" THEN "conflict" ELSE answer, None)
  /\ UNCHANGED files

WriteTemp(t) ==
  /\ Step(t, "temp", [task[t] EXCEPT !.pc = "syncTemp", !.temp = "written"])
  /\ UNCHANGED <<files, lock>>

SyncTemp(t) ==
  /\ Step(t, "syncTemp", [task[t] EXCEPT !.pc = "rename", !.temp = "synced"])
  /\ UNCHANGED <<files, lock>>

(* The receipt replaces the file atomically, as far as tasks can see.      *)
Rename(t) ==
  /\ Step(t, "rename", [task[t] EXCEPT !.pc = "syncDir", !.temp = "none"])
  /\ visible' = [visible EXCEPT ![Request(t).id] =
                   File(Request(t).next, task[t].temp = "synced")]
  /\ UNCHANGED <<dir, durable, lock>>

(* A bug: Ok is returned without fsync of the directory.                   *)
SyncNothing == UNCHANGED files
SyncRename == SyncEntries

SyncDir(t) ==
  /\ Step(t, "syncDir", [task[t] EXCEPT !.pc = "return"])
  /\ SyncRename
  /\ UNCHANGED lock

Written(t) ==
  /\ At(t, "return")
  /\ Finish(t, "ok", None)
  /\ UNCHANGED files

-----------------------------------------------------------------------------
(* load_committed *)

(* Without the directory the lock file cannot be created: no receipt.      *)
LoadLock(t) ==
  /\ IF dir = "absent"
     THEN At(t, "loadLock") /\ Finish(t, "ok", None)
     ELSE Acquire(t, "loadLock", "read")
  /\ UNCHANGED files

(* A bug: what was read is returned without making it durable first.       *)
SyncsBeforeNever(file) == FALSE
SyncsBefore(file) == file # NoFile

Read(t) ==
  /\ At(t, "read")
  /\ LET file == visible[Request(t).id]
         answer == ReadResult(file, Request(t).id)
     IN  IF answer = "ok" /\ SyncsBefore(file)
         THEN Step(t, "read", [task[t] EXCEPT !.pc = "syncLeaf", !.found = file.receipt]) /\ UNCHANGED lock
         ELSE Finish(t, answer, file.receipt)
  /\ UNCHANGED files

-----------------------------------------------------------------------------
(* Failures *)

(* Any system call may fail, before or after a rename.                     *)
IoError(t) ==
  /\ task[t].pc \notin {"idle", "done"}
  /\ Finish(t, "storage", None)
  /\ UNCHANGED files

(* The process of a task is killed: the system keeps its files as they are *)
(* and releases its lock.                                                  *)
Kill(t) ==
  /\ ~At(t, "idle")
  /\ task' = [task EXCEPT ![t] = NoTask]
  /\ lock' = Unlocked(t)
  /\ UNCHANGED <<files, exposed>>

(* The system writes directory entries back when it likes.                 *)
Writeback ==
  /\ \/ \E i \in Ids :
          /\ durable[i] # visible[i]
          /\ durable' = [durable EXCEPT ![i] = visible[i]]
          /\ UNCHANGED dir
     \/ /\ dir = "made"
        /\ dir' = "durable"
        /\ UNCHANGED durable
  /\ UNCHANGED <<visible, lock, task, exposed>>

Surviving(file) == IF file.state = "unsynced" THEN Torn ELSE file

(* Power loss: every process ends, only what is durable is left.           *)
PowerLoss ==
  /\ dir' = IF dir = "durable" THEN dir ELSE "absent"
  /\ visible' = [i \in Ids |-> IF dir = "durable" THEN Surviving(durable[i]) ELSE NoFile]
  /\ durable' = visible'
  /\ lock' = [i \in Ids |-> None]
  /\ task' = [t \in Tasks |-> NoTask]
  /\ UNCHANGED exposed

-----------------------------------------------------------------------------
TaskStep(t) ==
  \/ MakeDir(t) \/ SyncLeaf(t) \/ SyncParents(t) \/ Lock(t) \/ Check(t)
  \/ WriteTemp(t) \/ SyncTemp(t) \/ Rename(t) \/ SyncDir(t) \/ Written(t)
  \/ LoadLock(t) \/ Read(t)

CallerStep(t) ==
  \/ \E i \in Ids : StartLoad(t, i) \/ \E plan \in Plans : StartCreate(t, i, plan)
  \/ \E receipt \in exposed, transition \in Transitions :
       StartAdvance(t, receipt, transition)
  \/ Cancel(t)
  \/ Deliver(t)

Next ==
  \/ \E t \in Tasks : CallerStep(t) \/ TaskStep(t) \/ IoError(t) \/ Kill(t)
  \/ Writeback
  \/ PowerLoss

Spec == Init /\ [][Next]_vars

(* The blocking pool runs every task to its end.                           *)
Fairness == \A t \in Tasks : WF_vars(TaskStep(t))
FairSpec == Spec /\ Fairness

-----------------------------------------------------------------------------
(* Properties *)

(* The receipt a power loss would leave.                                   *)
Survivor(i) == IF dir = "durable" THEN Surviving(durable[i]).receipt ELSE None

(* What a caller has been told, or is about to be told, survives a power   *)
(* loss: no receipt is handed out, and no write acknowledged, before it is *)
(* durable, whoever renamed it into place and died (load_committed syncs   *)
(* before it returns, write before it answers).                            *)
Told == exposed \cup UNION {Given(t) : t \in {u \in Tasks : At(u, "done")}}
ToldIsDurable ==
  \A r \in Told :
    /\ Survivor(r.id) # None
    /\ r.revision <= Survivor(r.id).revision
    /\ r.revision = Survivor(r.id).revision => r = Survivor(r.id)

(* What the store accepted it can always read again: no crash leaves a     *)
(* torn file, and TooLarge is answered only to a write that would itself   *)
(* have exceeded the limit, never by a receipt that is there (write checks *)
(* the length and syncs before the rename, read checks both).              *)
NeverUnreadable ==
  \A t \in Tasks :
    /\ task[t].result.result # "corrupt"
    /\ task[t].result.result = "too_large" =>
         Request(t).op = "cas" /\ Size(Request(t).next) > MaxBytes

(* What survives changes only as the journal means it to: a first receipt, *)
(* then legal successors, never back and never skipping one, through       *)
(* kills, failed syncs and power losses.                                   *)
DurableHistory ==
  [][\A i \in Ids :
       Survivor(i)' # Survivor(i) =>
         \/ Survivor(i) = None /\ \E plan \in Plans : Survivor(i)' = FirstReceipt(i, plan)
         \/ Survivor(i) # None /\ Succeeds(Survivor(i), Survivor(i)')]_vars

(* Of all writes of one revision at most one is acknowledged: when a write *)
(* returns Ok nobody has been told of a receipt of its revision before,    *)
(* also after kills and power losses (write: lock, check, rename).         *)
OneWriterWins ==
  [][\A t \in Tasks :
       At(t, "return") /\ At(t, "done")' /\ task'[t].result.result = "ok" =>
         \A r \in Told : r.id = Request(t).id =>
           r.revision < Request(t).next.revision]_vars

(* The lock of a receipt does not stay taken.                              *)
LockIsFreed == \A i \in Ids : []<>(lock[i] = None)

=============================================================================
