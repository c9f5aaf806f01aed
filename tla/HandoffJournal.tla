---------------------------- MODULE HandoffJournal ----------------------------
(***************************************************************************)
(* HandoffJournal (src/src/handoff/mod.rs) used by several controllers of  *)
(* one handoff over a store that keeps the contract of ReceiptStore.       *)
(*                                                                         *)
(* A controller runs one journal call at a time: create, load, advance, or *)
(* run_step (capture_with, restore_with, start_with), which is a begin     *)
(* transition, the application's callback and a confirmation.  Its future  *)
(* may be dropped at any await and its process may crash; the external     *)
(* action the callback stands for then goes on by itself.                  *)
(***************************************************************************)
EXTENDS ReceiptStore, Integers, FiniteSets

CONSTANT
  VerifiedReconcile  \* TRUE: applications keep the condition documented at
                     \* ReconcileNotApplied.  FALSE: they reconcile at will.
                     \* They never confirm what they have not seen done.

ASSUME JournalAssumption == VerifiedReconcile \in BOOLEAN

VARIABLES
  pc,       \* the await a controller is at, "idle" between calls
  held,     \* the receipt its application got last, None if it has none
  wanted,   \* the plan of the create it runs, None otherwise
  pending,  \* the begin receipt of the run_step it runs, None otherwise
  effect    \* per begin revision, what became of the external action

journalVars == <<pc, held, wanted, pending, effect>>
vars == <<committed, ambiguous, stage, request, answer,
          pc, held, wanted, pending, effect>>

Points == {"idle", "create", "reopen", "load", "begin", "acting", "confirm", "advance"}
Effects == {"none", "running", "applied", "failed"}

(* The controllers are where run_step, create and load can be, hold valid  *)
(* receipts, and a revision never passes its maximum (handoff/mod.rs).     *)
TypeOK ==
  /\ StoreTypeOK
  /\ pc \in [Callers -> Points]
  /\ held \in [Callers -> Receipts \cup {None}]
  /\ wanted \in [Callers -> Plans \cup {None}]
  /\ pending \in [Callers -> Receipts \cup {None}]
  /\ effect \in [Revisions -> Effects]

Init ==
  /\ StoreInit
  /\ pc = [c \in Callers |-> "idle"]
  /\ held = [c \in Callers |-> None]
  /\ wanted = [c \in Callers |-> None]
  /\ pending = [c \in Callers |-> None]
  /\ effect = [v \in Revisions |-> "none"]

-----------------------------------------------------------------------------
(* Helpers *)

Goto(c, point) == pc' = [pc EXCEPT ![c] = point]
Hold(c, receipt) == held' = [held EXCEPT ![c] = receipt]

CompareExchange(next, expected) == [op |-> "cas", next |-> next, expected |-> expected]

Answered(c, point, result) ==
  /\ pc[c] = point
  /\ stage[c] = "answered"
  /\ answer[c].result = result

(* What the external action of begin revision v came to, as far as anyone  *)
(* can find out: nobody can start it any more and it is not running.       *)
Settled(v) ==
  /\ effect[v] # "running"
  /\ \A c \in Callers :
       ~ /\ pc[c] = "begin"
         /\ stage[c] \in {"applied", "answered"}
         /\ request[c].next.revision = v

(* What the documentation asks of an application before it advances an     *)
(* in-flight receipt by hand: a confirmation only for an action found to   *)
(* have completed, ReconcileNotApplied only for one that has not happened  *)
(* and cannot happen any more.                                             *)
Verified(receipt, t) ==
  CASE t.kind \in Confirmations -> effect[receipt.revision] = "applied"
    [] t.kind = "ReconcileNotApplied" ->
         VerifiedReconcile =>
           /\ Settled(receipt.revision)
           /\ effect[receipt.revision] # "applied"
    [] OTHER -> TRUE

-----------------------------------------------------------------------------
(* create *)

(* The identifier and the plan are valid: insert the first receipt.        *)
Create(c, plan) ==
  /\ pc[c] = "idle"
  /\ plan # Blank
  /\ Invoke(c, CompareExchange(FirstReceipt(Id, plan), None))
  /\ wanted' = [wanted EXCEPT ![c] = plan]
  /\ Goto(c, "create")
  /\ UNCHANGED <<held, pending, effect>>

CreateInserted(c) ==
  /\ Answered(c, "create", "ok")
  /\ Hold(c, request[c].next)
  /\ wanted' = [wanted EXCEPT ![c] = None]
  /\ Return(c)
  /\ Goto(c, "idle")
  /\ UNCHANGED <<pending, effect>>

(* Conflict: somebody was first, load what is there.                       *)
CreateExists(c) ==
  /\ Answered(c, "create", "conflict")
  /\ Reinvoke(c, LoadRequest)
  /\ Goto(c, "reopen")
  /\ UNCHANGED <<held, wanted, pending, effect>>

(* A bug: a receipt that needs reconciliation is not handed out.           *)
LoadableIfSettled(receipt) ==
  /\ receipt # None /\ ValidReceipt(receipt) /\ receipt.id = Id
  /\ receipt.phase \notin InFlight

(* The checks load makes on the receipt the store hands out.               *)
Loadable(receipt) == receipt # None /\ ValidReceipt(receipt) /\ receipt.id = Id

(* A bug: any receipt that exists is returned, whatever its plan.          *)
ReopensAny(receipt, plan) == Loadable(receipt)

(* create returns the receipt it found: the plan is the one asked for.     *)
Reopens(receipt, plan) == Loadable(receipt) /\ receipt.plan = plan

CreateReopened(c) ==
  /\ Answered(c, "reopen", "ok")
  /\ Reopens(answer[c].receipt, wanted[c])
  /\ Hold(c, answer[c].receipt)
  /\ wanted' = [wanted EXCEPT ![c] = None]
  /\ Return(c)
  /\ Goto(c, "idle")
  /\ UNCHANGED <<pending, effect>>

(* Every other answer is the caller's error: PlanMismatch, NotFound,       *)
(* Corrupt, Busy, TooLarge or Storage.  Its application keeps what it held.*)
CreateFailed(c) ==
  /\ stage[c] = "answered"
  /\ \/ pc[c] = "create" /\ answer[c].result \in {"refused", "storage"}
     \/ pc[c] = "reopen" /\ answer[c].result # "ok"
     \/ pc[c] = "reopen" /\ ~Reopens(answer[c].receipt, wanted[c])
  /\ wanted' = [wanted EXCEPT ![c] = None]
  /\ Return(c)
  /\ Goto(c, "idle")
  /\ UNCHANGED <<held, pending, effect>>

-----------------------------------------------------------------------------
(* load *)

Load(c) ==
  /\ pc[c] = "idle"
  /\ Invoke(c, LoadRequest)
  /\ Goto(c, "load")
  /\ UNCHANGED <<held, wanted, pending, effect>>

Loaded(c) ==
  /\ Answered(c, "load", "ok")
  /\ Loadable(answer[c].receipt)
  /\ Hold(c, answer[c].receipt)
  /\ Return(c)
  /\ Goto(c, "idle")
  /\ UNCHANGED <<wanted, pending, effect>>

(* NotFound, Corrupt, Busy or Storage.                                     *)
LoadFailed(c) ==
  /\ pc[c] = "load"
  /\ stage[c] = "answered"
  /\ answer[c].result = "ok" => ~Loadable(answer[c].receipt)
  /\ Return(c)
  /\ Goto(c, "idle")
  /\ UNCHANGED <<held, wanted, pending, effect>>

-----------------------------------------------------------------------------
(* advance: from `point`, of `receipt` by `t`.                             *)

(* The write advance asks of the store.                                    *)
AdvanceWrite(receipt, next) == CompareExchange(next, receipt.revision)

Advance(c, receipt, t, point) ==
  /\ Accepts(receipt, t)
  /\ Invoke(c, AdvanceWrite(receipt, NextReceipt(receipt, t)))
  /\ Goto(c, point)

(* The application calls advance itself, to confirm or to reconcile.  An   *)
(* explicit begin followed by the action is StepWith.                      *)
AdvanceByHand(c, t) ==
  /\ pc[c] = "idle"
  /\ held[c] # None
  /\ t.kind \notin Begins
  /\ Advance(c, held[c], t, "advance")
  /\ Verified(held[c], t)
  /\ UNCHANGED <<held, wanted, pending, effect>>

Advanced(c) ==
  /\ Answered(c, "advance", "ok")
  /\ Hold(c, request[c].next)
  /\ Return(c)
  /\ Goto(c, "idle")
  /\ UNCHANGED <<wanted, pending, effect>>

-----------------------------------------------------------------------------
(* run_step *)

(* capture_with, restore_with or start_with: commit the begin receipt.     *)
StepWith(c, t) ==
  /\ pc[c] = "idle"
  /\ held[c] # None
  /\ t.kind \in Begins
  /\ Advance(c, held[c], t, "begin")
  /\ UNCHANGED <<held, wanted, pending, effect>>

(* A bug: the callback runs although the begin write was not acknowledged. *)
GrantedUnlessConflict(c) ==
  pc[c] = "begin" /\ stage[c] = "answered" /\ answer[c].result # "conflict"

(* The begin write was acknowledged: the caller may act, once.             *)
Granted(c) == Answered(c, "begin", "ok")

(* The callback is invoked with the begin receipt.                         *)
Launch(c) ==
  /\ Granted(c)
  /\ pending' = [pending EXCEPT ![c] = request[c].next]
  /\ effect' = [effect EXCEPT ![request[c].next.revision] = "running"]
  /\ Return(c)
  /\ Goto(c, "acting")
  /\ UNCHANGED <<held, wanted>>

(* The callback returns Ok after its action has been done; a blank text it *)
(* returns is refused by next() and ends the call (StepFailed).            *)
CallbackOk(c, t) ==
  /\ pc[c] = "acting"
  /\ effect[pending[c].revision] = "applied"
  /\ t.kind \in Confirmations
  /\ Advance(c, pending[c], t, "confirm")
  /\ UNCHANGED <<held, wanted, pending, effect>>

Confirmed(c) ==
  /\ Answered(c, "confirm", "ok")
  /\ Hold(c, request[c].next)
  /\ pending' = [pending EXCEPT ![c] = None]
  /\ Return(c)
  /\ Goto(c, "idle")
  /\ UNCHANGED <<wanted, effect>>

(* The callback returns an error (whatever its action came to) or a blank  *)
(* text: the receipt stays in flight.                                      *)
CallbackFailed(c) ==
  /\ pc[c] = "acting"
  /\ pending' = [pending EXCEPT ![c] = None]
  /\ Goto(c, "idle")
  /\ UNCHANGED <<committed, ambiguous, stage, request, answer, held, wanted, effect>>

(* A write of advance or run_step is answered by an error.                 *)
AdvanceFailed(c) ==
  /\ pc[c] \in {"begin", "confirm", "advance"}
  /\ stage[c] = "answered"
  /\ answer[c].result # "ok"
  /\ pending' = [pending EXCEPT ![c] = None]
  /\ Return(c)
  /\ Goto(c, "idle")
  /\ UNCHANGED <<held, wanted, effect>>

-----------------------------------------------------------------------------
(* The environment *)

(* An external action comes to its end, whoever is still waiting for it.   *)
EffectEnds(v) ==
  /\ effect[v] = "running"
  /\ \E outcome \in {"applied", "failed"} : effect' = [effect EXCEPT ![v] = outcome]
  /\ UNCHANGED <<committed, ambiguous, stage, request, answer, pc, held, wanted, pending>>

(* The future of the journal call is dropped: the application still has    *)
(* the receipt it passed, an unfinished write may commit later.            *)
Cancel(c) ==
  /\ pc[c] # "idle"
  /\ Outage({c})
  /\ wanted' = [wanted EXCEPT ![c] = None]
  /\ pending' = [pending EXCEPT ![c] = None]
  /\ Goto(c, "idle")
  /\ UNCHANGED <<held, effect>>

(* The process of the controller crashes and restarts with nothing.        *)
Crash(c) ==
  /\ Outage({c})
  /\ Hold(c, None)
  /\ wanted' = [wanted EXCEPT ![c] = None]
  /\ pending' = [pending EXCEPT ![c] = None]
  /\ Goto(c, "idle")
  /\ UNCHANGED effect

ControllerStep(c) ==
  \/ \E plan \in Plans \cup {Blank} : Create(c, plan)
  \/ CreateInserted(c)
  \/ CreateExists(c)
  \/ CreateReopened(c)
  \/ CreateFailed(c)
  \/ Load(c)
  \/ Loaded(c)
  \/ LoadFailed(c)
  \/ \E t \in Transitions : AdvanceByHand(c, t) \/ StepWith(c, t) \/ CallbackOk(c, t)
  \/ Advanced(c)
  \/ Launch(c)
  \/ Confirmed(c)
  \/ CallbackFailed(c)
  \/ AdvanceFailed(c)

Next ==
  \/ StoreStep /\ UNCHANGED journalVars
  \/ \E c \in Callers : ControllerStep(c) \/ Cancel(c) \/ Crash(c)
  \/ \E v \in Revisions : EffectEnds(v)

Spec == Init /\ [][Next]_vars

-----------------------------------------------------------------------------
(* Properties *)

(* Every step of a handoff is acted on at most once per committed begin    *)
(* receipt: when a callback is invoked, no callback was ever invoked under *)
(* the same begin revision, whoever raced, crashed, retried or was         *)
(* answered by an error (run_step, advance).                               *)
Launches(c) == pc[c] # "acting" /\ pc'[c] = "acting"
ActedAtMostOnce ==
  [][\A c \in Callers : Launches(c) => effect[pending'[c].revision] = "none"]_vars

(* Intent is durable before the action: no external action has begun under *)
(* a revision the store has not committed (run_step: advance, then act).   *)
ActedAfterCommit ==
  \A v \in Revisions :
    effect[v] # "none" => committed # None /\ v <= committed.revision

(* With verified reconciliation two external actions of one handoff never  *)
(* run at the same time, although a controller that was cancelled or has   *)
(* crashed leaves its action running.                                      *)
ActionsDoNotOverlap ==
  \A v, w \in Revisions : effect[v] = "running" /\ effect[w] = "running" => v = w

(* With verified reconciliation every step is applied exactly once on the  *)
(* way: at a confirmed phase the actions applied are those of the steps    *)
(* confirmed, one each; in flight there may be one more.                   *)
StepsConfirmed(phase) ==
  CASE phase \in {"Prepared", "Capturing"} -> 0
    [] phase \in {"Captured", "Restoring"} -> 1
    [] phase \in {"Restored", "Starting"}  -> 2
    [] phase = "Started"                   -> 3
Applied == {v \in Revisions : effect[v] = "applied"}
EachStepAppliedOnce ==
  committed # None =>
    LET done == Cardinality(Applied) IN
      IF committed.phase \in InFlight
      THEN done - StepsConfirmed(committed.phase) \in {0, 1}
      ELSE done = StepsConfirmed(committed.phase)

(* A receipt is replaced only by a legal successor of itself, whatever     *)
(* receipts the writers held: the phases advance one transition at a time, *)
(* the revision by one, identifier and plan never change (next, advance;   *)
(* the store compares nothing but the revision).                           *)
LegalHistory ==
  [][committed' # committed =>
       \/ committed = None /\ \E plan \in Plans : committed' = FirstReceipt(Id, plan)
       \/ committed # None /\ Succeeds(committed, committed')]_vars

(* A confirmation is committed only onto a claim whose action was done,    *)
(* and the one run_step writes only onto the very claim its callback was   *)
(* launched with: a worker that was reconciled away cannot confirm a later *)
(* claim, whoever made that (run_step, advance; Verified says what is      *)
(* asked of who confirms by hand).                                         *)
Confirms(receipt, next) ==
  <<receipt.phase, next.phase>> \in
    {<<"Capturing", "Captured">>, <<"Restoring", "Restored">>, <<"Starting", "Started">>}
ConfirmsItsOwnClaim ==
  [][/\ committed # None /\ Confirms(committed, committed')
          => effect[committed.revision] = "applied"
     /\ \A c \in Callers :
          pc[c] = "confirm" /\ stage[c] = "pending" /\ stage'[c] = "applied"
          => committed = pending[c]]_vars

(* A checkpoint that was recorded stays the checkpoint of the handoff, in  *)
(* every later phase and through every reconciliation.                     *)
CheckpointIsKept ==
  [][committed # None /\ committed.checkpoint # None
     => committed'.checkpoint = committed.checkpoint]_vars

(* The receipts controllers hold are what was once committed: never ahead  *)
(* of the store, and equal to it if of its revision.                       *)
HeldIsCommitted ==
  \A c \in Callers :
    held[c] # None =>
      /\ committed # None
      /\ held[c].revision <= committed.revision
      /\ held[c].plan = committed.plan
      /\ held[c].revision = committed.revision => held[c] = committed

(* create never hands out a receipt made for another plan, also when it    *)
(* lost the race to insert it.                                             *)
CreateKeepsThePlan ==
  [][\A c \in Callers :
       pc[c] \in {"create", "reopen"} /\ held'[c] # held[c] /\ held'[c] # None
       => held'[c].plan = wanted[c]]_vars

=============================================================================
