--------------------------- MODULE HandoffReceipts ---------------------------
(***************************************************************************)
(* The receipt of a handoff and the pure function that advances it         *)
(* (src/src/handoff/mod.rs: HandoffReceipt, HandoffTransition, validate,   *)
(* next).  A receipt is a value: nothing here reads or changes state.      *)
(*                                                                         *)
(* Texts are abstracted to the one thing the code tests about them: a text *)
(* that trims to nothing is Blank, an absent optional text is None, every  *)
(* other text is a member of a set of values.  A valid identifier (1 to 96 *)
(* letters, digits, '_' and '-') is a member of Ids; the operations refuse *)
(* any other identifier before they touch anything.                        *)
(***************************************************************************)
EXTENDS Naturals

CONSTANTS
  Ids,          \* identifiers validate_id accepts
  Plans,        \* plans whose three fields are all non-blank
  Checkpoints,  \* checkpoint references
  RunIds,       \* ids of remote runs
  Evidence,     \* references to reconciliation evidence
  Blank,        \* a text of which trim() leaves nothing
  None,         \* an absent Option
  MaxRevision   \* the largest revision: u64::MAX in the code

ASSUME ReceiptAssumption ==
  /\ MaxRevision \in Nat
  /\ Blank \notin Plans \cup Checkpoints \cup RunIds \cup Evidence \cup {None}
  /\ None \notin Plans \cup Checkpoints \cup RunIds \cup Evidence

Revisions == 0..MaxRevision

Phases == {"Prepared", "Capturing", "Captured", "Restoring", "Restored",
           "Starting", "Started"}

(* The phases in which the outcome of an external action is unknown.       *)
InFlight == {"Capturing", "Restoring", "Starting"}

(* The phases that carry a checkpoint.                                     *)
WithCheckpoint == {"Captured", "Restoring", "Restored", "Starting", "Started"}

Receipts ==
  [id                  : Ids,
   revision            : Revisions,
   plan                : Plans \cup {Blank},
   phase               : Phases,
   checkpoint          : Checkpoints \cup {Blank, None},
   run_id              : RunIds \cup {Blank, None},
   last_reconciliation : Evidence \cup {Blank, None}]

(* HandoffReceipt::validate: which optional fields a phase carries, and no *)
(* text that is present is blank.                                          *)
ValidReceipt(r) ==
  /\ r.plan # Blank
  /\ (r.checkpoint # None) <=> (r.phase \in WithCheckpoint)
  /\ (r.run_id # None) <=> (r.phase = "Started")
  /\ Blank \notin {r.checkpoint, r.run_id, r.last_reconciliation}

(* The receipt HandoffJournal::create offers to the store.                 *)
FirstReceipt(id, plan) ==
  [id |-> id, revision |-> 0, plan |-> plan, phase |-> "Prepared",
   checkpoint |-> None, run_id |-> None, last_reconciliation |-> None]

-----------------------------------------------------------------------------
(* HandoffTransition: a kind and the text it brings, None if it has none.  *)

Begins == {"BeginCapture", "BeginRestore", "BeginStart"}
Confirmations == {"Captured", "Restored", "Started"}

Transitions ==
       [kind : Begins \cup {"Restored"}, payload : {None}]
  \cup [kind : {"Captured"}, payload : Checkpoints \cup {Blank}]
  \cup [kind : {"Started"}, payload : RunIds \cup {Blank}]
  \cup [kind : {"ReconcileNotApplied"}, payload : Evidence \cup {Blank}]

(* A bug that resets a restore to the very beginning.                      *)
PhaseAfterResetToPrepared(phase, kind) ==
  CASE phase = "Prepared"  /\ kind = "BeginCapture" -> "Capturing"
    [] phase = "Capturing" /\ kind = "Captured"     -> "Captured"
    [] phase = "Captured"  /\ kind = "BeginRestore" -> "Restoring"
    [] phase = "Restoring" /\ kind = "Restored"     -> "Restored"
    [] phase = "Restored"  /\ kind = "BeginStart"   -> "Starting"
    [] phase = "Starting"  /\ kind = "Started"      -> "Started"
    [] phase \in InFlight  /\ kind = "ReconcileNotApplied" -> "Prepared"
    [] OTHER -> "Illegal"

(* A bug that lets a receipt already in flight be claimed once more.       *)
PhaseAfterReclaim(phase, kind) ==
  CASE phase \in {"Prepared", "Capturing"} /\ kind = "BeginCapture" -> "Capturing"
    [] phase = "Capturing" /\ kind = "Captured"     -> "Captured"
    [] phase \in {"Captured", "Restoring"} /\ kind = "BeginRestore" -> "Restoring"
    [] phase = "Restoring" /\ kind = "Restored"     -> "Restored"
    [] phase \in {"Restored", "Starting"} /\ kind = "BeginStart" -> "Starting"
    [] phase = "Starting"  /\ kind = "Started"      -> "Started"
    [] phase = "Capturing" /\ kind = "ReconcileNotApplied" -> "Prepared"
    [] phase = "Restoring" /\ kind = "ReconcileNotApplied" -> "Captured"
    [] phase = "Starting"  /\ kind = "ReconcileNotApplied" -> "Restored"
    [] OTHER -> "Illegal"

(* The transition table of HandoffReceipt::next.                           *)
PhaseAfter(phase, kind) ==
  CASE phase = "Prepared"  /\ kind = "BeginCapture" -> "Capturing"
    [] phase = "Capturing" /\ kind = "Captured"     -> "Captured"
    [] phase = "Captured"  /\ kind = "BeginRestore" -> "Restoring"
    [] phase = "Restoring" /\ kind = "Restored"     -> "Restored"
    [] phase = "Restored"  /\ kind = "BeginStart"   -> "Starting"
    [] phase = "Starting"  /\ kind = "Started"      -> "Started"
    [] phase = "Capturing" /\ kind = "ReconcileNotApplied" -> "Prepared"
    [] phase = "Restoring" /\ kind = "ReconcileNotApplied" -> "Captured"
    [] phase = "Starting"  /\ kind = "ReconcileNotApplied" -> "Restored"
    [] OTHER -> "Illegal"

(* A bug: the revision is incremented without a check.                     *)
NoRoomNeeded(revision) == TRUE

(* checked_add.                                                            *)
RoomForOneMore(revision) == revision < MaxRevision

(* next() returns Ok: the receipt is valid (else Corrupt), the transition  *)
(* is legal in its phase (else InvalidTransition), its text is not blank   *)
(* (else InvalidInput) and the revision does not overflow (else Corrupt).  *)
Accepts(r, t) ==
  /\ ValidReceipt(r)
  /\ PhaseAfter(r.phase, t.kind) # "Illegal"
  /\ t.payload # Blank
  /\ RoomForOneMore(r.revision)

(* A bug: a reconciliation also forgets the checkpoint.                    *)
NextReceiptClearing(r, t) ==
  [r EXCEPT !.revision = @ + 1,
            !.phase = PhaseAfter(r.phase, t.kind),
            !.checkpoint = IF t.kind \in {"Captured", "ReconcileNotApplied"}
                           THEN t.payload ELSE @,
            !.run_id = IF t.kind = "Started" THEN t.payload ELSE @]

(* The receipt next() returns then.                                        *)
NextReceipt(r, t) ==
  [r EXCEPT !.revision = @ + 1,
            !.phase = PhaseAfter(r.phase, t.kind),
            !.checkpoint = IF t.kind = "Captured" THEN t.payload ELSE @,
            !.run_id = IF t.kind = "Started" THEN t.payload ELSE @,
            !.last_reconciliation =
               IF t.kind = "ReconcileNotApplied" THEN t.payload ELSE @]

(* n is what next() makes of r for some transition.                        *)
Succeeds(r, n) == \E t \in Transitions : Accepts(r, t) /\ n = NextReceipt(r, t)

=============================================================================
