------------------------ MODULE HandoffReceiptsProofs ------------------------
(***************************************************************************)
(* What HandoffReceipt::next does to every receipt, by cases over the      *)
(* transition table.                                                       *)
(***************************************************************************)
EXTENDS HandoffReceipts, TLAPS

(* The table leads from a phase to a phase.                                *)
LEMMA PhaseAfterType ==
  ASSUME NEW phase, NEW kind, PhaseAfter(phase, kind) # "Illegal"
  PROVE  PhaseAfter(phase, kind) \in Phases
BY DEF PhaseAfter, Phases

(* next() returns a receipt of the same handoff with the next revision:    *)
(* the revision does not overflow, identifier and plan are copied.         *)
LEMMA NextReceiptIdentity ==
  ASSUME NEW r \in Receipts, NEW t \in Transitions, Accepts(r, t)
  PROVE  /\ NextReceipt(r, t) \in Receipts
         /\ NextReceipt(r, t).id = r.id
         /\ NextReceipt(r, t).plan = r.plan
         /\ NextReceipt(r, t).revision = r.revision + 1
<1>1. PhaseAfter(r.phase, t.kind) \in Phases
  BY PhaseAfterType DEF Accepts
<1>2. r.revision + 1 \in Revisions
  BY ReceiptAssumption DEF Accepts, RoomForOneMore, Receipts, Revisions
<1>3. /\ t.kind = "Captured" => t.payload \in Checkpoints \cup {Blank}
      /\ t.kind = "Started" => t.payload \in RunIds \cup {Blank}
      /\ t.kind = "ReconcileNotApplied" => t.payload \in Evidence \cup {Blank}
  BY DEF Transitions, Begins
<1> QED
  BY <1>1, <1>2, <1>3, ZenonT(60) DEF NextReceipt, Receipts

(* next() returns a valid receipt: exactly the phases that carry a         *)
(* checkpoint or a run id have one, and no text is blank.                  *)
THEOREM NextReceiptValid ==
  ASSUME NEW r \in Receipts, NEW t \in Transitions, Accepts(r, t)
  PROVE  ValidReceipt(NextReceipt(r, t))
<1>1. ValidReceipt(r) /\ PhaseAfter(r.phase, t.kind) # "Illegal" /\ t.payload # Blank
  BY DEF Accepts
<1>2. t.kind \in {"Captured", "Started", "ReconcileNotApplied"} => t.payload # None
  BY ReceiptAssumption DEF Transitions, Begins
<1>3. /\ NextReceipt(r, t).plan = r.plan
      /\ NextReceipt(r, t).phase = PhaseAfter(r.phase, t.kind)
      /\ NextReceipt(r, t).checkpoint =
           (IF t.kind = "Captured" THEN t.payload ELSE r.checkpoint)
      /\ NextReceipt(r, t).run_id = (IF t.kind = "Started" THEN t.payload ELSE r.run_id)
      /\ NextReceipt(r, t).last_reconciliation =
           (IF t.kind = "ReconcileNotApplied" THEN t.payload ELSE r.last_reconciliation)
  BY DEF NextReceipt, Receipts
<1> QED
  BY <1>1, <1>2, <1>3 DEF ValidReceipt, PhaseAfter, WithCheckpoint

(* Every legal step is a claim, the confirmation of one, or the            *)
(* reconciliation of one back to the phase before it.                      *)
Claims(r, n) ==
  <<r.phase, n.phase>> \in
    {<<"Prepared", "Capturing">>, <<"Captured", "Restoring">>, <<"Restored", "Starting">>}
Completes(r, n) ==
  <<r.phase, n.phase>> \in
    {<<"Capturing", "Captured">>, <<"Restoring", "Restored">>, <<"Starting", "Started">>}
Reconciles(r, n) ==
  <<r.phase, n.phase>> \in
    {<<"Capturing", "Prepared">>, <<"Restoring", "Captured">>, <<"Starting", "Restored">>}

LEMMA NextReceiptPhase ==
  ASSUME NEW r \in Receipts, NEW t \in Transitions, Accepts(r, t)
  PROVE  LET n == NextReceipt(r, t)
         IN  /\ Claims(r, n) <=> t.kind \in Begins
             /\ Completes(r, n) <=> t.kind \in Confirmations
             /\ Reconciles(r, n) <=> t.kind = "ReconcileNotApplied"
             /\ Claims(r, n) \/ Completes(r, n) \/ Reconciles(r, n)
<1>1. NextReceipt(r, t).phase = PhaseAfter(r.phase, t.kind)
  BY DEF NextReceipt, Receipts
<1>2. PhaseAfter(r.phase, t.kind) # "Illegal"
  BY DEF Accepts
<1> QED
  BY <1>1, <1>2 DEF PhaseAfter, Claims, Completes, Reconciles, Begins, Confirmations

(* A recorded checkpoint is copied by every transition.                    *)
LEMMA NextReceiptKeepsCheckpoint ==
  ASSUME NEW r \in Receipts, NEW t \in Transitions, Accepts(r, t), r.checkpoint # None
  PROVE  NextReceipt(r, t).checkpoint = r.checkpoint
<1>1. r.phase \in WithCheckpoint /\ PhaseAfter(r.phase, t.kind) # "Illegal"
  BY DEF Accepts, ValidReceipt
<1>2. t.kind # "Captured"
  BY <1>1 DEF WithCheckpoint, PhaseAfter
<1> QED
  BY <1>2 DEF NextReceipt, Receipts

(* The first receipt is valid for every plan create accepts.               *)
LEMMA FirstReceiptValid ==
  ASSUME NEW i \in Ids, NEW plan \in Plans
  PROVE  FirstReceipt(i, plan) \in Receipts /\ ValidReceipt(FirstReceipt(i, plan))
BY ReceiptAssumption
   DEF FirstReceipt, Receipts, Revisions, Phases, ValidReceipt, WithCheckpoint

=============================================================================
