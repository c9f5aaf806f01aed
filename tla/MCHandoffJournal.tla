--------------------------- MODULE MCHandoffJournal ---------------------------
(* Instances of HandoffJournal for TLC.                                    *)
EXTENDS HandoffJournal, TLC

CONSTANTS RestoredPlan, RestoredCheckpoint

Controllers == Permutations(Callers)
ControllersAndPlans == Permutations(Callers) \cup Permutations(Plans)

(* At most one write at a time whose caller is gone and whose fate is open.*)
OneAmbiguousWrite == Cardinality(ambiguous) <= 1

(* All controllers restart on a store that holds a restored handoff: its   *)
(* capture and its restore were claimed and applied at revisions 1 and 3.  *)
RestoredReceipt ==
  [FirstReceipt(Id, RestoredPlan) EXCEPT
     !.revision = 4, !.phase = "Restored", !.checkpoint = RestoredCheckpoint]
RestartedInit ==
  /\ committed = RestoredReceipt
  /\ ambiguous = {}
  /\ stage = [c \in Callers |-> "idle"]
  /\ request = [c \in Callers |-> NoRequest]
  /\ answer = [c \in Callers |-> NoAnswer]
  /\ pc = [c \in Callers |-> "idle"]
  /\ held = [c \in Callers |-> None]
  /\ wanted = [c \in Callers |-> None]
  /\ pending = [c \in Callers |-> None]
  /\ effect = [v \in Revisions |-> IF v \in {1, 3} THEN "applied" ELSE "none"]

(* A handoff is followed in two halves, from the start up to revision 3    *)
(* and from the restored handoff on.                                       *)
HalvesInit == Init \/ RestartedInit
HalvesSpec == HalvesInit /\ [][Next]_vars
HalvesApart == ~(committed # None /\ committed.revision = 3 /\ committed' # committed)

=============================================================================
