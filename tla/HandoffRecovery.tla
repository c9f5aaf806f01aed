--------------------------- MODULE HandoffRecovery ---------------------------
(***************************************************************************)
(* Several controllers drive one handoff to its end, each of them the      *)
(* application src/docs/handoff.md asks for: it creates or reopens the     *)
(* receipt, takes the step the phase it was told calls for, reloads after  *)
(* every error before it proceeds, and confirms or reconciles an in-flight *)
(* receipt it did not act on only after it has verified what became of it. *)
(* Journal and store are those of HandoffJournal; only what goes wrong is  *)
(* counted, up to MaxFaults, a refusal (Busy, Conflict) never is.          *)
(***************************************************************************)
EXTENDS HandoffJournal

CONSTANT MaxFaults

ASSUME RecoveryAssumption == MaxFaults \in Nat /\ VerifiedReconcile

VARIABLES
  fresh,  \* the held receipt is what the last call of the controller returned
  faults  \* how many things have gone wrong

recoveryVars == <<committed, ambiguous, stage, request, answer,
                  pc, held, wanted, pending, effect, fresh, faults>>

RecoveryInit ==
  /\ Init
  /\ fresh = [c \in Callers |-> FALSE]
  /\ faults = 0

NoFault == UNCHANGED faults
Fault == faults < MaxFaults /\ faults' = faults + 1
Told(c, know) == fresh' = [fresh EXCEPT ![c] = know]

-----------------------------------------------------------------------------
(* What the application calls next: nothing while it waits for an action   *)
(* it cannot decide about, and nothing any more once it holds Started.     *)
CallBegins(c) ==
  /\ \/ held[c] = None /\ \E plan \in Plans : Create(c, plan)
     \/ held[c] # None /\ ~fresh[c] /\ Load(c)
     \/ fresh[c] /\ \E t \in Transitions : StepWith(c, t) \/ AdvanceByHand(c, t)
     \/ \E t \in Transitions : CallbackOk(c, t)
  /\ UNCHANGED fresh

CallGoesOn(c) == (CreateExists(c) \/ Launch(c)) /\ UNCHANGED fresh

CallSucceeds(c) ==
  /\ CreateInserted(c) \/ CreateReopened(c) \/ Loaded(c) \/ Advanced(c) \/ Confirmed(c)
  /\ Told(c, TRUE)

CallFails(c) ==
  /\ \/ CreateFailed(c) \/ LoadFailed(c) \/ AdvanceFailed(c)
     \/ CallbackFailed(c) /\ effect[pending[c].revision] = "failed"
  /\ Told(c, FALSE)

Proceeds(c) ==
  (CallBegins(c) \/ CallGoesOn(c) \/ CallSucceeds(c) \/ CallFails(c)) /\ NoFault

StoreProceeds(c) ==
  /\ AnswerApplied(c) \/ AnswerConflict(c) \/ AnswerRefused(c)
  /\ UNCHANGED <<journalVars, fresh, faults>>
Commits(c) == Commit(c) /\ UNCHANGED <<journalVars, fresh, faults>>
Loads(c) == AnswerLoad(c) /\ UNCHANGED <<journalVars, fresh, faults>>
RefusesStale(c) ==
  ~Matches(committed, request[c].expected) /\ AnswerConflict(c)
  /\ UNCHANGED <<journalVars, fresh, faults>>
CommitsLate == (\E q \in ambiguous : CommitLate(q)) /\ UNCHANGED <<journalVars, fresh, faults>>

Completes(v) == EffectEnds(v) /\ effect'[v] = "applied" /\ UNCHANGED <<fresh, faults>>

(* What goes wrong: a backend failure, a dropped future, a crash, an       *)
(* action that fails, a callback that reports a failure of its own.        *)
GoesWrong ==
  /\ Fault
  /\ \/ \E c \in Callers :
          \/ AnswerError(c) /\ UNCHANGED <<journalVars, fresh>>
          \/ (Cancel(c) \/ Crash(c)) /\ Told(c, FALSE)
          \/ CallbackFailed(c) /\ effect[pending[c].revision] # "failed" /\ Told(c, FALSE)
     \/ \E v \in Revisions : EffectEnds(v) /\ effect'[v] = "failed" /\ UNCHANGED fresh

RecoveryNext ==
  \/ \E c \in Callers : Proceeds(c) \/ StoreProceeds(c) \/ Commits(c) \/ Loads(c)
  \/ CommitsLate
  \/ \E v \in Revisions : Completes(v)
  \/ GoesWrong

(* Controllers run, the store answers and actions end.  Strong fairness of *)
(* what the store does with a call it does not refuse is a hypothesis about*)
(* the store: file.rs tries its lock and answers Busy without a queue, so  *)
(* nothing in the code keeps a receipt from being locked at every try; and *)
(* a receipt that is TooLarge would be so at every try.                    *)
RecoveryFairness ==
  /\ \A c \in Callers :
       /\ WF_recoveryVars(Proceeds(c))
       /\ WF_recoveryVars(StoreProceeds(c))
       /\ SF_recoveryVars(Commits(c))
       /\ SF_recoveryVars(Loads(c))
       /\ SF_recoveryVars(RefusesStale(c))
  /\ \A v \in Revisions : WF_recoveryVars(Completes(v))

RecoverySpec == RecoveryInit /\ [][RecoveryNext]_recoveryVars /\ RecoveryFairness

-----------------------------------------------------------------------------
(* Properties *)

(* Whatever was lost, cancelled, crashed or failed on the way, in the end  *)
(* every controller holds the one Started receipt that is committed: no    *)
(* phase is a dead end, and who has lost a race for the receipt recovers.  *)
(* Of a controller that is refused for ever (Busy, TooLarge) it says       *)
(* nothing (docs/handoff.md).                                              *)
HandoffCompletes ==
  <>[](\A c \in Callers :
         /\ held[c] # None
         /\ held[c].phase = "Started"
         /\ held[c] = committed)

=============================================================================
