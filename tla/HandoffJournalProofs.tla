------------------------- MODULE HandoffJournalProofs -------------------------
(***************************************************************************)
(* Theorems about HandoffJournal, for any number of controllers, any plans *)
(* and payloads and any largest revision.                                  *)
(***************************************************************************)
EXTENDS HandoffJournal, HandoffReceiptsProofs, FiniteSetTheorems

(* A write advance asks for is well formed.                                *)
LEMMA AdvanceWriteType ==
  ASSUME NEW r \in Receipts, NEW t \in Transitions, Accepts(r, t)
  PROVE  AdvanceWrite(r, NextReceipt(r, t)) \in Writes
<1>1. NextReceipt(r, t) \in Receipts
  BY NextReceiptIdentity
<1>2. r.revision \in Revisions
  BY DEF Receipts
<1> QED
  BY <1>1, <1>2 DEF AdvanceWrite, CompareExchange, Writes

(* The steps of the store keep the types of its variables.                 *)
LEMMA StoreStepType ==
  ASSUME StoreTypeOK, StoreStep
  PROVE  StoreTypeOK' /\ request' = request
<1> USE DEF StoreTypeOK
<1>1. ASSUME NEW c \in Callers, Commit(c)
      PROVE  StoreTypeOK' /\ request' = request
  <2>1. request[c] \in Writes
    BY <1>1 DEF Commit, Requests, LoadRequest, NoRequest
  <2> QED
    BY <1>1, <2>1 DEF Commit, Writes
<1>2. ASSUME NEW c \in Callers, AnswerApplied(c) \/ AnswerLoad(c) \/ AnswerConflict(c)
                                \/ AnswerRefused(c)
      PROVE  StoreTypeOK' /\ request' = request
  BY <1>2 DEF AnswerApplied, AnswerLoad, AnswerConflict, AnswerRefused, Answer, Reply,
              Answers, Results
<1>3. ASSUME NEW c \in Callers, AnswerError(c)
      PROVE  StoreTypeOK' /\ request' = request
  <2>1. stage[c] = "pending" /\ request[c].op = "cas" => request[c] \in Writes
    BY DEF Requests, LoadRequest, NoRequest
  <2> QED
    BY <1>3, <2>1 DEF AnswerError, Answer, Reply, Answers, Results
<1>4. ASSUME NEW q \in ambiguous, CommitLate(q)
      PROVE  StoreTypeOK' /\ request' = request
  BY <1>4 DEF CommitLate, Writes
<1> QED
  BY <1>1, <1>2, <1>3, <1>4 DEF StoreStep

(* The steps a caller takes at the store do, too.                          *)
LEMMA InvokeType ==
  ASSUME StoreTypeOK, NEW c \in Callers, NEW q \in Requests, Invoke(c, q) \/ Reinvoke(c, q)
  PROVE  StoreTypeOK'
BY DEF StoreTypeOK, Invoke, Reinvoke

LEMMA ReturnType ==
  ASSUME StoreTypeOK, NEW c \in Callers, Return(c)
  PROVE  StoreTypeOK'
BY DEF StoreTypeOK, Return, Hangup

LEMMA OutageType ==
  ASSUME StoreTypeOK, NEW gone \in SUBSET Callers, Outage(gone)
  PROVE  StoreTypeOK'
<1>1. UnfinishedWrites(gone) \subseteq Writes
  BY DEF StoreTypeOK, UnfinishedWrites, Requests, LoadRequest, NoRequest
<1> QED
  BY <1>1 DEF StoreTypeOK, Outage

(* What a controller waits for is what it asked for: a write at the awaits *)
(* of create and advance, a begin receipt while its callback runs, and a   *)
(* confirmation of that receipt.                                           *)
PointMatches(c) ==
  /\ pc[c] \in {"create", "begin", "confirm", "advance"} => request[c] \in Writes
  /\ pc[c] \in {"load", "reopen"} => request[c] = LoadRequest
  /\ pc[c] \in {"acting", "confirm"} => pending[c] \in Receipts
  /\ pc[c] = "confirm" => request[c].expected = pending[c].revision
PointsMatch == \A c \in Callers : PointMatches(c)

Typed == TypeOK /\ PointsMatch

(* A step of one controller only has to be looked at for that controller.  *)
Elsewhere(c) ==
  \A d \in Callers \ {c} : /\ pc'[d] = pc[d]
                           /\ request'[d] = request[d]
                           /\ pending'[d] = pending[d]

LEMMA OneController ==
  ASSUME PointsMatch, NEW c \in Callers, Elsewhere(c), PointMatches(c)'
  PROVE  PointsMatch'
BY DEF PointsMatch, PointMatches, Elsewhere

LEMMA TypedInitially == Init => Typed
BY StoreAssumption
   DEF Typed, PointsMatch, PointMatches, Init, StoreInit, TypeOK, StoreTypeOK, Points, Effects,
       NoRequest, NoAnswer

LEMMA TypedInductive == Typed /\ [Next]_vars => Typed'
<1> SUFFICES ASSUME Typed, [Next]_vars
             PROVE  Typed'
  OBVIOUS
<1> USE DEF Typed, TypeOK, Points, Effects, Goto, Hold
<1>1. ASSUME StoreStep /\ UNCHANGED journalVars
      PROVE  Typed'
  BY <1>1, StoreStepType DEF journalVars, PointsMatch, PointMatches
<1>2. ASSUME NEW c \in Callers, NEW plan \in Plans \cup {Blank}, Create(c, plan)
      PROVE  Typed'
  <2>1. CompareExchange(FirstReceipt(Id, plan), None) \in Requests
    BY <1>2, FirstReceiptValid, StoreAssumption
       DEF Create, CompareExchange, Requests, Writes
  <2>2. StoreTypeOK'
    BY <1>2, <2>1, InvokeType DEF Create
  <2>3. TypeOK'
    BY <1>2, <2>1, <2>2 DEF Create, Invoke, CompareExchange, Requests, Writes, LoadRequest
  <2>4. Elsewhere(c) /\ PointMatches(c)'
    BY <1>2, <2>1, <2>2
       DEF Create, Invoke, CompareExchange, Requests, Writes, LoadRequest,
           Elsewhere, PointMatches, PointsMatch, StoreTypeOK
  <2> QED
    BY <2>3, <2>4, OneController
<1>3. ASSUME NEW c \in Callers, CreateExists(c) \/ Load(c)
      PROVE  Typed'
  <2>1. LoadRequest \in Requests
    BY DEF Requests
  <2>2. StoreTypeOK'
    BY <1>3, <2>1, InvokeType DEF CreateExists, Load
  <2>3. TypeOK'
    BY <1>3, <2>2 DEF CreateExists, Load, Invoke, Reinvoke
  <2>4. Elsewhere(c) /\ PointMatches(c)'
    BY <1>3, <2>2
       DEF CreateExists, Load, Invoke, Reinvoke,
           Elsewhere, PointMatches, PointsMatch, StoreTypeOK
  <2> QED
    BY <2>3, <2>4, OneController
<1>4. ASSUME NEW c \in Callers, CreateInserted(c) \/ Advanced(c) \/ Confirmed(c)
      PROVE  Typed'
  <2>1. StoreTypeOK'
    BY <1>4, ReturnType DEF CreateInserted, Advanced, Confirmed
  <2>2. request[c].next \in Receipts \cup {None}
    BY DEF StoreTypeOK, Requests, Writes, LoadRequest, NoRequest
  <2>3. TypeOK'
    BY <1>4, <2>1, <2>2 DEF CreateInserted, Advanced, Confirmed, Return, Hangup
  <2>4. Elsewhere(c) /\ PointMatches(c)'
    BY <1>4, <2>1, <2>2
       DEF CreateInserted, Advanced, Confirmed, Return, Hangup,
           Elsewhere, PointMatches, PointsMatch, StoreTypeOK
  <2> QED
    BY <2>3, <2>4, OneController
<1>5. ASSUME NEW c \in Callers, CreateReopened(c) \/ Loaded(c)
      PROVE  Typed'
  <2>1. StoreTypeOK'
    BY <1>5, ReturnType DEF CreateReopened, Loaded
  <2>2. answer[c].receipt \in Receipts \cup {None}
    BY DEF StoreTypeOK, Answers, NoAnswer
  <2>3. TypeOK'
    BY <1>5, <2>1, <2>2 DEF CreateReopened, Loaded, Return, Hangup
  <2>4. Elsewhere(c) /\ PointMatches(c)'
    BY <1>5, <2>1, <2>2
       DEF CreateReopened, Loaded, Return, Hangup,
           Elsewhere, PointMatches, PointsMatch, StoreTypeOK
  <2> QED
    BY <2>3, <2>4, OneController
<1>6. ASSUME NEW c \in Callers, CreateFailed(c) \/ LoadFailed(c) \/ AdvanceFailed(c)
      PROVE  Typed'
  <2>1. StoreTypeOK'
    BY <1>6, ReturnType DEF CreateFailed, LoadFailed, AdvanceFailed
  <2>2. TypeOK'
    BY <1>6, <2>1 DEF CreateFailed, LoadFailed, AdvanceFailed, Return, Hangup
  <2>3. Elsewhere(c) /\ PointMatches(c)'
    BY <1>6, <2>1
       DEF CreateFailed, LoadFailed, AdvanceFailed, Return, Hangup,
           Elsewhere, PointMatches, PointsMatch, StoreTypeOK
  <2> QED
    BY <2>2, <2>3, OneController
<1>7. ASSUME NEW c \in Callers, NEW t \in Transitions,
             AdvanceByHand(c, t) \/ StepWith(c, t)
      PROVE  Typed'
  <2>1. held[c] \in Receipts /\ Accepts(held[c], t)
    BY <1>7 DEF AdvanceByHand, StepWith, Advance
  <2>2. AdvanceWrite(held[c], NextReceipt(held[c], t)) \in Writes
    BY <2>1, AdvanceWriteType
  <2>3. StoreTypeOK'
    BY <1>7, <2>2, InvokeType DEF AdvanceByHand, StepWith, Advance, Requests
  <2>4. TypeOK'
    BY <1>7, <2>2, <2>3 DEF AdvanceByHand, StepWith, Advance, Invoke
  <2>5. Elsewhere(c) /\ PointMatches(c)'
    BY <1>7, <2>2, <2>3
       DEF AdvanceByHand, StepWith, Advance, Invoke,
           Elsewhere, PointMatches, PointsMatch, StoreTypeOK
  <2> QED
    BY <2>4, <2>5, OneController
<1>8. ASSUME NEW c \in Callers, NEW t \in Transitions, CallbackOk(c, t)
      PROVE  Typed'
  <2>1. Accepts(pending[c], t)
    BY <1>8 DEF CallbackOk, Advance
  <2>2. pending[c] \in Receipts
    BY <1>8 DEF CallbackOk, PointsMatch, PointMatches
  <2>3. AdvanceWrite(pending[c], NextReceipt(pending[c], t)) \in Writes
    BY <2>1, <2>2, AdvanceWriteType
  <2>4. StoreTypeOK'
    BY <1>8, <2>3, InvokeType DEF CallbackOk, Advance, Requests
  <2>5. TypeOK'
    BY <1>8, <2>2, <2>3, <2>4 DEF CallbackOk, Advance, Invoke
  <2>6. AdvanceWrite(pending[c], NextReceipt(pending[c], t)).expected = pending[c].revision
    BY DEF AdvanceWrite, CompareExchange
  <2>7. Elsewhere(c) /\ PointMatches(c)'
    BY <1>8, <2>2, <2>3, <2>4, <2>6
       DEF CallbackOk, Advance, Invoke,
           Elsewhere, PointMatches, PointsMatch, StoreTypeOK
  <2> QED
    BY <2>5, <2>7, OneController
<1>9. ASSUME NEW c \in Callers, Launch(c)
      PROVE  Typed'
  <2>1. StoreTypeOK'
    BY <1>9, ReturnType DEF Launch
  <2>2. request[c].next \in Receipts
    BY <1>9 DEF Launch, Granted, Answered, Writes, PointsMatch, PointMatches
  <2>3. TypeOK'
    BY <1>9, <2>1, <2>2 DEF Launch, Return, Hangup
  <2>4. Elsewhere(c) /\ PointMatches(c)'
    BY <1>9, <2>1, <2>2
       DEF Launch, Return, Hangup,
           Elsewhere, PointMatches, PointsMatch, StoreTypeOK
  <2> QED
    BY <2>3, <2>4, OneController
<1>10. ASSUME NEW c \in Callers, CallbackFailed(c)
       PROVE  Typed'
  BY <1>10 DEF CallbackFailed, StoreTypeOK, PointsMatch, PointMatches
<1>11. ASSUME NEW c \in Callers, Cancel(c) \/ Crash(c)
       PROVE  Typed'
  <2>1. StoreTypeOK'
    BY <1>11, OutageType DEF Cancel, Crash
  <2> QED
    BY <1>11, <2>1 DEF Cancel, Crash, Outage, StoreTypeOK, PointsMatch, PointMatches
<1>12. ASSUME NEW v \in Revisions, EffectEnds(v)
       PROVE  Typed'
  BY <1>12 DEF EffectEnds, StoreTypeOK, PointsMatch, PointMatches
<1>13. CASE UNCHANGED vars
  BY <1>13 DEF vars, StoreTypeOK, PointsMatch, PointMatches
<1> QED
  BY <1>1, <1>2, <1>3, <1>4, <1>5, <1>6, <1>7, <1>8, <1>9, <1>10, <1>11, <1>12, <1>13
     DEF Next, ControllerStep

LEMMA TypedInvariant == Spec => []Typed
BY TypedInitially, TypedInductive, PTL DEF Spec

(* Every variable of the journal stays in its type.                        *)
THEOREM TypeCorrect == Spec => []TypeOK
<1>1. Typed => TypeOK
  BY DEF Typed
<1> QED
  BY TypedInvariant, <1>1, PTL

-----------------------------------------------------------------------------
(***************************************************************************)
(* The inductive invariant.  A receipt somebody knows is genuine: it is    *)
(* not ahead of the store and equals the committed one if of its revision. *)
(* A write is derived from a genuine receipt, therefore a write the store  *)
(* lets through is derived from the committed receipt itself, and its      *)
(* revision is new.  From that the acknowledged writes have different      *)
(* revisions, and nothing was done yet under that of an acknowledged begin.*)
(***************************************************************************)
Genuine(r) ==
  /\ committed # None
  /\ r.revision <= committed.revision
  /\ r.plan = committed.plan
  /\ r.revision = committed.revision => r = committed

Derived(q) ==
  \/ q.expected = None /\ \E plan \in Plans : q.next = FirstReceipt(Id, plan)
  \/ \E r \in Receipts : Genuine(r) /\ Succeeds(r, q.next) /\ q.expected = r.revision

(* The write of c was committed and c has been, or will be, told so.       *)
Winner(c) ==
  \/ stage[c] = "applied"
  \/ stage[c] = "answered" /\ answer[c].result = "ok" /\ request[c].op = "cas"

ControllerOK(c) ==
  /\ held[c] # None => Genuine(held[c])
  /\ pending[c] # None => Genuine(pending[c])
  /\ answer[c].receipt # None => Genuine(answer[c].receipt)
  /\ request[c].op = "cas" => Derived(request[c])
  /\ Winner(c) => request[c].op = "cas" /\ Genuine(request[c].next)
  /\ Winner(c) /\ pc[c] = "begin" => effect[request[c].next.revision] = "none"

WinnersDiffer ==
  \A c, d \in Callers :
    Winner(c) /\ Winner(d) /\ c # d =>
      request[c].next.revision # request[d].next.revision

ClaimsInv ==
  /\ \A c \in Callers : ControllerOK(c)
  /\ \A q \in ambiguous : Derived(q)
  /\ WinnersDiffer
  /\ ActedAfterCommit

(* A derived write the store lets through succeeds the committed receipt:  *)
(* all that was genuine stays so, and the new revision was never used.     *)
LEMMA CommitStep ==
  ASSUME TypeOK, NEW q \in Writes, Derived(q), Matches(committed, q.expected),
         committed' = q.next
  PROVE  /\ \A r \in Receipts : Genuine(r) => Genuine(r)'
         /\ \A w \in Writes : Derived(w) => Derived(w)'
         /\ Genuine(q.next)'
         /\ committed # None => q.next.revision > committed.revision
         /\ IF committed = None
            THEN \E plan \in Plans : committed' = FirstReceipt(Id, plan)
            ELSE Succeeds(committed, committed')
<1>1. q.next \in Receipts /\ q.next # None
  BY StoreAssumption DEF Writes
<1>2. CASE committed = None
  <2>1. \A r : ~Genuine(r)
    BY <1>2 DEF Genuine
  <2>2. \E plan \in Plans : q.next = FirstReceipt(Id, plan)
    BY <2>1 DEF Derived
  <2>3. Genuine(q.next)'
    BY <1>1 DEF Genuine, Receipts, Revisions
  <2>4. \A w \in Writes : Derived(w) => Derived(w)'
    BY <2>1 DEF Derived
  <2> QED
    BY <1>2, <2>1, <2>2, <2>3, <2>4
<1>3. CASE committed # None
  <2>1. committed \in Receipts /\ committed.revision \in Revisions
    BY <1>3 DEF TypeOK, StoreTypeOK, Receipts
  <2>2. q.expected = committed.revision /\ q.expected # None
    BY <1>3, <2>1, StoreAssumption DEF Matches
  <2>3. PICK r \in Receipts : Genuine(r) /\ Succeeds(r, q.next) /\ q.expected = r.revision
    BY <2>2 DEF Derived
  <2>4. Succeeds(committed, q.next)
    BY <2>2, <2>3 DEF Genuine
  <2>5. PICK t \in Transitions : Accepts(committed, t) /\ q.next = NextReceipt(committed, t)
    BY <2>4 DEF Succeeds
  <2>6. q.next.revision = committed.revision + 1 /\ q.next.plan = committed.plan
    BY <2>1, <2>5, NextReceiptIdentity
  <2>7. ASSUME NEW s \in Receipts, Genuine(s)
        PROVE  Genuine(s)'
    BY <1>1, <2>1, <2>6, <2>7 DEF Genuine, Receipts, Revisions
  <2>8. Genuine(q.next)'
    BY <1>1 DEF Genuine, Receipts, Revisions
  <2>9. \A w \in Writes : Derived(w) => Derived(w)'
    BY <2>7 DEF Derived
  <2> QED
    BY <1>3, <2>1, <2>4, <2>6, <2>7, <2>8, <2>9 DEF Revisions
<1> QED
  BY <1>2, <1>3

(* The store commits a write: for a caller that waits, which becomes a     *)
(* winner, or late for one that is gone.                                   *)
LEMMA ClaimsCommit ==
  ASSUME Typed, ClaimsInv, NEW c \in Callers, Commit(c), UNCHANGED journalVars
  PROVE  ClaimsInv'
<1>1. PICK q \in Writes : /\ q = request[c]
                         /\ Derived(q)
                         /\ Matches(committed, q.expected)
                         /\ committed' = q.next
  BY DEF Typed, TypeOK, StoreTypeOK, ClaimsInv, ControllerOK, Commit, Requests,
         LoadRequest, NoRequest
<1>2. /\ \A r \in Receipts : Genuine(r) => Genuine(r)'
      /\ \A w \in Writes : Derived(w) => Derived(w)'
      /\ Genuine(q.next)'
      /\ committed # None => q.next.revision > committed.revision
  BY <1>1, CommitStep DEF Typed
<1>3. /\ UNCHANGED <<ambiguous, request, answer, pc, held, pending, effect>>
      /\ stage' = [stage EXCEPT ![c] = "applied"]
      /\ stage[c] = "pending"
  BY DEF Commit, journalVars
<1>4. \A v \in Revisions : effect[v] # "none" => v # q.next.revision
  BY <1>1, <1>2 DEF ClaimsInv, ActedAfterCommit, Typed, TypeOK, StoreTypeOK, Receipts,
                    Revisions, Writes
<1>5. q.next.revision \in Revisions /\ q.next \in Receipts /\ q.next # None
  BY <1>1, StoreAssumption DEF Writes, Receipts
<1>6. effect[q.next.revision] = "none"
  BY <1>4, <1>5
<1>7. ASSUME NEW d \in Callers
      PROVE  ControllerOK(d)'
  <2>1. ControllerOK(d)
    BY DEF ClaimsInv
  <2>2. /\ held[d] \in Receipts \cup {None}
        /\ pending[d] \in Receipts \cup {None}
        /\ answer[d].receipt \in Receipts \cup {None}
        /\ request[d].op = "cas" => request[d] \in Writes /\ request[d].next \in Receipts
    BY DEF Typed, TypeOK, StoreTypeOK, Answers, NoAnswer, Requests, LoadRequest,
           NoRequest, Writes
  <2>3. CASE d = c
    <3>1. Winner(d)' => request[d].op = "cas" /\ Genuine(request[d].next)'
      BY <1>1, <1>2, <1>3, <2>3 DEF Writes, Genuine
    <3> QED
      BY <1>1, <1>2, <1>3, <1>6, <2>1, <2>2, <2>3, <3>1 DEF ControllerOK
  <2>4. CASE d # c
    <3>1. Winner(d)' <=> Winner(d)
      BY <1>3, <2>4 DEF Winner, Typed, TypeOK, StoreTypeOK
    <3> QED
      BY <1>2, <1>3, <2>1, <2>2, <2>4, <3>1 DEF ControllerOK
  <2> QED
    BY <2>3, <2>4
<1>8. WinnersDiffer'
  <2> SUFFICES ASSUME NEW d \in Callers, Winner(d)', d # c
               PROVE  request[d].next.revision # q.next.revision
    BY <1>1, <1>3 DEF WinnersDiffer, ClaimsInv, Winner, Typed, TypeOK, StoreTypeOK
  <2>1. Winner(d)
    BY <1>3 DEF Winner, Typed, TypeOK, StoreTypeOK
  <2>2. Genuine(request[d].next) /\ request[d] \in Writes
    BY <2>1 DEF ClaimsInv, ControllerOK, Typed, TypeOK, StoreTypeOK, Requests,
                LoadRequest, NoRequest
  <2>3. /\ committed # None /\ request[d].next.revision <= committed.revision
        /\ request[d].next.revision \in Nat /\ committed.revision \in Nat
    BY <2>2 DEF Genuine, Writes, Receipts, Revisions, Typed, TypeOK, StoreTypeOK
  <2> QED
    BY <1>2, <1>5, <2>3 DEF Revisions
<1>9. \A w \in ambiguous' : Derived(w)'
  BY <1>2, <1>3 DEF ClaimsInv, Typed, TypeOK, StoreTypeOK
<1>10. ActedAfterCommit'
  BY <1>1, <1>2, <1>3, <1>5 DEF ClaimsInv, ActedAfterCommit, Typed, TypeOK, StoreTypeOK,
                                Receipts, Revisions
<1> QED
  BY <1>7, <1>8, <1>9, <1>10 DEF ClaimsInv

LEMMA ClaimsCommitLate ==
  ASSUME Typed, ClaimsInv, NEW q \in ambiguous, CommitLate(q), UNCHANGED journalVars
  PROVE  ClaimsInv'
<1>1. q \in Writes /\ Derived(q) /\ Matches(committed, q.expected) /\ committed' = q.next
  BY DEF Typed, TypeOK, StoreTypeOK, ClaimsInv, CommitLate
<1>2. /\ \A r \in Receipts : Genuine(r) => Genuine(r)'
      /\ \A w \in Writes : Derived(w) => Derived(w)'
      /\ committed # None => q.next.revision > committed.revision
  BY <1>1, CommitStep DEF Typed
<1>3. /\ UNCHANGED <<stage, request, answer, pc, held, pending, effect>>
      /\ ambiguous' \subseteq ambiguous
      /\ q.next \in Receipts /\ q.next # None
  BY <1>1, StoreAssumption DEF CommitLate, journalVars, Writes
<1>4. ASSUME NEW d \in Callers
      PROVE  ControllerOK(d)'
  <2>1. /\ held[d] \in Receipts \cup {None}
        /\ pending[d] \in Receipts \cup {None}
        /\ answer[d].receipt \in Receipts \cup {None}
        /\ request[d].op = "cas" => request[d] \in Writes /\ request[d].next \in Receipts
    BY DEF Typed, TypeOK, StoreTypeOK, Answers, NoAnswer, Requests, LoadRequest,
           NoRequest, Writes
  <2>2. Winner(d)' <=> Winner(d)
    BY <1>3 DEF Winner
  <2> QED
    BY <1>2, <1>3, <2>1, <2>2 DEF ClaimsInv, ControllerOK
<1>5. WinnersDiffer'
  BY <1>3 DEF WinnersDiffer, ClaimsInv, Winner
<1>6. \A w \in ambiguous' : Derived(w)'
  BY <1>2, <1>3 DEF ClaimsInv, Typed, TypeOK, StoreTypeOK
<1>7. ActedAfterCommit'
  BY <1>1, <1>2, <1>3 DEF ClaimsInv, ActedAfterCommit, Typed, TypeOK, StoreTypeOK,
                          Receipts, Revisions
<1> QED
  BY <1>4, <1>5, <1>6, <1>7 DEF ClaimsInv

(* Every other step concerns one caller c and commits nothing: if c's own  *)
(* part holds afterwards and c has not become a winner, all of it does.    *)
Frame(c) ==
  /\ committed' = committed
  /\ \A d \in Callers \ {c} :
       /\ stage'[d] = stage[d]
       /\ request'[d] = request[d]
       /\ answer'[d] = answer[d]
       /\ pc'[d] = pc[d]
       /\ held'[d] = held[d]
       /\ pending'[d] = pending[d]
  /\ Winner(c)' => Winner(c) /\ request'[c] = request[c]
  /\ \A q \in ambiguous' \ ambiguous : q = request[c] /\ q.op = "cas"

LEMMA ClaimsFrame ==
  ASSUME Typed, ClaimsInv, NEW c \in Callers, Frame(c), effect' = effect, ControllerOK(c)'
  PROVE  ClaimsInv'
<1>1. \A r : Genuine(r)' <=> Genuine(r)
  BY DEF Frame, Genuine
<1>2. \A q : Derived(q)' <=> Derived(q)
  BY <1>1 DEF Derived
<1>3. \A d \in Callers \ {c} : Winner(d)' <=> Winner(d)
  BY DEF Frame, Winner
<1>4. \A d \in Callers \ {c} : ControllerOK(d)'
  BY <1>1, <1>2, <1>3 DEF Frame, ClaimsInv, ControllerOK
<1>5. WinnersDiffer'
  BY <1>3 DEF Frame, WinnersDiffer, ClaimsInv
<1>6. \A q \in ambiguous' : Derived(q)'
  BY <1>2 DEF Frame, ClaimsInv, ControllerOK
<1>7. ActedAfterCommit'
  BY DEF Frame, ClaimsInv, ActedAfterCommit
<1> QED
  BY <1>4, <1>5, <1>6, <1>7 DEF ClaimsInv

(* The steps of a controller that change no external action.               *)
QuietStep(c) ==
  \/ \E plan \in Plans \cup {Blank} : Create(c, plan)
  \/ CreateInserted(c) \/ CreateExists(c) \/ CreateReopened(c) \/ CreateFailed(c)
  \/ Load(c) \/ Loaded(c) \/ LoadFailed(c)
  \/ \E t \in Transitions : AdvanceByHand(c, t) \/ StepWith(c, t) \/ CallbackOk(c, t)
  \/ Advanced(c) \/ Confirmed(c) \/ CallbackFailed(c) \/ AdvanceFailed(c)
  \/ Cancel(c) \/ Crash(c)

LEMMA QuietFrame ==
  ASSUME Typed, NEW c \in Callers, QuietStep(c)
  PROVE  Frame(c) /\ effect' = effect
<1> USE DEF Frame, Winner, Goto, Hold, Typed, TypeOK, StoreTypeOK
<1>1. CASE \/ \E plan \in Plans \cup {Blank} : Create(c, plan)
           \/ CreateExists(c) \/ Load(c)
  BY <1>1 DEF Create, CreateExists, Load, Invoke, Reinvoke
<1>2. CASE \/ CreateInserted(c) \/ CreateReopened(c) \/ CreateFailed(c)
           \/ Loaded(c) \/ LoadFailed(c)
  BY <1>2 DEF CreateInserted, CreateReopened, CreateFailed, Loaded, LoadFailed, Return, Hangup
<1>3. CASE Advanced(c) \/ Confirmed(c) \/ CallbackFailed(c) \/ AdvanceFailed(c)
  BY <1>3 DEF Advanced, Confirmed, CallbackFailed, AdvanceFailed, Return, Hangup
<1>4. CASE \E t \in Transitions : AdvanceByHand(c, t) \/ StepWith(c, t) \/ CallbackOk(c, t)
  BY <1>4 DEF AdvanceByHand, StepWith, CallbackOk, Advance, Invoke
<1>5. CASE Cancel(c) \/ Crash(c)
  BY <1>5 DEF Cancel, Crash, Outage, UnfinishedWrites
<1> QED
  BY <1>1, <1>2, <1>3, <1>4, <1>5 DEF QuietStep

(* The invariant holds initially and every step keeps it.                  *)
LEMMA ClaimsInitially == Init => ClaimsInv
BY DEF Init, StoreInit, ClaimsInv, ControllerOK, WinnersDiffer, Winner, ActedAfterCommit,
       NoRequest, NoAnswer, Revisions

(* An answer of the store: only an acknowledgement makes a winner known to *)
(* its caller, and a load is answered with the committed receipt.          *)
LEMMA ClaimsAnswer ==
  ASSUME Typed, ClaimsInv, NEW c \in Callers, UNCHANGED journalVars,
         \/ AnswerApplied(c) \/ AnswerLoad(c) \/ AnswerConflict(c)
         \/ AnswerRefused(c) \/ AnswerError(c)
  PROVE  ClaimsInv'
<1>1. ControllerOK(c)
  BY DEF ClaimsInv
<1>2. UNCHANGED <<committed, request, pc, held, pending, effect>>
  BY DEF AnswerApplied, AnswerLoad, AnswerConflict, AnswerRefused, AnswerError, Answer,
         journalVars
<1>3. \A r : Genuine(r)' <=> Genuine(r)
  BY <1>2 DEF Genuine
<1>4. \A q : Derived(q)' <=> Derived(q)
  BY <1>3 DEF Derived
<1>5. Winner(c)' => Winner(c)
  BY DEF Winner, AnswerApplied, AnswerLoad, AnswerConflict, AnswerRefused, AnswerError,
         Answer, Reply, Typed, TypeOK, StoreTypeOK
<1>6. answer'[c].receipt \in {None, committed}
  BY DEF AnswerApplied, AnswerLoad, AnswerConflict, AnswerRefused, AnswerError,
         Answer, Reply, Typed, TypeOK, StoreTypeOK
<1>7. committed # None => Genuine(committed)
  BY DEF Genuine, Typed, TypeOK, StoreTypeOK, Receipts, Revisions
<1>8. ControllerOK(c)'
  BY <1>1, <1>2, <1>3, <1>4, <1>5, <1>6, <1>7 DEF ControllerOK
<1>9. Frame(c)
  BY <1>2, <1>5
     DEF Frame, AnswerApplied, AnswerLoad, AnswerConflict, AnswerRefused, AnswerError,
         Answer, Typed, TypeOK, StoreTypeOK, journalVars
<1> QED
  BY <1>2, <1>8, <1>9, ClaimsFrame

LEMMA ClaimsInductive == Typed /\ ClaimsInv /\ [Next]_vars => ClaimsInv'
<1> SUFFICES ASSUME Typed, ClaimsInv, [Next]_vars
             PROVE  ClaimsInv'
  OBVIOUS
<1> USE DEF Goto, Hold
<1>1. ASSUME StoreStep /\ UNCHANGED journalVars
      PROVE  ClaimsInv'
  BY <1>1, ClaimsCommit, ClaimsCommitLate, ClaimsAnswer DEF StoreStep
<1>2. ASSUME NEW c \in Callers, NEW plan \in Plans \cup {Blank}, Create(c, plan)
      PROVE  ClaimsInv'
  <2>1. Derived(CompareExchange(FirstReceipt(Id, plan), None))'
    BY <1>2 DEF Derived, CompareExchange, Create
  <2>2. Frame(c) /\ effect' = effect
    BY <1>2, QuietFrame DEF QuietStep
  <2>3. ControllerOK(c)'
    BY <1>2, <2>1 DEF ClaimsInv, ControllerOK, Winner, Genuine, Create, Invoke, Typed, TypeOK,
                StoreTypeOK
  <2> QED
    BY <2>2, <2>3, ClaimsFrame
<1>3. ASSUME NEW c \in Callers, CreateExists(c) \/ Load(c)
      PROVE  ClaimsInv'
  <2>1. Frame(c) /\ effect' = effect
    BY <1>3, QuietFrame DEF QuietStep
  <2>2. ControllerOK(c)'
    BY <1>3 DEF ClaimsInv, ControllerOK, Winner, Genuine, CreateExists, Load, Invoke,
                Reinvoke, LoadRequest, NoAnswer, Typed, TypeOK, StoreTypeOK
  <2> QED
    BY <2>1, <2>2, ClaimsFrame
<1>4. ASSUME NEW c \in Callers, CreateInserted(c) \/ Advanced(c) \/ Confirmed(c)
      PROVE  ClaimsInv'
  <2>1. Winner(c)
    BY <1>4 DEF CreateInserted, Advanced, Confirmed, Answered, Winner, Typed, PointsMatch,
                PointMatches, Writes
  <2>2. Genuine(request[c].next)
    BY <2>1 DEF ClaimsInv, ControllerOK
  <2>3. Frame(c) /\ effect' = effect
    BY <1>4, QuietFrame DEF QuietStep
  <2>4. ControllerOK(c)'
    BY <1>4, <2>2 DEF ClaimsInv, ControllerOK, Winner, Genuine, CreateInserted, Advanced,
                      Confirmed, Return, Hangup, NoRequest, NoAnswer, Typed, TypeOK,
                      StoreTypeOK
  <2> QED
    BY <2>3, <2>4, ClaimsFrame
<1>5. ASSUME NEW c \in Callers,
             \/ CreateReopened(c) \/ Loaded(c)
             \/ CreateFailed(c) \/ LoadFailed(c) \/ AdvanceFailed(c)
      PROVE  ClaimsInv'
  <2>1. Frame(c) /\ effect' = effect
    BY <1>5, QuietFrame DEF QuietStep
  <2>2. ControllerOK(c)'
    BY <1>5 DEF ClaimsInv, ControllerOK, Winner, Genuine, CreateReopened, Loaded,
                CreateFailed, LoadFailed, AdvanceFailed, Return, Hangup, NoRequest,
                NoAnswer, Typed, TypeOK, StoreTypeOK
  <2> QED
    BY <2>1, <2>2, ClaimsFrame
<1>6. ASSUME NEW c \in Callers, NEW t \in Transitions,
             AdvanceByHand(c, t) \/ StepWith(c, t) \/ CallbackOk(c, t)
      PROVE  ClaimsInv'
  <2>1. PICK r \in {held[c], pending[c]} :
          /\ r \in Receipts /\ Genuine(r) /\ Accepts(r, t)
          /\ Invoke(c, AdvanceWrite(r, NextReceipt(r, t)))
    BY <1>6, StoreAssumption
       DEF AdvanceByHand, StepWith, CallbackOk, Advance, Typed, TypeOK, StoreTypeOK,
           PointsMatch, PointMatches, ClaimsInv, ControllerOK
  <2>2. Derived(AdvanceWrite(r, NextReceipt(r, t)))'
    <3>1. Genuine(r)'
      BY <2>1 DEF Genuine, Invoke
    <3> QED
      BY <2>1, <3>1 DEF Derived, Succeeds, AdvanceWrite, CompareExchange
  <2>3. Frame(c) /\ effect' = effect
    BY <1>6, QuietFrame DEF QuietStep
  <2>4. ControllerOK(c)'
    BY <1>6, <2>1, <2>2
       DEF ClaimsInv, ControllerOK, Winner, Genuine, AdvanceByHand, StepWith, CallbackOk,
           Advance, Invoke, Typed, TypeOK, StoreTypeOK
  <2> QED
    BY <2>3, <2>4, ClaimsFrame
<1>7. ASSUME NEW c \in Callers, CallbackFailed(c)
      PROVE  ClaimsInv'
  <2>1. Frame(c) /\ effect' = effect
    BY <1>7, QuietFrame DEF QuietStep
  <2>2. ControllerOK(c)'
    BY <1>7 DEF ClaimsInv, ControllerOK, Winner, Genuine, Derived, CallbackFailed, Typed,
                TypeOK, StoreTypeOK
  <2> QED
    BY <2>1, <2>2, ClaimsFrame
<1>8. ASSUME NEW c \in Callers, Cancel(c) \/ Crash(c)
      PROVE  ClaimsInv'
  <2>1. Frame(c) /\ effect' = effect
    BY <1>8, QuietFrame DEF QuietStep
  <2>2. ControllerOK(c)'
    BY <1>8 DEF ClaimsInv, ControllerOK, Winner, Genuine, Cancel, Crash, Outage, NoRequest,
                NoAnswer, Typed, TypeOK, StoreTypeOK
  <2> QED
    BY <2>1, <2>2, ClaimsFrame
<1>9. ASSUME NEW v \in Revisions, EffectEnds(v)
      PROVE  ClaimsInv'
  <2>1. \A r : Genuine(r)' <=> Genuine(r)
    BY <1>9 DEF EffectEnds, Genuine
  <2>2. \A q : Derived(q)' <=> Derived(q)
    BY <2>1 DEF Derived
  <2>3. \A w \in Revisions : effect'[w] = "none" <=> effect[w] = "none"
    BY <1>9 DEF EffectEnds, Typed, TypeOK
  <2>4. \A c \in Callers : request[c].op = "cas" => request[c].next.revision \in Revisions
    BY DEF Typed, TypeOK, StoreTypeOK, Requests, LoadRequest, NoRequest, Writes, Receipts
  <2> QED
    BY <1>9, <2>1, <2>2, <2>3, <2>4
       DEF EffectEnds, ClaimsInv, ControllerOK, Winner, WinnersDiffer, ActedAfterCommit
<1>10. ASSUME NEW c \in Callers, Launch(c)
       PROVE  ClaimsInv'
  <2>1. /\ Winner(c) /\ pc[c] = "begin"
        /\ request[c].next \in Receipts
        /\ committed' = committed
    BY <1>10 DEF Launch, Granted, Answered, Winner, Return, Typed, PointsMatch,
                 PointMatches, Writes
  <2>2. Genuine(request[c].next)
    BY <2>1 DEF ClaimsInv, ControllerOK
  <2>3. /\ effect' = [effect EXCEPT ![request[c].next.revision] = "running"]
        /\ pending' = [pending EXCEPT ![c] = request[c].next]
        /\ pc' = [pc EXCEPT ![c] = "acting"]
        /\ stage' = [stage EXCEPT ![c] = "idle"]
        /\ request' = [request EXCEPT ![c] = NoRequest]
        /\ answer' = [answer EXCEPT ![c] = NoAnswer]
        /\ UNCHANGED <<ambiguous, held>>
    BY <1>10 DEF Launch, Return, Hangup
  <2>4. \A r : Genuine(r)' <=> Genuine(r)
    BY <2>1 DEF Genuine
  <2>5. \A q : Derived(q)' <=> Derived(q)
    BY <2>4 DEF Derived
  <2>6. ~Winner(c)' /\ \A d \in Callers \ {c} : Winner(d)' <=> Winner(d)
    BY <2>3 DEF Winner, Typed, TypeOK, StoreTypeOK
  <2>7. ASSUME NEW d \in Callers \ {c}
        PROVE  ControllerOK(d)'
    <3>1. Winner(d) => request[d].next.revision # request[c].next.revision
      BY <2>1 DEF ClaimsInv, WinnersDiffer
    <3>2. Winner(d) => request[d].next.revision \in Revisions
      BY DEF ClaimsInv, ControllerOK, Typed, TypeOK, StoreTypeOK, Requests, LoadRequest,
             NoRequest, Writes, Receipts
    <3> QED
      BY <2>3, <2>4, <2>5, <2>6, <3>1, <3>2
         DEF ClaimsInv, ControllerOK, Typed, TypeOK, StoreTypeOK
  <2>8. ControllerOK(c)'
    BY <2>2, <2>3, <2>4, <2>6
       DEF ClaimsInv, ControllerOK, NoRequest, NoAnswer, Typed, TypeOK, StoreTypeOK
  <2>9. WinnersDiffer'
    BY <2>3, <2>6 DEF ClaimsInv, WinnersDiffer, Typed, TypeOK, StoreTypeOK
  <2>10. ActedAfterCommit'
    BY <2>1, <2>2, <2>3 DEF ClaimsInv, ActedAfterCommit, Genuine, Typed, TypeOK
  <2> QED
    BY <2>3, <2>5, <2>7, <2>8, <2>9, <2>10 DEF ClaimsInv
<1>11. CASE UNCHANGED vars
  BY <1>11 DEF vars, ClaimsInv, ControllerOK, Winner, WinnersDiffer, ActedAfterCommit,
               Genuine, Derived
<1> QED
  BY <1>1, <1>2, <1>3, <1>4, <1>5, <1>6, <1>7, <1>8, <1>9, <1>10, <1>11
     DEF Next, ControllerStep

-----------------------------------------------------------------------------
(***************************************************************************)
(* What became of the external actions.  A write that confirms a claim     *)
(* rests on an action that was applied, which stays so.  With verified     *)
(* reconciliation a write that reconciles a claim rests on one that is     *)
(* dead: it has not been applied, is not running and nobody can start it   *)
(* any more.  So only the committed receipt can have an action that runs   *)
(* or that somebody may still start, and the actions applied before it are *)
(* those of the steps its phase counts.                                    *)
(***************************************************************************)
Dead(v) ==
  /\ committed # None /\ v <= committed.revision
  /\ effect[v] \in {"none", "failed"}
  /\ \A c \in Callers : Winner(c) /\ pc[c] = "begin" => request[c].next.revision # v

Backed(q) ==
  q.expected # None =>
    \E r \in Receipts :
      /\ Genuine(r) /\ q.expected = r.revision
      /\ Completes(r, q.next) => effect[r.revision] = "applied"
      /\ VerifiedReconcile /\ Reconciles(r, q.next) => Dead(r.revision)

AppliedBefore(n) == {v \in Revisions : v < n /\ effect[v] = "applied"}

OnlyTheClaim ==
  /\ \A c \in Callers : Winner(c) /\ pc[c] = "begin" => request[c].next = committed
  /\ \A v \in Revisions :
       effect[v] = "running" =>
         committed # None /\ v = committed.revision /\ committed.phase \in InFlight
  /\ committed # None /\ committed.phase \notin InFlight =>
       effect[committed.revision] = "none"
  /\ committed # None =>
       Cardinality(AppliedBefore(committed.revision)) = StepsConfirmed(committed.phase)

StepsInv ==
  /\ \A c \in Callers : request[c].op = "cas" => Backed(request[c])
  /\ \A q \in ambiguous : Backed(q)
  /\ \A c \in Callers : pc[c] = "begin" => request[c].next.phase \in InFlight
  /\ VerifiedReconcile => OnlyTheClaim

(* An action that was applied stays so, one that is dead stays dead.       *)
Settles ==
  /\ \A v \in Revisions : effect[v] = "applied" => effect'[v] = "applied"
  /\ \A v \in Revisions : Dead(v) => Dead(v)'
  /\ \A r \in Receipts : Genuine(r) => Genuine(r)'

LEMMA BackedStays ==
  ASSUME Settles, NEW q \in Writes, Backed(q)
  PROVE  Backed(q)'
BY DEF Settles, Backed, Receipts

(* A quiet step changes nothing of that: if what c asks for afterwards is  *)
(* backed, all of it holds.                                                *)
LEMMA StepsFrame ==
  ASSUME Typed, ClaimsInv, StepsInv, NEW c \in Callers, Frame(c), effect' = effect,
         Typed',
         request'[c].op = "cas" => Backed(request'[c]),
         pc'[c] = "begin" => /\ request'[c].next.phase \in InFlight
                             /\ Winner(c)' => pc[c] = "begin"
  PROVE  StepsInv'
<1>1. \A r : Genuine(r)' <=> Genuine(r)
  BY DEF Frame, Genuine
<1>2. \A d \in Callers : Winner(d)' /\ pc'[d] = "begin" =>
        Winner(d) /\ pc[d] = "begin" /\ request'[d] = request[d]
  BY DEF Frame, Winner
<1>3. \A v : Dead(v) => Dead(v)'
  BY <1>2 DEF Frame, Dead
<1>5. \A d \in Callers : request'[d].op = "cas" => request'[d] \in Writes
  BY DEF Typed, TypeOK, StoreTypeOK, Requests, LoadRequest, NoRequest
<1>6. \A d \in Callers : request'[d].op = "cas" => Backed(request'[d])
  BY DEF Frame, StepsInv
<1>7. ASSUME NEW d \in Callers, request'[d].op = "cas"
      PROVE  Backed(request[d])'
  <2> DEFINE q == request'[d]
  <2>1. q \in Writes /\ Backed(q)
    BY <1>5, <1>6, <1>7
  <2> QED
    BY <2>1, <1>1, <1>3 DEF Backed, Frame
<1>8. ASSUME NEW q \in ambiguous'
      PROVE  Backed(q)'
  <2>1. Backed(q)
    BY DEF Frame, StepsInv
  <2> QED
    BY <2>1, <1>1, <1>3 DEF Backed
<1>9. VerifiedReconcile => OnlyTheClaim'
  BY <1>2 DEF StepsInv, OnlyTheClaim, Frame, AppliedBefore
<1> QED
  BY <1>7, <1>8, <1>9 DEF StepsInv, Frame

LEMMA AppliedBeforeFinite ==
  ASSUME NEW n
  PROVE  IsFiniteSet(AppliedBefore(n))
<1>1. AppliedBefore(n) \subseteq 0..MaxRevision
  BY DEF AppliedBefore, Revisions
<1>2. IsFiniteSet(0..MaxRevision)
  BY FS_Interval, ReceiptAssumption
<1> QED
  BY <1>1, <1>2, FS_Subset

(* The store commits q.  If it ends a claim, nobody can still start that   *)
(* claim's action and it does not run; only a completed one counts.        *)
LEMMA StepsCommit ==
  ASSUME Typed, ClaimsInv, StepsInv, NEW q \in Writes, Derived(q), Backed(q),
         Matches(committed, q.expected), committed' = q.next,
         UNCHANGED <<effect, pc, request>>,
         \A d \in Callers : Winner(d)' => Winner(d) \/ request[d] = q
  PROVE  Settles /\ (VerifiedReconcile => OnlyTheClaim')
<1>1. /\ \A r \in Receipts : Genuine(r) => Genuine(r)'
      /\ committed # None => q.next.revision > committed.revision
      /\ IF committed = None
         THEN \E plan \in Plans : q.next = FirstReceipt(Id, plan)
         ELSE Succeeds(committed, q.next)
  BY CommitStep DEF Typed
<1>2. q.next \in Receipts /\ q.next.revision \in Revisions /\ q.next # None
  BY StoreAssumption DEF Writes, Receipts
<1>3. committed # None => committed \in Receipts /\ committed.revision \in Revisions
  BY DEF Typed, TypeOK, StoreTypeOK, Receipts
<1>4. \A v \in Revisions : effect[v] # "none" => committed # None /\ v <= committed.revision
  BY DEF ClaimsInv, ActedAfterCommit
<1>5. ASSUME NEW v \in Revisions, Dead(v)
      PROVE  Dead(v)'
  <2>1. v <= q.next.revision /\ v # q.next.revision
    BY <1>1, <1>2, <1>3, <1>5 DEF Dead, Revisions
  <2> QED
    BY <1>2, <1>5, <2>1 DEF Dead
<1>6. Settles
  BY <1>1, <1>5 DEF Settles
<1>7. effect[q.next.revision] = "none"
  BY <1>1, <1>2, <1>3, <1>4 DEF Revisions, Typed, TypeOK, Effects
<1>8. ASSUME VerifiedReconcile
      PROVE  OnlyTheClaim'
  <2>1. OnlyTheClaim
    BY <1>8 DEF StepsInv
  <2>2. CASE committed = None
    <3>1. \A d \in Callers : ~Winner(d)
      BY <2>2 DEF ClaimsInv, ControllerOK, Genuine
    <3>2. \A v \in Revisions : effect[v] = "none"
      BY <1>4, <2>2
    <3>3. PICK plan \in Plans : q.next = FirstReceipt(Id, plan)
      BY <1>1, <2>2
    <3>4. q.next.phase = "Prepared" /\ q.next.revision = 0
      BY <3>3 DEF FirstReceipt
    <3>5. AppliedBefore(committed.revision)' = {}
      BY <3>2 DEF AppliedBefore
    <3> QED
      BY <1>2, <3>1, <3>2, <3>4, <3>5, FS_EmptySet DEF OnlyTheClaim, StepsConfirmed, InFlight
  <2>3. CASE committed # None
    <3> DEFINE v == committed.revision
    <3>1. committed \in Receipts /\ v \in Revisions
      BY <1>3, <2>3
    <3>2. PICK t \in Transitions : Accepts(committed, t) /\ q.next = NextReceipt(committed, t)
      BY <1>1, <2>3 DEF Succeeds
    <3>3. /\ q.next.revision = v + 1
          /\ Claims(committed, q.next) \/ Completes(committed, q.next)
               \/ Reconciles(committed, q.next)
      BY <3>1, <3>2, NextReceiptIdentity, NextReceiptPhase
    <3>4. q.expected = v /\ q.expected # None
      BY <2>3, <3>1, StoreAssumption DEF Matches
    <3>5. /\ Completes(committed, q.next) => effect[v] = "applied"
          /\ Reconciles(committed, q.next) => Dead(v)
      BY <1>8, <3>4 DEF Backed, Genuine
    <3>6. Claims(committed, q.next) => committed.phase \notin InFlight /\ effect[v] = "none"
      BY <2>1, <2>3 DEF Claims, InFlight, OnlyTheClaim
    <3>7. \A d \in Callers : ~(Winner(d) /\ pc[d] = "begin")
      <4> SUFFICES ASSUME NEW d \in Callers, Winner(d), pc[d] = "begin"
                   PROVE  FALSE
        OBVIOUS
      <4>1. /\ request[d].next = committed /\ committed.phase \in InFlight
            /\ effect[v] = "none"
        BY <2>1 DEF OnlyTheClaim, StepsInv, ClaimsInv, ControllerOK
      <4> QED
        BY <3>3, <3>5, <4>1 DEF Dead, Claims, InFlight
    <3>8. \A w \in Revisions : effect[w] # "running"
      <4> SUFFICES ASSUME NEW w \in Revisions, effect[w] = "running"
                   PROVE  FALSE
        OBVIOUS
      <4>1. w = v /\ committed.phase \in InFlight
        BY <2>1 DEF OnlyTheClaim
      <4> QED
        BY <3>3, <3>5, <4>1 DEF Dead, Claims, InFlight
    <3>9. Cardinality(AppliedBefore(v + 1)) = StepsConfirmed(q.next.phase)
      <4>1. Cardinality(AppliedBefore(v)) = StepsConfirmed(committed.phase)
        BY <2>1, <2>3 DEF OnlyTheClaim
      <4>2. CASE effect[v] = "applied"
        <5>1. AppliedBefore(v + 1) = AppliedBefore(v) \cup {v} /\ v \notin AppliedBefore(v)
          BY <3>1, <4>2 DEF AppliedBefore, Revisions
        <5>2. IsFiniteSet(AppliedBefore(v))
          BY AppliedBeforeFinite
        <5>3. Cardinality(AppliedBefore(v + 1)) = Cardinality(AppliedBefore(v)) + 1
          BY <5>1, <5>2, FS_AddElement
        <5>4. Completes(committed, q.next)
          BY <3>3, <3>5, <3>6, <4>2 DEF Dead
        <5> QED
          BY <4>1, <5>3, <5>4 DEF Completes, StepsConfirmed
      <4>3. CASE effect[v] # "applied"
        <5>1. AppliedBefore(v + 1) = AppliedBefore(v)
          BY <3>1, <4>3 DEF AppliedBefore, Revisions
        <5>2. Claims(committed, q.next) \/ Reconciles(committed, q.next)
          BY <3>3, <3>5, <4>3
        <5> QED
          BY <4>1, <5>1, <5>2 DEF Claims, Reconciles, StepsConfirmed
      <4> QED
        BY <4>2, <4>3
    <3>10. Cardinality(AppliedBefore(committed.revision)') = StepsConfirmed(committed'.phase)
      BY <3>3, <3>9 DEF AppliedBefore
    <3> QED
      BY <1>2, <1>7, <3>7, <3>8, <3>10 DEF OnlyTheClaim
  <2> QED
    BY <2>2, <2>3
<1> QED
  BY <1>6, <1>8

(* An answer of the store is a quiet step, too.                            *)
LEMMA AnswerFrame ==
  ASSUME Typed, NEW c \in Callers, UNCHANGED journalVars,
         \/ AnswerApplied(c) \/ AnswerLoad(c) \/ AnswerConflict(c)
         \/ AnswerRefused(c) \/ AnswerError(c)
  PROVE  Frame(c) /\ UNCHANGED <<request, pc, effect>>
BY DEF Frame, Winner, AnswerApplied, AnswerLoad, AnswerConflict, AnswerRefused, AnswerError,
       Answer, Reply, Typed, TypeOK, StoreTypeOK, journalVars

LEMMA StepsInitially == Init => StepsInv
BY DEF Init, StoreInit, StepsInv, OnlyTheClaim, Winner, NoRequest, NoAnswer

(* The write of an application or of a callback: it begins a claim, or     *)
(* confirms or reconciles one it has looked at.                            *)
LEMMA AdvanceBacked ==
  ASSUME Typed, ClaimsInv, StepsInv, NEW r \in Receipts, NEW t \in Transitions,
         Genuine(r), Accepts(r, t), Verified(r, t)
  PROVE  Backed(AdvanceWrite(r, NextReceipt(r, t)))
<1> DEFINE n == NextReceipt(r, t)
<1>1. AdvanceWrite(r, n).expected = r.revision /\ AdvanceWrite(r, n).next = n
  BY DEF AdvanceWrite, CompareExchange
<1>2. r.revision \in Revisions /\ r.revision <= committed.revision /\ committed # None
  BY DEF Genuine, Receipts
<1>3. Completes(r, n) => effect[r.revision] = "applied"
  <2>1. Completes(r, n) => t.kind \in Confirmations
    BY NextReceiptPhase
  <2> QED
    BY <2>1 DEF Verified, Confirmations
<1>4. ASSUME VerifiedReconcile, Reconciles(r, n)
      PROVE  Dead(r.revision)
  <2>1. Settled(r.revision) /\ effect[r.revision] # "applied"
    BY <1>4, NextReceiptPhase DEF Verified, Confirmations
  <2>2. \A c \in Callers : Winner(c) => stage[c] \in {"applied", "answered"}
    BY DEF Winner
  <2> QED
    BY <1>2, <2>1, <2>2 DEF Dead, Settled, Typed, TypeOK, Effects
<1> QED
  BY <1>1, <1>3, <1>4 DEF Backed

LEMMA StepsQuiet ==
  ASSUME Typed, ClaimsInv, StepsInv, Typed', NEW c \in Callers, QuietStep(c)
  PROVE  StepsInv'
<1>1. Frame(c) /\ effect' = effect
  BY QuietFrame
<1> SUFFICES /\ request'[c].op = "cas" => Backed(request'[c])
             /\ pc'[c] = "begin" => /\ request'[c].next.phase \in InFlight
                                    /\ Winner(c)' => pc[c] = "begin"
  BY <1>1, StepsFrame
<1> USE DEF Goto, Hold
<1>2. ASSUME NEW plan \in Plans \cup {Blank}, Create(c, plan)
      PROVE  request'[c].expected = None /\ pc'[c] # "begin"
  BY <1>2 DEF Create, Invoke, CompareExchange, Typed, TypeOK, StoreTypeOK
<1>3. ASSUME CreateExists(c) \/ Load(c)
      PROVE  request'[c].op # "cas" /\ pc'[c] # "begin"
  BY <1>3 DEF CreateExists, Load, Invoke, Reinvoke, LoadRequest, Typed, TypeOK, StoreTypeOK
<1>4. ASSUME \/ CreateInserted(c) \/ CreateReopened(c) \/ CreateFailed(c)
             \/ Loaded(c) \/ LoadFailed(c) \/ Advanced(c) \/ Confirmed(c) \/ AdvanceFailed(c)
             \/ Cancel(c) \/ Crash(c)
      PROVE  request'[c].op # "cas" /\ pc'[c] # "begin"
  BY <1>4 DEF CreateInserted, CreateReopened, CreateFailed, Loaded, LoadFailed, Advanced,
              Confirmed, AdvanceFailed, Cancel, Crash, Return, Hangup, Outage, NoRequest,
              Typed, TypeOK, StoreTypeOK
<1>5. ASSUME CallbackFailed(c)
      PROVE  request' = request /\ pc'[c] # "begin"
  BY <1>5 DEF CallbackFailed, Typed, TypeOK
<1>6. ASSUME NEW t \in Transitions, AdvanceByHand(c, t) \/ StepWith(c, t) \/ CallbackOk(c, t)
      PROVE  /\ Backed(request'[c])
             /\ pc'[c] = "begin" => request'[c].next.phase \in InFlight /\ ~Winner(c)'
  <2>1. PICK r \in {held[c], pending[c]} :
          /\ r \in Receipts /\ Genuine(r) /\ Accepts(r, t) /\ Verified(r, t)
          /\ Invoke(c, AdvanceWrite(r, NextReceipt(r, t)))
    <3>1. CASE AdvanceByHand(c, t)
      BY <3>1 DEF AdvanceByHand, Advance, Typed, TypeOK, ClaimsInv, ControllerOK
    <3>2. CASE StepWith(c, t)
      BY <3>2 DEF StepWith, Advance, Verified, Begins, Confirmations, Typed, TypeOK,
                  ClaimsInv, ControllerOK
    <3>3. CASE CallbackOk(c, t)
      <4>1. pending[c] \in Receipts /\ Genuine(pending[c])
        BY <3>3, StoreAssumption
           DEF CallbackOk, Typed, PointsMatch, PointMatches, ClaimsInv, ControllerOK
      <4>2. Verified(pending[c], t)
        BY <3>3 DEF CallbackOk, Verified, Confirmations
      <4> QED
        BY <3>3, <4>1, <4>2 DEF CallbackOk, Advance
    <3> QED
      BY <1>6, <3>1, <3>2, <3>3
  <2>2. Backed(AdvanceWrite(r, NextReceipt(r, t)))
    BY <2>1, AdvanceBacked
  <2>3. request'[c] = AdvanceWrite(r, NextReceipt(r, t)) /\ ~Winner(c)'
    BY <2>1 DEF Invoke, Winner, Typed, TypeOK, StoreTypeOK
  <2>4. pc'[c] = "begin" => t.kind \in Begins
    BY <1>6 DEF AdvanceByHand, StepWith, CallbackOk, Advance, Typed, TypeOK
  <2>5. t.kind \in Begins => NextReceipt(r, t).phase \in InFlight
    BY <2>1, NextReceiptPhase DEF Claims, InFlight
  <2>6. AdvanceWrite(r, NextReceipt(r, t)).next = NextReceipt(r, t)
    BY DEF AdvanceWrite, CompareExchange
  <2> QED
    BY <2>2, <2>3, <2>4, <2>5, <2>6
<1>7. request'[c] = request[c] /\ request[c].op = "cas" => Backed(request'[c])
  BY DEF StepsInv
<1>8. request'[c].expected = None => Backed(request'[c])
  BY DEF Backed
<1> QED
  BY <1>2, <1>3, <1>4, <1>5, <1>6, <1>7, <1>8 DEF QuietStep

LEMMA StepsInductive == Typed /\ ClaimsInv /\ StepsInv /\ [Next]_vars => StepsInv'
<1> SUFFICES ASSUME Typed, ClaimsInv, StepsInv, [Next]_vars
             PROVE  StepsInv'
  OBVIOUS
<1>1. Typed'
  BY TypedInductive
<1>2. /\ \A d \in Callers : request[d].op = "cas" => request[d] \in Writes
      /\ ambiguous \subseteq Writes
  BY DEF Typed, TypeOK, StoreTypeOK, Requests, LoadRequest, NoRequest
<1>3. ASSUME NEW c \in Callers, Commit(c), UNCHANGED journalVars
      PROVE  StepsInv'
  <2>1. /\ request[c] \in Writes /\ Derived(request[c]) /\ Backed(request[c])
        /\ Matches(committed, request[c].expected) /\ committed' = request[c].next
        /\ UNCHANGED <<request, ambiguous, pc, effect>>
    BY <1>2, <1>3 DEF Commit, ClaimsInv, ControllerOK, StepsInv, journalVars
  <2>2. \A d \in Callers : Winner(d)' => Winner(d) \/ request[d] = request[c]
    BY <1>3 DEF Commit, Winner, Typed, TypeOK, StoreTypeOK
  <2>3. Settles /\ (VerifiedReconcile => OnlyTheClaim')
    BY <2>1, <2>2, StepsCommit
  <2> QED
    BY <1>2, <2>1, <2>3, BackedStays DEF StepsInv
<1>4. ASSUME NEW q \in ambiguous, CommitLate(q), UNCHANGED journalVars
      PROVE  StepsInv'
  <2>1. /\ q \in Writes /\ Derived(q) /\ Backed(q)
        /\ Matches(committed, q.expected) /\ committed' = q.next
        /\ UNCHANGED <<request, pc, effect>> /\ ambiguous' \subseteq ambiguous
    BY <1>2, <1>4 DEF CommitLate, ClaimsInv, StepsInv, journalVars
  <2>2. \A d \in Callers : Winner(d)' => Winner(d)
    BY <1>4 DEF CommitLate, Winner
  <2>3. Settles /\ (VerifiedReconcile => OnlyTheClaim')
    BY <2>1, <2>2, StepsCommit
  <2> QED
    BY <1>2, <2>1, <2>3, BackedStays DEF StepsInv
<1>5. ASSUME NEW c \in Callers, UNCHANGED journalVars,
             \/ AnswerApplied(c) \/ AnswerLoad(c) \/ AnswerConflict(c)
             \/ AnswerRefused(c) \/ AnswerError(c)
      PROVE  StepsInv'
  <2>1. Frame(c) /\ UNCHANGED <<request, pc, effect>>
    BY <1>5, AnswerFrame
  <2> QED
    BY <1>1, <2>1, StepsFrame DEF StepsInv
<1>6. ASSUME NEW c \in Callers, QuietStep(c)
      PROVE  StepsInv'
  BY <1>1, <1>6, StepsQuiet
<1>7. ASSUME NEW v \in Revisions, EffectEnds(v)
      PROVE  StepsInv'
  <2>1. /\ UNCHANGED <<committed, ambiguous, stage, request, answer, pc>>
        /\ effect[v] = "running" /\ effect'[v] \in {"applied", "failed"}
        /\ \A w \in Revisions \ {v} : effect'[w] = effect[w]
    BY <1>7 DEF EffectEnds, Typed, TypeOK
  <2>2. Settles
    BY <2>1 DEF Settles, Dead, Winner, Genuine
  <2>3. ASSUME VerifiedReconcile
        PROVE  OnlyTheClaim'
    <3>1. OnlyTheClaim
      BY <2>3 DEF StepsInv
    <3>2. /\ committed # None /\ v = committed.revision /\ committed.phase \in InFlight
      BY <2>1, <3>1 DEF OnlyTheClaim
    <3>3. AppliedBefore(committed.revision)' = AppliedBefore(committed.revision)
      BY <2>1, <3>2 DEF AppliedBefore, Revisions
    <3> QED
      BY <2>1, <3>1, <3>2, <3>3 DEF OnlyTheClaim, Winner
  <2> QED
    BY <1>2, <2>1, <2>2, <2>3, BackedStays DEF StepsInv
<1>8. ASSUME NEW c \in Callers, Launch(c)
      PROVE  StepsInv'
  <2> DEFINE w == request[c].next.revision
  <2>1. Winner(c) /\ pc[c] = "begin" /\ request[c].next \in Receipts
    BY <1>8 DEF Launch, Granted, Answered, Winner, Typed, PointsMatch, PointMatches, Writes
  <2>2. w \in Revisions /\ effect[w] = "none"
    BY <2>1 DEF ClaimsInv, ControllerOK, Receipts
  <2>3. /\ effect' = [effect EXCEPT ![w] = "running"]
        /\ pc' = [pc EXCEPT ![c] = "acting"]
        /\ stage' = [stage EXCEPT ![c] = "idle"]
        /\ request' = [request EXCEPT ![c] = NoRequest]
        /\ answer' = [answer EXCEPT ![c] = NoAnswer]
        /\ UNCHANGED <<committed, ambiguous>>
    BY <1>8 DEF Launch, Return, Hangup, Goto
  <2>4. \A d \in Callers : Winner(d)' =>
          d # c /\ Winner(d) /\ pc'[d] = pc[d] /\ request'[d] = request[d]
    BY <2>3 DEF Winner, Typed, TypeOK, StoreTypeOK
  <2>5. \A u \in Revisions : Dead(u) => u # w
    BY <2>1 DEF Dead
  <2>6. \A u \in Revisions \ {w} : effect'[u] = effect[u]
    BY <2>3 DEF Typed, TypeOK
  <2>7. Settles
    BY <2>2, <2>3, <2>4, <2>5, <2>6 DEF Settles, Dead, Genuine
  <2>8. ASSUME VerifiedReconcile
        PROVE  OnlyTheClaim'
    <3>1. OnlyTheClaim
      BY <2>8 DEF StepsInv
    <3>2. committed = request[c].next /\ committed.phase \in InFlight /\ w = committed.revision
      BY <2>1, <3>1 DEF OnlyTheClaim, StepsInv
    <3>3. AppliedBefore(committed.revision)' = AppliedBefore(committed.revision)
      BY <2>3, <2>6, <3>2 DEF AppliedBefore, Revisions
    <3>4. committed # None
      BY <2>1, <3>2, StoreAssumption
    <3> QED
      BY <2>3, <2>4, <2>6, <3>1, <3>2, <3>3, <3>4 DEF OnlyTheClaim
  <2>9. \A d \in Callers : request'[d].op = "cas" => request'[d] = request[d]
    BY <2>3 DEF NoRequest, Typed, TypeOK, StoreTypeOK
  <2>10. \A d \in Callers : pc'[d] = "begin" => request'[d] = request[d] /\ pc[d] = "begin"
    BY <2>3 DEF Typed, TypeOK, StoreTypeOK
  <2> QED
    BY <1>2, <2>3, <2>7, <2>8, <2>9, <2>10, BackedStays DEF StepsInv
<1>9. CASE UNCHANGED vars
  BY <1>9 DEF vars, StepsInv, OnlyTheClaim, Backed, Dead, Winner, Genuine, AppliedBefore
<1> QED
  BY <1>3, <1>4, <1>5, <1>6, <1>7, <1>8, <1>9 DEF Next, ControllerStep, StoreStep, QuietStep

LEMMA Invariants == Spec => [](Typed /\ ClaimsInv /\ StepsInv)
<1>1. Init => Typed /\ ClaimsInv /\ StepsInv
  BY TypedInitially, ClaimsInitially, StepsInitially
<1>2. Typed /\ ClaimsInv /\ StepsInv /\ [Next]_vars => (Typed /\ ClaimsInv /\ StepsInv)'
  BY TypedInductive, ClaimsInductive, StepsInductive
<1> QED
  BY <1>1, <1>2, PTL DEF Spec

(* Intent is durable before an action: whatever fails, no callback runs    *)
(* under a revision that is not committed (run_step).                      *)
THEOREM IntentIsDurable == Spec => []ActedAfterCommit
<1>1. Typed /\ ClaimsInv => ActedAfterCommit
  BY DEF ClaimsInv
<1> QED
  BY Invariants, <1>1, PTL

(* A controller never holds a receipt that was not committed, or one that  *)
(* differs from the committed receipt of its revision (create, load,       *)
(* advance return nothing else).                                           *)
THEOREM HeldReceiptsAreCommitted == Spec => []HeldIsCommitted
<1>1. Typed /\ ClaimsInv => HeldIsCommitted
  BY DEF ClaimsInv, ControllerOK, HeldIsCommitted, Genuine
<1> QED
  BY Invariants, <1>1, PTL

(* A callback is invoked at most once per committed begin receipt, among   *)
(* any number of racing, crashing and cancelled controllers, and whatever  *)
(* applications reconcile (run_step over compare_exchange).                *)
THEOREM ClaimsAreExclusive == Spec => ActedAtMostOnce
<1>1. ASSUME Typed, ClaimsInv, [Next]_vars, NEW c \in Callers, Launches(c)
      PROVE  effect[pending'[c].revision] = "none"
  <2>1. \E d \in Callers : Launch(d)
    BY <1>1, ZenonT(60)
       DEF Launches, Next, ControllerStep, journalVars, vars, Create, CreateInserted,
           CreateExists, CreateReopened, CreateFailed, Load, Loaded, LoadFailed,
           AdvanceByHand, StepWith, CallbackOk, Advance, Advanced, Confirmed,
           CallbackFailed, AdvanceFailed, EffectEnds, Cancel, Crash, Goto, Typed, TypeOK
  <2>2. Launch(c)
    BY <1>1, <2>1 DEF Launch, Launches, Goto, Typed, TypeOK
  <2>3. Winner(c) /\ pc[c] = "begin"
    BY <1>1, <2>2 DEF Launch, Granted, Answered, Winner, Typed, PointsMatch, PointMatches,
                      Writes
  <2> QED
    BY <1>1, <2>2, <2>3 DEF Launch, ClaimsInv, ControllerOK, Typed, TypeOK
<1>2. Typed /\ ClaimsInv /\ [Next]_vars =>
        [\A c \in Callers : Launches(c) => effect[pending'[c].revision] = "none"]_vars
  BY <1>1
<1> QED
  BY Invariants, <1>2, PTL DEF Spec, ActedAtMostOnce

(* What is committed changes only by a write that is derived from a        *)
(* genuine receipt and backed by what became of the action.                *)
LEMMA CommittedChanges ==
  ASSUME Typed, ClaimsInv, StepsInv, [Next]_vars, committed' # committed
  PROVE  \E q \in Writes : /\ Derived(q) /\ Backed(q)
                           /\ Matches(committed, q.expected)
                           /\ committed' = q.next
<1>1. ASSUME NEW c \in Callers, ControllerStep(c) \/ Cancel(c) \/ Crash(c)
      PROVE  committed' = committed
  <2>1. CASE QuietStep(c)
    BY <2>1, QuietFrame DEF Frame
  <2>2. CASE Launch(c)
    BY <2>2 DEF Launch, Return
  <2> QED
    BY <1>1, <2>1, <2>2 DEF ControllerStep, QuietStep
<1>2. ASSUME NEW v \in Revisions, EffectEnds(v)
      PROVE  committed' = committed
  BY <1>2 DEF EffectEnds
<1>3. StoreStep
  BY <1>1, <1>2 DEF Next, vars
<1> QED
  BY <1>3
     DEF StoreStep, Commit, CommitLate, AnswerApplied, AnswerLoad, AnswerConflict,
         AnswerRefused, AnswerError, Typed, TypeOK, StoreTypeOK, ClaimsInv, ControllerOK,
         StepsInv, Requests, LoadRequest, NoRequest

(* The committed receipt is inserted once and then only replaced by a      *)
(* legal successor of itself, though the store compares revisions only     *)
(* and writers may hold any receipt that was ever committed.               *)
THEOREM HistoryIsLegal == Spec => LegalHistory
<1> DEFINE Good == \/ committed = None /\ \E plan \in Plans : committed' = FirstReceipt(Id, plan)
                   \/ committed # None /\ Succeeds(committed, committed')
<1>1. ASSUME Typed, ClaimsInv, StepsInv, [Next]_vars, committed' # committed
      PROVE  Good
  BY <1>1, CommittedChanges, CommitStep DEF Typed
<1>2. Typed /\ ClaimsInv /\ StepsInv /\ [Next]_vars => [committed' # committed => Good]_vars
  BY <1>1
<1> QED
  BY Invariants, <1>2, PTL DEF Spec, LegalHistory

(* Only its own commit makes a write that is waited for an applied one.    *)
LEMMA AppliedByCommit ==
  ASSUME Typed, [Next]_vars, NEW c \in Callers, stage[c] = "pending", stage'[c] = "applied"
  PROVE  Commit(c)
<1> USE DEF Typed, TypeOK, StoreTypeOK
<1>1. ASSUME NEW d \in Callers, ControllerStep(d) \/ Cancel(d) \/ Crash(d)
      PROVE  FALSE
  <2>1. CASE \/ \E plan \in Plans \cup {Blank} : Create(d, plan)
             \/ CreateExists(d) \/ Load(d)
    BY <2>1 DEF Create, CreateExists, Load, Invoke, Reinvoke
  <2>2. CASE \/ CreateInserted(d) \/ CreateReopened(d) \/ CreateFailed(d)
             \/ Loaded(d) \/ LoadFailed(d)
    BY <2>2 DEF CreateInserted, CreateReopened, CreateFailed, Loaded, LoadFailed, Return, Hangup
  <2>3. CASE Advanced(d) \/ Launch(d) \/ Confirmed(d) \/ CallbackFailed(d) \/ AdvanceFailed(d)
    BY <2>3 DEF Advanced, Launch, Confirmed, CallbackFailed, AdvanceFailed, Return, Hangup
  <2>4. CASE \E t \in Transitions : AdvanceByHand(d, t) \/ StepWith(d, t) \/ CallbackOk(d, t)
    BY <2>4 DEF AdvanceByHand, StepWith, CallbackOk, Advance, Invoke
  <2>5. CASE Cancel(d) \/ Crash(d)
    BY <2>5 DEF Cancel, Crash, Outage
  <2> QED
    BY <1>1, <2>1, <2>2, <2>3, <2>4, <2>5 DEF ControllerStep
<1>2. StoreStep
  BY <1>1 DEF Next, vars, EffectEnds
<1> QED
  BY <1>2 DEF StoreStep, Commit, CommitLate, AnswerApplied, AnswerLoad, AnswerConflict,
              AnswerRefused, AnswerError, Answer

(* A confirmation is committed only onto a claim whose action was done,    *)
(* and a worker's own only onto the very claim its callback was launched   *)
(* with, whatever applications reconcile (advance, run_step).  Of those    *)
(* who confirm by hand it is assumed that the action was found to be done. *)
THEOREM ConfirmationsAreHonest == Spec => ConfirmsItsOwnClaim
<1> DEFINE Done == committed # None /\ Confirms(committed, committed')
                   => effect[committed.revision] = "applied"
           Own == \A c \in Callers :
                    pc[c] = "confirm" /\ stage[c] = "pending" /\ stage'[c] = "applied"
                    => committed = pending[c]
<1>1. ASSUME Typed, ClaimsInv, StepsInv, [Next]_vars
      PROVE  Done
  <2> SUFFICES ASSUME committed # None, Confirms(committed, committed')
               PROVE  effect[committed.revision] = "applied"
    OBVIOUS
  <2>1. committed' # committed
    BY DEF Confirms
  <2>2. PICK q \in Writes : /\ Backed(q) /\ Matches(committed, q.expected)
                           /\ committed' = q.next
    BY <1>1, <2>1, CommittedChanges
  <2>3. committed.revision # None
    BY <1>1, StoreAssumption DEF Typed, TypeOK, StoreTypeOK, Receipts
  <2> QED
    BY <1>1, <2>2, <2>3 DEF Matches, Backed, Genuine, Confirms, Completes
<1>2. ASSUME Typed, ClaimsInv, [Next]_vars, NEW c \in Callers,
             pc[c] = "confirm", stage[c] = "pending", stage'[c] = "applied"
      PROVE  committed = pending[c]
  <2>1. pending[c] \in Receipts /\ request[c].expected = pending[c].revision
    BY <1>2 DEF Typed, PointsMatch, PointMatches
  <2>2. pending[c] # None /\ pending[c].revision # None
    BY <2>1, StoreAssumption DEF Receipts
  <2>3. Genuine(pending[c])
    BY <1>2, <2>2 DEF ClaimsInv, ControllerOK
  <2>4. Matches(committed, request[c].expected)
    BY <1>2, AppliedByCommit DEF Commit
  <2> QED
    BY <2>1, <2>2, <2>3, <2>4 DEF Matches, Genuine
<1>3. Typed /\ ClaimsInv /\ StepsInv /\ [Next]_vars => [Done /\ Own]_vars
  BY <1>1, <1>2
<1> QED
  BY Invariants, <1>3, PTL DEF Spec, ConfirmsItsOwnClaim

(* If applications reconcile as documented, two external actions never     *)
(* run at the same time, among any number of controllers that race, are    *)
(* cancelled or crash with their action running (run_step,                 *)
(* ReconcileNotApplied).                                                   *)
THEOREM ActionsAreExclusive == VerifiedReconcile => (Spec => []ActionsDoNotOverlap)
<1> SUFFICES ASSUME VerifiedReconcile
             PROVE  Spec => []ActionsDoNotOverlap
  OBVIOUS
<1>1. Typed /\ ClaimsInv /\ StepsInv => ActionsDoNotOverlap
  BY DEF StepsInv, OnlyTheClaim, ActionsDoNotOverlap
<1> QED
  BY Invariants, <1>1, PTL

(* If applications reconcile as documented, every step is applied exactly  *)
(* once on the way to a confirmed phase, and no step is applied whose      *)
(* claim was not committed (run_step, ReconcileNotApplied).                *)
THEOREM StepsAreAppliedOnce == VerifiedReconcile => (Spec => []EachStepAppliedOnce)
<1> SUFFICES ASSUME VerifiedReconcile
             PROVE  Spec => []EachStepAppliedOnce
  OBVIOUS
<1>1. ASSUME Typed, ClaimsInv, StepsInv, committed # None
      PROVE  IF committed.phase \in InFlight
             THEN Cardinality(Applied) - StepsConfirmed(committed.phase) \in {0, 1}
             ELSE Cardinality(Applied) = StepsConfirmed(committed.phase)
  <2> DEFINE v == committed.revision
             before == AppliedBefore(v)
  <2>1. /\ v \in Revisions
        /\ committed.phase \notin InFlight => effect[v] = "none"
        /\ Cardinality(before) = StepsConfirmed(committed.phase)
    BY <1>1 DEF StepsInv, OnlyTheClaim, Typed, TypeOK, StoreTypeOK, Receipts
  <2>2. \A w \in Revisions : effect[w] = "applied" => w <= v
    BY <1>1 DEF ClaimsInv, ActedAfterCommit
  <2>3. Applied = (IF effect[v] = "applied" THEN before \cup {v} ELSE before) /\ v \notin before
    BY <2>1, <2>2 DEF Applied, AppliedBefore, Revisions
  <2>4. IsFiniteSet(before) /\ Cardinality(before) \in Nat
    BY AppliedBeforeFinite, FS_CardinalityType
  <2>5. Cardinality(before \cup {v}) = Cardinality(before) + 1
    BY <2>3, <2>4, FS_AddElement
  <2> HIDE DEF before
  <2> QED
    BY <2>1, <2>3, <2>4, <2>5
<1>2. Typed /\ ClaimsInv /\ StepsInv => EachStepAppliedOnce
  BY <1>1 DEF EachStepAppliedOnce
<1> QED
  BY Invariants, <1>2, PTL

(* A recorded checkpoint stays the checkpoint of the handoff.              *)
THEOREM CheckpointsAreKept == Spec => CheckpointIsKept
<1>1. ASSUME Typed, committed # None, committed.checkpoint # None,
             committed' = committed \/ Succeeds(committed, committed')
      PROVE  committed'.checkpoint = committed.checkpoint
  <2>1. committed \in Receipts
    BY <1>1 DEF Typed, TypeOK, StoreTypeOK
  <2> QED
    BY <1>1, <2>1, NextReceiptKeepsCheckpoint DEF Succeeds
<1>2. ASSUME Typed, [committed' # committed =>
                       \/ committed = None /\ \E plan \in Plans : committed' = FirstReceipt(Id, plan)
                       \/ committed # None /\ Succeeds(committed, committed')]_vars
      PROVE  [committed # None /\ committed.checkpoint # None
                => committed'.checkpoint = committed.checkpoint]_vars
  BY <1>1, <1>2 DEF vars
<1> QED
  BY TypedInvariant, HistoryIsLegal, <1>2, PTL DEF LegalHistory, CheckpointIsKept

(* While create waits for its insertion, the receipt it offers is one of   *)
(* the plan it was asked for.                                              *)
OffersThePlan ==
  \A c \in Callers : pc[c] = "create" => request[c].next.plan = wanted[c]

(* create hands out only a receipt of the plan it was asked for, also when *)
(* another controller inserted its receipt first (create).                 *)
THEOREM CreationKeepsThePlan == Spec => CreateKeepsThePlan
<1>1. Init => OffersThePlan
  BY DEF Init, OffersThePlan
<1>2. ASSUME Typed, OffersThePlan, [Next]_vars
      PROVE  OffersThePlan'
  <2> USE <1>2 DEF Typed, TypeOK, StoreTypeOK, OffersThePlan, Goto, Hold
  <2>1. ASSUME StoreStep, UNCHANGED journalVars
        PROVE  OffersThePlan'
    BY <2>1, StoreStepType DEF journalVars
  <2>2. ASSUME NEW c \in Callers, NEW plan \in Plans \cup {Blank}, Create(c, plan)
        PROVE  OffersThePlan'
    BY <2>2 DEF Create, Invoke, CompareExchange, FirstReceipt
  <2>3. ASSUME NEW c \in Callers,
               \/ CreateInserted(c) \/ CreateExists(c) \/ CreateReopened(c)
               \/ CreateFailed(c) \/ Load(c) \/ Loaded(c) \/ LoadFailed(c)
        PROVE  OffersThePlan'
    BY <2>3 DEF CreateInserted, CreateExists, CreateReopened, CreateFailed, Load, Loaded,
                LoadFailed, Invoke, Reinvoke, Return, Hangup
  <2>4. ASSUME NEW c \in Callers, NEW t \in Transitions,
               AdvanceByHand(c, t) \/ StepWith(c, t) \/ CallbackOk(c, t)
        PROVE  OffersThePlan'
    BY <2>4 DEF AdvanceByHand, StepWith, CallbackOk, Advance, Invoke
  <2>5. ASSUME NEW c \in Callers,
               \/ Advanced(c) \/ Launch(c) \/ Confirmed(c) \/ CallbackFailed(c)
               \/ AdvanceFailed(c)
        PROVE  OffersThePlan'
    BY <2>5 DEF Advanced, Launch, Confirmed, CallbackFailed, AdvanceFailed, Return, Hangup
  <2>6. ASSUME NEW c \in Callers, Cancel(c) \/ Crash(c)
        PROVE  OffersThePlan'
    BY <2>6 DEF Cancel, Crash, Outage
  <2>7. CASE (\E v \in Revisions : EffectEnds(v)) \/ UNCHANGED vars
    BY <2>7 DEF EffectEnds, vars
  <2> QED
    BY <1>2, <2>1, <2>2, <2>3, <2>4, <2>5, <2>6, <2>7 DEF Next, ControllerStep
<1>3. ASSUME Typed, OffersThePlan, [Next]_vars, NEW c \in Callers,
             pc[c] \in {"create", "reopen"}, held'[c] # held[c], held'[c] # None
      PROVE  held'[c].plan = wanted[c]
  <2> USE DEF Typed, TypeOK, Goto, Hold
  <2>1. CreateInserted(c) \/ CreateReopened(c)
    <3>1. \E d \in Callers : ControllerStep(d) \/ Crash(d)
      BY <1>3 DEF Next, journalVars, vars, EffectEnds, Cancel
    <3>2. ControllerStep(c) \/ Crash(c)
      BY <1>3, <3>1
         DEF ControllerStep, Crash, Create, CreateInserted, CreateExists, CreateReopened,
             CreateFailed, Load, Loaded, LoadFailed, AdvanceByHand, StepWith, CallbackOk,
             Advanced, Launch, Confirmed, CallbackFailed, AdvanceFailed
    <3> QED
      BY <1>3, <3>2
         DEF ControllerStep, Crash, Create, CreateExists, CreateFailed, Load, Loaded,
             LoadFailed, AdvanceByHand, StepWith, CallbackOk, Advanced, Launch, Granted,
             Confirmed, CallbackFailed, AdvanceFailed, Answered
  <2> QED
    BY <1>3, <2>1
       DEF OffersThePlan, CreateInserted, CreateReopened, Answered, Reopens
<1>4. ASSUME Typed, OffersThePlan, [Next]_vars
      PROVE  [\A c \in Callers :
                pc[c] \in {"create", "reopen"} /\ held'[c] # held[c] /\ held'[c] # None
                => held'[c].plan = wanted[c]]_vars
  BY <1>3, <1>4
<1> QED
  BY TypedInvariant, <1>1, <1>2, <1>4, PTL DEF Spec, CreateKeepsThePlan

=============================================================================
