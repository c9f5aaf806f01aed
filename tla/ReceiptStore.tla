----------------------------- MODULE ReceiptStore -----------------------------
(***************************************************************************)
(* What a ReceiptStore promises about one receipt: the contract written at *)
(* the trait (src/src/handoff/mod.rs) and nothing more.  compare_exchange  *)
(* tests the expected revision and durably commits in one atomic step,     *)
(* load returns only what is committed.  A call is not atomic for its      *)
(* caller: it is invoked, takes effect, is answered and returns in         *)
(* separate steps, and                                                     *)
(*   - it may be answered by an error whether or not it took effect,       *)
(*   - a write that failed, or whose caller is gone, may commit later,     *)
(*   - a store may refuse because of such an ambiguous write, before that  *)
(*     write is committed.                                                 *)
(***************************************************************************)
EXTENDS HandoffReceipts

CONSTANTS
  Id,       \* the identifier of the receipt this is the store of
  Callers   \* those who may call the store, one call at a time each

ASSUME StoreAssumption ==
  /\ Id \in Ids
  /\ None \notin Receipts \cup Revisions

VARIABLES
  committed,  \* the durable receipt, None if there is none
  ambiguous,  \* writes that may still commit though nobody waits for them
  stage,      \* how far the call of a caller is
  request,    \* what the caller asked for
  answer      \* what the store replies

storeVars == <<committed, ambiguous, stage, request, answer>>

Writes == [op : {"cas"}, next : Receipts, expected : Revisions \cup {None}]
LoadRequest == [op |-> "load", next |-> None, expected |-> None]
Requests == Writes \cup {LoadRequest}
NoRequest == [op |-> "none", next |-> None, expected |-> None]

Results == {"ok", "conflict", "refused", "storage"}
Answers == [result : Results, receipt : Receipts \cup {None}]
NoAnswer == [result |-> "none", receipt |-> None]
Reply(result, receipt) == [result |-> result, receipt |-> receipt]

StoreTypeOK ==
  /\ committed \in Receipts \cup {None}
  /\ ambiguous \subseteq Writes
  /\ stage \in [Callers -> {"idle", "pending", "applied", "answered"}]
  /\ request \in [Callers -> Requests \cup {NoRequest}]
  /\ answer \in [Callers -> Answers \cup {NoAnswer}]

StoreInit ==
  /\ committed = None
  /\ ambiguous = {}
  /\ stage = [c \in Callers |-> "idle"]
  /\ request = [c \in Callers |-> NoRequest]
  /\ answer = [c \in Callers |-> NoAnswer]

-----------------------------------------------------------------------------
(* A bug: the revision is not compared, the last writer wins.              *)
MatchesAny(receipt, expected) == TRUE

(* A bug: an existing receipt is only required not to be newer.            *)
MatchesStale(receipt, expected) ==
  IF receipt = None \/ expected = None THEN receipt = expected
  ELSE receipt.revision <= expected + 1

(* None means insert only if absent, a revision means replace only it.     *)
Matches(receipt, expected) ==
  IF receipt = None THEN expected = None ELSE receipt.revision = expected

Answer(c, result, receipt) ==
  /\ stage' = [stage EXCEPT ![c] = "answered"]
  /\ answer' = [answer EXCEPT ![c] = Reply(result, receipt)]
  /\ UNCHANGED request

Hangup(c) ==
  /\ stage' = [stage EXCEPT ![c] = "idle"]
  /\ request' = [request EXCEPT ![c] = NoRequest]
  /\ answer' = [answer EXCEPT ![c] = NoAnswer]

(* The caller polls the future for the first time.                         *)
Invoke(c, q) ==
  /\ stage[c] = "idle"
  /\ stage' = [stage EXCEPT ![c] = "pending"]
  /\ request' = [request EXCEPT ![c] = q]
  /\ UNCHANGED <<committed, ambiguous, answer>>

(* A write takes effect: compared and durably committed atomically.        *)
Commit(c) ==
  /\ stage[c] = "pending"
  /\ request[c].op = "cas"
  /\ Matches(committed, request[c].expected)
  /\ committed' = request[c].next
  /\ stage' = [stage EXCEPT ![c] = "applied"]
  /\ UNCHANGED <<ambiguous, request, answer>>

(* A write nobody waits for takes effect late.                             *)
CommitLate(q) ==
  /\ q \in ambiguous
  /\ Matches(committed, q.expected)
  /\ committed' = q.next
  /\ ambiguous' = ambiguous \ {q}
  /\ UNCHANGED <<stage, request, answer>>

(* The acknowledgement of a committed write.                               *)
AnswerApplied(c) ==
  /\ stage[c] = "applied"
  /\ Answer(c, "ok", None)
  /\ UNCHANGED <<committed, ambiguous>>

(* A load answers with the committed receipt, None if there is none.       *)
AnswerLoad(c) ==
  /\ stage[c] = "pending"
  /\ request[c].op = "load"
  /\ Answer(c, "ok", committed)
  /\ UNCHANGED <<committed, ambiguous>>

(* A write that does not match is refused.                                 *)
AnswerConflict(c) ==
  /\ stage[c] = "pending"
  /\ request[c].op = "cas"
  /\ ~Matches(committed, request[c].expected) \/ ambiguous # {}
  /\ Answer(c, "conflict", None)
  /\ UNCHANGED <<committed, ambiguous>>

(* Busy or TooLarge: the store did nothing.                                *)
AnswerRefused(c) ==
  /\ stage[c] = "pending"
  /\ Answer(c, "refused", None)
  /\ UNCHANGED <<committed, ambiguous>>

(* A backend failure: the write may have been committed, may be committed  *)
(* later, or never.                                                        *)
AnswerError(c) ==
  /\ stage[c] \in {"pending", "applied"}
  /\ Answer(c, "storage", None)
  /\ \/ UNCHANGED ambiguous
     \/ /\ stage[c] = "pending"
        /\ request[c].op = "cas"
        /\ ambiguous' = ambiguous \cup {request[c]}
  /\ UNCHANGED committed

(* The caller takes the answer.                                            *)
Return(c) ==
  /\ stage[c] = "answered"
  /\ Hangup(c)
  /\ UNCHANGED <<committed, ambiguous>>

(* The caller takes the answer and calls again before it yields.           *)
Reinvoke(c, q) ==
  /\ stage[c] = "answered"
  /\ stage' = [stage EXCEPT ![c] = "pending"]
  /\ request' = [request EXCEPT ![c] = q]
  /\ answer' = [answer EXCEPT ![c] = NoAnswer]
  /\ UNCHANGED <<committed, ambiguous>>

(* Calls whose callers are gone: cancelled, crashed, or the store itself   *)
(* restarts.  Their unfinished writes may or may not commit later.         *)
UnfinishedWrites(gone) ==
  {request[c] : c \in {k \in gone : stage[k] = "pending" /\ request[k].op = "cas"}}

Outage(gone) ==
  /\ \E kept \in SUBSET (ambiguous \cup UnfinishedWrites(gone)) : ambiguous' = kept
  /\ stage' = [c \in Callers |-> IF c \in gone THEN "idle" ELSE stage[c]]
  /\ request' = [c \in Callers |-> IF c \in gone THEN NoRequest ELSE request[c]]
  /\ answer' = [c \in Callers |-> IF c \in gone THEN NoAnswer ELSE answer[c]]
  /\ UNCHANGED committed

(* The steps the store takes on its own.                                   *)
StoreStep ==
  \/ \E c \in Callers :
       \/ Commit(c)
       \/ AnswerApplied(c)
       \/ AnswerLoad(c)
       \/ AnswerConflict(c)
       \/ AnswerRefused(c)
       \/ AnswerError(c)
  \/ \E q \in ambiguous : CommitLate(q)

(* The store under callers that may ask for anything.                      *)
StoreNext ==
  \/ StoreStep
  \/ \E c \in Callers :
       \/ Return(c)
       \/ request'[c] \in Requests /\ (Invoke(c, request'[c]) \/ Reinvoke(c, request'[c]))
  \/ \E gone \in SUBSET Callers : Outage(gone)

StoreSpec == StoreInit /\ [][StoreNext]_storeVars

=============================================================================
