------------------------- MODULE FileStoreRefinement --------------------------
(***************************************************************************)
(* FileReceiptStore implements the contract of the trait ReceiptStore      *)
(* (src/src/handoff/file.rs, src/src/handoff/mod.rs): for every identifier *)
(* what is durable is what is committed.                                   *)
(***************************************************************************)
EXTENDS FileReceiptStore

-----------------------------------------------------------------------------
(* A task in the terms of the contract for the receipt i.  A receipt that  *)
(* was renamed into place and is not durable yet is a pending write of the *)
(* task that renamed it; when that task is gone, a write that may still    *)
(* commit.  Busy and TooLarge are refusals.                                *)

Mine(t, i) == Request(t).id = i
Renames(t, i) == task[t].pc \in {"syncDir", "return"} /\ Mine(t, i)

Stage(t, i) ==
  IF ~Mine(t, i) THEN "idle"
  ELSE IF At(t, "done") THEN "answered"
  ELSE IF Renames(t, i) /\ visible[i] = durable[i] THEN "applied"
  ELSE "pending"

Call(t, i) ==
  IF Mine(t, i)
  THEN [op |-> Request(t).op, next |-> Request(t).next, expected |-> Request(t).expected]
  ELSE [op |-> "none", next |-> None, expected |-> None]

Answered(t, i) ==
  IF Stage(t, i) # "answered" THEN NoReply
  ELSE IF task[t].result.result \in {"busy", "too_large"} THEN Reply("refused", None)
  ELSE task[t].result

(* The write that what tasks see is ahead by.                              *)
AheadWrite(i) ==
  LET r == visible[i].receipt
  IN  [op |-> "cas", next |-> r,
       expected |-> IF r.revision = 0 THEN None ELSE r.revision - 1]

LeftBehind(i) ==
  IF visible[i] = durable[i] \/ \E t \in Tasks : Renames(t, i) THEN {} ELSE {AheadWrite(i)}

Stages(i) == [t \in Tasks |-> Stage(t, i)]
Calls(i) == [t \in Tasks |-> Call(t, i)]
Replies(i) == [t \in Tasks |-> Answered(t, i)]

Store(i) == INSTANCE ReceiptStore WITH
  Id        <- i,
  Callers   <- Tasks,
  committed <- Survivor(i),
  ambiguous <- LeftBehind(i),
  stage     <- Stages(i),
  request   <- Calls(i),
  answer    <- Replies(i)

(* The files keep the contract of the trait for every identifier (load,    *)
(* compare_exchange).                                                      *)
KeepsTheContract ==
  /\ \A i \in Ids : Store(i)!StoreInit
  /\ [][\A i \in Ids : [Store(i)!StoreNext]_(Store(i)!storeVars)]_vars

=============================================================================
