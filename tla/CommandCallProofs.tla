---------------------------- MODULE CommandCallProofs ----------------------------
(***************************************************************************)
(* For every configuration, every timeout of a command and every pace of   *)
(* client, network and box: the client's timer outlasts the command, and   *)
(* what the caller is told of the command is true.                         *)
(***************************************************************************)
EXTENDS CommandCall, TLAPS

(* Until the network has used up the slack, the HTTP timer has left what   *)
(* the box's timer has, and the slack that is not used.                    *)
TimerInv ==
  pc = "waiting" /\ Allowed + slack <= MaxDuration /\ delay < slack =>
    left >= budget + (slack - delay)

(* A command is started only for a call that was not refused, and stays    *)
(* behind an answer only if it is detached.                                *)
PlaceInv ==
  /\ pc = "start" \/ result = "config" => place = "nowhere"
  /\ pc # "start" /\ result # "config" => ~Refuses
  /\ place = "started" => detached
  /\ result \in {"completed", "started"} => place = result
  /\ result # "unexpected"

CommandInv == TypeOK /\ TimerInv /\ PlaceInv /\ OutlastsTheCommand

-----------------------------------------------------------------------------
LEMMA TimeFacts ==
  ASSUME TypeOK
  PROVE  /\ MaxDuration \in Nat /\ Allowed \in Durations /\ slack \in Durations
         /\ HttpTimeout \in Durations
         /\ Allowed + slack <= MaxDuration => HttpTimeout >= Allowed + slack
<1>1. /\ MaxDuration \in Nat /\ seconds \in Durations \cup {Absent}
      /\ slack \in Durations /\ request_timeout \in Durations
      /\ ServerDefault \in Durations /\ HelperDefault \in Durations
  BY DurationAssumption, CommandAssumption DEF TypeOK
<1>2. Allowed \in Durations
  BY <1>1 DEF Allowed, TimeoutSeconds
<1> QED
  BY <1>1, <1>2 DEF HttpTimeout, Larger, Smaller, SaturatingAdd, Durations

(* A body says what it is of, unless it says nothing.                      *)
LEMMA BodiesAreTold ==
  ASSUME NEW kind \in {"completed", "started"}, NEW body \in ResultBodies[kind] \cup {{}}
  PROVE  Decode(body) \in {kind, "undecodable"}
<1>1. ~(CompletedFields \subseteq {}) /\ ~(StartedFields \subseteq {})
  BY DEF CompletedFields, StartedFields
<1>2. CASE body = {}
  BY <1>1, <1>2 DEF Decode
<1>3. ASSUME kind = "completed", NEW more \in SUBSET StartedFields,
             body = CompletedFields \cup more
      PROVE  Decode(body) = kind
  BY <1>3 DEF Decode
<1>4. ASSUME kind = "started", NEW more \in SUBSET {"stdout", "stderr"},
             body = StartedFields \cup more
      PROVE  Decode(body) = kind
  <2>1. "timedOut" \in CompletedFields /\ "timedOut" \notin body
    BY <1>4 DEF CompletedFields, StartedFields
  <2>2. StartedFields \subseteq body /\ ~(CompletedFields \subseteq body)
    BY <1>4, <2>1
  <2> QED
    BY <1>4, <2>2 DEF Decode
<1>5. /\ ResultBodies["completed"] = {CompletedFields \cup more : more \in SUBSET StartedFields}
      /\ ResultBodies["started"] = {StartedFields \cup more : more \in SUBSET {"stdout", "stderr"}}
  BY DEF ResultBodies
<1>6. ASSUME kind = "completed", body # {}
      PROVE  Decode(body) = kind
  <2>1. body \in {CompletedFields \cup more : more \in SUBSET StartedFields}
    BY <1>5, <1>6, Zenon
  <2>2. \E more \in SUBSET StartedFields : body = CompletedFields \cup more
    BY <2>1, Zenon
  <2> QED
    BY <1>3, <1>6, <2>2, Zenon
<1>7. ASSUME kind = "started", body # {}
      PROVE  Decode(body) = kind
  <2>1. body \in {StartedFields \cup more : more \in SUBSET {"stdout", "stderr"}}
    BY <1>5, <1>7, Zenon
  <2>2. \E more \in SUBSET {"stdout", "stderr"} : body = StartedFields \cup more
    BY <2>1, Zenon
  <2> QED
    BY <1>4, <1>7, <2>2, Zenon
<1> QED
  BY <1>2, <1>6, <1>7, Zenon

LEMMA CommandBegins == Init => CommandInv
<1> SUFFICES ASSUME Init
             PROVE  CommandInv
  OBVIOUS
<1>1. Allowed \in 0..Allowed /\ 0 \in 0..slack /\ 0 \in Durations
  <2>1. /\ MaxDuration \in Nat /\ seconds \in Durations \cup {Absent} /\ slack \in Durations
        /\ ServerDefault \in Durations /\ HelperDefault \in Durations
    BY DurationAssumption, CommandAssumption DEF Init
  <2>2. Allowed \in Durations
    BY <2>1 DEF Allowed, TimeoutSeconds
  <2> QED
    BY <2>1, <2>2 DEF Durations
<1>2. TypeOK
  BY <1>1 DEF Init, TypeOK
<1>3. TimerInv /\ PlaceInv /\ OutlastsTheCommand
  BY DEF Init, TimerInv, PlaceInv, OutlastsTheCommand
<1> QED
  BY <1>2, <1>3 DEF CommandInv

(* The inputs stay, and what is derived from them.                         *)
LEMMA SameInputs ==
  ASSUME UNCHANGED inputs
  PROVE  UNCHANGED <<entry, seconds, detached, request_timeout, slack, Synchronous, Allowed,
                     Refuses>>
BY DEF inputs, Synchronous, Allowed, TimeoutSeconds, Refuses

LEMMA InvokeKeeps ==
  ASSUME CommandInv, Invoke
  PROVE  CommandInv'
<1>1. UNCHANGED <<entry, seconds, detached, request_timeout, slack, Synchronous, Allowed, Refuses,
                  budget, delay>>
  BY SameInputs DEF Invoke
<1>2. /\ TypeOK /\ MaxDuration \in Nat /\ Allowed \in Durations /\ slack \in Durations
      /\ HttpTimeout \in Durations /\ (Allowed + slack <= MaxDuration => HttpTimeout >= Allowed + slack)
      /\ budget \in 0..Allowed /\ delay \in 0..slack
  BY TimeFacts DEF CommandInv, TypeOK
<1>3. pc = "start" /\ place = "nowhere" /\ result = "pending"
  BY DEF CommandInv, PlaceInv, Invoke, TypeOK
<1>4. CASE Refuses /\ Return("config") /\ UNCHANGED <<left, place>>
  BY <1>1, <1>2, <1>3, <1>4
  DEF CommandInv, TypeOK, TimerInv, PlaceInv, OutlastsTheCommand, Return
<1>5. CASE ~Refuses /\ pc' = "waiting" /\ left' = HttpTimeout /\ place' = "sent" /\ UNCHANGED result
  <2>1. TypeOK'
    BY <1>1, <1>2, <1>3, <1>5 DEF TypeOK
  <2>2. TimerInv'
    BY <1>1, <1>2, <1>5 DEF TimerInv, Durations
  <2>3. PlaceInv' /\ OutlastsTheCommand'
    BY <1>1, <1>3, <1>5 DEF PlaceInv, OutlastsTheCommand
  <2> QED
    BY <2>1, <2>2, <2>3 DEF CommandInv
<1> QED
  BY <1>4, <1>5 DEF Invoke

LEMMA ReturnKeeps ==
  ASSUME CommandInv, Answered \/ TimedOut \/ Broken
  PROVE  CommandInv'
<1>1. /\ UNCHANGED <<entry, seconds, detached, request_timeout, slack, Synchronous, Allowed, Refuses,
                     left, place, budget, delay>>
      /\ pc = "waiting" /\ pc' = "done"
  BY SameInputs DEF Answered, TimedOut, Broken, Return
<1>2. TypeOK /\ ~Refuses /\ (place = "started" => detached)
  BY <1>1 DEF CommandInv, PlaceInv, TypeOK
<1>3. CASE Answered
  <2>1. PICK body \in ResultBodies[place] \cup {{}} : result' = Decoded(body)
    BY <1>3 DEF Answered, Return
  <2>2. place \in {"completed", "started"}
    BY <1>3 DEF Answered
  <2>3. Decode(body) \in {place, "undecodable"}
    BY <2>1, <2>2, BodiesAreTold
  <2>4. ~(Decode(body) = "started" /\ Synchronous)
    BY <1>2, <2>2, <2>3 DEF Refuses
  <2>5. result' \in {place, "undecodable"}
    BY <2>1, <2>3, <2>4 DEF Decoded
  <2> QED
    BY <1>1, <1>2, <2>2, <2>5
    DEF CommandInv, TypeOK, TimerInv, PlaceInv, OutlastsTheCommand
<1>4. CASE TimedOut
  <2>1. left = 0 /\ result' = "timeout"
    BY <1>4 DEF TimedOut, Return
  <2>2. delay = slack \/ Allowed + slack > MaxDuration
    <3>1. /\ MaxDuration \in Nat /\ Allowed \in Durations /\ slack \in Durations
          /\ budget \in 0..Allowed /\ delay \in 0..slack
      BY <1>2, TimeFacts DEF TypeOK
    <3> QED
      BY <1>1, <2>1, <3>1 DEF CommandInv, TimerInv, Durations
  <2> QED
    BY <1>1, <1>2, <2>1, <2>2
    DEF CommandInv, TypeOK, TimerInv, PlaceInv, OutlastsTheCommand
<1>5. CASE Broken
  <2>1. result' = "transport"
    BY <1>5 DEF Broken, Return
  <2> QED
    BY <1>1, <1>2, <2>1
    DEF CommandInv, TypeOK, TimerInv, PlaceInv, OutlastsTheCommand
<1> QED
  BY <1>3, <1>4, <1>5

LEMMA BoxKeeps ==
  ASSUME CommandInv, Start \/ Finish \/ Vanish
  PROVE  CommandInv'
<1>1. /\ UNCHANGED <<entry, seconds, detached, request_timeout, slack, Synchronous, Allowed, Refuses,
                     pc, left, budget, delay, result>>
      /\ place \in {"sent", "running"} /\ place' \in {"started", "running", "completed", "lost"}
      /\ place' = "started" => detached
  BY SameInputs DEF Start, Finish, Vanish
<1> QED
  BY <1>1 DEF CommandInv, TypeOK, TimerInv, PlaceInv, OutlastsTheCommand

LEMMA TickKeeps ==
  ASSUME CommandInv, Tick
  PROVE  CommandInv'
<1>1. /\ UNCHANGED <<entry, seconds, detached, request_timeout, slack, Synchronous, Allowed, Refuses,
                     pc, place, result>>
      /\ pc = "waiting"
  BY SameInputs DEF Tick
<1>2. /\ MaxDuration \in Nat /\ Allowed \in Durations /\ slack \in Durations
      /\ budget \in 0..Allowed /\ delay \in 0..slack /\ left \in Durations /\ TypeOK
  BY TimeFacts DEF CommandInv, TypeOK
<1>3. /\ left' \in Durations /\ budget' \in 0..Allowed /\ delay' \in 0..slack
  BY <1>2 DEF Tick, Durations
<1>4. TimerInv'
  <2>1. CASE place = "running"
    BY <1>1, <1>2, <2>1 DEF CommandInv, TimerInv, Tick, Durations
  <2>2. CASE place # "running"
    BY <1>1, <1>2, <2>2 DEF CommandInv, TimerInv, Tick, Durations
  <2> QED
    BY <2>1, <2>2
<1>5. TypeOK'
  BY <1>1, <1>2, <1>3 DEF TypeOK
<1>6. PlaceInv' /\ OutlastsTheCommand'
  BY <1>1, <1>2 DEF CommandInv, PlaceInv, OutlastsTheCommand, TypeOK
<1> QED
  BY <1>4, <1>5, <1>6 DEF CommandInv

LEMMA IdleKeeps ==
  ASSUME CommandInv, UNCHANGED vars
  PROVE  CommandInv'
<1>1. /\ UNCHANGED <<entry, seconds, detached, request_timeout, slack, Synchronous, Allowed, Refuses,
                     pc, left, place, budget, delay, result>>
  BY SameInputs DEF vars, inputs
<1> QED
  BY <1>1 DEF CommandInv, TypeOK, TimerInv, PlaceInv, OutlastsTheCommand

LEMMA AlwaysCommandInv == Spec => []CommandInv
<1>1. CommandInv /\ [Next]_vars => CommandInv'
  BY InvokeKeeps, ReturnKeeps, BoxKeeps, TickKeeps, IdleKeeps DEF Next, Done
<1> QED
  BY <1>1, CommandBegins, PTL DEF Spec

(* TypeOK: the client has a result exactly when it is done, and the box    *)
(* never runs a command for longer than it allows (command_raw).           *)
THEOREM CommandTypeCorrect == Spec => []TypeOK
<1>1. CommandInv => TypeOK
  BY DEF CommandInv
<1> QED
  BY <1>1, AlwaysCommandInv, PTL

(* The client never gives up on a command before the network has used up   *)
(* the slack, as long as the sum of both can be represented                *)
(* (http_timeout_for_command).                                             *)
THEOREM TheClientOutlastsTheCommand == Spec => []OutlastsTheCommand
<1>1. CommandInv => OutlastsTheCommand
  BY DEF CommandInv
<1> QED
  BY <1>1, AlwaysCommandInv, PTL

(* An answer is taken for what it is, and a synchronous call that was      *)
(* answered, or refused, leaves nothing running (the detached guard, the   *)
(* match on CommandResult, the order of its variants).                     *)
THEOREM AnswersAreTrue == Spec => []AnswersTellTheTruth
<1>1. CommandInv => AnswersTellTheTruth
  <2> SUFFICES ASSUME CommandInv
               PROVE  AnswersTellTheTruth
    OBVIOUS
  <2>1. result \in {"completed", "started"} => place = result
    BY DEF CommandInv, PlaceInv
  <2>2. ASSUME Synchronous, result \notin {"pending", "timeout", "transport", "undecodable"}
        PROVE  place \in {"nowhere", "completed"}
    <3>1. result \in {"config", "completed", "started"}
      BY <2>2 DEF CommandInv, PlaceInv, TypeOK
    <3>2. result # "started"
      BY <2>2 DEF CommandInv, PlaceInv, TypeOK, Refuses
    <3> QED
      BY <3>1, <3>2 DEF CommandInv, PlaceInv
  <2> QED
    BY <2>1, <2>2 DEF AnswersTellTheTruth
<1> QED
  BY <1>1, AlwaysCommandInv, PTL

=============================================================================
