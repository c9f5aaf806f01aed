------------------------------ MODULE CommandCall ------------------------------
(***************************************************************************)
(* One command run in a box: BoxApi::command, command_raw, exec and the    *)
(* helper exec_command.  Two clocks watch it: the box ends a command that  *)
(* has run for its timeout_seconds, and the client gives up on the HTTP    *)
(* call after http_timeout_for_command, which must leave the box its time  *)
(* and the network the slack.  A command is a POST: it is sent once.       *)
(***************************************************************************)
EXTENDS RetryPolicy

CONSTANTS
  Seconds,         \* the timeout_seconds callers give
  ServerDefault,   \* what the box allows a command that gives none
  HelperDefault,   \* what exec_command gives then
  RequestTimeouts, \* BoxClientConfig::request_timeout
  Slacks           \* BoxClientConfig::command_timeout_slack

ASSUME CommandAssumption ==
  /\ Seconds \cup {ServerDefault, HelperDefault} \subseteq Durations
  /\ RequestTimeouts \cup Slacks \subseteq Durations

VARIABLES
  entry, seconds, detached,  \* the method called and its CommandRequest
  request_timeout, slack,    \* the client's configuration
  pc,       \* where the call is
  left,     \* what the HTTP timer has left
  place,    \* where the command is: on its way, at work, or its answer
  budget,   \* what the box's timer has left
  delay,    \* time spent on the network, up to slack; not in the code
  result    \* what the caller gets

vars == <<entry, seconds, detached, request_timeout, slack, pc, left, place, budget,
          delay, result>>
inputs == <<entry, seconds, detached, request_timeout, slack>>

(* exec_command is command with a default of its own.                      *)
Synchronous == entry \in {"command", "exec_command"}
TimeoutSeconds ==
  IF entry = "exec_command" /\ seconds = Absent THEN HelperDefault ELSE seconds

(* How long the box lets the command run.                                  *)
Allowed == IF TimeoutSeconds = Absent THEN ServerDefault ELSE TimeoutSeconds

-----------------------------------------------------------------------------
(* CommandResult is untagged: the fields of a body decide what it is, the  *)
(* completed command being tried first.                                    *)
StartedFields == {"ok", "success", "processId", "pid", "command", "startedAt"}
CompletedFields == {"ok", "success", "stdout", "stderr", "timedOut"}

(* A bug: the variants are declared the other way round.                   *)
DecodeStartedFirst(body) ==
  IF StartedFields \subseteq body THEN "started"
  ELSE IF CompletedFields \subseteq body THEN "completed" ELSE "undecodable"

Decode(body) ==
  IF CompletedFields \subseteq body THEN "completed"
  ELSE IF StartedFields \subseteq body THEN "started" ELSE "undecodable"

(* The bodies of the service: a finished command may tell its process too, *)
(* a started one what it has printed so far.                               *)
ResultBodies ==
  [completed |-> {CompletedFields \cup more : more \in SUBSET StartedFields},
   started |-> {StartedFields \cup more : more \in SUBSET {"stdout", "stderr"}}]

(* The client has a result exactly when it is done, and the box never runs *)
(* the command for longer than it allows (command_raw).                    *)
TypeOK ==
  /\ entry \in {"command", "command_raw", "exec_command"}
  /\ seconds \in Seconds \cup {Absent}
  /\ detached \in BOOLEAN
  /\ request_timeout \in RequestTimeouts /\ slack \in Slacks
  /\ pc \in {"start", "waiting", "done"}
  /\ left \in Durations
  /\ place \in {"nowhere", "sent", "running", "completed", "started", "lost"}
  /\ budget \in 0..Allowed
  /\ delay \in 0..slack
  /\ result \in {"pending", "config", "completed", "started", "unexpected",
                 "undecodable", "timeout", "transport"}
  /\ result = "pending" <=> pc # "done"

Init ==
  /\ entry \in {"command", "command_raw", "exec_command"}
  /\ seconds \in Seconds \cup {Absent}
  /\ detached \in BOOLEAN /\ (entry = "exec_command" => ~detached)
  /\ request_timeout \in RequestTimeouts /\ slack \in Slacks
  /\ pc = "start" /\ left = 0 /\ place = "nowhere" /\ budget = Allowed
  /\ delay = 0 /\ result = "pending"

-----------------------------------------------------------------------------
Return(outcome) == pc' = "done" /\ result' = outcome

(* A bug: the slack is not added.                                          *)
HttpTimeoutBare == Larger(Allowed, request_timeout)

(* http_timeout_for_command; the code knows the server's default.          *)
HttpTimeout == Larger(SaturatingAdd(Allowed, slack), request_timeout)

Refuses == Synchronous /\ detached

Invoke ==
  /\ pc = "start"
  /\ \/ /\ Refuses
        /\ Return("config")
        /\ UNCHANGED <<left, place>>
     \/ /\ ~Refuses
        /\ pc' = "waiting"
        /\ left' = HttpTimeout
        /\ place' = "sent"
        /\ UNCHANGED result
  /\ UNCHANGED <<inputs, budget, delay>>

(* The answer arrives; command insists on a completed command.             *)
Decoded(body) ==
  IF Decode(body) = "started" /\ Synchronous THEN "unexpected" ELSE Decode(body)

Answered ==
  /\ pc = "waiting" /\ place \in {"completed", "started"}
  /\ \E body \in ResultBodies[place] \cup {{}} : Return(Decoded(body))
  /\ UNCHANGED <<inputs, left, place, budget, delay>>

TimedOut ==
  /\ pc = "waiting" /\ left = 0
  /\ Return("timeout")
  /\ UNCHANGED <<inputs, left, place, budget, delay>>

Broken ==
  /\ pc = "waiting"
  /\ Return("transport")
  /\ UNCHANGED <<inputs, left, place, budget, delay>>

-----------------------------------------------------------------------------
(* The box starts the command; a detached one is answered at once and goes *)
(* on running.                                                             *)
Start ==
  /\ place = "sent"
  /\ place' = IF detached THEN "started" ELSE "running"
  /\ UNCHANGED <<inputs, pc, left, budget, delay, result>>

(* The command ends by itself or is ended when its time is up.             *)
Finish ==
  /\ place = "running"
  /\ place' = "completed"
  /\ UNCHANGED <<inputs, pc, left, budget, delay, result>>

(* A request that the client has given up on may not arrive at all.        *)
Vanish ==
  /\ pc = "done" /\ place = "sent"
  /\ place' = "lost"
  /\ UNCHANGED <<inputs, pc, left, budget, delay, result>>

(* Time passes, for both clocks alike; no command outlives its timer.      *)
Tick ==
  /\ pc = "waiting"
  /\ ~(place = "running" /\ budget = 0)
  /\ left' = IF left > 0 THEN left - 1 ELSE left
  /\ budget' = IF place = "running" THEN budget - 1 ELSE budget
  /\ delay' = IF place # "running" /\ delay < slack THEN delay + 1 ELSE delay
  /\ UNCHANGED <<inputs, pc, place, result>>

Done == pc = "done" /\ place \notin {"sent", "running"} /\ UNCHANGED vars

Next ==
  \/ Invoke \/ Answered \/ TimedOut \/ Broken
  \/ Start \/ Finish \/ Vanish \/ Tick \/ Done

Spec == Init /\ [][Next]_vars

-----------------------------------------------------------------------------
(* However long the command takes within the time the box allows it, the   *)
(* client does not give up before the network has used up the slack: the   *)
(* result of a command is not lost to the client's own timer, whatever the *)
(* request timeout (http_timeout_for_command).                             *)
OutlastsTheCommand ==
  result = "timeout" => delay = slack \/ Allowed + slack > MaxDuration

(* Unless its answer is lost, a synchronous call leaves nothing running in *)
(* the box, and no call takes a command that still runs for a finished one *)
(* or the reverse, whatever else a body says (the detached guard, the match*)
(* on CommandResult and the order of its untagged variants).               *)
AnswersTellTheTruth ==
  /\ result \in {"completed", "started"} => place = result
  /\ Synchronous /\ result \notin {"pending", "timeout", "transport", "undecodable"} =>
       place \in {"nowhere", "completed"}

=============================================================================
