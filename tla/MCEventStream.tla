----------------------------- MODULE MCEventStream -----------------------------
(* Instances of EventStream for TLC.                                       *)
EXTENDS EventStream

(* A prompt with a deadline, without one, or with options it refuses.      *)
PromptRuns ==
  [mode : {"prompt"}, existing : {FALSE}, limit : {1, 2}, timeout : {0, 2},
   kinds : {{"reply", "final", "other"}}, forms : {{"full", "no info"}}]
RefusedRuns ==
  [mode : {"prompt"}, existing : {FALSE}, limit : {0, 1}, timeout : {9},
   kinds : {{}}, forms : {{}}]

(* Pages of every form; in the stuck ones the service says again what it   *)
(* said before, which is no complete answer for a prompt to end at.        *)
PagedRuns ==
  [mode : {"prompt"}, existing : {FALSE}, limit : {1, 2}, timeout : {0},
   kinds : {{"reply", "other", "hidden", "bare"}}, forms : {{"full", "no cursor", "no info"}}]
  \cup
  [mode : {"events"}, existing : BOOLEAN, limit : {1, 2}, timeout : {0},
   kinds : {{"reply", "hidden", "bare"}}, forms : {{"full", "no cursor", "no info", "stuck"}}]

AllRuns == PromptRuns \cup RefusedRuns \cup PagedRuns

(* A service that writes an empty cursor when it has none.                 *)
EmptyCursorRuns ==
  [mode : {"prompt", "events"}, existing : {FALSE}, limit : {2}, timeout : {0},
   kinds : {{"reply", "other", "bare"}}, forms : {{"full", "empty cursor"}}]
=============================================================================
