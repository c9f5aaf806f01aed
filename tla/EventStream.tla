------------------------------- MODULE EventStream -------------------------------
(***************************************************************************)
(* The pull-based streams of src/src/stream.rs.  stream_events follows the *)
(* event log of a box, stream_prompt queues one prompt and follows that    *)
(* prompt's events until its run is over.  The log and the prompt run live *)
(* at the service, which persists events while the stream works and may    *)
(* persist a run's events after the run is over.  The consumer polls when  *)
(* it likes, cancels when it likes, and time passes everywhere.            *)
(* An event is known by its place in the log; log[i] says what matters of  *)
(* it.  A cursor is the place of the event it stands for, NoCursor if there*)
(* is none, EmptyCursor if it is an empty text.                            *)
(***************************************************************************)
EXTENDS Integers, Sequences

CONSTANTS
  Scenarios,   \* streams and their options, the kinds of events the service
               \* persists, and the forms in which it describes a page
  MaxTimeout,  \* longer ones have no representable deadline
  MaxLog       \* bound on the number of events

ASSUME StreamAssumption ==
  /\ MaxTimeout \in Nat /\ MaxLog \in Nat
  /\ \A c \in Scenarios :
       /\ c.mode \in {"prompt", "events"} /\ c.existing \in BOOLEAN
       /\ c.mode = "prompt" => ~c.existing
       /\ c.limit \in Nat /\ c.timeout \in Nat   \* a timeout of zero: unlimited
       /\ c.kinds \subseteq {"reply", "final", "other", "hidden", "bare"}
       /\ c.forms \subseteq {"full", "no cursor", "empty cursor", "no info", "stuck"}

VARIABLES
  opts,         \* the scenario
  at,           \* where the stream is
  reply,        \* what the call made there has come to
  left,         \* ticks before the deadline, Unlimited without one
  initialized,  \* the budget exists
  s,            \* the other fields of EventStreamState
  outcome,      \* how the stream ended
  \* the service and the consumer
  log,          \* the persisted events
  run,          \* the status of the prompt run, none before it is queued
  enroute,      \* the prompt is on its way
  cancelled,    \* the token is cancelled
  \* what the properties remember
  prompts,      \* how many prompts the service accepted
  delivered,    \* the events yielded so far
  start,        \* the last event that counts as existing
  horizon,      \* the length of the log when the last page was made
  overAt        \* the length of the log when the run was seen to be over

ghosts == <<prompts, start, horizon, overAt>>
client == <<opts, at, left, initialized, s, outcome, delivered>>
vars == <<client, reply, log, run, enroute, cancelled, ghosts>>

NoCursor == 0
EmptyCursor == -1
Unlimited == -1
Reply(kind) == [kind |-> kind]

Prompting == opts.mode = "prompt"
Calls == {"latest", "post", "status", "pause", "page"}
Waiting == reply.kind = "waiting"

-----------------------------------------------------------------------------
(* What the stream asks of an event.  "reply" and "final" are the own      *)
(* prompt's, "final" reports its end; "other" is another task's, and may   *)
(* report that one's end; "hidden" is of a type the query leaves out;      *)
(* "bare" lacks a usable timestamp or id.                                  *)
Passes(i) == log[i] # "hidden"
Usable(i) == log[i] # "bare"
Final(i) == log[i] \in {"final", "other"}

(* A bug: the events of other tasks are not filtered out.                  *)
MineAlways(i) == TRUE
Mine(i) == Prompting => log[i] # "other"

(* A bug: a failed run is not over.                                        *)
IsTerminalFinished(status) == status = "finished"
IsTerminal(status) == status \in {"finished", "failed"}

(* The elements of q that are in S, in the order of q; a function proofs   *)
(* can reason about.                                                       *)
KeptUpto(q, S) ==
  LET kept[n \in 0..Len(q)] ==
        IF n = 0 THEN <<>>
        ELSE IF q[n] \in S THEN Append(kept[n - 1], q[n]) ELSE kept[n - 1]
  IN  kept
Kept(q, S) == KeptUpto(q, S)[Len(q)]

InOrder(S, to) == Kept([i \in 1..to |-> i], S)
Places(from, to) == InOrder({i \in 1..to : i > from /\ Passes(i)}, to)

Upto(q, n) == IF Len(q) <= n THEN q ELSE SubSeq(q, 1, n)
LastOf(q) == IF q = <<>> THEN NoCursor ELSE q[Len(q)]

(* The page the service makes of the events after c, described in one of   *)
(* the forms; "stuck" is the page before once more.                        *)
Page(events, info, next, has_more) ==
  [kind |-> "page", events |-> events, info |-> info, next |-> next, more |-> has_more]
Described(c, events, truncated) ==
  {<<"full", Page(events, TRUE, LastOf(events), truncated)>>,
   <<"no cursor", Page(events, TRUE, NoCursor, truncated)>>,
   <<"empty cursor", Page(events, TRUE, EmptyCursor, truncated)>>,
   <<"no info", Page(events, FALSE, NoCursor, FALSE)>>}
  \cup {<<"stuck", Page(t[1], TRUE, c, t[2])>> : t \in {<<>>, <<c>>} \X BOOLEAN}
Pages(c) ==
  LET rest == Places(c, Len(log))
      forms == IF c \in {NoCursor, EmptyCursor} THEN opts.forms \ {"stuck"} ELSE opts.forms
  IN  {d[2] : d \in {d \in Described(c, Upto(rest, opts.limit), Len(rest) > opts.limit) :
                     d[1] \in forms}}

(* The newest event, of any type for a prompt, of the type asked for else. *)
Newest == IF Prompting THEN Len(log) ELSE LastOf(Places(0, Len(log)))

(* The cursor of the page the service found it in.                         *)
NewestCursors ==
  {Newest} \cup (IF "empty cursor" \in opts.forms THEN {EmptyCursor} ELSE {NoCursor})

Replies ==
  [kind : {"none", "waiting", "error", "posted", "slept"}]
  \cup [kind : {"latest"}, event : 0..Len(log), next : -1..Len(log)]
  \cup [kind : {"status"}, status : {"none", "queued", "finished", "failed"}]
  \cup [kind : {"page"}, events : Seq(1..Len(log)), info : BOOLEAN, next : -1..Len(log),
         more : BOOLEAN]

States ==
  [cursor : -1..Len(log), pending : Seq(1..Len(log)), after_page : BOOLEAN,
   more : BOOLEAN, terminal_event : BOOLEAN, terminal_run : BOOLEAN]

(* The cursor is a place of the log, a prompt is posted at most once, and a*)
(* stream is over as soon as it has an outcome (make_stream).              *)
TypeOK ==
  /\ opts \in Scenarios
  /\ at \in Calls \cup {"idle", "loop", "over"}
  /\ reply \in Replies
  /\ reply.kind # "none" => at \in Calls
  /\ left \in {Unlimited} \cup 0..opts.timeout
  /\ initialized \in BOOLEAN
  /\ s \in States
  /\ outcome \in {"none", "end", "aborted", "timeout", "error", "unexpected", "config"}
  /\ outcome # "none" <=> at = "over"
  /\ log \in Seq(opts.kinds) /\ run \in {"none", "queued", "finished", "failed"}
  /\ enroute \in BOOLEAN /\ cancelled \in BOOLEAN
  /\ delivered \in Seq(1..Len(log))
  /\ prompts \in 0..1 /\ {start, horizon, overAt} \subseteq 0..Len(log)

Init ==
  /\ opts \in Scenarios
  /\ at = "idle" /\ reply = Reply("none")
  /\ left = Unlimited /\ initialized = FALSE
  /\ s = [cursor |-> NoCursor, pending |-> <<>>, after_page |-> FALSE, more |-> FALSE,
          terminal_event |-> FALSE, terminal_run |-> FALSE]
  /\ outcome = "none"
  /\ log = <<>> /\ run = "none" /\ enroute = FALSE /\ cancelled = FALSE
  /\ prompts = 0 /\ delivered = <<>> /\ start = 0 /\ horizon = 0 /\ overAt = 0

-----------------------------------------------------------------------------
Expired == left = 0

Goto(place, state) ==
  /\ at' = place /\ s' = state
  /\ reply' = Reply("none")
  /\ UNCHANGED <<outcome, delivered, enroute>>

End(how) ==
  /\ at' = "over" /\ outcome' = how
  /\ reply' = Reply("none")
  /\ UNCHANGED <<s, delivered, enroute>>

environment == <<opts, log, run, cancelled, ghosts>>

(* EventStreamState::run around a step of the stream: the token is asked   *)
(* first, then the deadline, then the step may happen.                     *)
Run(Step) ==
  /\ \/ cancelled /\ End("aborted")
     \/ ~cancelled /\ Expired /\ End("timeout")
     \/ ~cancelled /\ ~Expired /\ Step
  /\ UNCHANGED <<environment, left, initialized>>

(* initialize refuses the options: no page size, or no such deadline.      *)
Refused == opts.limit = 0 \/ opts.timeout > MaxTimeout

(* The consumer polls the stream: the first poll begins initialize, every  *)
(* other one continues the loop of next_event.                             *)
Poll ==
  /\ at = "idle"
  /\ \/ /\ initialized
        /\ Goto("loop", s)
        /\ UNCHANGED <<left, initialized>>
     \/ /\ ~initialized /\ Refused
        /\ End("config")
        /\ UNCHANGED <<left, initialized>>
     \/ /\ ~initialized /\ ~Refused
        /\ initialized' = TRUE
        /\ left' = IF opts.timeout = 0 THEN Unlimited ELSE opts.timeout
        /\ Goto(IF opts.existing THEN "loop" ELSE "latest", s)
  /\ UNCHANGED environment

(* An API call or a sleep begins.                                          *)
Begin ==
  /\ at \in Calls /\ reply.kind = "none"
  /\ Run(/\ reply' = Reply("waiting")
         /\ enroute' = (at = "post" \/ enroute)
         /\ UNCHANGED <<at, s, outcome, delivered>>)

(* It is interrupted.                                                      *)
Interrupt == Waiting /\ (cancelled \/ Expired) /\ Run(FALSE)

(* A bug: the call is made once more.                                      *)
OnFailureRetry == Goto(at, s)
(* It fails, and so does the stream.                                       *)
OnFailure == End("error")
CallFailed == reply.kind = "error" /\ Run(OnFailure)

-----------------------------------------------------------------------------
(* The newest event was found: start after it, at the cursor made of it or *)
(* else at the cursor of its page, whatever text that is.                  *)
Latest ==
  /\ reply.kind = "latest"
  /\ LET cursor == IF reply.event = 0 THEN NoCursor
                   ELSE IF Usable(reply.event) THEN reply.event
                   ELSE reply.next
     IN  Run(IF reply.event # 0 /\ cursor = NoCursor THEN End("unexpected")
             ELSE Goto(IF Prompting THEN "post" ELSE "loop", [s EXCEPT !.cursor = cursor]))

Posted == reply.kind = "posted" /\ Run(Goto("loop", s))

(* A bug: a buffered event is yielded without asking token and deadline.   *)
CheckedOnlyEmpty(Step) ==
  IF s.pending # <<>> THEN Step /\ UNCHANGED <<environment, left, initialized>>
  ELSE Run(Step)
(* The check at the head of the loop, also while a page is consumed.       *)
Checked(Step) == Run(Step)

(* A buffered event is yielded.                                            *)
Yield ==
  /\ at = "loop" /\ s.pending # <<>>
  /\ LET event == Head(s.pending)
     IN  Checked(/\ at' = "idle"
                 /\ delivered' = Append(delivered, event)
                 /\ s' = [s EXCEPT !.pending = Tail(@),
                                   !.terminal_event = @ \/ (Prompting /\ Final(event))]
                 /\ UNCHANGED <<reply, outcome, enroute>>)

(* The buffer is empty: end, look at the run, pause, or fetch a page.      *)
Continue ==
  /\ at = "loop" /\ s.pending = <<>>
  /\ LET drained == s.after_page /\ ~s.more
         over == Prompting /\ (s.terminal_event \/ s.terminal_run)
     IN  Checked(\/ drained /\ over /\ End("end")
                 \/ drained /\ Prompting /\ ~over /\ Goto("status", s)
                 \/ drained /\ ~Prompting /\ Goto("pause", s)
                 \/ ~drained /\ Goto("page", s))

(* A bug: the stream ends with the run, without a last look at the log.    *)
AfterTerminalRunEnd == End("end")
(* The run is over: refresh once, then drain.                              *)
AfterTerminalRun == Goto("page", [s EXCEPT !.terminal_run = TRUE])

Status ==
  /\ reply.kind = "status"
  /\ Run(IF IsTerminal(reply.status) THEN AfterTerminalRun ELSE Goto("pause", s))

Slept == reply.kind = "slept" /\ Run(Goto("page", s))

(* A bug: a missing cursor is accepted.                                    *)
StalledRepeated(next) == next = s.cursor /\ s.cursor # NoCursor
Stalled(next) == next \in {NoCursor, s.cursor}

(* A page arrived.                                                         *)
PageArrived ==
  /\ reply.kind = "page"
  /\ LET last == LastOf(reply.events)
         has_more == IF reply.info THEN reply.more ELSE Len(reply.events) >= opts.limit
         next == IF reply.next \notin {NoCursor, EmptyCursor} THEN reply.next
                 ELSE IF last # NoCursor /\ Usable(last) THEN last ELSE NoCursor
         advances == reply.events # <<>> \/ has_more
     IN  Run(IF advances /\ Stalled(next) THEN End("unexpected")
             ELSE Goto("loop", [s EXCEPT !.cursor = IF advances THEN next ELSE @,
                                         !.more = has_more,
                                         !.pending = Kept(reply.events, {i \in 1..Len(log) : Mine(i)}),
                                         !.after_page = TRUE]))

-----------------------------------------------------------------------------
(* The service answers the call under way, or it fails.                    *)
Answer ==
  /\ Waiting
  /\ \/ at # "pause" /\ reply' = Reply("error") /\ UNCHANGED <<start, horizon, overAt>>
     \/ /\ at = "latest"
        /\ \E c \in NewestCursors :
             reply' = [kind |-> "latest", event |-> Newest, next |-> c]
        /\ start' = Newest /\ UNCHANGED <<horizon, overAt>>
     \/ /\ at = "post" /\ run # "none"
        /\ reply' = Reply("posted") /\ UNCHANGED <<start, horizon, overAt>>
     \/ /\ at = "status"
        /\ reply' = [kind |-> "status", status |-> run]
        /\ overAt' = IF run \in {"finished", "failed"} THEN Len(log) ELSE overAt
        /\ UNCHANGED <<start, horizon>>
     \/ at = "pause" /\ reply' = Reply("slept") /\ UNCHANGED <<start, horizon, overAt>>
     \/ /\ at = "page"
        /\ reply' \in Pages(s.cursor)
        /\ horizon' = Len(log) /\ UNCHANGED <<start, overAt>>
  /\ UNCHANGED <<client, log, run, enroute, cancelled, prompts>>

(* The service accepts the prompt, whether or not anyone still waits.      *)
Accept ==
  /\ enroute
  /\ enroute' = FALSE /\ run' = "queued"
  /\ prompts' = prompts + 1
  /\ UNCHANGED <<client, reply, log, cancelled, start, horizon, overAt>>

(* The run is over, which says nothing about its events.                   *)
RunOver ==
  /\ run = "queued"
  /\ run' \in {"finished", "failed"}
  /\ UNCHANGED <<client, reply, log, enroute, cancelled, ghosts>>

(* The service persists an event; the prompt's only once there is one.     *)
Persist(kind) ==
  /\ Len(log) < MaxLog
  /\ Prompting /\ run = "none" => kind \in {"other", "hidden"}
  /\ log' = Append(log, kind)
  /\ UNCHANGED <<client, reply, run, enroute, cancelled, ghosts>>

Cancel ==
  /\ ~cancelled
  /\ cancelled' = TRUE
  /\ UNCHANGED <<client, reply, log, run, enroute, ghosts>>

Tick ==
  /\ left > 0 /\ at # "over"
  /\ left' = left - 1
  /\ UNCHANGED <<environment, at, reply, initialized, s, outcome, delivered, enroute>>

(* The stream is fused: whoever polls it again gets nothing.               *)
Fused == at = "over" /\ UNCHANGED vars

Code ==
  \/ Begin \/ Interrupt \/ CallFailed \/ Latest \/ Posted \/ Yield \/ Continue
  \/ Status \/ Slept \/ PageArrived

Next ==
  \/ Poll \/ Code \/ Fused
  \/ Answer \/ Accept \/ RunOver \/ Cancel \/ Tick
  \/ \E kind \in opts.kinds : Persist(kind)

Spec == Init /\ [][Next]_vars

(* The consumer keeps polling, the runtime runs the stream, every API call *)
(* ends (ApiCall) and the service receives the prompt.                     *)
FairSpec == Spec /\ WF_vars(Poll) /\ WF_vars(Code) /\ WF_vars(Answer) /\ WF_vars(Accept)

-----------------------------------------------------------------------------
(* The events a consumer should see, in order: those persisted after the   *)
(* stream looked for the newest one, of its type and, for a prompt, its    *)
(* own.                                                                    *)
Wanted(to) ==
  Kept(Places(start, to), {i \in 1..to : Prompting => log[i] # "other"})

(* Exactly once and in order: what was yielded is a prefix of the events   *)
(* that should be, across pages, pauses, replayed pages and pages that end *)
(* in another task's event (next_event, initialize).                       *)
ExactlyOnceInOrder ==
  /\ Len(delivered) <= Len(Wanted(Len(log)))
  /\ delivered = SubSeq(Wanted(Len(log)), 1, Len(delivered))

(* Nothing is lost on the way: what the cursor has passed is yielded or    *)
(* buffered (next_event).                                                  *)
NothingSkipped ==
  s.cursor >= start /\ initialized /\ at \notin {"latest", "post", "over"} =>
    delivered \o s.pending = Wanted(s.cursor)

(* A prompt stream that ends without an error has yielded every event of   *)
(* its prompt that the service had when it made the last page, and that    *)
(* page is younger than the end of the run (next_event).                   *)
EndIsComplete ==
  outcome = "end" =>
    /\ delivered = Wanted(horizon)
    /\ overAt <= horizon

(* At most one prompt is queued, however the stream is interrupted, and it *)
(* is never queued again (initialize).                                     *)
OnePrompt == prompts + (IF enroute THEN 1 ELSE 0) <= 1

(* Once the token is cancelled or the deadline has passed, no event is     *)
(* yielded, buffered or not, and no call begins; cancellation prevails     *)
(* (run, next_event).                                                      *)
InterruptionStops ==
  [][(cancelled \/ (initialized /\ Expired)) =>
       /\ delivered' = delivered
       /\ Waiting' => Waiting
       /\ (outcome = "none" /\ outcome' # "none" /\ initialized) =>
            outcome' = IF cancelled THEN "aborted" ELSE "timeout"]_vars

(* A consumer of a prompt stream is not left waiting: once the run is over *)
(* the stream ends, however the service describes its pages (next_event).  *)
StreamEnds == (Prompting /\ <>(run \in {"finished", "failed"})) => <>(at = "over")

(* The stream goes on only from a cursor it can use: docs/guide.md says    *)
(* that an unusable one returns an error (initialize, next_event).         *)
UnusableCursorsAreErrors == s.cursor # EmptyCursor

=============================================================================
