-------------------------------- MODULE PollWait --------------------------------
(***************************************************************************)
(* The waiting helpers of src/src/wait.rs: wait_until_ready,               *)
(* wait_until_idle, wait_for_prompt, wait_for_desktop and                  *)
(* wait_for_deletion are the loop poll around a fetch, under a PollBudget. *)
(* The resource waited for lives at the service and changes on its own.    *)
(* A fetch is one API call (HttpCall): it takes any time and ends with the *)
(* state the service saw or with an error.  Time is what the budget has    *)
(* left, so that it needs no bound; the runtime may poll the wait late, so *)
(* time also passes beyond a deadline or a finished sleep.                 *)
(***************************************************************************)
EXTENDS Integers

CONSTANTS
  Timeouts,     \* the timeouts callers give; zero means unlimited
  MaxTimeout,   \* the longest timeout that can be added to the current time
  Intervals     \* the poll intervals

ASSUME WaitAssumption ==
  /\ Timeouts \subseteq Nat
  /\ MaxTimeout \in Nat
  /\ Intervals \subseteq Nat

VARIABLES
  kind, timeout, interval,  \* which wait, and its WaitOptions
  resource,    \* the state of the resource at the service
  pc,          \* where the wait is
  left,        \* ticks before the deadline, Unlimited without one
  nap,         \* ticks left of the sleep
  reply,       \* what the fetch under way has come back with
  last_state,  \* what the wait last observed
  result       \* what the caller gets

vars == <<kind, timeout, interval, resource, pc, left, nap, reply, last_state,
          result>>
options == <<kind, timeout, interval>>

Unlimited == -1

BoxStates == {"init", "provisioning", "provisioned", "cloning", "ready", "idle",
              "running", "archiving", "archived", "error", "unknown"}
DesktopStates == {"no url", "empty url", "provisioning", "url"}

States ==
  [ready |-> BoxStates,
   idle |-> BoxStates,
   prompt |-> {"queued", "running", "finished", "failed"},
   desktop |-> DesktopStates,
   deletion |-> {"pending", "processing", "blocked", "completed"}]

Kinds == DOMAIN States

IsOperable(state) == state \in {"ready", "idle", "running"}

(* A bug: a box that failed to start is taken for one that is starting.    *)
IsTerminalFailureArchived(state) == state \in {"archived", "archiving"}
IsTerminalFailure(state) == state \in {"archived", "archiving", "error"}

(* What makes the fetch closure of each wait return Poll::Ready.           *)
Ready(state) ==
  CASE kind = "ready" -> IsOperable(state)
    [] kind = "idle" -> state = "idle"
    [] kind = "prompt" -> state \in {"finished", "failed"}
    [] kind = "desktop" -> state = "url"
    [] kind = "deletion" -> state = "completed"

(* What makes it return Error::BoxTerminal: asked after Ready.             *)
Terminal(state) ==
  kind \in {"ready", "idle"} /\ ~Ready(state) /\ IsTerminalFailure(state)

Outcome(k, state) == [kind |-> k, state |-> state]
Nothing == "not yet observed"
NoReply == Outcome("none", Nothing)
Replies == {Outcome("state", s) : s \in States[kind]} \cup {Outcome("error", Nothing)}

(* A wait without a deadline never has time left to lose, one with a       *)
(* deadline always has (PollBudget).                                       *)
TypeOK ==
  /\ kind \in Kinds /\ timeout \in Timeouts /\ interval \in Intervals
  /\ resource \in States[kind]
  /\ pc \in {"start", "loop", "fetching", "pause", "sleeping", "done"}
  /\ left \in {Unlimited} \cup 0..timeout
  /\ timeout # 0 /\ pc \notin {"start", "done"} => left # Unlimited
  /\ timeout = 0 => left = Unlimited
  /\ nap \in 0..interval
  /\ reply \in Replies \cup {NoReply}
  /\ last_state \in States[kind] \cup {Nothing}
  /\ result.kind \in {"pending", "ok", "terminal", "timeout", "error", "config"}
  /\ result.state \in States[kind] \cup {Nothing}

Init ==
  /\ kind \in Kinds /\ timeout \in Timeouts /\ interval \in Intervals
  /\ resource \in States[kind]
  /\ pc = "start" /\ left = Unlimited /\ nap = 0
  /\ reply = NoReply /\ last_state = Nothing
  /\ result = Outcome("pending", Nothing)

-----------------------------------------------------------------------------
Expired == left = 0

(* A bug: run does not look at the clock before it polls the future.       *)
ExpiredBeforeIgnored == FALSE
(* The check of PollBudget::run before the future is first polled.         *)
ExpiredBefore == Expired

(* A bug: run trusts timeout_at, which prefers a finished future.          *)
ExpiredAfterIgnored == FALSE
(* The check of PollBudget::run after the future is finished.              *)
ExpiredAfter == Expired

Return(outcome) ==
  /\ pc' = "done"
  /\ result' = outcome
  /\ UNCHANGED <<nap, reply, last_state>>

WaitTimeout == Return(Outcome("timeout", last_state))

Budget == IF timeout = 0 THEN Unlimited ELSE timeout

(* PollBudget::new: a deadline that cannot be represented is refused.      *)
Start ==
  /\ pc = "start"
  /\ \/ /\ timeout > MaxTimeout
        /\ Return(Outcome("config", Nothing))
        /\ UNCHANGED left
     \/ /\ timeout <= MaxTimeout
        /\ left' = Budget
        /\ pc' = "loop"
        /\ UNCHANGED <<nap, reply, last_state, result>>
  /\ UNCHANGED <<options, resource>>

(* The wait polls: the API call of the fetch closure begins.               *)
Fetch ==
  /\ pc = "loop"
  /\ \/ /\ ExpiredBefore
        /\ WaitTimeout
     \/ /\ ~ExpiredBefore
        /\ pc' = "fetching"
        /\ reply' = NoReply
        /\ UNCHANGED <<nap, last_state, result>>
  /\ UNCHANGED <<options, resource, left>>

(* The service answers with the state it sees, or the call fails: a        *)
(* refusal, a network error, or retries that are exhausted.                *)
Answer ==
  /\ pc = "fetching" /\ reply = NoReply
  /\ reply' \in {Outcome("state", resource), Outcome("error", Nothing)}
  /\ UNCHANGED <<options, resource, pc, left, nap, last_state, result>>

(* The fetch is finished and the wait is polled: the budget, then the      *)
(* closure and the match of poll decide.                                   *)
Observe ==
  /\ pc = "fetching" /\ reply # NoReply
  /\ \/ /\ ExpiredAfter
        /\ WaitTimeout
     \/ /\ ~ExpiredAfter /\ reply.kind = "error"
        /\ Return(reply)
     \/ /\ ~ExpiredAfter /\ reply.kind = "state" /\ Ready(reply.state)
        /\ Return(Outcome("ok", reply.state))
     \/ /\ ~ExpiredAfter /\ reply.kind = "state" /\ Terminal(reply.state)
        /\ Return(Outcome("terminal", reply.state))
     \/ /\ ~ExpiredAfter /\ reply.kind = "state"
        /\ ~Ready(reply.state) /\ ~Terminal(reply.state)
        /\ pc' = "pause"
        /\ last_state' = reply.state
        /\ UNCHANGED <<nap, reply, result>>
  /\ UNCHANGED <<options, resource, left>>

(* timeout_at gives up on a fetch or a sleep that is not finished.         *)
Elapsed ==
  /\ \/ pc = "fetching" /\ reply = NoReply
     \/ pc = "sleeping" /\ nap > 0
  /\ Expired
  /\ WaitTimeout
  /\ UNCHANGED <<options, resource, left>>

Sleep ==
  /\ pc = "pause"
  /\ \/ /\ ExpiredBefore
        /\ WaitTimeout
     \/ /\ ~ExpiredBefore
        /\ pc' = "sleeping"
        /\ nap' = interval
        /\ UNCHANGED <<reply, last_state, result>>
  /\ UNCHANGED <<options, resource, left>>

Wake ==
  /\ pc = "sleeping" /\ nap = 0
  /\ \/ /\ ExpiredAfter
        /\ WaitTimeout
     \/ /\ ~ExpiredAfter
        /\ pc' = "loop"
        /\ UNCHANGED <<nap, reply, last_state, result>>
  /\ UNCHANGED <<options, resource, left>>

-----------------------------------------------------------------------------
Tick ==
  /\ pc \notin {"start", "done"}
  /\ left' = IF left > 0 THEN left - 1 ELSE left
  /\ nap' = IF nap > 0 THEN nap - 1 ELSE nap
  /\ UNCHANGED <<options, resource, pc, reply, last_state, result>>

(* The resource changes at the service, in whatever way.                   *)
Change ==
  /\ resource' \in States[kind]
  /\ UNCHANGED <<options, pc, left, nap, reply, last_state, result>>

Code == Start \/ Fetch \/ Observe \/ Elapsed \/ Sleep \/ Wake

Next == Code \/ Answer \/ Tick \/ Change

Spec == Init /\ [][Next]_vars

(* The runtime polls the wait when it can go on, time passes, and every    *)
(* API call ends (ApiCall), with an answer or an error.                    *)
FairSpec == Spec /\ WF_vars(Code) /\ WF_vars(Tick) /\ WF_vars(Answer)

-----------------------------------------------------------------------------
(* A wait ends with WaitTimeout exactly if it ends at or after its         *)
(* deadline: an answer that arrives too late is not returned, however late *)
(* the runtime polls, and no wait times out early (PollBudget::run).       *)
DeadlineDecides ==
  [][(result.kind = "pending" /\ result'.kind \notin {"pending", "config"}) =>
       (Expired <=> result'.kind = "timeout")]_vars

(* No poll begins at or after the deadline; for a desktop a poll is a      *)
(* mutation of the box (PollBudget::run, wait_for_desktop_with).           *)
NoLatePoll == [][(pc # "fetching" /\ pc' = "fetching") => ~Expired]_vars

(* A box that has failed cannot become ready, nor can a wait be left       *)
(* hanging: with a deadline the wait ends whatever happens, without one it *)
(* ends once the resource stays in a state that is what was waited for or, *)
(* for a box, a terminal failure (poll, wait_for_box, is_terminal_failure).*)
Settled ==
  CASE kind = "ready" -> resource \in {"ready", "idle", "running", "archiving",
                                       "archived", "error"}
    [] kind = "idle" -> resource \in {"idle", "archiving", "archived", "error"}
    [] kind = "prompt" -> resource \in {"finished", "failed"}
    [] kind = "desktop" -> resource = "url"
    [] kind = "deletion" -> resource = "completed"
WaitEnds == (timeout # 0 \/ <>[]Settled) => <>(pc = "done")

=============================================================================
