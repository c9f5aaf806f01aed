-------------------------------- MODULE HttpCall --------------------------------
(***************************************************************************)
(* One API call through the transport: ApiRequest::send or bytes, execute, *)
(* execute_bytes and send_once.  The call makes up to MaxAttempts          *)
(* attempts; each puts a request on the wire, waits for the response       *)
(* headers, reads the body in chunks of any size and maps the outcome.     *)
(* The network may fail at every step, lose the answer to a request the    *)
(* server has executed, and deliver a request the client gave up on.       *)
(* A tick is the unit of time; timer is what the pending timeout or sleep  *)
(* has left, and a tick cannot pass a timer that has run out.              *)
(***************************************************************************)
EXTENDS RetryPolicy, Sequences, FiniteSets

CONSTANTS
  Policies,  \* the configurations
  Methods,   \* the HTTP methods
  Answers    \* per configuration, the responses of servers and gateways

Responses == UNION {Answers[p] : p \in Policies}

ASSUME CallAssumption ==
  /\ \A p \in Policies : ValidPolicy(p)
  /\ \A r \in Responses :
       /\ r.status \in 100..599 /\ r.retry_after \in Durations \cup {Absent}
       /\ r.body \in Bodies /\ r.length \in Nat /\ r.declared \in BOOLEAN

VARIABLES
  policy, method, json,  \* the configuration, the method, whether send or bytes
  pc,         \* where the call is
  attempt,    \* the index of the attempt
  timer,      \* ticks left of the request timeout or of the sleep
  response,   \* the response being read
  received,   \* how many bytes of its body the network has delivered
  bytes,      \* the buffer: each byte with its attempt and place in the body
  result,     \* what the caller gets
  \* what the outside sees, not kept by the code
  sent,       \* requests put on the wire
  enroute,    \* attempts whose request the server has yet to execute
  applied,    \* requests the server has executed
  elapsed,    \* time since the call began
  notBefore   \* no request is welcome before this time

setting == <<policy, method, json>>
body == <<response, received, bytes>>
wire == <<sent, enroute, applied>>
clock == <<elapsed, notBefore>>
vars == <<setting, pc, attempt, timer, body, result, wire, clock>>

NoResponse == [status |-> Absent, retry_after |-> Absent, body |-> Garbled,
               length |-> 0, declared |-> FALSE]

Pending == [kind |-> "pending", error |-> Unbuildable]
Ok == [kind |-> "ok", error |-> Unbuildable]
Err(error) == [kind |-> "error", error |-> error]

Limit == policy.max_response_bytes
Attempts == MaxAttempts(policy, method)

(* A call cannot take longer: every attempt may use up its timeout, every  *)
(* sleep between two attempts is at most as long.                          *)
LongestCall == (2 * Attempts - 1) * policy.request_timeout

Kinds == {"api", "http_status", "timeout", "connect", "transport",
          "response_too_large", "decode", "client"}

(* The attempts stay within the policy, and the buffer only has bytes of   *)
(* attempts that were made (execute_bytes, send_once).                     *)
TypeOK ==
  /\ policy \in Policies /\ method \in Methods /\ json \in BOOLEAN
  /\ pc \in {"build", "attempt", "flight", "reading", "sleeping", "done"}
  /\ attempt \in 0..(Attempts - 1) /\ timer \in Durations
  /\ response \in Responses \cup {NoResponse}
  /\ received \in 0..response.length
  /\ bytes \in Seq((0..attempt) \X (1..response.length))
  /\ result.kind \in {"pending", "ok", "error"} /\ result.error.kind \in Kinds
  /\ sent \in 0..Attempts /\ enroute \subseteq 0..attempt /\ applied \in 0..sent
  /\ elapsed \in Nat /\ notBefore \in Nat

Init ==
  /\ policy \in Policies /\ method \in Methods /\ json \in BOOLEAN
  /\ pc = "build"
  /\ attempt = 0 /\ timer = 0
  /\ response = NoResponse /\ received = 0 /\ bytes = <<>>
  /\ result = Pending
  /\ sent = 0 /\ enroute = {} /\ applied = 0
  /\ elapsed = 0 /\ notBefore = 0

-----------------------------------------------------------------------------
Return(r) ==
  /\ pc' = "done"
  /\ result' = r
  /\ timer' = 0
  /\ UNCHANGED <<attempt, body>>

(* A bug: the buffer outlives the attempt.                                 *)
FreshBufferKept == bytes
FreshBuffer == <<>>

(* A failed attempt drops its response and its buffer.                     *)
Sleep(delay) ==
  /\ pc' = "sleeping"
  /\ timer' = delay
  /\ response' = NoResponse /\ received' = 0 /\ bytes' = FreshBuffer
  /\ UNCHANGED <<attempt, result>>

(* A bug: the delay is not compared with the request timeout.              *)
TooLongNever(delay) == FALSE
TooLong(delay) == delay > policy.request_timeout

(* The match of execute_bytes on a failed attempt: sleep and go on, or     *)
(* give the error to the caller.                                           *)
Retries(error) == RetrySafe(method) /\ IsRetryable(error) /\ attempt + 1 < Attempts
Fail(error, retry_after) ==
  \/ /\ Retries(error)
     /\ \E backoff \in Backoffs(policy, attempt) :
          LET delay == Delay(policy, backoff, retry_after)
          IN  IF TooLong(delay) THEN Return(Err(error)) ELSE Sleep(delay)
  \/ ~Retries(error) /\ Return(Err(error))

(* The decoder given to execute: send parses JSON, bytes takes anything.   *)
Succeed ==
  Return(IF json /\ response.body = Garbled THEN Err(Undecodable) ELSE Ok)

-----------------------------------------------------------------------------
Build ==
  /\ pc = "build"
  /\ pc' = "attempt"
  /\ UNCHANGED <<setting, attempt, timer, body, result, wire, clock>>

BuildFails ==
  /\ pc = "build"
  /\ Return(Err(Unbuildable))
  /\ UNCHANGED <<setting, wire, clock>>

(* send_once starts; reqwest's request timeout starts with it.             *)
Send ==
  /\ pc = "attempt"
  /\ pc' = "flight"
  /\ timer' = policy.request_timeout
  /\ sent' = sent + 1 /\ enroute' = enroute \cup {attempt}
  /\ UNCHANGED <<setting, attempt, body, result, applied, clock>>

(* The request reaches the server, which executes it.                      *)
Apply(a) ==
  /\ a \in enroute
  /\ enroute' = enroute \ {a} /\ applied' = applied + 1
  /\ UNCHANGED <<setting, pc, attempt, timer, body, result, sent, clock>>

(* The connection is refused: the request never leaves.                    *)
Refused ==
  /\ pc = "flight" /\ attempt \in enroute
  /\ enroute' = enroute \ {attempt}
  /\ Fail(Connect, Absent)
  /\ UNCHANGED <<setting, sent, applied, clock>>

(* The connection breaks before or after the server got the request.       *)
Broken ==
  /\ pc \in {"flight", "reading"}
  /\ Fail(Transport, response.retry_after)
  /\ UNCHANGED <<setting, wire, clock>>

(* The request timeout covers the headers and the body.                    *)
TimeoutCovers == {"flight", "reading"}

TimedOut ==
  /\ pc \in TimeoutCovers /\ timer = 0
  /\ Fail(Timeout, response.retry_after)
  /\ UNCHANGED <<setting, wire, clock>>

(* The headers arrive: an error may come from a gateway that withholds the *)
(* request.  A declared length over the limit ends the attempt.            *)
Headers(r) ==
  /\ pc = "flight"
  /\ IsSuccess(r.status) => attempt \notin enroute
  /\ notBefore' = IF r.retry_after = Absent THEN notBefore
                  ELSE elapsed + r.retry_after
  /\ IF r.declared /\ r.length > Limit
     THEN Fail(TooLarge, r.retry_after)
     ELSE /\ pc' = "reading"
          /\ response' = r
          /\ UNCHANGED <<attempt, timer, received, bytes, result>>
  /\ UNCHANGED <<setting, wire, elapsed>>

(* A bug: each chunk is compared with the limit, not the buffer it joins.  *)
FitsAlone(n) == n <= Limit
Fits(n) == n <= Larger(Limit - Len(bytes), 0)

(* The next chunk: n bytes of what the body has left.                      *)
Chunk(n) ==
  /\ pc = "reading" /\ n \in 1..(response.length - received)
  /\ IF Fits(n)
     THEN /\ bytes' = bytes \o [i \in 1..n |-> <<attempt, received + i>>]
          /\ received' = received + n
          /\ UNCHANGED <<pc, attempt, timer, response, result>>
     ELSE Fail(TooLarge, response.retry_after)
  /\ UNCHANGED <<setting, wire, clock>>

(* The body is complete: its status decides.                               *)
EndOfBody ==
  /\ pc = "reading" /\ received = response.length
  /\ IF IsSuccess(response.status) THEN Succeed
     ELSE Fail(MapError(response.status, response.body), response.retry_after)
  /\ UNCHANGED <<setting, wire, clock>>

Wake ==
  /\ pc = "sleeping" /\ timer = 0
  /\ pc' = "attempt"
  /\ attempt' = attempt + 1
  /\ UNCHANGED <<setting, timer, body, result, wire, clock>>

Tick ==
  /\ pc \in {"flight", "reading", "sleeping"} /\ timer > 0
  /\ timer' = timer - 1
  /\ elapsed' = elapsed + 1
  /\ UNCHANGED <<setting, pc, attempt, body, result, wire, notBefore>>

(* The caller has its answer.                                              *)
Done == pc = "done" /\ enroute = {} /\ UNCHANGED vars

Next ==
  \/ Build \/ BuildFails \/ Send \/ Refused \/ Broken \/ TimedOut \/ EndOfBody
  \/ Wake \/ Tick \/ Done
  \/ \E r \in Answers[policy] : Headers(r)
  \/ \E n \in 1..response.length : Chunk(n)
  \/ \E a \in enroute : Apply(a)

Spec == Init /\ [][Next]_vars

(* The runtime keeps polling the call and its timers fire.  Nothing is     *)
(* assumed of the server.                                                  *)
FairSpec == Spec /\ WF_vars(TimedOut \/ Wake \/ Tick \/ Build \/ Send)

-----------------------------------------------------------------------------
(* The transport keeps the contract of ApiCall: a mutation is executed at  *)
(* most once and a GET at most max_attempts times, whatever fails and      *)
(* whenever the server gets to it; a request that could not be built, or   *)
(* whose only connection was refused, is never executed; a success was;    *)
(* and the call ends, whatever the server does (execute_bytes, send_once). *)
NeverLeft ==
  result.error.kind = "client" \/ (result.error.kind = "connect" /\ sent = 1)
Outcome ==
  CASE result.kind = "error" -> IF NeverLeft THEN "refused" ELSE "failed"
    [] OTHER -> result.kind
Contract == INSTANCE ApiCall WITH
  budget <- IF method = "GET" THEN policy.max_attempts ELSE 1,
  executed <- applied,
  outcome <- Outcome
KeepsTheCallContract == Contract!Spec

(* A success is the complete body of one successful response, the last,    *)
(* whatever earlier attempts left behind (send_once).                      *)
WholeBody ==
  result.kind = "ok" =>
    /\ IsSuccess(response.status)
    /\ bytes = [i \in 1..response.length |-> <<attempt, i>>]

(* The buffer never exceeds the limit, however the body is cut in chunks   *)
(* and whether or not its length was declared (send_once).                 *)
BufferWithinLimit == Len(bytes) <= Limit

(* Request timeouts apply per attempt and no sleep is longer than one, so  *)
(* the whole call is bounded (execute_bytes).                              *)
CallIsBounded == elapsed <= LongestCall

(* A Retry-After is never shortened: no request leaves before the time the *)
(* last response that carried one asked for, also when that response was   *)
(* lost half way (execute_bytes).                                          *)
RetryAfterHonoured == [][sent' > sent => elapsed >= notBefore]_vars

(* What docs/guide.md lists as transient: 429, 502 to 504, a conflict      *)
(* while the box starts or is secured, timeouts and refused connections.   *)
Transient(error) ==
  \/ error.kind \in {"timeout", "connect"}
  \/ error.status \in {429, 502, 503, 504}
  \/ error.status = 409 /\ error.code \in {"box_starting", "box_securing"}

(* An error reaches the caller for a reason: a GET gives up on a transient *)
(* error only when its attempts are used up, or when the wait for the next *)
(* one would exceed the request timeout; it retries nothing else           *)
(* (execute_bytes, Error::is_retryable).                                   *)
Exponential == policy.initial_delay * Powers(policy.multiplier)[attempt]
LongestBackoff ==
  Smaller(IF policy.jitter THEN 2 * Exponential ELSE Exponential, policy.max_delay)
WaitTooLong(r) == Larger(r.retry_after, LongestBackoff) > policy.request_timeout
RetriesExactlyTransient ==
  [][/\ (result.kind = "pending" /\ result'.kind = "error" /\ method = "GET"
         /\ Transient(result'.error)) => sent = policy.max_attempts \/ WaitTooLong(response)
     /\ (pc = "reading" /\ pc' = "sleeping" /\ received = response.length /\ timer > 0) =>
          Transient(MapError(response.status, response.body))]_vars

(* Without Retry-After the sleep is initial_delay * multiplier^retry_index *)
(* plus at most as much jitter, capped at max_delay, with no loss for      *)
(* large values (RetryConfig::delay); stated with unbounded integers.      *)
BackoffIsExponential ==
  [][(pc # "sleeping" /\ pc' = "sleeping" /\ response.retry_after = Absent) =>
       /\ timer' >= Smaller(Exponential, policy.max_delay)
       /\ timer' <= LongestBackoff]_vars

=============================================================================
