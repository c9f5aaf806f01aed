------------------------------ MODULE RetryPolicy ------------------------------
(***************************************************************************)
(* The pure decisions of the HTTP layer: which errors may be retried       *)
(* (Error::is_retryable), how an error response is classified (map_error), *)
(* how long to wait before the next attempt (RetryConfig::delay) and how   *)
(* many attempts a method gets.  Durations are counted in ticks and        *)
(* saturate at MaxDuration, as std's Duration does.                        *)
(***************************************************************************)
EXTENDS Integers

CONSTANTS
  MaxDuration,  \* the longest representable duration
  MaxJitter     \* the longest jitter: fastrand draws a u64 of nanoseconds

ASSUME DurationAssumption ==
  /\ MaxDuration \in Nat
  /\ MaxJitter \in 0..MaxDuration

Absent == -1    \* no Retry-After header, no response status

Durations == 0..MaxDuration

Smaller(a, b) == IF a <= b THEN a ELSE b
Larger(a, b) == IF a >= b THEN a ELSE b

(* The powers of m, with no bound; a function proofs can reason about.     *)
Powers(m) ==
  LET power[k \in Nat] == IF k = 0 THEN 1 ELSE m * power[k - 1] IN power

SaturatingMul(a, m) == Smaller(a * m, MaxDuration)
SaturatingAdd(a, b) == Smaller(a + b, MaxDuration)

(* RetryConfig::validate, with the timeout and limit of BoxClientConfig.   *)
ValidPolicy(p) ==
  /\ p.max_attempts \in Nat \ {0}
  /\ p.multiplier \in Nat \ {0}
  /\ p.max_delay \in Durations
  /\ p.initial_delay \in 0..p.max_delay
  /\ p.jitter \in BOOLEAN
  /\ p.request_timeout \in Durations
  /\ p.max_response_bytes \in Nat

-----------------------------------------------------------------------------
(* A bug: the multiplication wraps around instead of saturating.           *)
GrowWrapping(p, base) ==
  Smaller((base * p.multiplier) % (MaxDuration + 1), p.max_delay)

(* One round of the loop of RetryConfig::delay; it stops early at          *)
(* max_delay, which further rounds keep.                                   *)
Grow(p, base) == Smaller(SaturatingMul(base, p.multiplier), p.max_delay)

(* The base delay after retry_index rounds; a multiplier of one and a zero *)
(* initial delay are fixed points of Grow.                                 *)
Base(p, retry_index) ==
  LET base[i \in 0..retry_index] ==
        IF i = 0 THEN p.initial_delay ELSE Grow(p, base[i - 1])
  IN  base[retry_index]

(* The delays RetryConfig::delay may return.                               *)
Backoffs(p, retry_index) ==
  LET base == Base(p, retry_index)
      jitters == IF p.jitter THEN 0..Smaller(base, MaxJitter) ELSE {0}
  IN  {d \in 0..p.max_delay :
         \E j \in jitters : d = Smaller(SaturatingAdd(base, j), p.max_delay)}

(* A bug: a Retry-After beyond the request timeout is cut to it.           *)
DelayCut(p, backoff, retry_after) ==
  Smaller(Larger(backoff, retry_after), p.request_timeout)

(* The server's Retry-After is a minimum.                                  *)
Delay(p, backoff, retry_after) ==
  IF retry_after = Absent THEN backoff ELSE Larger(backoff, retry_after)

-----------------------------------------------------------------------------
(* What map_error reads in the body of a response: the code of an API      *)
(* error, or a body that is no API error at all.                           *)
Codes == {"box_starting", "box_securing", "other"}
Garbled == "garbled"
Bodies == Codes \cup {Garbled}

Failure(kind, status, code) == [kind |-> kind, status |-> status, code |-> code]
Timeout == Failure("timeout", Absent, "other")
Connect == Failure("connect", Absent, "other")
Transport == Failure("transport", Absent, "other")
TooLarge == Failure("response_too_large", Absent, "other")
Undecodable == Failure("decode", Absent, "other")
Unbuildable == Failure("client", Absent, "other")

IsSuccess(status) == status \in 200..299

MapError(status, body) ==
  IF body = Garbled THEN Failure("http_status", status, "other")
  ELSE Failure("api", status, body)

(* A bug: every conflict is taken for a transient one.                     *)
IsRetryableConflicts(error) ==
  \/ error.kind \in {"api", "http_status"} /\ error.status \in {409, 429} \cup 502..504
  \/ error.kind \in {"timeout", "connect"}

IsRetryable(error) ==
  \/ /\ error.kind = "api"
     /\ \/ error.status \in {429} \cup 502..504
        \/ error.status = 409 /\ error.code \in {"box_starting", "box_securing"}
  \/ error.kind = "http_status" /\ error.status \in {429} \cup 502..504
  \/ error.kind \in {"timeout", "connect"}

(* A bug: the method is not asked.                                         *)
RetrySafeAlways(method) == TRUE

RetrySafe(method) == method = "GET"

MaxAttempts(p, method) == IF RetrySafe(method) THEN p.max_attempts ELSE 1

=============================================================================
