------------------------------ MODULE MCHttpCall ------------------------------
(* Instance of HttpCall for TLC.                                           *)
EXTENDS HttpCall

Policy(attempts, initial, max, multiplier, jitter, timeout, limit) ==
  [max_attempts |-> attempts, initial_delay |-> initial, max_delay |-> max,
   multiplier |-> multiplier, jitter |-> jitter, request_timeout |-> timeout,
   max_response_bytes |-> limit]

(* Every way in which backoff, Retry-After and request timeout can compare,*)
(* and growth up to and beyond saturation, from zero, one and two.         *)
TimingPolicies ==
  {Policy(3, 1, 4, 2, jitter, timeout, 0) : jitter \in BOOLEAN, timeout \in 2..3}
    \cup {Policy(3, 0, 5, 3, FALSE, 5, 0), Policy(3, 1, 5, 1, FALSE, 5, 0),
          Policy(3, 2, 5, 3, FALSE, 5, 0)}

(* Retries enabled and disabled, and a limit a body can meet in chunks.    *)
RetryPolicies ==
  {Policy(attempts, 0, 0, 1, FALSE, 1, 0) : attempts \in {1, 3}}
    \cup {Policy(2, 0, 0, 1, FALSE, 1, 2)}

AllPolicies == TimingPolicies \cup RetryPolicies

(* Empty bodies where time matters; where it does not every kind of        *)
(* response, with bodies that are empty, meet the limit or pass it by one. *)
TimedAnswers ==
  [status : {200, 503}, retry_after : {Absent, 0, 1, 3}, body : {"other"},
   length : {0}, declared : {FALSE}]
VariedAnswers(limit) ==
  [status : {200, 409, 429, 500, 504}, retry_after : {Absent}, body : Bodies,
   length : {0, limit, limit + 1}, declared : BOOLEAN]
AllAnswers ==
  [p \in AllPolicies |->
     IF p \in TimingPolicies THEN TimedAnswers
     ELSE VariedAnswers(p.max_response_bytes)]
=============================================================================
