----------------------------- MODULE HttpCallProofs -----------------------------
(***************************************************************************)
(* One API call keeps its promises for every policy, every response and    *)
(* every limit: it is bounded in time, its buffer in size, a success is    *)
(* one whole body, a Retry-After is honoured, and a request is executed no *)
(* more often than the contract allows.                                    *)
(***************************************************************************)
EXTENDS HttpCall, FiniteSetTheorems, SequenceTheorems, WellFoundedInduction, TLAPS

(* Every attempt puts one request on the wire and each is executed at most *)
(* once; who waits for an answer, or reads a success, was heard.           *)
WireInv ==
  /\ pc = "build" => attempt = 0
  /\ pc \in {"build", "attempt"} => sent = attempt
  /\ pc \in {"flight", "reading", "sleeping"} => sent = attempt + 1
  /\ sent <= attempt + 1
  /\ applied + Cardinality(enroute) <= sent
  /\ pc \in {"flight", "reading"} => attempt \in enroute \/ applied > 0
  /\ pc = "reading" /\ IsSuccess(response.status) => applied > 0

(* The buffer is what was received of the body of this attempt.            *)
BodyInv ==
  /\ bytes = [i \in 1..received |-> <<attempt, i>>]
  /\ received <= Limit
  /\ pc \notin {"reading", "done"} => response = NoResponse /\ received = 0

(* What the caller is told is true of the wire.                            *)
ResultInv ==
  /\ result.kind = "pending" <=> pc # "done"
  /\ result.kind = "ok" =>
       /\ applied > 0 /\ IsSuccess(response.status) /\ received = response.length
  /\ result.kind = "error" /\ NeverLeft => applied = 0 /\ enroute = {}

(* Time: every attempt before this one took at most its timeout and one    *)
(* sleep; and how much of the last Retry-After is still to wait for.       *)
Before == 2 * attempt * policy.request_timeout

ClockInv ==
  /\ pc \in {"build", "attempt"} => elapsed <= Before /\ notBefore <= elapsed
  /\ pc \in {"flight", "reading"} => elapsed + timer <= Before + policy.request_timeout
  /\ pc = "sleeping" =>
       /\ elapsed + timer <= Before + 2 * policy.request_timeout
       /\ notBefore <= elapsed + timer
       /\ attempt + 1 < Attempts
  /\ pc = "flight" => notBefore <= elapsed
  /\ pc = "reading" =>
       notBefore <= elapsed + (IF response.retry_after = Absent THEN 0 ELSE response.retry_after)
  /\ pc = "done" => elapsed <= Before + policy.request_timeout

CallInv == WireInv /\ BodyInv /\ ResultInv /\ ClockInv

-----------------------------------------------------------------------------
(* The constants *)

(* A policy has a number of attempts, a timeout and a limit.               *)
LEMMA PolicyFacts ==
  ASSUME policy \in Policies
  PROVE  /\ Attempts \in Nat \ {0} /\ policy.request_timeout \in Durations
         /\ Limit \in Nat /\ policy.max_attempts \in Nat \ {0}
         /\ Durations \subseteq Nat
BY CallAssumption, DurationAssumption
   DEF ValidPolicy, Attempts, MaxAttempts, Limit, Durations

LEMMA ResponseFacts ==
  ASSUME NEW r \in Responses \cup {NoResponse}
  PROVE  /\ r.length \in Nat
         /\ r.retry_after \in Durations \cup {Absent}
         /\ r.retry_after # Absent => r.retry_after \in Nat
BY CallAssumption, DurationAssumption DEF NoResponse, Durations, Absent

(* Times and lengths only grow with the attempts.                          *)
LEMMA Growing ==
  ASSUME NEW m \in Nat, NEW n \in Nat, NEW k \in Nat, m <= n
  PROVE  m * k <= n * k /\ m * k \in Nat
OBVIOUS

(* What is left of a failed attempt: an error for the caller, or a sleep   *)
(* that is long enough and not longer than a timeout.                      *)
LEMMA FailShape ==
  ASSUME policy \in Policies, NEW error, NEW retry_after \in Durations \cup {Absent},
         Fail(error, retry_after)
  PROVE  \/ Return(Err(error))
         \/ \E delay \in 0..policy.request_timeout :
              /\ Sleep(delay)
              /\ IsRetryable(error) /\ attempt + 1 < Attempts
              /\ retry_after # Absent => retry_after <= delay
<1>1. CASE ~Retries(error)
  BY <1>1 DEF Fail
<1>2. CASE Retries(error)
  <2>1. PICK backoff \in Backoffs(policy, attempt) :
          IF TooLong(Delay(policy, backoff, retry_after)) THEN Return(Err(error))
          ELSE Sleep(Delay(policy, backoff, retry_after))
    BY <1>2 DEF Fail
  <2> DEFINE delay == Delay(policy, backoff, retry_after)
  <2>2. backoff \in Nat
    BY <2>1, CallAssumption, DurationAssumption DEF Backoffs, ValidPolicy, Durations
  <2>3. delay \in Nat /\ (retry_after # Absent => retry_after <= delay)
    BY <2>2, DurationAssumption DEF Delay, Larger, Durations
  <2>4. ~TooLong(delay) => delay \in 0..policy.request_timeout
    BY <2>3, PolicyFacts DEF TooLong
  <2> QED
    BY <1>2, <2>1, <2>3, <2>4 DEF Retries
<1> QED
  BY <1>1, <1>2

-----------------------------------------------------------------------------
(* The backoff: it grows by the multiplier until it reaches max_delay *)

(* Induction on the natural numbers, for a set.                            *)
LEMMA Induction ==
  ASSUME NEW S, 0 \in S, \A n \in Nat : n \in S => n + 1 \in S
  PROVE  \A n \in Nat : n \in S
<1> DEFINE R == OpToRel(<, Nat)
           T == Nat \ S
<1>1. SUFFICES ASSUME T # {}
               PROVE  FALSE
  OBVIOUS
<1>2. IsWellFoundedOn(R, Nat)
  BY NatLessThanWellFounded
<1>3. T \subseteq Nat
  OBVIOUS
<1>4. \A x, y \in Nat : <<y, x>> \in R <=> y < x
  BY DEF OpToRel
<1> HIDE DEF R
<1>5. PICK x \in T : \A y \in T : ~(<<y, x>> \in R)
  BY <1>1, <1>2, <1>3, WFMin
<1>6. x # 0 /\ x - 1 \in Nat /\ x - 1 < x
  BY <1>5
<1>7. x - 1 \in S
  BY <1>4, <1>5, <1>6
<1> QED
  BY <1>5, <1>6, <1>7

(* There is a function of the powers of a number.                          *)
LEMMA PowersExist ==
  ASSUME NEW m \in Nat
  PROVE  \E G : G = [k \in Nat |-> IF k = 0 THEN 1 ELSE m * G[k - 1]]
<1> DEFINE Upto(n, g) == /\ g \in [0..n -> Nat] /\ g[0] = 1
                         /\ \A i \in 0..n : i # n => g[i + 1] = m * g[i]
<1>1. \A n \in Nat : \E g : Upto(n, g)
  <2> DEFINE S == {n \in Nat : \E g : Upto(n, g)}
  <2>1. 0 \in S
    <3>1. Upto(0, [i \in 0..0 |-> 1])
      OBVIOUS
    <3> QED
      BY <3>1
  <2>2. ASSUME NEW n \in Nat, n \in S
        PROVE  n + 1 \in S
    <3>1. PICK g : Upto(n, g)
      BY <2>2
    <3> DEFINE h == [i \in 0..(n + 1) |-> IF i = n + 1 THEN m * g[n] ELSE g[i]]
    <3>2. h \in [0..(n + 1) -> Nat] /\ h[0] = 1
      BY <3>1
    <3>3. ASSUME NEW i \in 0..(n + 1), i # n + 1
          PROVE  h[i + 1] = m * h[i]
      <4>1. i \in 0..n /\ i + 1 \in 0..(n + 1) /\ h[i] = g[i]
        BY <3>3
      <4>2. CASE i = n
        BY <4>1, <4>2
      <4>3. CASE i # n
        BY <3>1, <4>1, <4>3
      <4> QED
        BY <4>2, <4>3
    <3>4. Upto(n + 1, h)
      BY <3>2, <3>3
    <3> HIDE DEF h, Upto
    <3> QED
      BY <3>4
  <2>3. \A n \in Nat : n \in S
    <3> HIDE DEF S
    <3> QED
      BY <2>1, <2>2, Induction
  <2> QED
    BY <2>3
<1>2. ASSUME NEW n \in Nat, NEW g, Upto(n, g), NEW k \in Nat, NEW h, Upto(k, h), n <= k
      PROVE  g[n] = h[n]
  <2> DEFINE S == {i \in Nat : i <= n => g[i] = h[i]}
  <2>1. 0 \in S
    BY <1>2
  <2>2. ASSUME NEW i \in Nat, i \in S
        PROVE  i + 1 \in S
    BY <1>2, <2>2
  <2>3. \A i \in Nat : i \in S
    <3> HIDE DEF S
    <3> QED
      BY <2>1, <2>2, Induction
  <2> QED
    BY <2>3
<1> DEFINE Chosen(n) == CHOOSE g : Upto(n, g)
           G == [n \in Nat |-> Chosen(n)[n]]
<1>3. \A n \in Nat : Upto(n, Chosen(n))
  <2> HIDE DEF Upto
  <2> QED
    BY <1>1
<1>4. ASSUME NEW n \in Nat
      PROVE  G[n] = IF n = 0 THEN 1 ELSE m * G[n - 1]
  <2> HIDE DEF Chosen
  <2>1. CASE n = 0
    BY <1>3, <2>1
  <2>2. CASE n # 0
    <3>1. n - 1 \in Nat /\ n - 1 <= n
      BY <2>2
    <3>2. Chosen(n)[n] = m * Chosen(n)[n - 1]
      <4>1. Upto(n, Chosen(n))
        BY <1>3
      <4>2. n - 1 \in 0..n /\ n - 1 # n /\ (n - 1) + 1 = n
        BY <3>1
      <4> QED
        BY <4>1, <4>2
    <3>3. Chosen(n - 1)[n - 1] = Chosen(n)[n - 1]
      BY <1>2, <1>3, <3>1, ZenonT(60)
    <3> QED
      BY <2>2, <3>1, <3>2, <3>3
  <2> QED
    BY <2>1, <2>2
<1>5. G = [k \in Nat |-> IF k = 0 THEN 1 ELSE m * G[k - 1]]
  <2>1. G = [n \in Nat |-> G[n]]
    <3> HIDE DEF Chosen
    <3> QED
      OBVIOUS
  <2> HIDE DEF G
  <2> QED
    BY <1>4, <2>1
<1> HIDE DEF G
<1> QED
  BY <1>5

LEMMA PowersNext ==
  ASSUME NEW m \in Nat
  PROVE  /\ Powers(m)[0] = 1
         /\ \A k \in Nat : Powers(m)[k] \in Nat /\ Powers(m)[k + 1] = m * Powers(m)[k]
<1> DEFINE IsPowers(g) == g = [k \in Nat |-> IF k = 0 THEN 1 ELSE m * g[k - 1]]
           P == Powers(m)
<1>1. IsPowers(P)
  <2>1. P = CHOOSE g : IsPowers(g)
    BY DEF Powers
  <2>2. PICK G : IsPowers(G)
    BY PowersExist
  <2> HIDE DEF IsPowers
  <2> QED
    BY <2>1, <2>2
<1> HIDE DEF P
<1>2. \A n \in Nat : P[n] = IF n = 0 THEN 1 ELSE m * P[n - 1]
  BY <1>1
<1>3. P[0] = 1 /\ \A k \in Nat : P[k + 1] = m * P[k]
  BY <1>2
<1> DEFINE S == {k \in Nat : P[k] \in Nat}
<1>4. 0 \in S /\ \A k \in Nat : k \in S => k + 1 \in S
  BY <1>3
<1>5. \A k \in Nat : k \in S
  <2> HIDE DEF S
  <2> QED
    BY <1>4, Induction
<1> QED
  BY <1>3, <1>5 DEF P

(* The loop of RetryConfig::delay computes the exponential, capped.        *)
Capped(p, k) == Smaller(p.initial_delay * Powers(p.multiplier)[k], p.max_delay)

LEMMA CappedGrows ==
  ASSUME NEW p, ValidPolicy(p), NEW k \in Nat
  PROVE  Capped(p, 0) = p.initial_delay /\ Capped(p, k + 1) = Grow(p, Capped(p, k))
<1> DEFINE e == p.initial_delay * Powers(p.multiplier)[k]
<1>1. /\ p.multiplier \in Nat /\ p.multiplier >= 1 /\ p.max_delay \in Nat
      /\ p.max_delay <= MaxDuration /\ p.initial_delay \in Nat /\ MaxDuration \in Nat
      /\ p.initial_delay <= p.max_delay
  BY DurationAssumption DEF ValidPolicy, Durations
<1>2. /\ e \in Nat
      /\ p.initial_delay * Powers(p.multiplier)[k + 1] = e * p.multiplier
      /\ p.initial_delay * Powers(p.multiplier)[0] = p.initial_delay
  <2>1. /\ Powers(p.multiplier)[k] \in Nat
        /\ Powers(p.multiplier)[k + 1] = p.multiplier * Powers(p.multiplier)[k]
        /\ Powers(p.multiplier)[0] = 1
    BY <1>1, PowersNext
  <2> QED
    BY <1>1, <2>1
<1> HIDE DEF e
<1>3. Capped(p, 0) = p.initial_delay
  BY <1>1, <1>2 DEF Capped, Smaller
<1>4. Capped(p, k) = Smaller(e, p.max_delay) /\ Capped(p, k + 1) = Smaller(e * p.multiplier, p.max_delay)
  BY <1>2 DEF Capped, e
<1>5. \A b \in Nat : b <= b * p.multiplier /\ b * p.multiplier \in Nat
  BY <1>1
<1>6. Grow(p, Smaller(e, p.max_delay)) = Smaller(e * p.multiplier, p.max_delay)
  <2>1. CASE e <= p.max_delay
    BY <1>1, <1>2, <1>5, <2>1, SMTT(60) DEF Grow, SaturatingMul, Smaller
  <2>2. CASE e > p.max_delay
    <3>1. e * p.multiplier > p.max_delay /\ p.max_delay * p.multiplier >= p.max_delay
      BY <1>1, <1>2, <1>5, <2>2
    <3> DEFINE grown == e * p.multiplier
               capped == p.max_delay * p.multiplier
    <3>2. grown \in Nat /\ capped \in Nat
      BY <1>1, <1>2, <1>5
    <3>3. Smaller(e, p.max_delay) = p.max_delay
      BY <1>1, <1>2, <2>2 DEF Smaller
    <3>4. Grow(p, p.max_delay) = Smaller(Smaller(capped, MaxDuration), p.max_delay)
      BY DEF Grow, SaturatingMul
    <3> HIDE DEF grown, capped
    <3>5. Smaller(grown, p.max_delay) = p.max_delay
          /\ Smaller(Smaller(capped, MaxDuration), p.max_delay) = p.max_delay
      BY <1>1, <3>1, <3>2 DEF Smaller, grown, capped
    <3> QED
      BY <3>3, <3>4, <3>5 DEF grown
  <2>3. e <= p.max_delay \/ e > p.max_delay
    BY <1>1, <1>2
  <2> QED
    BY <2>1, <2>2, <2>3
<1> QED
  BY <1>3, <1>4, <1>6

LEMMA BaseIsCapped ==
  ASSUME NEW p, ValidPolicy(p), NEW n \in Nat
  PROVE  Base(p, n) = Capped(p, n)
<1> DEFINE IsBase(g) ==
             g = [i \in 0..n |-> IF i = 0 THEN p.initial_delay ELSE Grow(p, g[i - 1])]
           B == CHOOSE g : IsBase(g)
           G == [i \in 0..n |-> Capped(p, i)]
<1>1. Base(p, n) = B[n]
  BY DEF Base
<1>2. IsBase(G)
  <2>1. ASSUME NEW i \in 0..n
        PROVE  Capped(p, i) = IF i = 0 THEN p.initial_delay ELSE Grow(p, G[i - 1])
    <3>1. CASE i = 0
      BY <3>1, CappedGrows
    <3>2. CASE i # 0
      <4>1. i - 1 \in Nat /\ i - 1 \in 0..n /\ (i - 1) + 1 = i
        BY <3>2
      <4>2. Capped(p, (i - 1) + 1) = Grow(p, Capped(p, i - 1))
        BY <4>1, CappedGrows
      <4> QED
        BY <3>2, <4>1, <4>2
    <3> QED
      BY <3>1, <3>2
  <2> QED
    BY <2>1
<1>3. IsBase(B)
  <2> HIDE DEF IsBase
  <2> QED
    BY <1>2
<1> HIDE DEF B
<1>4. \A i \in 0..n : B[i] = IF i = 0 THEN p.initial_delay ELSE Grow(p, B[i - 1])
  BY <1>3
<1> DEFINE S == {i \in Nat : i <= n => B[i] = Capped(p, i)}
<1>5. 0 \in S
  BY <1>4, CappedGrows
<1>6. ASSUME NEW i \in Nat, i \in S
      PROVE  i + 1 \in S
  <2>1. Capped(p, i + 1) = Grow(p, Capped(p, i))
    BY CappedGrows
  <2>2. i + 1 <= n => B[i + 1] = Grow(p, B[i])
    BY <1>4
  <2> QED
    BY <1>6, <2>1, <2>2
<1>7. \A i \in Nat : i \in S
  <2> HIDE DEF S
  <2> QED
    BY <1>5, <1>6, Induction
<1> QED
  BY <1>1, <1>7

(* What a backoff may be: at least the exponential and at most twice that  *)
(* with jitter, and never more than max_delay.                             *)
LEMMA BackoffBounds ==
  ASSUME NEW p, ValidPolicy(p), NEW n \in Nat, NEW backoff \in Backoffs(p, n)
  PROVE  LET e == p.initial_delay * Powers(p.multiplier)[n]
         IN  /\ backoff \in Nat /\ e \in Nat /\ p.max_delay \in Nat
             /\ backoff >= Smaller(e, p.max_delay)
             /\ backoff <= Smaller(IF p.jitter THEN 2 * e ELSE e, p.max_delay)
<1> DEFINE e == p.initial_delay * Powers(p.multiplier)[n]
           base == Base(p, n)
<1>1. /\ p.max_delay \in Nat /\ p.max_delay <= MaxDuration /\ MaxDuration \in Nat
      /\ MaxJitter \in Nat /\ e \in Nat
  <2>1. /\ p.multiplier \in Nat /\ p.initial_delay \in Nat
    BY DurationAssumption DEF ValidPolicy, Durations
  <2>2. Powers(p.multiplier)[n] \in Nat
    BY <2>1, PowersNext
  <2>3. e \in Nat
    BY <2>1, <2>2
  <2> QED
    BY <2>3, DurationAssumption DEF ValidPolicy, Durations
<1>2. base = Smaller(e, p.max_delay)
  BY BaseIsCapped DEF Capped
<1> HIDE DEF e, base
<1>3. base \in Nat /\ base <= e /\ base <= p.max_delay
  BY <1>1, <1>2 DEF Smaller
<1>4. PICK j \in IF p.jitter THEN 0..Smaller(base, MaxJitter) ELSE {0} :
        backoff = Smaller(SaturatingAdd(base, j), p.max_delay)
  BY DEF Backoffs, base
<1>5. j \in Nat /\ j <= base /\ (~p.jitter => j = 0)
  BY <1>1, <1>3, <1>4 DEF Smaller
<1>6. backoff \in Nat /\ backoff >= base /\ backoff <= p.max_delay /\ backoff <= base + j
  BY <1>1, <1>3, <1>4, <1>5 DEF Smaller, SaturatingAdd
<1>7. /\ backoff >= Smaller(e, p.max_delay)
      /\ backoff <= Smaller(IF p.jitter THEN 2 * e ELSE e, p.max_delay)
  BY <1>1, <1>2, <1>3, <1>5, <1>6 DEF Smaller
<1> QED
  BY <1>1, <1>6, <1>7 DEF e

(* Requests on the way: there are finitely many, and their number follows  *)
(* every change.                                                           *)
LEMMA EnrouteCounts ==
  ASSUME NEW n \in Nat, NEW S \in SUBSET (0..n)
  PROVE  /\ Cardinality(S) \in Nat
         /\ S = {} <=> Cardinality(S) = 0
         /\ \A T \in SUBSET S : Cardinality(T) <= Cardinality(S)
         /\ \A x : Cardinality(S \cup {x}) <= Cardinality(S) + 1
         /\ \A x \in S : Cardinality(S \ {x}) = Cardinality(S) - 1
<1>1. IsFiniteSet(S)
  <2>1. IsFiniteSet(0..n)
    BY FS_Interval
  <2> QED
    BY <2>1, FS_Subset
<1>2. Cardinality(S) \in Nat
  BY <1>1, FS_CardinalityType
<1>3. S = {} <=> Cardinality(S) = 0
  BY <1>1, FS_EmptySet
<1>4. \A T \in SUBSET S : Cardinality(T) <= Cardinality(S)
  BY <1>1, FS_Subset
<1>5. \A x : Cardinality(S \cup {x}) <= Cardinality(S) + 1
  BY <1>1, <1>2, FS_AddElement
<1>6. \A x \in S : Cardinality(S \ {x}) = Cardinality(S) - 1
  BY <1>1, FS_RemoveElement
<1> QED
  BY <1>2, <1>3, <1>4, <1>5, <1>6

(* The times of a call are numbers, whatever the policy.                   *)
LEMMA TimeFacts ==
  ASSUME TypeOK
  PROVE  /\ Before \in Nat /\ policy.request_timeout \in Nat
         /\ elapsed \in Nat /\ notBefore \in Nat /\ timer \in Nat
         /\ attempt \in Nat /\ Attempts \in Nat /\ sent \in Nat /\ applied \in Nat
<1>1. /\ policy.request_timeout \in Nat /\ elapsed \in Nat /\ notBefore \in Nat
      /\ timer \in Nat /\ Attempts \in Nat /\ attempt \in Nat
      /\ sent \in Nat /\ applied \in Nat
  BY PolicyFacts DEF TypeOK
<1>2. Before \in Nat
  BY <1>1 DEF Before
<1> QED
  BY <1>1, <1>2

-----------------------------------------------------------------------------
(* How an attempt ends *)

(* The answer is given: what is claimed of it must hold of the wire.       *)
LEMMA ReturnKeeps ==
  ASSUME TypeOK, CallInv, NEW r, Return(r), pc \in {"build", "flight", "reading"},
         r.kind \in {"ok", "error"}, r.error.kind \in Kinds,
         UNCHANGED <<setting, sent, applied, elapsed>>,
         enroute' \subseteq enroute, notBefore' \in Nat,
         r.kind = "ok" => /\ pc = "reading" /\ IsSuccess(response.status)
                          /\ received = response.length,
         r.kind = "error" /\ (r.error.kind = "client" \/ (r.error.kind = "connect" /\ sent = 1)) =>
           applied = 0 /\ enroute' = {}
  PROVE  TypeOK' /\ CallInv'
<1>1. /\ pc' = "done" /\ result' = r /\ timer' = 0
      /\ UNCHANGED <<attempt, response, received, bytes>>
      /\ UNCHANGED <<policy, method, json, sent, applied, elapsed>>
  BY DEF Return, body, setting
<1>2. Attempts' = Attempts /\ Limit' = Limit /\ Before' = Before
  BY <1>1 DEF Attempts, Limit, Before
<1>3. TypeOK'
  BY <1>1, <1>2, DurationAssumption DEF TypeOK, Durations
<1>4. WireInv'
  <2>1. Cardinality(enroute) \in Nat /\ Cardinality(enroute') \in Nat
        /\ Cardinality(enroute') <= Cardinality(enroute)
    <3>1. attempt \in Nat /\ enroute \in SUBSET (0..attempt) /\ enroute' \in SUBSET enroute
      BY PolicyFacts DEF TypeOK
    <3>2. enroute' \in SUBSET (0..attempt)
      BY <3>1
    <3> QED
      BY <3>1, <3>2, EnrouteCounts
  <2>2. sent \in Nat /\ applied \in Nat
    BY PolicyFacts DEF TypeOK
  <2> QED
    BY <1>1, <2>1, <2>2 DEF CallInv, WireInv
<1>5. BodyInv'
  BY <1>1, <1>2 DEF CallInv, BodyInv
<1>6. ResultInv'
  BY <1>1 DEF CallInv, WireInv, ResultInv, NeverLeft
<1>7. ClockInv'
  <2>1. /\ Before \in Nat /\ policy.request_timeout \in Nat
        /\ elapsed \in Nat /\ timer \in Nat
    BY TimeFacts
  <2> QED
    BY <1>1, <1>2, <2>1 DEF CallInv, ClockInv
<1> QED
  BY <1>3, <1>4, <1>5, <1>6, <1>7 DEF CallInv

(* The call waits for the next attempt: long enough for the Retry-After,   *)
(* and no longer than a timeout.                                           *)
LEMMA SleepKeeps ==
  ASSUME TypeOK, CallInv, NEW delay \in 0..policy.request_timeout, Sleep(delay),
         pc \in {"flight", "reading"}, attempt + 1 < Attempts,
         UNCHANGED <<setting, sent, applied, elapsed, notBefore>>,
         enroute' \subseteq enroute, notBefore <= elapsed + delay
  PROVE  TypeOK' /\ CallInv'
<1>1. /\ pc' = "sleeping" /\ timer' = delay
      /\ response' = NoResponse /\ received' = 0 /\ bytes' = <<>>
      /\ UNCHANGED <<policy, method, json, attempt, result, sent, applied, elapsed, notBefore>>
  BY DEF Sleep, FreshBuffer, setting
<1>2. Attempts' = Attempts /\ Limit' = Limit /\ Before' = Before
  BY <1>1 DEF Attempts, Limit, Before
<1>3. delay \in Durations /\ delay \in Nat
  <2>1. policy.request_timeout \in Durations /\ MaxDuration \in Nat
    BY PolicyFacts, DurationAssumption DEF TypeOK
  <2> QED
    BY <2>1 DEF Durations
<1>4. TypeOK'
  <2>1. bytes' \in Seq((0..attempt') \X (1..response'.length))
    BY <1>1
  <2>2. received' \in 0..response'.length
    BY <1>1 DEF NoResponse
  <2> QED
    BY <1>1, <1>2, <1>3, <2>1, <2>2 DEF TypeOK
<1>5. WireInv'
  <2>1. Cardinality(enroute) \in Nat /\ Cardinality(enroute') \in Nat
        /\ Cardinality(enroute') <= Cardinality(enroute)
    <3>1. attempt \in Nat /\ enroute \in SUBSET (0..attempt) /\ enroute' \in SUBSET enroute
      BY TimeFacts DEF TypeOK
    <3>2. enroute' \in SUBSET (0..attempt)
      BY <3>1
    <3> QED
      BY <3>1, <3>2, EnrouteCounts
  <2> QED
    BY <1>1, <2>1, TimeFacts, SMTT(60) DEF CallInv, WireInv
<1>6. BodyInv'
  BY <1>1, <1>2, PolicyFacts DEF CallInv, BodyInv, TypeOK
<1>7. ResultInv'
  BY <1>1 DEF CallInv, ResultInv
<1>8. ClockInv'
  <2>1. elapsed + timer <= Before + policy.request_timeout
    BY DEF CallInv, ClockInv
  <2>2. elapsed + delay <= Before + 2 * policy.request_timeout
    BY <1>3, <2>1, TimeFacts
  <2> QED
    BY <1>1, <1>2, <2>2 DEF ClockInv
<1> QED
  BY <1>4, <1>5, <1>6, <1>7, <1>8 DEF CallInv

(* A failed attempt, whatever its error.                                   *)
LEMMA FailKeeps ==
  ASSUME TypeOK, CallInv, NEW error, NEW retry_after \in Durations \cup {Absent},
         Fail(error, retry_after), pc \in {"flight", "reading"}, error.kind \in Kinds,
         UNCHANGED <<setting, sent, applied, elapsed>>, enroute' \subseteq enroute,
         notBefore' \in Nat,
         IsRetryable(error) =>
           /\ notBefore' = notBefore
           /\ notBefore <= elapsed + (IF retry_after = Absent THEN 0 ELSE retry_after),
         error.kind # "client",
         error.kind = "connect" /\ sent = 1 => applied = 0 /\ enroute' = {}
  PROVE  TypeOK' /\ CallInv'
<1>1. policy \in Policies
  BY DEF TypeOK
<1>2. CASE Return(Err(error))
  BY <1>2, ReturnKeeps DEF Err
<1>3. ASSUME NEW delay \in 0..policy.request_timeout, Sleep(delay), IsRetryable(error),
             attempt + 1 < Attempts, retry_after # Absent => retry_after <= delay
      PROVE  TypeOK' /\ CallInv'
  <2>1. notBefore <= elapsed + delay /\ notBefore' = notBefore
    <3>1. retry_after # Absent => retry_after \in Nat
      BY PolicyFacts, <1>1
    <3>2. delay \in Nat /\ elapsed \in Nat /\ notBefore \in Nat
      BY TimeFacts
    <3> QED
      BY <1>3, <3>1, <3>2
  <2> QED
    BY <1>3, <2>1, SleepKeeps
<1> QED
  BY <1>1, <1>2, <1>3, FailShape

(* What a response under way asks the next attempt to wait.                *)
LEMMA StillToWait ==
  ASSUME TypeOK, CallInv, pc \in {"flight", "reading"}
  PROVE  /\ response.retry_after \in Durations \cup {Absent}
         /\ notBefore <= elapsed + (IF response.retry_after = Absent THEN 0
                                    ELSE response.retry_after)
<1>1. response \in Responses \cup {NoResponse}
  BY DEF TypeOK
<1>2. pc = "flight" => response.retry_after = Absent
  BY DEF CallInv, BodyInv, NoResponse
<1> QED
  BY <1>1, <1>2, ResponseFacts, TimeFacts DEF CallInv, ClockInv

(* The errors an attempt may end with.                                     *)
LEMMA ErrorKinds ==
  /\ \A e \in {Timeout, Connect, Transport, TooLarge, Undecodable} :
       e.kind \in Kinds /\ e.kind # "client"
  /\ \A e \in {Timeout, Transport, TooLarge, Undecodable} : e.kind # "connect"
  /\ ~IsRetryable(TooLarge)
  /\ \A status, content : /\ MapError(status, content).kind \in Kinds
                          /\ MapError(status, content).kind \notin {"client", "connect"}
BY DEF Timeout, Connect, Transport, TooLarge, Undecodable, Failure, MapError, Kinds, IsRetryable

-----------------------------------------------------------------------------
(* The steps of a call *)

LEMMA BuildKeeps ==
  ASSUME TypeOK, CallInv, Build \/ BuildFails
  PROVE  TypeOK' /\ CallInv'
<1>1. CASE Build
  <2>1. pc = "build" /\ pc' = "attempt"
        /\ UNCHANGED <<policy, method, json, attempt, timer, response, received, bytes, result,
                       sent, enroute, applied, elapsed, notBefore>>
    BY <1>1 DEF Build, setting, body, wire, clock
  <2>2. Attempts' = Attempts /\ Limit' = Limit /\ Before' = Before
    BY <2>1 DEF Attempts, Limit, Before
  <2> QED
    BY <2>1, <2>2 DEF TypeOK, CallInv, WireInv, BodyInv, ResultInv, NeverLeft, ClockInv
<1>2. CASE BuildFails
  <2>1. pc = "build" /\ Return(Err(Unbuildable)) /\ enroute' = enroute /\ notBefore' = notBefore
        /\ UNCHANGED <<setting, sent, applied, elapsed>>
    BY <1>2 DEF BuildFails, wire, clock
  <2>2. applied = 0 /\ enroute = {}
    <3>1. enroute \in SUBSET (0..attempt) /\ applied + Cardinality(enroute) <= 0
      BY <2>1 DEF CallInv, WireInv, TypeOK
    <3>2. attempt \in Nat /\ applied \in Nat
      BY TimeFacts
    <3>3. Cardinality(enroute) \in Nat /\ (enroute = {} <=> Cardinality(enroute) = 0)
      BY <3>1, <3>2, EnrouteCounts
    <3> QED
      BY <3>1, <3>2, <3>3
  <2> QED
    BY <2>1, <2>2, ReturnKeeps, TimeFacts DEF Err, Unbuildable, Failure, Kinds
<1> QED
  BY <1>1, <1>2

(* A request goes on the wire.                                             *)
LEMMA SendKeeps ==
  ASSUME TypeOK, CallInv, Send
  PROVE  TypeOK' /\ CallInv'
<1>1. /\ pc = "attempt" /\ pc' = "flight" /\ timer' = policy.request_timeout
      /\ sent' = sent + 1 /\ enroute' = enroute \cup {attempt}
      /\ UNCHANGED <<policy, method, json, attempt, response, received, bytes, result,
                     applied, elapsed, notBefore>>
  BY DEF Send, setting, body, clock
<1>2. Attempts' = Attempts /\ Limit' = Limit /\ Before' = Before
  BY <1>1 DEF Attempts, Limit, Before
<1>3. sent = attempt /\ applied + Cardinality(enroute) <= sent
  BY <1>1 DEF CallInv, WireInv
<1>4. TypeOK'
  <2>1. attempt \in 0..(Attempts - 1) /\ sent' \in 0..Attempts
    BY <1>1, <1>3, TimeFacts DEF TypeOK
  <2>2. enroute' \subseteq 0..attempt'
    BY <1>1, TimeFacts DEF TypeOK
  <2>3. applied' \in 0..sent'
    BY <1>1, TimeFacts DEF TypeOK
  <2>4. timer' \in Durations
    BY <1>1, PolicyFacts DEF TypeOK
  <2> QED
    BY <1>1, <1>2, <2>1, <2>2, <2>3, <2>4 DEF TypeOK
<1>5. WireInv'
  <2>1. attempt \in Nat /\ enroute \in SUBSET (0..attempt)
    BY TimeFacts DEF TypeOK
  <2>2. Cardinality(enroute') <= Cardinality(enroute) + 1
    BY <1>1, <2>1, EnrouteCounts
  <2>3. enroute' \in SUBSET (0..attempt)
    BY <1>4, <1>1 DEF TypeOK
  <2>4. Cardinality(enroute) \in Nat /\ Cardinality(enroute') \in Nat
    BY <2>1, <2>3, EnrouteCounts
  <2> QED
    BY <1>1, <1>3, <2>2, <2>4, TimeFacts DEF WireInv
<1>6. BodyInv' /\ ResultInv'
  BY <1>1, <1>2 DEF CallInv, BodyInv, ResultInv
<1>7. ClockInv'
  BY <1>1, <1>2, TimeFacts DEF CallInv, ClockInv
<1> QED
  BY <1>4, <1>5, <1>6, <1>7 DEF CallInv

(* The server executes a request that is on its way.                       *)
LEMMA ApplyKeeps ==
  ASSUME TypeOK, CallInv, NEW a \in enroute, Apply(a)
  PROVE  TypeOK' /\ CallInv'
<1>1. /\ enroute' = enroute \ {a} /\ applied' = applied + 1
      /\ UNCHANGED <<policy, method, json, pc, attempt, timer, response, received, bytes,
                     result, sent, elapsed, notBefore>>
  BY DEF Apply, setting, body, clock
<1>2. Attempts' = Attempts /\ Limit' = Limit /\ Before' = Before
  BY <1>1 DEF Attempts, Limit, Before
<1>3. /\ Cardinality(enroute') \in Nat /\ Cardinality(enroute) \in Nat
      /\ Cardinality(enroute') = Cardinality(enroute) - 1
  <2>1. attempt \in Nat /\ enroute \in SUBSET (0..attempt)
    BY TimeFacts DEF TypeOK
  <2>2. enroute' \in SUBSET (0..attempt)
    BY <1>1, <2>1
  <2> QED
    BY <1>1, <2>1, <2>2, EnrouteCounts
<1>4. applied + Cardinality(enroute) <= sent
  BY DEF CallInv, WireInv
<1>5. TypeOK'
  <2>1. applied' \in 0..sent'
    BY <1>1, <1>3, <1>4, TimeFacts
  <2> QED
    BY <1>1, <1>2, <2>1 DEF TypeOK
<1>6. WireInv'
  BY <1>1, <1>3, <1>4, TimeFacts DEF CallInv, WireInv
<1>7. BodyInv' /\ ClockInv'
  BY <1>1, <1>2 DEF CallInv, BodyInv, ClockInv
<1>8. ResultInv'
  BY <1>1, TimeFacts DEF CallInv, ResultInv, NeverLeft
<1> QED
  BY <1>5, <1>6, <1>7, <1>8 DEF CallInv

(* The ways an attempt fails before its response is complete.              *)
LEMMA BreaksKeep ==
  ASSUME TypeOK, CallInv, Refused \/ Broken \/ TimedOut
  PROVE  TypeOK' /\ CallInv'
<1>1. CASE Refused
  <2>1. /\ pc = "flight" /\ attempt \in enroute /\ enroute' = enroute \ {attempt}
        /\ Fail(Connect, Absent) /\ UNCHANGED <<setting, sent, applied, elapsed>>
        /\ notBefore' = notBefore
    BY <1>1 DEF Refused, clock
  <2>2. notBefore <= elapsed + 0
    BY <2>1, TimeFacts DEF CallInv, ClockInv
  <2>3. sent = 1 => applied = 0 /\ enroute' = {}
    <3>1. attempt \in Nat /\ enroute \in SUBSET (0..attempt)
      BY TimeFacts DEF TypeOK
    <3>2. enroute' \in SUBSET (0..attempt)
      BY <2>1, <3>1
    <3>3. /\ Cardinality(enroute') \in Nat /\ (enroute' = {} <=> Cardinality(enroute') = 0)
          /\ Cardinality(enroute) \in Nat /\ Cardinality(enroute') = Cardinality(enroute) - 1
      BY <2>1, <3>1, <3>2, EnrouteCounts
    <3>4. applied + Cardinality(enroute) <= sent /\ applied \in Nat
      BY TimeFacts DEF CallInv, WireInv
    <3> QED
      BY <3>3, <3>4
  <2>4. Absent \in Durations \cup {Absent} /\ notBefore' \in Nat
    BY <2>1, TimeFacts
  <2> QED
    BY <2>1, <2>2, <2>3, <2>4, FailKeeps, ErrorKinds
<1>2. ASSUME NEW error \in {Transport, Timeout}, Fail(error, response.retry_after),
             pc \in {"flight", "reading"}, UNCHANGED <<setting, wire, clock>>
      PROVE  TypeOK' /\ CallInv'
  <2>1. /\ UNCHANGED <<setting, sent, applied, elapsed>> /\ enroute' = enroute
        /\ notBefore' = notBefore
    BY <1>2 DEF wire, clock
  <2>2. error.kind \in Kinds /\ error.kind \notin {"client", "connect"}
    BY ErrorKinds
  <2> QED
    BY <1>2, <2>1, <2>2, FailKeeps, StillToWait, TimeFacts
<1>3. CASE Broken
  BY <1>2, <1>3 DEF Broken
<1>4. CASE TimedOut
  BY <1>2, <1>4 DEF TimedOut, TimeoutCovers
<1> QED
  BY <1>1, <1>3, <1>4

(* The headers of a response arrive.                                       *)
LEMMA HeadersKeep ==
  ASSUME TypeOK, CallInv, NEW r \in Answers[policy], Headers(r)
  PROVE  TypeOK' /\ CallInv'
<1>1. r \in Responses /\ r.length \in Nat /\ r.retry_after \in Durations \cup {Absent}
      /\ (r.retry_after # Absent => r.retry_after \in Nat)
  <2>1. r \in Responses
    BY DEF Responses, TypeOK
  <2> QED
    BY <2>1, ResponseFacts
<1>2. /\ pc = "flight" /\ (IsSuccess(r.status) => attempt \notin enroute)
      /\ notBefore' = IF r.retry_after = Absent THEN notBefore ELSE elapsed + r.retry_after
      /\ UNCHANGED <<policy, method, json, sent, enroute, applied, elapsed>>
  BY DEF Headers, setting, wire
<1>3. notBefore' \in Nat /\ notBefore <= elapsed
      /\ notBefore' <= elapsed + (IF r.retry_after = Absent THEN 0 ELSE r.retry_after)
  BY <1>1, <1>2, TimeFacts DEF CallInv, ClockInv
<1>4. CASE r.declared /\ r.length > Limit
  <2>1. Fail(TooLarge, r.retry_after)
    BY <1>4 DEF Headers
  <2>2. ~IsRetryable(TooLarge) /\ TooLarge.kind \in Kinds
        /\ TooLarge.kind # "client" /\ TooLarge.kind # "connect"
    BY ErrorKinds
  <2>3. UNCHANGED setting
    BY <1>2 DEF setting
  <2> QED
    BY <1>1, <1>2, <1>3, <2>1, <2>2, <2>3, FailKeeps
<1>5. CASE ~(r.declared /\ r.length > Limit)
  <2>1. pc' = "reading" /\ response' = r
        /\ UNCHANGED <<attempt, timer, received, bytes, result>>
    BY <1>5 DEF Headers
  <2>2. Attempts' = Attempts /\ Limit' = Limit /\ Before' = Before
    BY <1>2, <2>1 DEF Attempts, Limit, Before
  <2>3. received = 0 /\ bytes = <<>>
    <3>1. received = 0 /\ bytes = [i \in 1..received |-> <<attempt, i>>]
      BY <1>2 DEF CallInv, BodyInv
    <3> QED
      BY <3>1
  <2>4. TypeOK'
    <3>1. bytes' \in Seq((0..attempt') \X (1..response'.length)) /\ received' \in 0..response'.length
      BY <1>1, <2>1, <2>3
    <3> QED
      BY <1>1, <1>2, <1>3, <2>1, <2>2, <3>1 DEF TypeOK
  <2>5. WireInv'
    BY <1>2, <2>1 DEF CallInv, WireInv
  <2>6. BodyInv' /\ ResultInv'
    BY <1>2, <2>1, <2>2 DEF CallInv, BodyInv, ResultInv
  <2>7. ClockInv'
    BY <1>2, <1>3, <2>1, <2>2 DEF CallInv, ClockInv
  <2> QED
    BY <2>4, <2>5, <2>6, <2>7 DEF CallInv
<1> QED
  BY <1>4, <1>5

(* A chunk that follows the bytes there are makes a longer prefix of the   *)
(* same body.                                                              *)
LEMMA Appended ==
  ASSUME NEW a, NEW m \in Nat, NEW n \in Nat
  PROVE  [i \in 1..m |-> <<a, i>>] \o [i \in 1..n |-> <<a, m + i>>]
           = [i \in 1..(m + n) |-> <<a, i>>]
<1> DEFINE s == [i \in 1..m |-> <<a, i>>]
           t == [i \in 1..n |-> <<a, m + i>>]
           u == [i \in 1..(m + n) |-> <<a, i>>]
<1>1. /\ s \in Seq({a} \X Nat) /\ t \in Seq({a} \X Nat) /\ u \in Seq({a} \X Nat)
      /\ Len(s) = m /\ Len(t) = n /\ Len(u) = m + n
  OBVIOUS
<1>2. Len(s \o t) = m + n /\ s \o t \in Seq({a} \X Nat)
  BY <1>1
<1>3. ASSUME NEW i \in 1..(m + n)
      PROVE  (s \o t)[i] = u[i]
  <2>1. CASE i <= m
    <3>1. (s \o t)[i] = s[i]
      BY <1>1, <2>1
    <3> QED
      BY <2>1, <3>1
  <2>2. CASE i > m
    <3>1. (s \o t)[i] = t[i - m] /\ i - m \in 1..n
      BY <1>1, <2>2
    <3> QED
      BY <3>1
  <2> QED
    BY <2>1, <2>2
<1> QED
  BY <1>1, <1>2, <1>3, SeqEqual

(* What a prefix of a body is as a buffer.                                 *)
LEMMA PrefixFacts ==
  ASSUME NEW a \in Nat, NEW m \in Nat, NEW length \in Nat, m <= length
  PROVE  /\ [i \in 1..m |-> <<a, i>>] \in Seq((0..a) \X (1..length))
         /\ Len([i \in 1..m |-> <<a, i>>]) = m
OBVIOUS

LEMMA ChunkKeeps ==
  ASSUME TypeOK, CallInv, NEW n \in 1..response.length, Chunk(n)
  PROVE  TypeOK' /\ CallInv'
<1>1. /\ pc = "reading" /\ n \in 1..(response.length - received)
      /\ UNCHANGED <<policy, method, json, sent, enroute, applied, elapsed, notBefore>>
  BY DEF Chunk, setting, wire, clock
<1>2. response.length \in Nat /\ received \in Nat /\ received <= response.length /\ n \in Nat
      /\ received + n <= response.length
  BY <1>1, ResponseFacts DEF TypeOK
<1>3. CASE Fits(n)
  <2>1. /\ bytes' = bytes \o [i \in 1..n |-> <<attempt, received + i>>]
        /\ received' = received + n
        /\ UNCHANGED <<pc, attempt, timer, response, result>>
    BY <1>3 DEF Chunk
  <2>2. Attempts' = Attempts /\ Limit' = Limit /\ Before' = Before
    BY <1>1, <2>1 DEF Attempts, Limit, Before
  <2>3. bytes = [i \in 1..received |-> <<attempt, i>>] /\ received <= Limit
    BY DEF CallInv, BodyInv
  <2>4. bytes' = [i \in 1..received' |-> <<attempt', i>>]
    BY <1>2, <2>1, <2>3, Appended
  <2>5. received' <= Limit
    <3>1. Len(bytes) = received
      BY <1>2, <2>3, TimeFacts, PrefixFacts
    <3>2. Limit \in Nat
      BY PolicyFacts DEF TypeOK
    <3> QED
      BY <1>2, <1>3, <2>1, <2>3, <3>1, <3>2 DEF Fits, Larger
  <2>6. TypeOK'
    <3>1. bytes' \in Seq((0..attempt') \X (1..response'.length))
      <4>1. /\ attempt' \in Nat /\ received' \in Nat /\ response'.length \in Nat
            /\ received' <= response'.length
        BY <1>2, <2>1, TimeFacts
      <4> QED
        BY <2>4, <4>1, PrefixFacts
    <3>2. received' \in 0..response'.length
      BY <1>2, <2>1
    <3> QED
      BY <1>1, <2>1, <2>2, <3>1, <3>2 DEF TypeOK
  <2>7. BodyInv'
    BY <1>1, <2>1, <2>2, <2>4, <2>5 DEF BodyInv
  <2>8. WireInv' /\ ClockInv'
    BY <1>1, <2>1, <2>2 DEF CallInv, WireInv, ClockInv
  <2>9. ResultInv'
    BY <1>1, <2>1 DEF CallInv, ResultInv, NeverLeft
  <2> QED
    BY <2>6, <2>7, <2>8, <2>9 DEF CallInv
<1>4. CASE ~Fits(n)
  <2>1. Fail(TooLarge, response.retry_after) /\ UNCHANGED setting
    BY <1>1, <1>4 DEF Chunk
  <2>2. /\ ~IsRetryable(TooLarge) /\ TooLarge.kind \in Kinds
        /\ TooLarge.kind # "client" /\ TooLarge.kind # "connect"
    BY ErrorKinds
  <2> QED
    BY <1>1, <2>1, <2>2, FailKeeps, StillToWait, TimeFacts
<1> QED
  BY <1>3, <1>4

(* The response is complete.                                               *)
LEMMA EndOfBodyKeeps ==
  ASSUME TypeOK, CallInv, EndOfBody
  PROVE  TypeOK' /\ CallInv'
<1>1. /\ pc = "reading" /\ received = response.length
      /\ UNCHANGED <<setting, sent, applied, elapsed>> /\ enroute' = enroute
      /\ notBefore' = notBefore /\ notBefore' \in Nat
  BY TimeFacts DEF EndOfBody, wire, clock
<1>2. CASE IsSuccess(response.status)
  <2>1. PICK r \in {Ok, Err(Undecodable)} : Return(r)
    BY <1>2 DEF EndOfBody, Succeed
  <2>2. /\ r.kind \in {"ok", "error"} /\ r.error.kind \in Kinds
        /\ r.kind = "error" => r.error.kind \notin {"client", "connect"}
    BY ErrorKinds DEF Ok, Err, Unbuildable, Failure, Kinds
  <2> QED
    BY <1>1, <1>2, <2>1, <2>2, ReturnKeeps
<1>3. CASE ~IsSuccess(response.status)
  <2> DEFINE error == MapError(response.status, response.body)
  <2>1. Fail(error, response.retry_after)
    BY <1>3 DEF EndOfBody
  <2>2. error.kind \in Kinds /\ error.kind \notin {"client", "connect"}
    BY ErrorKinds
  <2> HIDE DEF error
  <2> QED
    BY <1>1, <2>1, <2>2, FailKeeps, StillToWait
<1> QED
  BY <1>2, <1>3

(* The next attempt begins.                                                *)
LEMMA WakeKeeps ==
  ASSUME TypeOK, CallInv, Wake
  PROVE  TypeOK' /\ CallInv'
<1>1. /\ pc = "sleeping" /\ timer = 0 /\ pc' = "attempt" /\ attempt' = attempt + 1
      /\ UNCHANGED <<policy, method, json, timer, response, received, bytes, result,
                     sent, enroute, applied, elapsed, notBefore>>
  BY DEF Wake, setting, body, wire, clock
<1>2. Attempts' = Attempts /\ Limit' = Limit
  BY <1>1 DEF Attempts, Limit
<1>3. /\ attempt + 1 < Attempts /\ notBefore <= elapsed
      /\ elapsed <= Before + 2 * policy.request_timeout
  BY <1>1, TimeFacts DEF CallInv, ClockInv
<1>4. Before' = Before + 2 * policy.request_timeout
  BY <1>1, TimeFacts DEF Before
<1>5. received = 0 /\ bytes = <<>> /\ response = NoResponse
  <2>1. /\ received = 0 /\ bytes = [i \in 1..received |-> <<attempt, i>>]
        /\ response = NoResponse
    BY <1>1 DEF CallInv, BodyInv
  <2> QED
    BY <2>1
<1>6. TypeOK'
  <2>1. attempt' \in 0..(Attempts' - 1) /\ enroute' \subseteq 0..attempt'
    BY <1>1, <1>2, <1>3, TimeFacts DEF TypeOK
  <2>2. bytes' \in Seq((0..attempt') \X (1..response'.length))
    BY <1>1, <1>5
  <2> QED
    BY <1>1, <1>2, <2>1, <2>2 DEF TypeOK
<1>7. WireInv'
  BY <1>1, TimeFacts DEF CallInv, WireInv
<1>8. BodyInv'
  <2>1. bytes' = [i \in 1..received' |-> <<attempt', i>>]
    BY <1>1, <1>5
  <2> QED
    BY <1>1, <1>2, <1>5, <2>1 DEF CallInv, BodyInv
<1>9. ResultInv' /\ ClockInv'
  BY <1>1, <1>2, <1>3, <1>4 DEF CallInv, ResultInv, ClockInv
<1> QED
  BY <1>6, <1>7, <1>8, <1>9 DEF CallInv

(* Time passes.                                                            *)
LEMMA TickKeeps ==
  ASSUME TypeOK, CallInv, Tick
  PROVE  TypeOK' /\ CallInv'
<1>1. /\ pc \in {"flight", "reading", "sleeping"} /\ timer > 0
      /\ timer' = timer - 1 /\ elapsed' = elapsed + 1
      /\ UNCHANGED <<policy, method, json, pc, attempt, response, received, bytes, result,
                     sent, enroute, applied, notBefore>>
  BY DEF Tick, setting, body, wire
<1>2. Attempts' = Attempts /\ Limit' = Limit /\ Before' = Before
  BY <1>1 DEF Attempts, Limit, Before
<1>3. TypeOK'
  <2>1. timer' \in Durations /\ elapsed' \in Nat
    BY <1>1, TimeFacts, DurationAssumption DEF TypeOK, Durations
  <2> QED
    BY <1>1, <1>2, <2>1 DEF TypeOK
<1>4. ClockInv'
  <2>1. response.retry_after # Absent => response.retry_after \in Nat
    BY ResponseFacts DEF TypeOK
  <2> QED
    BY <1>1, <1>2, <2>1, TimeFacts DEF CallInv, ClockInv
<1>5. WireInv' /\ BodyInv'
  BY <1>1, <1>2 DEF CallInv, WireInv, BodyInv
<1>6. ResultInv'
  BY <1>1 DEF CallInv, ResultInv, NeverLeft
<1> QED
  BY <1>3, <1>4, <1>5, <1>6 DEF CallInv

-----------------------------------------------------------------------------
(* The invariant *)

LEMMA Initially == Init => TypeOK /\ CallInv
<1> SUFFICES ASSUME Init
             PROVE  TypeOK /\ CallInv
  OBVIOUS
<1>1. /\ policy \in Policies /\ method \in Methods /\ json \in BOOLEAN
      /\ pc = "build" /\ attempt = 0 /\ timer = 0 /\ response = NoResponse /\ received = 0
      /\ bytes = <<>> /\ result = Pending /\ sent = 0 /\ enroute = {} /\ applied = 0
      /\ elapsed = 0 /\ notBefore = 0
  BY DEF Init
<1>2. Attempts \in Nat \ {0} /\ Limit \in Nat /\ 0 \in Durations
      /\ policy.request_timeout \in Nat
  BY <1>1, PolicyFacts, DurationAssumption DEF Durations
<1>3. TypeOK
  <2>1. bytes \in Seq((0..attempt) \X (1..response.length)) /\ received \in 0..response.length
    BY <1>1 DEF NoResponse
  <2>2. result.kind = "pending" /\ result.error.kind \in Kinds
    BY <1>1 DEF Pending, Unbuildable, Failure, Kinds
  <2> QED
    BY <1>1, <1>2, <2>1, <2>2 DEF TypeOK
<1>4. WireInv
  BY <1>1, FS_EmptySet DEF WireInv
<1>5. BodyInv
  <2>1. bytes = [i \in 1..received |-> <<attempt, i>>]
    BY <1>1
  <2> QED
    BY <1>1, <1>2, <2>1 DEF BodyInv
<1>6. ResultInv
  BY <1>1 DEF ResultInv, Pending
<1>7. ClockInv
  BY <1>1, <1>2 DEF ClockInv, Before
<1> QED
  BY <1>3, <1>4, <1>5, <1>6, <1>7 DEF CallInv

LEMMA Inductive ==
  ASSUME TypeOK, CallInv, [Next]_vars
  PROVE  TypeOK' /\ CallInv'
<1>1. CASE UNCHANGED vars
  <2>1. UNCHANGED <<policy, method, json, pc, attempt, timer, response, received, bytes,
                    result, sent, enroute, applied, elapsed, notBefore>>
    BY <1>1 DEF vars, setting, body, wire, clock
  <2>2. Attempts' = Attempts /\ Limit' = Limit /\ Before' = Before
    BY <2>1 DEF Attempts, Limit, Before
  <2>3. TypeOK'
    BY <2>1, <2>2 DEF TypeOK
  <2>4. WireInv' /\ BodyInv'
    BY <2>1, <2>2 DEF CallInv, WireInv, BodyInv
  <2>5. ResultInv' /\ ClockInv'
    BY <2>1, <2>2 DEF CallInv, ResultInv, NeverLeft, ClockInv
  <2> QED
    BY <2>3, <2>4, <2>5 DEF CallInv
<1>2. CASE Done
  BY <1>1, <1>2 DEF Done
<1> QED
  BY <1>1, <1>2, BuildKeeps, SendKeeps, ApplyKeeps, BreaksKeep, HeadersKeep, ChunkKeeps,
     EndOfBodyKeeps, WakeKeeps, TickKeeps DEF Next

LEMMA Invariants == Spec => [](TypeOK /\ CallInv)
<1>1. TypeOK /\ CallInv /\ [Next]_vars => (TypeOK /\ CallInv)'
  BY Inductive
<1> QED
  BY Initially, <1>1, PTL DEF Spec

-----------------------------------------------------------------------------
(* The theorems *)

(* The attempts stay within the policy, the buffer only has bytes of       *)
(* attempts that were made (execute_bytes, send_once).                     *)
THEOREM CallTypeCorrect == Spec => []TypeOK
BY Invariants, PTL

(* The buffer never exceeds the limit, however the body is cut and whether *)
(* or not its length was declared (send_once).                             *)
THEOREM BufferIsBounded == Spec => []BufferWithinLimit
<1>1. ASSUME TypeOK, CallInv
      PROVE  BufferWithinLimit
  <2>1. bytes = [i \in 1..received |-> <<attempt, i>>] /\ received <= Limit
    BY <1>1 DEF CallInv, BodyInv
  <2>2. received \in Nat /\ attempt \in Nat
    BY <1>1, ResponseFacts, TimeFacts DEF TypeOK
  <2> QED
    BY <2>1, <2>2, PrefixFacts DEF BufferWithinLimit
<1> QED
  BY Invariants, <1>1, PTL

(* A success is the complete body of one successful response, the last,    *)
(* whatever earlier attempts left behind (send_once).                      *)
THEOREM SuccessIsWhole == Spec => []WholeBody
<1>1. CallInv => WholeBody
  BY DEF CallInv, BodyInv, ResultInv, WholeBody
<1> QED
  BY Invariants, <1>1, PTL

(* The whole call is bounded: by one timeout for every attempt and one for *)
(* every sleep between two of them (execute_bytes).                        *)
THEOREM CallEndsInTime == Spec => []CallIsBounded
<1>1. ASSUME TypeOK, CallInv
      PROVE  CallIsBounded
  <2> DEFINE T == policy.request_timeout
  <2>1. T \in Nat /\ elapsed \in Nat /\ timer \in Nat /\ Attempts \in Nat /\ attempt \in Nat
        /\ attempt + 1 <= Attempts /\ Before \in Nat
    BY <1>1, TimeFacts DEF TypeOK
  <2>2. elapsed <= Before + T \/ (elapsed <= Before + 2 * T /\ attempt + 1 < Attempts)
    BY <1>1, <2>1 DEF TypeOK, CallInv, ClockInv
  <2>3. Before + T = (2 * attempt + 1) * T
        /\ Before + 2 * T = (2 * attempt + 2) * T
    BY <2>1 DEF Before
  <2>4. (2 * attempt + 1) * T <= (2 * Attempts - 1) * T
    BY <2>1, Growing
  <2>5. attempt + 1 < Attempts => (2 * attempt + 2) * T <= (2 * Attempts - 1) * T
    BY <2>1, Growing
  <2> QED
    BY <2>1, <2>2, <2>3, <2>4, <2>5 DEF CallIsBounded, LongestCall
<1> QED
  BY Invariants, <1>1, PTL

(* A Retry-After is never shortened, also when the response that carried   *)
(* it was lost half way (execute_bytes).                                   *)
THEOREM RetryAfterIsHonoured == Spec => RetryAfterHonoured
<1> DEFINE Good == sent' > sent => elapsed >= notBefore
<1>1. ASSUME TypeOK, CallInv, [Next]_vars
      PROVE  [Good]_vars
  <2>1. CASE Send
    BY <1>1, <2>1, TimeFacts DEF Send, CallInv, ClockInv
  <2>2. sent' = sent \/ Send
    BY <1>1 DEF vars, wire, Next, Build, BuildFails, Refused, Broken, TimedOut, EndOfBody, Wake,
       Tick, Done, Headers, Chunk, Apply
  <2> QED
    BY <1>1, <2>1, <2>2, TimeFacts
<1> QED
  BY Invariants, <1>1, PTL DEF Spec, RetryAfterHonoured

(* What the caller knows follows from where the call is.                   *)
LEMMA OutcomeFacts ==
  ASSUME TypeOK, CallInv
  PROVE  /\ pc # "done" => Outcome = "pending"
         /\ pc = "done" => Outcome \in {"ok", "refused", "failed"}
         /\ Outcome = "ok" => applied > 0
         /\ Outcome = "refused" => applied = 0 /\ enroute = {}
<1>1. /\ result.kind \in {"pending", "ok", "error"}
      /\ result.kind = "pending" <=> pc # "done"
      /\ result.kind = "ok" => applied > 0
      /\ result.kind = "error" /\ NeverLeft => applied = 0 /\ enroute = {}
  BY DEF TypeOK, CallInv, ResultInv
<1>2. /\ result.kind # "error" => Outcome = result.kind
      /\ result.kind = "error" => Outcome = IF NeverLeft THEN "refused" ELSE "failed"
  BY DEF Outcome
<1> QED
  BY <1>1, <1>2

(* A step of the transport is a step of the contract, or none.             *)
LEMMA StepAllowed ==
  ASSUME TypeOK, CallInv, TypeOK', CallInv', [Next]_vars
  PROVE  [Contract!Next]_(Contract!callVars)
<1> DEFINE Budget == IF method = "GET" THEN policy.max_attempts ELSE 1
<1>1. Budget' = Budget /\ Budget = Attempts
  BY DEF vars, setting, Next, Build, BuildFails, Send, Refused, Broken, TimedOut, EndOfBody,
     Wake, Tick, Done, Headers, Chunk, Apply, Attempts, MaxAttempts, RetrySafe
<1>2. applied \in Nat /\ Attempts \in Nat /\ sent \in Nat
  BY TimeFacts
<1>3. CASE \E a \in enroute : Apply(a)
  <2>1. PICK a \in enroute : Apply(a)
    BY <1>3
  <2>2. /\ applied' = applied + 1 /\ result' = result /\ sent' = sent
    BY <2>1 DEF Apply
  <2>3. Outcome' = Outcome
    BY <2>2 DEF Outcome, NeverLeft
  <2>4. Outcome # "refused"
    BY <2>1, OutcomeFacts
  <2>5. applied < Attempts
    <3>1. attempt \in Nat /\ enroute \in SUBSET (0..attempt)
      BY TimeFacts DEF TypeOK
    <3>2. Cardinality(enroute) \in Nat /\ Cardinality(enroute) # 0
      BY <2>1, <3>1, EnrouteCounts
    <3>3. applied + Cardinality(enroute) <= sent /\ sent <= Attempts
      BY <1>2 DEF TypeOK, CallInv, WireInv
    <3> QED
      BY <1>2, <3>2, <3>3
  <2>6. Contract!Execute
    BY <1>1, <2>2, <2>3, <2>4, <2>5 DEF Contract!Execute
  <2> QED
    BY <2>6 DEF Contract!Next
<1>4. CASE ~(\E a \in enroute : Apply(a))
  <2>1. applied' = applied /\ (pc = "done" => UNCHANGED <<result, sent, pc>>)
    BY <1>4 DEF vars, wire, Next, Build, BuildFails, Send, Refused, Broken, TimedOut, EndOfBody,
       Wake, Tick, Done, Headers, Chunk, TimeoutCovers
  <2>2. CASE pc = "done" \/ pc' # "done"
    <3>1. Outcome' = Outcome
      <4>1. CASE pc = "done"
        BY <2>1, <4>1 DEF Outcome, NeverLeft
      <4>2. CASE pc # "done" /\ pc' # "done"
        <5>1. Outcome = "pending"
          BY <4>2, OutcomeFacts
        <5>2. Outcome' = "pending"
          <6>1. result'.kind = "pending"
            BY <4>2 DEF CallInv, ResultInv
          <6> QED
            BY <6>1 DEF Outcome
        <5> QED
          BY <5>1, <5>2
      <4> QED
        BY <2>2, <4>1, <4>2
    <3> QED
      BY <1>1, <2>1, <3>1 DEF Contract!callVars
  <2>3. CASE pc # "done" /\ pc' = "done"
    <3>1. Outcome = "pending"
      BY <2>3, OutcomeFacts
    <3>2. /\ result'.kind \in {"ok", "error"}
          /\ result'.kind = "ok" => applied' > 0
          /\ result'.kind = "error" /\ NeverLeft' => applied' = 0
      BY <2>3 DEF TypeOK, CallInv, ResultInv
    <3>3. \/ Outcome' = "ok" /\ applied > 0
          \/ Outcome' = "refused" /\ applied = 0
          \/ Outcome' = "failed"
      BY <2>1, <3>2 DEF Outcome
    <3>4. Contract!Succeed \/ Contract!Refuse \/ Contract!Fail
      BY <1>1, <2>1, <3>1, <3>3
         DEF Contract!Succeed, Contract!Refuse, Contract!Fail, Contract!Answer
    <3> QED
      BY <3>4 DEF Contract!Next, Contract!Decide
  <2> QED
    BY <2>2, <2>3
<1> QED
  BY <1>3, <1>4

(* The transport keeps the contract of ApiCall: a mutation is executed at  *)
(* most once and a GET at most max_attempts times, whenever the server     *)
(* gets to it; a request that was refused was not and will not be, a       *)
(* success was; and the caller is answered once (execute_bytes).           *)
THEOREM KeepsTheCallSafely == Spec => Contract!SafeSpec
<1>1. Init => Contract!Init
  <2> SUFFICES ASSUME Init
               PROVE  Contract!Init
    OBVIOUS
  <2>1. Outcome = "pending"
    BY DEF Init, Outcome, Pending
  <2>2. policy.max_attempts \in Nat \ {0}
    BY PolicyFacts DEF Init
  <2> QED
    BY <2>1, <2>2 DEF Init, Contract!Init
<1>2. (TypeOK /\ CallInv) /\ (TypeOK /\ CallInv)' /\ [Next]_vars
        => [Contract!Next]_(Contract!callVars)
  BY StepAllowed
<1> QED
  BY Invariants, <1>1, <1>2, PTL DEF Spec, Contract!SafeSpec

-----------------------------------------------------------------------------
(* Why a call sleeps or gives up *)

(* A sleep is the wait for a retryable error, of the backoff or longer.    *)
LEMMA FailSleeps ==
  ASSUME NEW error, NEW retry_after, Fail(error, retry_after), pc' = "sleeping"
  PROVE  /\ Retries(error)
         /\ \E backoff \in Backoffs(policy, attempt) :
              timer' = Delay(policy, backoff, retry_after)
<1>1. Retries(error)
  BY DEF Fail, Return
<1> QED
  BY <1>1 DEF Fail, Return, Sleep

(* An error is given to the caller when it is not to be retried, or when   *)
(* the wait would be too long.                                             *)
LEMMA FailReturns ==
  ASSUME NEW error, NEW retry_after, Fail(error, retry_after), pc' # "sleeping"
  PROVE  /\ result' = Err(error)
         /\ \/ ~Retries(error)
            \/ \E backoff \in Backoffs(policy, attempt) :
                 TooLong(Delay(policy, backoff, retry_after))
<1>1. CASE ~Retries(error)
  BY <1>1 DEF Fail, Return
<1>2. CASE Retries(error)
  BY <1>2 DEF Fail, Return, Sleep
<1> QED
  BY <1>1, <1>2

(* The steps that may put a call to sleep or give it an error.             *)
LEMMA FailingStep ==
  ASSUME TypeOK, CallInv, Next, ~UNCHANGED vars,
         (pc # "sleeping" /\ pc' = "sleeping") \/ (pc # "done" /\ pc' = "done")
  PROVE  \/ \E error, retry_after :
              /\ Fail(error, retry_after)
              /\ retry_after = response.retry_after \/ error = TooLarge
              /\ \/ error = Connect /\ pc = "flight"
                 \/ error = Timeout /\ timer = 0
                 \/ error \in {Transport, TooLarge}
                 \/ error = MapError(response.status, response.body)
              /\ pc \in {"flight", "reading"}
         \/ result' \in {Err(Unbuildable), Err(Undecodable), Ok}
<1>1. CASE BuildFails
  BY <1>1 DEF BuildFails, Return
<1>2. CASE Refused
  <2>1. response.retry_after = Absent
    BY <1>2 DEF Refused, CallInv, BodyInv, NoResponse
  <2> QED
    BY <1>2, <2>1 DEF Refused
<1>3. CASE Broken
  BY <1>3 DEF Broken
<1>4. CASE TimedOut
  BY <1>4 DEF TimedOut, TimeoutCovers
<1>5. CASE EndOfBody
  <2>1. CASE IsSuccess(response.status)
    BY <1>5, <2>1 DEF EndOfBody, Succeed, Return
  <2>2. CASE ~IsSuccess(response.status)
    BY <1>5, <2>2 DEF EndOfBody
  <2> QED
    BY <2>1, <2>2
<1>6. CASE \E r \in Answers[policy] : Headers(r)
  <2>1. PICK r \in Answers[policy] : Headers(r)
    BY <1>6
  <2>2. Fail(TooLarge, r.retry_after) /\ pc = "flight"
    BY <2>1 DEF Headers
  <2> QED
    BY <2>2
<1>7. CASE \E n \in 1..response.length : Chunk(n)
  <2>1. PICK n \in 1..response.length : Chunk(n)
    BY <1>7
  <2>2. Fail(TooLarge, response.retry_after) /\ pc = "reading"
    BY <2>1 DEF Chunk
  <2> QED
    BY <2>2
<1>8. ~(Build \/ Send \/ Wake \/ Tick \/ Done \/ \E a \in enroute : Apply(a))
  BY DEF Build, Send, Wake, Tick, Done, Apply
<1> QED
  BY <1>1, <1>2, <1>3, <1>4, <1>5, <1>6, <1>7, <1>8 DEF Next

(* What docs/guide.md lists as transient is what is retried.               *)
LEMMA TransientIsRetryable ==
  /\ \A e \in {Timeout, Connect} : Transient(e) /\ IsRetryable(e)
  /\ \A e \in {Transport, TooLarge, Undecodable, Unbuildable} :
       ~Transient(e) /\ ~IsRetryable(e)
  /\ \A status, content :
       Transient(MapError(status, content)) <=> IsRetryable(MapError(status, content))
<1>1. /\ \A e \in {Timeout, Connect} : Transient(e) /\ IsRetryable(e)
      /\ \A e \in {Transport, TooLarge, Undecodable, Unbuildable} :
           ~Transient(e) /\ ~IsRetryable(e)
  BY DEF Timeout, Connect, Transport, TooLarge, Undecodable, Unbuildable, Failure, Absent,
     Transient, IsRetryable
<1>2. ASSUME NEW status, NEW content
      PROVE  Transient(MapError(status, content)) <=> IsRetryable(MapError(status, content))
  <2>1. \A x : x \in 502..504 <=> x \in {502, 503, 504}
    OBVIOUS
  <2> QED
    BY <2>1 DEF MapError, Failure, Transient, IsRetryable
<1> QED
  BY <1>1, <1>2

(* A backoff of this attempt lies between the exponential and what jitter  *)
(* may make of it.                                                         *)
LEMMA AttemptBackoff ==
  ASSUME TypeOK, NEW backoff \in Backoffs(policy, attempt)
  PROVE  /\ backoff \in Nat /\ LongestBackoff \in Nat
         /\ backoff >= Smaller(Exponential, policy.max_delay) /\ backoff <= LongestBackoff
<1>1. ValidPolicy(policy) /\ attempt \in Nat
  BY CallAssumption, TimeFacts DEF TypeOK
<1>2. /\ backoff \in Nat /\ Exponential \in Nat /\ policy.max_delay \in Nat
      /\ backoff >= Smaller(Exponential, policy.max_delay)
      /\ backoff <= Smaller(IF policy.jitter THEN 2 * Exponential ELSE Exponential,
                            policy.max_delay)
  BY <1>1, BackoffBounds DEF Exponential
<1>3. LongestBackoff \in Nat
  BY <1>2 DEF LongestBackoff, Smaller
<1> QED
  BY <1>2, <1>3 DEF LongestBackoff

(* Without Retry-After the sleep is initial_delay * multiplier^attempt     *)
(* plus at most as much jitter, capped at max_delay, for every multiplier  *)
(* and attempt (RetryConfig::delay).                                       *)
THEOREM BackoffFollowsThePolicy == Spec => BackoffIsExponential
<1> DEFINE Good ==
      (pc # "sleeping" /\ pc' = "sleeping" /\ response.retry_after = Absent) =>
        timer' >= Smaller(Exponential, policy.max_delay) /\ timer' <= LongestBackoff
<1>1. ASSUME TypeOK, CallInv, [Next]_vars
      PROVE  [Good]_vars
  <2> SUFFICES ASSUME Next, ~UNCHANGED vars, pc # "sleeping", pc' = "sleeping",
                      response.retry_after = Absent
               PROVE  timer' >= Smaller(Exponential, policy.max_delay)
                      /\ timer' <= LongestBackoff
    BY <1>1
  <2>1. result'.kind = "pending"
    <3>1. CallInv'
      BY <1>1, Inductive
    <3> QED
      BY <3>1 DEF CallInv, ResultInv
  <2>2. PICK error, retry_after :
          /\ Fail(error, retry_after)
          /\ retry_after = response.retry_after \/ error = TooLarge
    BY <1>1, <2>1, FailingStep DEF Err, Ok
  <2>3. PICK backoff \in Backoffs(policy, attempt) :
          Retries(error) /\ timer' = Delay(policy, backoff, retry_after)
    BY <2>2, FailSleeps
  <2>4. retry_after = Absent
    BY <2>2, <2>3, TransientIsRetryable DEF Retries
  <2> QED
    BY <1>1, <2>3, <2>4, AttemptBackoff DEF Delay
<1> QED
  BY Invariants, <1>1, PTL DEF Spec, BackoffIsExponential

(* An error reaches the caller for a reason: a GET gives up on a transient *)
(* error only when its attempts are used up or the next wait would be too  *)
(* long; it retries nothing else (execute_bytes, Error::is_retryable).     *)
THEOREM RetriesWhatIsTransient == Spec => RetriesExactlyTransient
<1> DEFINE GivesUp ==
      (result.kind = "pending" /\ result'.kind = "error" /\ method = "GET"
        /\ Transient(result'.error)) => sent = policy.max_attempts \/ WaitTooLong(response)
           Sleeps ==
      (pc = "reading" /\ pc' = "sleeping" /\ received = response.length /\ timer > 0) =>
        Transient(MapError(response.status, response.body))
<1>1. ASSUME TypeOK, CallInv, [Next]_vars
      PROVE  [GivesUp /\ Sleeps]_vars
  <2> SUFFICES ASSUME Next, ~UNCHANGED vars
               PROVE  GivesUp /\ Sleeps
    BY <1>1
  <2>1. CallInv'
    BY <1>1, Inductive
  <2>2. Sleeps
    <3> SUFFICES ASSUME pc = "reading", pc' = "sleeping", timer > 0
                 PROVE  Transient(MapError(response.status, response.body))
      OBVIOUS
    <3>1. result'.kind = "pending"
      BY <2>1 DEF CallInv, ResultInv
    <3>2. PICK error, retry_after :
            /\ Fail(error, retry_after)
            /\ \/ error = Connect /\ pc = "flight"
               \/ error = Timeout /\ timer = 0
               \/ error \in {Transport, TooLarge}
               \/ error = MapError(response.status, response.body)
      BY <1>1, <3>1, FailingStep DEF Err, Ok
    <3>3. IsRetryable(error)
      BY <3>2, FailSleeps DEF Retries
    <3> QED
      BY <1>1, <3>2, <3>3, TransientIsRetryable, TimeFacts
  <2>3. GivesUp
    <3> SUFFICES ASSUME result.kind = "pending", result'.kind = "error", method = "GET",
                        Transient(result'.error)
                 PROVE  sent = policy.max_attempts \/ WaitTooLong(response)
      OBVIOUS
    <3>1. pc # "done" /\ pc' = "done"
      BY <1>1, <2>1 DEF CallInv, ResultInv
    <3>2. result' \notin {Err(Unbuildable), Err(Undecodable), Ok}
      BY TransientIsRetryable DEF Err, Ok
    <3>3. PICK error, retry_after :
            /\ Fail(error, retry_after)
            /\ retry_after = response.retry_after \/ error = TooLarge
            /\ \/ error = Connect /\ pc = "flight"
               \/ error = Timeout /\ timer = 0
               \/ error \in {Transport, TooLarge}
               \/ error = MapError(response.status, response.body)
            /\ pc \in {"flight", "reading"}
      BY <1>1, <3>1, <3>2, FailingStep
    <3>4. result' = Err(error)
      BY <3>1, <3>3, FailReturns
    <3>5. Transient(error) /\ IsRetryable(error) /\ error # TooLarge
      BY <3>3, <3>4, TransientIsRetryable DEF Err
    <3>6. CASE ~Retries(error)
      <4>1. ~(attempt + 1 < Attempts) /\ Attempts = policy.max_attempts
        BY <3>5, <3>6 DEF Retries, RetrySafe, Attempts, MaxAttempts
      <4>2. sent = attempt + 1
        BY <1>1, <3>3 DEF CallInv, WireInv
      <4> QED
        BY <1>1, <4>1, <4>2, TimeFacts DEF TypeOK
    <3>7. CASE \E backoff \in Backoffs(policy, attempt) :
                 TooLong(Delay(policy, backoff, retry_after))
      <4>1. PICK backoff \in Backoffs(policy, attempt) :
              TooLong(Delay(policy, backoff, retry_after))
        BY <3>7
      <4>2. retry_after = response.retry_after
        BY <3>3, <3>5
      <4>3. /\ backoff \in Nat /\ LongestBackoff \in Nat /\ backoff <= LongestBackoff
            /\ policy.request_timeout \in Nat
        BY <1>1, AttemptBackoff, TimeFacts
      <4>4. response.retry_after \in Nat \cup {Absent}
        BY <1>1, ResponseFacts DEF TypeOK
      <4> QED
        BY <4>1, <4>2, <4>3, <4>4 DEF TooLong, Delay, Larger, WaitTooLong, Absent
    <3> QED
      BY <3>1, <3>3, <3>6, <3>7, FailReturns
  <2> QED
    BY <2>2, <2>3
<1> QED
  BY Invariants, <1>1, PTL DEF Spec, RetriesExactlyTransient
=============================================================================
