---------------------------- MODULE EventStreamProofs ----------------------------
(***************************************************************************)
(* A stream yields what it should, for every limit, every log and every    *)
(* form of page: each event once and in order, none left out, and all of   *)
(* them when it ends; and it queues one prompt.  What is said of events    *)
(* supposes that the stream never goes on from an empty cursor, which the  *)
(* guide promises and the run stream_empty_cursor refutes.                 *)
(***************************************************************************)
EXTENDS EventStream, SequenceTheorems, WellFoundedInduction, TLAPS

(* The places of a log that a query for the events after from finds, those *)
(* among them that the consumer should see, and these in order.            *)
Visible(l, from, to) == {i \in 1..to : i > from /\ l[i] # "hidden"}
Due(l, prompting, from, to) == {i \in Visible(l, from, to) : prompting => l[i] # "other"}
Seen(l, prompting, from, to) == InOrder(Due(l, prompting, from, to), to)

(* Answers answer the call that is made, and options were not refused.     *)
CallInv ==
  /\ reply.kind = "latest" => at = "latest"
  /\ reply.kind = "posted" => at = "post"
  /\ reply.kind = "status" => at = "status"
  /\ reply.kind = "slept" => at = "pause"
  /\ reply.kind = "page" => at = "page"
  /\ initialized => ~Refused
  /\ at \in {"post", "status"} => Prompting
  /\ ~initialized => at \in {"idle", "over"} /\ left = Unlimited

(* One prompt at most is on its way or accepted, none before the call.     *)
PromptInv ==
  /\ prompts + (IF enroute THEN 1 ELSE 0) <= 1
  /\ ~initialized \/ at = "latest" \/ (at = "post" /\ reply.kind = "none") =>
       prompts = 0 /\ ~enroute
  /\ outcome \in {"none", "config"} \/ initialized

(* A page is all there is after c, up to the limit, or the one before it. *)
Whole(page, l, c, h) ==
  LET rest == InOrder(Visible(l, c, h), h)
      events == Upto(rest, opts.limit)
  IN  /\ page.events = events
      /\ page.next \in {LastOf(events), NoCursor, EmptyCursor}
      /\ page.more = (page.info /\ Len(rest) > opts.limit)
Repeated(page, c) ==
  /\ "stuck" \in opts.forms /\ page.info
  /\ page.next = c /\ c >= 1 /\ page.events \in {<<>>, <<c>>}

(* What the service said of the events after the cursor is true of the log *)
(* of that moment, or is the page before once more.                        *)
AnswerInv ==
  /\ reply.kind = "latest" =>
       reply.event = start /\ reply.next \in {start, NoCursor, EmptyCursor}
  /\ reply.kind = "page" =>
       Whole(reply, log, s.cursor, horizon) \/ Repeated(reply, s.cursor)

Joined(p, q) == p \o q

(* What the cursor has passed is yielded or buffered, and the buffer is    *)
(* empty when a call is made.                                              *)
BufferInv ==
  /\ at = "latest" \/ ~initialized =>
       s.cursor = NoCursor /\ s.pending = <<>> /\ ~s.after_page
  /\ ~initialized => start = 0
  /\ at \notin {"latest", "over"} => start <= s.cursor
  /\ at \in Calls => s.pending = <<>>
  /\ Joined(delivered, s.pending) = Seen(log, Prompting, start, s.cursor)

(* A page that is not followed by more was the last of its log, and the    *)
(* log is read again after the run was seen to be over.                    *)
TellsPromptsAll == \A c \in Scenarios : c.mode = "prompt" => "stuck" \notin c.forms
EndInv ==
  /\ s.after_page \/ reply.kind = "page" => s.cursor <= horizon
  /\ Prompting /\ at # "over" /\ reply.kind # "page" /\ s.after_page /\ ~s.more =>
       Visible(log, s.cursor, horizon) = {}
  /\ \/ overAt <= horizon
     \/ at = "status" /\ reply.kind = "status" /\ IsTerminal(reply.status)
     \/ at = "page" /\ reply.kind # "page"
     \/ at = "over" /\ outcome # "end"
  /\ outcome = "end" => delivered = Seen(log, Prompting, start, horizon) /\ Prompting
-----------------------------------------------------------------------------
(* Sequences.  Induction on the natural numbers, for a set.                *)
LEMMA Induction ==
  ASSUME NEW S, 0 \in S, \A n \in Nat : n \in S => n + 1 \in S
  PROVE  \A n \in Nat : n \in S
<1> DEFINE R == OpToRel(<, Nat)
           T == Nat \ S
<1>1. SUFFICES ASSUME T # {}
               PROVE  FALSE
  OBVIOUS
<1>2. IsWellFoundedOn(R, Nat)
  BY NatLessThanWellFounded
<1>3. T \subseteq Nat
  OBVIOUS
<1>4. \A x, y \in Nat : <<y, x>> \in R <=> y < x
  BY DEF OpToRel
<1> HIDE DEF R
<1>5. PICK x \in T : \A y \in T : ~(<<y, x>> \in R)
  BY <1>1, <1>2, <1>3, WFMin
<1>6. x # 0 /\ x - 1 \in Nat /\ x - 1 < x
  BY <1>5
<1>7. x - 1 \in S
  BY <1>4, <1>5, <1>6
<1> QED
  BY <1>5, <1>6, <1>7

(* There is a function that keeps what is in S of each beginning of q.     *)
IsKept(g, q, S) ==
  g = [n \in 0..Len(q) |->
         IF n = 0 THEN <<>>
         ELSE IF q[n] \in S THEN Append(g[n - 1], q[n]) ELSE g[n - 1]]

LEMMA KeptExists ==
  ASSUME NEW A, NEW q \in Seq(A), NEW S
  PROVE  \E G : IsKept(G, q, S)
<1> DEFINE Step(g, n) == IF q[n] \in S THEN Append(g[n - 1], q[n]) ELSE g[n - 1]
           Fits(n, g) == /\ g \in [0..n -> Seq(A)] /\ g[0] = <<>>
                         /\ \A i \in 1..n : g[i] = Step(g, i)
           Good == {n \in Nat : n <= Len(q) => \E g : Fits(n, g)}
<1>1. 0 \in Good
  <2>1. Fits(0, [i \in 0..0 |-> <<>>])
    OBVIOUS
  <2> QED
    BY <2>1
<1>2. ASSUME NEW n \in Nat, n \in Good, n + 1 <= Len(q)
      PROVE  \E g : Fits(n + 1, g)
  <2>1. PICK g : Fits(n, g)
    <3>1. n <= Len(q)
      BY <1>2
    <3> HIDE DEF Fits
    <3> QED
      BY <1>2, <3>1
  <2> DEFINE h == [i \in 0..(n + 1) |->
                     IF i = n + 1
                     THEN IF q[n + 1] \in S THEN Append(g[n], q[n + 1]) ELSE g[n]
                     ELSE g[i]]
  <2>2. q[n + 1] \in A /\ g[n] \in Seq(A) /\ g[0] = <<>>
    BY <1>2, <2>1
  <2>3. h \in [0..(n + 1) -> Seq(A)] /\ h[0] = <<>>
    BY <2>1, <2>2
  <2>4. ASSUME NEW i \in 1..(n + 1)
        PROVE  h[i] = Step(h, i)
    <3>1. CASE i = n + 1
      <4>1. h[n + 1] = (IF q[n + 1] \in S THEN Append(g[n], q[n + 1]) ELSE g[n]) /\ h[n] = g[n]
        OBVIOUS
      <4>2. (n + 1) - 1 = n
        OBVIOUS
      <4> QED
        BY <3>1, <4>1, <4>2
    <3>2. CASE i # n + 1
      <4>1. i \in 1..n /\ i - 1 \in 0..n /\ h[i] = g[i] /\ h[i - 1] = g[i - 1]
        BY <3>2
      <4> QED
        BY <2>1, <4>1
    <3> QED
      BY <3>1, <3>2
  <2>5. Fits(n + 1, h)
    BY <2>3, <2>4
  <2> HIDE DEF Fits, h
  <2> QED
    BY <2>5
<1>3. \A n \in Nat : n \in Good
  <2>1. \A n \in Nat : n \in Good => n + 1 \in Good
    <3> HIDE DEF Fits
    <3> QED
      BY <1>2
  <2> HIDE DEF Good
  <2> QED
    BY <1>1, <2>1, Induction
<1>4. PICK G : Fits(Len(q), G)
  <2> HIDE DEF Fits
  <2> QED
    BY <1>3
<1>5. G = [n \in 0..Len(q) |-> IF n = 0 THEN <<>> ELSE Step(G, n)]
  <2>1. \A n \in 0..Len(q) : G[n] = IF n = 0 THEN <<>> ELSE Step(G, n)
    <3>1. \A n \in 0..Len(q) : n = 0 \/ n \in 1..Len(q)
      OBVIOUS
    <3>2. G[0] = <<>> /\ \A i \in 1..Len(q) : G[i] = Step(G, i)
      BY <1>4
    <3> HIDE DEF Step
    <3> QED
      BY <3>1, <3>2
  <2>2. G = [n \in 0..Len(q) |-> G[n]]
    BY <1>4
  <2> HIDE DEF Step
  <2> QED
    BY <2>1, <2>2
<1> QED
  BY <1>5 DEF IsKept

LEMMA KeptSteps ==
  ASSUME NEW A, NEW q \in Seq(A), NEW S
  PROVE  /\ KeptUpto(q, S)[0] = <<>>
         /\ \A n \in 0..Len(q) : KeptUpto(q, S)[n] \in Seq(A)
         /\ \A n \in 1..Len(q) :
              KeptUpto(q, S)[n] = IF q[n] \in S THEN Append(KeptUpto(q, S)[n - 1], q[n])
                                  ELSE KeptUpto(q, S)[n - 1]
<1> DEFINE K == KeptUpto(q, S)
<1>1. IsKept(K, q, S)
  <2>1. K = CHOOSE g : IsKept(g, q, S)
    BY DEF KeptUpto, IsKept
  <2>2. \E G : IsKept(G, q, S)
    BY KeptExists
  <2> HIDE DEF K
  <2> QED
    BY <2>1, <2>2
<1> HIDE DEF K
<1>2. K[0] = <<>>
  <2>1. 0 \in 0..Len(q)
    OBVIOUS
  <2> QED
    BY <1>1, <2>1 DEF IsKept
<1>3. ASSUME NEW n \in 1..Len(q)
      PROVE  K[n] = IF q[n] \in S THEN Append(K[n - 1], q[n]) ELSE K[n - 1]
  <2>1. n \in 0..Len(q) /\ n # 0
    OBVIOUS
  <2> QED
    BY <1>1, <2>1 DEF IsKept
<1> DEFINE Typed == {n \in Nat : n <= Len(q) => K[n] \in Seq(A)}
<1>4. 0 \in Typed
  <2>1. <<>> \in Seq(A)
    OBVIOUS
  <2> QED
    BY <1>2, <2>1
<1>5. ASSUME NEW n \in Nat, n \in Typed
      PROVE  n + 1 \in Typed
  <2>1. SUFFICES ASSUME n + 1 <= Len(q)
                 PROVE  K[n + 1] \in Seq(A)
    OBVIOUS
  <2>2. n + 1 \in 1..Len(q) /\ (n + 1) - 1 = n /\ q[n + 1] \in A /\ K[n] \in Seq(A)
    BY <1>5, <2>1
  <2>3. K[n + 1] = IF q[n + 1] \in S THEN Append(K[n], q[n + 1]) ELSE K[n]
    BY <1>3, <2>2
  <2> QED
    BY <2>2, <2>3
<1>6. \A n \in Nat : n \in Typed
  <2> HIDE DEF Typed
  <2> QED
    BY <1>4, <1>5, Induction
<1> QED
  BY <1>2, <1>3, <1>6 DEF K

LEMMA KeptTyped ==
  ASSUME NEW A, NEW q \in Seq(A), NEW S
  PROVE  Kept(q, S) \in Seq(A) /\ Kept(<<>>, S) = <<>>
<1>1. Kept(q, S) \in Seq(A)
  BY KeptSteps DEF Kept
<1>2. <<>> \in Seq(A) /\ Len(<<>>) = 0
  OBVIOUS
<1> QED
  BY <1>1, <1>2, KeptSteps DEF Kept

(* Kept goes through a sequence element by element.                        *)
LEMMA KeptAppend ==
  ASSUME NEW A, NEW q \in Seq(A), NEW e \in A, NEW S
  PROVE  Kept(Append(q, e), S) = IF e \in S THEN Append(Kept(q, S), e) ELSE Kept(q, S)
<1> DEFINE r == Append(q, e)
           K == KeptUpto(q, S)
           L == KeptUpto(r, S)
<1>1. r \in Seq(A) /\ Len(r) = Len(q) + 1 /\ r[Len(q) + 1] = e
      /\ \A i \in 1..Len(q) : r[i] = q[i]
  OBVIOUS
<1> HIDE DEF r
<1>2. /\ K[0] = <<>>
      /\ \A n \in 1..Len(q) : K[n] = IF q[n] \in S THEN Append(K[n - 1], q[n]) ELSE K[n - 1]
  BY KeptSteps
<1>3. /\ L[0] = <<>>
      /\ \A n \in 1..Len(r) : L[n] = IF r[n] \in S THEN Append(L[n - 1], r[n]) ELSE L[n - 1]
  BY <1>1, KeptSteps
<1> HIDE DEF K, L
<1> DEFINE Same == {n \in Nat : n <= Len(q) => L[n] = K[n]}
<1>4. 0 \in Same
  BY <1>2, <1>3
<1>5. ASSUME NEW n \in Nat, n \in Same
      PROVE  n + 1 \in Same
  <2>1. SUFFICES ASSUME n + 1 <= Len(q)
                 PROVE  L[n + 1] = K[n + 1]
    OBVIOUS
  <2>2. n + 1 \in 1..Len(q) /\ n + 1 \in 1..Len(r) /\ (n + 1) - 1 = n /\ L[n] = K[n]
        /\ r[n + 1] = q[n + 1]
    BY <1>1, <1>5, <2>1
  <2>3. /\ K[n + 1] = IF q[n + 1] \in S THEN Append(K[n], q[n + 1]) ELSE K[n]
        /\ L[n + 1] = IF r[n + 1] \in S THEN Append(L[n], r[n + 1]) ELSE L[n]
    BY <1>2, <1>3, <2>2
  <2> QED
    BY <2>2, <2>3
<1>6. L[Len(q)] = K[Len(q)]
  <2>1. \A n \in Nat : n \in Same
    <3> HIDE DEF Same
    <3> QED
      BY <1>4, <1>5, Induction
  <2> QED
    BY <2>1
<1>7. L[Len(r)] = IF e \in S THEN Append(L[Len(q)], e) ELSE L[Len(q)]
  <2>1. Len(r) \in 1..Len(r) /\ Len(r) - 1 = Len(q) /\ r[Len(r)] = e
    BY <1>1
  <2> QED
    BY <1>3, <2>1
<1> QED
  BY <1>6, <1>7 DEF Kept, K, L, r

-----------------------------------------------------------------------------
(* The members of S up to n in order: one after another, ...               *)
LEMMA InOrderNext ==
  ASSUME NEW S, NEW n \in Nat
  PROVE  /\ InOrder(S, 0) = <<>>
         /\ InOrder(S, n) \in Seq(1..n)
         /\ InOrder(S, n + 1) = IF n + 1 \in S THEN Append(InOrder(S, n), n + 1)
                                ELSE InOrder(S, n)
<1> DEFINE q == [i \in 1..n |-> i]
           r == [i \in 1..(n + 1) |-> i]
<1>1. q \in Seq(1..n) /\ q \in Seq(1..(n + 1)) /\ r = Append(q, n + 1)
  OBVIOUS
<1>2. [i \in 1..0 |-> i] = <<>>
  OBVIOUS
<1>3. InOrder(S, n) = Kept(q, S) /\ InOrder(S, n + 1) = Kept(r, S) /\ InOrder(S, 0) = Kept(<<>>, S)
  BY <1>2 DEF InOrder
<1>4. n + 1 \in 1..(n + 1)
  OBVIOUS
<1> HIDE DEF q, r
<1>5. Kept(q, S) \in Seq(1..n) /\ Kept(<<>>, S) = <<>>
  BY <1>1, KeptTyped
<1>6. Kept(Append(q, n + 1), S) = IF n + 1 \in S THEN Append(Kept(q, S), n + 1) ELSE Kept(q, S)
  <2> DEFINE A == 1..(n + 1)
             e == n + 1
  <2>1. q \in Seq(A) /\ e \in A
    BY <1>1, <1>4
  <2> HIDE DEF A, e
  <2>2. Kept(Append(q, e), S) = IF e \in S THEN Append(Kept(q, S), e) ELSE Kept(q, S)
    BY <2>1, KeptAppend
  <2> QED
    BY <2>2 DEF e
<1> QED
  BY <1>1, <1>3, <1>5, <1>6

(* ... only what is in S, ...                                              *)
LEMMA InOrderMembers ==
  ASSUME NEW S
  PROVE  \A n \in Nat : InOrder(S, n) \in Seq(S \cap 1..n)
<1> DEFINE Good == {n \in Nat : InOrder(S, n) \in Seq(S \cap 1..n)}
<1>1. 0 \in Good
  <2>1. InOrder(S, 0) = <<>> /\ <<>> \in Seq(S \cap 1..0)
    BY InOrderNext
  <2> QED
    BY <2>1
<1>2. ASSUME NEW n \in Nat, n \in Good
      PROVE  n + 1 \in Good
  <2> DEFINE T == S \cap 1..(n + 1)
  <2>1. InOrder(S, n) \in Seq(T)
    <3>1. S \cap 1..n \subseteq T /\ InOrder(S, n) \in Seq(S \cap 1..n)
      BY <1>2
    <3> HIDE DEF T
    <3> QED
      BY <3>1
  <2>2. n + 1 \in S => Append(InOrder(S, n), n + 1) \in Seq(T)
    <3>1. n + 1 \in S => n + 1 \in T
      OBVIOUS
    <3> HIDE DEF T
    <3> QED
      BY <2>1, <3>1
  <2>3. InOrder(S, n + 1) = IF n + 1 \in S THEN Append(InOrder(S, n), n + 1) ELSE InOrder(S, n)
    BY InOrderNext
  <2> HIDE DEF T
  <2>4. InOrder(S, n + 1) \in Seq(T)
    BY <2>1, <2>2, <2>3, Zenon
  <2> QED
    BY <2>4 DEF T
<1>3. \A n \in Nat : n \in Good
  <2> HIDE DEF Good
  <2> QED
    BY <1>1, <1>2, Induction
<1> QED
  BY <1>3

LEMMA InOrderTyped ==
  ASSUME NEW S, NEW n \in Nat
  PROVE  InOrder(S, n) \in Seq(Nat)
<1>1. InOrder(S, n) \in Seq(1..n)
  BY InOrderNext
<1>2. \A q \in Seq(1..n) : q \in Seq(Nat)
  OBVIOUS
<1> QED
  BY <1>1, <1>2

(* Concatenation, with a name of its own to reason about.                 *)
LEMMA JoinedAppend ==
  ASSUME NEW A, NEW p \in Seq(A), NEW q \in Seq(A), NEW e \in A
  PROVE  Append(Joined(p, q), e) = Joined(p, Append(q, e))
BY DEF Joined

LEMMA JoinedEmpty ==
  ASSUME NEW A, NEW p \in Seq(A)
  PROVE  Joined(p, <<>>) = p /\ Joined(<<>>, p) = p /\ Joined(<<>>, <<>>) = <<>>
BY DEF Joined

LEMMA JoinedShift ==
  ASSUME NEW A, NEW p \in Seq(A), NEW q \in Seq(A), q # <<>>
  PROVE  Joined(Append(p, Head(q)), Tail(q)) = Joined(p, q)
BY DEF Joined

LEMMA JoinedBegins ==
  ASSUME NEW A, NEW p \in Seq(A), NEW q \in Seq(A), NEW r \in Seq(A)
  PROVE  /\ Len(p) <= Len(Joined(Joined(p, q), r))
         /\ p = SubSeq(Joined(Joined(p, q), r), 1, Len(p))
BY DEF Joined

(* ... which nothing beyond n changes, ...                                 *)
LEMMA InOrderSame ==
  ASSUME NEW S, NEW T, NEW n \in Nat, \A i \in 1..n : i \in S <=> i \in T
  PROVE  InOrder(S, n) = InOrder(T, n)
<1> DEFINE Good == {k \in Nat : k <= n => InOrder(S, k) = InOrder(T, k)}
<1>1. 0 \in Good
  BY InOrderNext
<1>2. ASSUME NEW k \in Nat, k \in Good
      PROVE  k + 1 \in Good
  <2>1. SUFFICES ASSUME k + 1 <= n
                 PROVE  InOrder(S, k + 1) = InOrder(T, k + 1)
    OBVIOUS
  <2>2. k + 1 \in 1..n /\ InOrder(S, k) = InOrder(T, k)
    BY <1>2, <2>1
  <2>3. k + 1 \in S <=> k + 1 \in T
    BY <2>2
  <2>4. /\ InOrder(S, k + 1) = IF k + 1 \in S THEN Append(InOrder(S, k), k + 1) ELSE InOrder(S, k)
        /\ InOrder(T, k + 1) = IF k + 1 \in T THEN Append(InOrder(T, k), k + 1) ELSE InOrder(T, k)
    BY InOrderNext
  <2> QED
    BY <2>2, <2>3, <2>4
<1>3. \A k \in Nat : k \in Good
  <2> HIDE DEF Good
  <2> QED
    BY <1>1, <1>2, Induction
<1> QED
  BY <1>3

(* ... and which can be divided anywhere.                                  *)
Beyond(S, m) == {i \in S : i > m}

LEMMA InOrderSplit ==
  ASSUME NEW S \in SUBSET Nat, NEW m \in Nat, NEW n \in Nat, m <= n
  PROVE  InOrder(S, n) = Joined(InOrder(S, m), InOrder(Beyond(S, m), n))
<1> DEFINE B == Beyond(S, m)
           Early == {k \in Nat : k <= m => InOrder(B, k) = <<>>}
           Good == {k \in Nat : m <= k => InOrder(S, k) = Joined(InOrder(S, m), InOrder(B, k))}
<1>1. InOrder(B, m) = <<>>
  <2>1. 0 \in Early
    BY InOrderNext
  <2>2. ASSUME NEW k \in Nat, k \in Early
        PROVE  k + 1 \in Early
    <3>1. SUFFICES ASSUME k + 1 <= m
                   PROVE  InOrder(B, k + 1) = <<>>
      OBVIOUS
    <3>2. k + 1 \notin B /\ InOrder(B, k) = <<>>
      BY <2>2, <3>1 DEF Beyond
    <3> QED
      BY <3>2, InOrderNext
  <2>3. \A k \in Nat : k \in Early
    <3> HIDE DEF Early
    <3> QED
      BY <2>1, <2>2, Induction
  <2> QED
    BY <2>3
<1>2. 0 \in Good
  <2>1. InOrder(S, 0) = <<>> /\ InOrder(B, 0) = <<>>
    BY InOrderNext
  <2>2. Joined(<<>>, <<>>) = <<>>
    BY DEF Joined
  <2>3. m <= 0 => m = 0
    OBVIOUS
  <2> QED
    BY <2>1, <2>2, <2>3
<1>3. ASSUME NEW k \in Nat, k \in Good
      PROVE  k + 1 \in Good
  <2> DEFINE whole == InOrder(S, k)
             front == InOrder(S, m)
             back == InOrder(B, k)
  <2>1. SUFFICES ASSUME m <= k + 1
                 PROVE  InOrder(S, k + 1) = Joined(front, InOrder(B, k + 1))
    OBVIOUS
  <2>2. front \in Seq(Nat) /\ back \in Seq(Nat) /\ InOrder(B, k + 1) \in Seq(Nat)
        /\ InOrder(S, k + 1) \in Seq(Nat)
    <3>1. k + 1 \in Nat
      OBVIOUS
    <3> QED
      BY <3>1, InOrderTyped
  <2>3. CASE m = k + 1
    <3>1. InOrder(B, k + 1) = <<>> /\ InOrder(S, k + 1) = front
      BY <1>1, <2>3
    <3> QED
      BY <2>2, <3>1, JoinedEmpty
  <2>4. CASE m <= k
    <3>1. whole = Joined(front, back)
      BY <1>3, <2>4
    <3>2. k + 1 \in S <=> k + 1 \in B
      BY <2>4 DEF Beyond
    <3>3. /\ InOrder(S, k + 1) = IF k + 1 \in S THEN Append(whole, k + 1) ELSE whole
          /\ InOrder(B, k + 1) = IF k + 1 \in B THEN Append(back, k + 1) ELSE back
      BY InOrderNext
    <3> HIDE DEF whole
    <3>4. Append(Joined(front, back), k + 1) = Joined(front, Append(back, k + 1))
      <4>1. k + 1 \in Nat
        OBVIOUS
      <4> QED
        BY <2>2, <4>1, JoinedAppend
    <3> QED
      BY <3>1, <3>2, <3>3, <3>4
  <2> QED
    BY <2>1, <2>3, <2>4
<1>4. \A k \in Nat : k \in Good
  <2> HIDE DEF Good
  <2> QED
    BY <1>2, <1>3, Induction
<1> QED
  BY <1>4

LEMMA InOrderNone ==
  ASSUME NEW S \in SUBSET Nat, NEW m \in Nat, NEW n \in Nat, m <= n,
         \A i \in 1..n : i \in S => i <= m
  PROVE  InOrder(S, n) = InOrder(S, m)
<1> DEFINE Good == {k \in Nat : m <= k /\ k <= n => InOrder(S, k) = InOrder(S, m)}
<1>1. 0 \in Good
  OBVIOUS
<1>2. ASSUME NEW k \in Nat, k \in Good
      PROVE  k + 1 \in Good
  <2>1. SUFFICES ASSUME m <= k + 1, k + 1 <= n, m # k + 1
                 PROVE  InOrder(S, k + 1) = InOrder(S, m)
    OBVIOUS
  <2>2. k + 1 \notin S /\ InOrder(S, k) = InOrder(S, m)
    BY <1>2, <2>1
  <2> QED
    BY <2>2, InOrderNext
<1>3. \A k \in Nat : k \in Good
  <2> HIDE DEF Good
  <2> QED
    BY <1>1, <1>2, Induction
<1> QED
  BY <1>3

(* Keeping what is in T as well.                                           *)
LEMMA InOrderKept ==
  ASSUME NEW S, NEW T
  PROVE  \A n \in Nat : Kept(InOrder(S, n), T) = InOrder(S \cap T, n)
<1> DEFINE Good == {n \in Nat : Kept(InOrder(S, n), T) = InOrder(S \cap T, n)}
<1>1. 0 \in Good
  <2>1. InOrder(S, 0) = <<>> /\ InOrder(S \cap T, 0) = <<>>
    BY InOrderNext
  <2>2. <<>> \in Seq({})
    OBVIOUS
  <2>3. Kept(<<>>, T) = <<>>
    BY <2>2, KeptTyped
  <2> QED
    BY <2>1, <2>3
<1>2. ASSUME NEW n \in Nat, n \in Good
      PROVE  n + 1 \in Good
  <2> DEFINE q == InOrder(S, n)
             e == n + 1
             A == 1..(n + 1)
  <2>1. q \in Seq(A) /\ e \in A
    <3>1. InOrder(S, n) \in Seq(1..n) /\ 1..n \subseteq A
      BY InOrderNext
    <3> QED
      BY <3>1
  <2>2. InOrder(S, e) = IF e \in S THEN Append(q, e) ELSE q
    BY InOrderNext
  <2>3. InOrder(S \cap T, e) = IF e \in S \cap T THEN Append(InOrder(S \cap T, n), e)
                               ELSE InOrder(S \cap T, n)
    BY InOrderNext
  <2>4. Kept(q, T) = InOrder(S \cap T, n)
    BY <1>2
  <2> HIDE DEF q, e, A
  <2>5. Kept(Append(q, e), T) = IF e \in T THEN Append(Kept(q, T), e) ELSE Kept(q, T)
    BY <2>1, KeptAppend
  <2>6. Kept(InOrder(S, e), T) = InOrder(S \cap T, e)
    BY <2>2, <2>3, <2>4, <2>5
  <2> QED
    BY <2>6 DEF e
<1>3. \A n \in Nat : n \in Good
  <2> HIDE DEF Good
  <2> QED
    BY <1>1, <1>2, Induction
<1> QED
  BY <1>3

(* A beginning of it is all of it up to the last member of the beginning.  *)
LEMMA InOrderBeginning ==
  ASSUME NEW S
  PROVE  \A n \in Nat : \A k \in 1..Len(InOrder(S, n)) :
           /\ InOrder(S, n)[k] \in S /\ InOrder(S, n)[k] \in 1..n
           /\ SubSeq(InOrder(S, n), 1, k) = InOrder(S, InOrder(S, n)[k])
<1> DEFINE Claim(n) == \A k \in 1..Len(InOrder(S, n)) :
                         /\ InOrder(S, n)[k] \in S /\ InOrder(S, n)[k] \in 1..n
                         /\ SubSeq(InOrder(S, n), 1, k) = InOrder(S, InOrder(S, n)[k])
           Good == {n \in Nat : Claim(n)}
<1>1. 0 \in Good
  <2>1. InOrder(S, 0) = <<>>
    BY InOrderNext
  <2> QED
    BY <2>1
<1>2. ASSUME NEW n \in Nat, n \in Good
      PROVE  Claim(n + 1)
  <2> DEFINE q == InOrder(S, n)
             r == InOrder(S, n + 1)
  <2>1. q \in Seq(1..n) /\ r = IF n + 1 \in S THEN Append(q, n + 1) ELSE q
    BY InOrderNext
  <2>2. Claim(n)
    BY <1>2
  <2>3. CASE n + 1 \notin S
    <3>1. r = q
      BY <2>1, <2>3
    <3> HIDE DEF q, r
    <3>2. \A k \in 1..Len(q) : q[k] \in 1..n => q[k] \in 1..(n + 1)
      OBVIOUS
    <3> QED
      BY <2>2, <3>1, <3>2 DEF q, r
  <2>4. CASE n + 1 \in S
    <3>1. r = Append(q, n + 1)
      BY <2>1, <2>4
    <3> HIDE DEF q, r
    <3>2. ASSUME NEW k \in 1..Len(r)
          PROVE  r[k] \in S /\ r[k] \in 1..(n + 1) /\ SubSeq(r, 1, k) = InOrder(S, r[k])
      <4>1. CASE k = Len(r)
        <5>1. r[k] = n + 1 /\ SubSeq(r, 1, k) = r
          BY <2>1, <3>1, <4>1
        <5> QED
          BY <2>4, <5>1 DEF r
      <4>2. CASE k # Len(r)
        <5>1. k \in 1..Len(q) /\ r[k] = q[k] /\ SubSeq(r, 1, k) = SubSeq(q, 1, k)
          BY <2>1, <3>1, <4>2
        <5>2. q[k] \in S /\ q[k] \in 1..n /\ SubSeq(q, 1, k) = InOrder(S, q[k])
          BY <2>2, <5>1 DEF q
        <5> QED
          BY <5>1, <5>2
      <4> QED
        BY <4>1, <4>2
    <3> QED
      BY <3>2 DEF r
  <2> QED
    BY <2>3, <2>4
<1>3. ASSUME NEW n \in Nat, n \in Good
      PROVE  n + 1 \in Good
  <2>1. Claim(n + 1)
    BY <1>2, <1>3
  <2> HIDE DEF Claim
  <2> QED
    BY <2>1
<1>4. \A n \in Nat : n \in Good
  <2> HIDE DEF Good
  <2> QED
    BY <1>1, <1>3, Induction
<1> QED
  BY <1>4

(* Nothing is beyond the last.                                             *)
LEMMA InOrderLast ==
  ASSUME NEW S
  PROVE  \A n \in Nat : \A i \in S \cap 1..n : i <= LastOf(InOrder(S, n))
<1> DEFINE Claim(n) == \A i \in S \cap 1..n : i <= LastOf(InOrder(S, n))
           Good == {n \in Nat : Claim(n)}
<1>1. 0 \in Good
  OBVIOUS
<1>2. ASSUME NEW n \in Nat, n \in Good
      PROVE  n + 1 \in Good
  <2> DEFINE q == InOrder(S, n)
             r == InOrder(S, n + 1)
  <2>1. q \in Seq(1..n) /\ r = IF n + 1 \in S THEN Append(q, n + 1) ELSE q
    BY InOrderNext
  <2> HIDE DEF q, r
  <2>2. CASE n + 1 \in S
    <3>1. LastOf(r) = n + 1
      BY <2>1, <2>2 DEF LastOf
    <3> QED
      BY <3>1 DEF r
  <2>3. CASE n + 1 \notin S
    <3>1. r = q /\ \A i \in S \cap 1..(n + 1) : i \in S \cap 1..n
      BY <2>1, <2>3
    <3>2. \A i \in S \cap 1..n : i <= LastOf(q)
      BY <1>2 DEF q
    <3> QED
      BY <3>1, <3>2 DEF r
  <2> QED
    BY <2>2, <2>3
<1>3. \A n \in Nat : n \in Good
  <2> HIDE DEF Good
  <2> QED
    BY <1>1, <1>2, Induction
<1> QED
  BY <1>3

-----------------------------------------------------------------------------
(* What the model asks of the log, in terms of these.                      *)
LEMMA Asked ==
  ASSUME NEW from, NEW to
  PROVE  /\ Places(from, to) = InOrder(Visible(log, from, to), to)
         /\ to \in Nat => Wanted(to) = Seen(log, Prompting, start, to)
<1>1. \A f : Places(f, to) = InOrder(Visible(log, f, to), to)
  BY DEF Places, Passes, Visible
<1>2. ASSUME to \in Nat
      PROVE  Wanted(to) = Seen(log, Prompting, start, to)
  <2> DEFINE T == {i \in 1..to : Prompting => log[i] # "other"}
             S == Visible(log, start, to)
  <2>1. Wanted(to) = Kept(InOrder(S, to), T)
    BY <1>1 DEF Wanted
  <2>2. S \cap T = Due(log, Prompting, start, to)
    BY DEF Due, Visible
  <2> HIDE DEF S, T
  <2>3. Kept(InOrder(S, to), T) = InOrder(S \cap T, to)
    BY <1>2, InOrderKept
  <2> QED
    BY <2>1, <2>2, <2>3 DEF Seen
<1> QED
  BY <1>1, <1>2

LEMMA NothingSeen ==
  ASSUME NEW l, NEW p, NEW f \in Nat, NEW m \in Nat, m <= f
  PROVE  Seen(l, p, f, m) = <<>>
<1> DEFINE D == Due(l, p, f, m)
<1>1. D \in SUBSET Nat
  BY DEF Due, Visible
<1>2. \A i \in 1..m : i \in D => i <= 0
  BY DEF Due, Visible
<1>3. 0 \in Nat /\ 0 <= m
  OBVIOUS
<1>4. Seen(l, p, f, m) = InOrder(D, m)
  BY DEF Seen
<1> HIDE DEF D
<1>5. InOrder(D, m) = InOrder(D, 0)
  BY <1>1, <1>2, <1>3, InOrderNone
<1> QED
  BY <1>4, <1>5, InOrderNext

LEMMA SeenGrows ==
  ASSUME NEW l, NEW p \in BOOLEAN, NEW f \in Nat, NEW m \in Nat, NEW n \in Nat, m <= n
  PROVE  /\ Seen(l, p, f, n) = Joined(Seen(l, p, f, m), InOrder(Beyond(Due(l, p, f, n), m), n))
         /\ Visible(l, m, n) = {} => Seen(l, p, f, n) = Seen(l, p, f, m)
<1> DEFINE D == Due(l, p, f, n)
<1>1. D \in SUBSET Nat
  BY DEF Due, Visible
<1>2. Seen(l, p, f, m) = InOrder(D, m)
  <2>1. \A i \in 1..m : i \in Due(l, p, f, m) <=> i \in D
    BY DEF Due, Visible
  <2> HIDE DEF D
  <2> QED
    BY <2>1, InOrderSame DEF Seen
<1>3. InOrder(D, n) = Joined(InOrder(D, m), InOrder(Beyond(D, m), n))
  <2> HIDE DEF D
  <2> QED
    BY <1>1, InOrderSplit
<1>4. ASSUME Visible(l, m, n) = {}
      PROVE  InOrder(D, n) = InOrder(D, m)
  <2>1. \A i \in 1..n : i \in D => i <= m
    BY <1>4 DEF Due, Visible
  <2> HIDE DEF D
  <2> QED
    BY <1>1, <2>1, InOrderNone
<1>5. Seen(l, p, f, n) = InOrder(D, n)
  BY DEF Seen
<1> QED
  BY <1>2, <1>3, <1>4, <1>5

LEMMA SeenSettled ==
  ASSUME NEW l, NEW p \in BOOLEAN, NEW f \in Nat, NEW m \in Nat, NEW n \in Nat, m <= n,
         Visible(l, m, n) = {}
  PROVE  Seen(l, p, f, n) = Seen(l, p, f, m)
BY SeenGrows

(* Only what a log has up to n matters.                                    *)
LEMMA SeenSame ==
  ASSUME NEW l, NEW k, NEW n \in Nat, \A i \in 1..n : l[i] = k[i]
  PROVE  /\ \A f : Visible(l, f, n) = Visible(k, f, n)
         /\ \A p, f : Seen(l, p, f, n) = Seen(k, p, f, n)
<1>1. \A f : Visible(l, f, n) = Visible(k, f, n)
  BY DEF Visible
<1>2. \A p, f : Due(l, p, f, n) = Due(k, p, f, n)
  BY <1>1 DEF Due, Visible
<1> QED
  BY <1>1, <1>2 DEF Seen

(* The first n of the events after c: where they end, and what is due.     *)
LEMMA PageContents ==
  ASSUME NEW l, NEW p \in BOOLEAN, NEW f \in Nat, NEW c \in Nat, NEW h \in Nat, f <= c,
         NEW n \in Nat \ {0}
  PROVE  LET rest == InOrder(Visible(l, c, h), h)
             events == Upto(rest, n)
             last == LastOf(events)
         IN  /\ rest = <<>> => Visible(l, c, h) = {}
             /\ events = <<>> <=> rest = <<>>
             /\ rest # <<>> =>
                  /\ last \in 1..h /\ last > c
                  /\ Len(rest) <= n => Visible(l, last, h) = {}
                  /\ \A T : (\A i \in 1..last : i \in T <=> (p => l[i] # "other")) =>
                       Joined(Seen(l, p, f, c), Kept(events, T)) = Seen(l, p, f, last)
<1> DEFINE V == Visible(l, c, h)
           rest == InOrder(V, h)
           events == Upto(rest, n)
           last == LastOf(events)
<1>1. V \in SUBSET (1..h) /\ \A i \in V : i > c
  BY DEF Visible
<1>2. rest \in Seq(Nat) /\ \A i \in V \cap 1..h : i <= LastOf(rest)
  <2> HIDE DEF V
  <2> QED
    BY InOrderTyped, InOrderLast
<1>3. rest = <<>> => V = {}
  <2>1. rest = <<>> => LastOf(rest) = 0
    BY DEF LastOf, NoCursor
  <2> HIDE DEF rest, V
  <2> QED
    BY <1>1, <1>2, <2>1 DEF rest
<1>4. events = <<>> <=> rest = <<>>
  <2> HIDE DEF rest
  <2> QED
    BY <1>2 DEF Upto
<1>5. ASSUME rest # <<>>
      PROVE  /\ last \in 1..h /\ last > c /\ last \in V
             /\ events = InOrder(V, last)
             /\ Len(rest) <= n => last = LastOf(rest)
  <2> DEFINE k == Len(events)
  <2>1. k \in 1..Len(rest) /\ events = SubSeq(rest, 1, k) /\ last = rest[k]
        /\ (Len(rest) <= n => events = rest)
    <3> HIDE DEF rest
    <3> QED
      BY <1>2, <1>5 DEF Upto, LastOf
  <2> HIDE DEF k
  <2>2. rest[k] \in V /\ rest[k] \in 1..h /\ SubSeq(rest, 1, k) = InOrder(V, rest[k])
    <3> HIDE DEF V
    <3> QED
      BY <2>1, InOrderBeginning
  <2> HIDE DEF rest, V
  <2> QED
    BY <1>1, <2>1, <2>2
<1>6. ASSUME rest # <<>>, Len(rest) <= n
      PROVE  Visible(l, last, h) = {}
  <2>1. \A i \in V \cap 1..h : i <= last
    BY <1>2, <1>5, <1>6
  <2>2. \A i \in Visible(l, last, h) : i \in V \cap 1..h /\ i > last
    <3>1. last > c /\ last \in Nat
      BY <1>5, <1>6
    <3> HIDE DEF last
    <3> QED
      BY <3>1 DEF Visible
  <2>3. last \in Nat /\ V \cap 1..h \subseteq Nat
    BY <1>5, <1>6
  <2> HIDE DEF last, V
  <2> QED
    BY <2>1, <2>2, <2>3
<1>7. ASSUME rest # <<>>, NEW T, \A i \in 1..last : i \in T <=> (p => l[i] # "other")
      PROVE  Joined(Seen(l, p, f, c), Kept(events, T)) = Seen(l, p, f, last)
  <2> DEFINE B == Beyond(Due(l, p, f, last), c)
  <2>1. last \in Nat /\ last \in 1..h /\ c <= last /\ events = InOrder(V, last)
    BY <1>5, <1>7
  <2>2. \A i \in 1..last : i \in V \cap T <=> i \in B
    <3>1. \A i \in 1..last : i \in 1..h
      BY <2>1
    <3> HIDE DEF last
    <3> QED
      BY <1>7, <2>1, <3>1 DEF Visible, Due, Beyond
  <2> HIDE DEF B, V, last, events
  <2>3. Kept(events, T) = InOrder(V \cap T, last)
    BY <2>1, InOrderKept
  <2>4. InOrder(V \cap T, last) = InOrder(B, last)
    BY <2>1, <2>2, InOrderSame
  <2>5. Seen(l, p, f, last) = Joined(Seen(l, p, f, c), InOrder(B, last))
    BY <2>1, SeenGrows DEF B
  <2> QED
    BY <2>3, <2>4, <2>5
<1> QED
  BY <1>1, <1>3, <1>4, <1>5, <1>6, <1>7

-----------------------------------------------------------------------------
(* Types, calls and the prompt.                                            *)

LEMMA LogFacts ==
  ASSUME TypeOK
  PROVE  /\ Len(log) \in Nat /\ start \in 0..Len(log) /\ horizon \in 0..Len(log)
         /\ overAt \in 0..Len(log)
         /\ opts.limit \in Nat /\ opts.timeout \in Nat
         /\ opts.forms \subseteq {"full", "no cursor", "empty cursor", "no info", "stuck"}
         /\ opts.mode \in {"prompt", "events"} /\ opts.existing \in BOOLEAN
         /\ (Prompting => ~opts.existing) /\ Prompting \in BOOLEAN
         /\ s.cursor \in -1..Len(log) /\ s.pending \in Seq(1..Len(log))
         /\ s.after_page \in BOOLEAN /\ s.more \in BOOLEAN
<1>1. opts \in Scenarios /\ log \in Seq(opts.kinds) /\ s \in States
      /\ {start, horizon, overAt} \subseteq 0..Len(log)
  BY DEF TypeOK
<1>2. /\ opts.limit \in Nat /\ opts.timeout \in Nat
      /\ opts.forms \subseteq {"full", "no cursor", "empty cursor", "no info", "stuck"}
      /\ opts.mode \in {"prompt", "events"} /\ opts.existing \in BOOLEAN
      /\ opts.mode = "prompt" => ~opts.existing
  BY <1>1, StreamAssumption, Zenon
<1>3. Len(log) \in Nat
  BY <1>1
<1>4. /\ s.cursor \in -1..Len(log) /\ s.pending \in Seq(1..Len(log))
      /\ s.after_page \in BOOLEAN /\ s.more \in BOOLEAN
  BY <1>1 DEF States
<1>5. Prompting \in BOOLEAN
  BY DEF Prompting
<1> QED
  BY <1>1, <1>2, <1>3, <1>4, <1>5, Zenon DEF Prompting

(* A page that is not full is all there is.                                *)
LEMMA FullPages ==
  ASSUME NEW q, Len(q) \in Nat, NEW n \in Nat, q \in Seq(Nat),
         NEW info \in BOOLEAN,
         ~(IF info THEN info /\ Len(q) > n ELSE Len(Upto(q, n)) >= n)
  PROVE  Len(q) <= n
BY DEF Upto

LEMMA PlacesTyped ==
  ASSUME NEW S, NEW n \in Nat, NEW k \in Nat
  PROVE  /\ InOrder(S, n) \in Seq(1..n)
         /\ Upto(InOrder(S, n), k) \in Seq(1..n)
         /\ LastOf(InOrder(S, n)) \in 0..n
         /\ LastOf(Upto(InOrder(S, n), k)) \in 0..n
         /\ Upto(InOrder(S, n), k) # <<>> => LastOf(Upto(InOrder(S, n), k)) \in 1..n
<1> DEFINE q == InOrder(S, n)
<1>1. q \in Seq(1..n)
  BY InOrderNext
<1> HIDE DEF q
<1>2. Upto(q, k) \in Seq(1..n)
  <2>1. CASE Len(q) <= k
    BY <1>1, <2>1 DEF Upto
  <2>2. CASE ~(Len(q) <= k)
    <3>1. Len(q) \in Nat /\ k <= Len(q) /\ Upto(q, k) = SubSeq(q, 1, k)
      BY <1>1, <2>2 DEF Upto
    <3>2. \A i \in 1..k : q[i] \in 1..n
      BY <1>1, <3>1
    <3> QED
      BY <1>1, <3>1, <3>2, SubSeqProperties
  <2> QED
    BY <2>1, <2>2
<1>3. \A r \in Seq(1..n) : LastOf(r) \in 0..n /\ (r # <<>> => LastOf(r) \in 1..n)
  BY DEF LastOf, NoCursor
<1> QED
  BY <1>1, <1>2, <1>3 DEF q

LEMMA LastTyped ==
  ASSUME NEW n \in Nat, NEW q \in Seq(1..n)
  PROVE  LastOf(q) \in 0..n
BY DEF LastOf, NoCursor

LEMMA NewestTyped ==
  ASSUME Len(log) \in Nat
  PROVE  Newest \in 0..Len(log)
<1>1. LastOf(Places(0, Len(log))) \in 0..Len(log)
  BY Asked, PlacesTyped
<1> QED
  BY <1>1 DEF Newest

LEMMA PlacesAreUsable ==
  ASSUME NEW n \in Nat, NEW i \in 0..n
  PROVE  i # EmptyCursor /\ NoCursor # EmptyCursor
BY DEF NoCursor, EmptyCursor

LEMMA DescribedForms ==
  ASSUME NEW c, NEW events, NEW truncated \in BOOLEAN, NEW d \in Described(c, events, truncated)
  PROVE  \/ \E info \in BOOLEAN : \E next \in {LastOf(events), NoCursor, EmptyCursor} :
              d[2] = Page(events, info, next, info /\ truncated)
         \/ /\ d[1] = "stuck"
            /\ \E e \in {<<>>, <<c>>}, m \in BOOLEAN : d[2] = Page(e, TRUE, c, m)
<1>1. ASSUME NEW form, NEW info \in BOOLEAN, NEW next \in {LastOf(events), NoCursor, EmptyCursor},
             NEW more, more = (info /\ truncated), d = <<form, Page(events, info, next, more)>>
      PROVE  d[2] = Page(events, info, next, info /\ truncated)
  BY <1>1
<1>2. (TRUE /\ truncated) = truncated /\ (FALSE /\ truncated) = FALSE
  OBVIOUS
<1>3. CASE d = <<"full", Page(events, TRUE, LastOf(events), truncated)>>
  <2>1. d[2] = Page(events, TRUE, LastOf(events), TRUE /\ truncated)
    BY <1>1, <1>2, <1>3
  <2> QED
    BY <2>1, Zenon
<1>4. CASE d = <<"no cursor", Page(events, TRUE, NoCursor, truncated)>>
  <2>1. d[2] = Page(events, TRUE, NoCursor, TRUE /\ truncated)
    BY <1>1, <1>2, <1>4
  <2> QED
    BY <2>1, Zenon
<1>5. CASE d = <<"empty cursor", Page(events, TRUE, EmptyCursor, truncated)>>
  <2>1. d[2] = Page(events, TRUE, EmptyCursor, TRUE /\ truncated)
    BY <1>1, <1>2, <1>5
  <2> QED
    BY <2>1, Zenon
<1>6. CASE d = <<"no info", Page(events, FALSE, NoCursor, FALSE)>>
  <2>1. d[2] = Page(events, FALSE, NoCursor, FALSE /\ truncated)
    BY <1>1, <1>2, <1>6
  <2> QED
    BY <2>1, Zenon
<1>7. CASE d \in {<<"stuck", Page(t[1], TRUE, c, t[2])>> : t \in {<<>>, <<c>>} \X BOOLEAN}
  <2> DEFINE T == {<<>>, <<c>>} \X BOOLEAN
  <2>1. PICK t \in T : d = <<"stuck", Page(t[1], TRUE, c, t[2])>>
    <3> HIDE DEF T
    <3> QED
      BY <1>7 DEF T
  <2>3. PICK e \in {<<>>, <<c>>}, m \in BOOLEAN : e = t[1] /\ m = t[2]
    BY <2>1
  <2>2. d[1] = "stuck" /\ d[2] = Page(e, TRUE, c, m)
    BY <2>1, <2>3
  <2> QED
    BY <2>2, Zenon
<1> QED
  <2>1. \/ d = <<"full", Page(events, TRUE, LastOf(events), truncated)>>
        \/ d = <<"no cursor", Page(events, TRUE, NoCursor, truncated)>>
        \/ d = <<"empty cursor", Page(events, TRUE, EmptyCursor, truncated)>>
        \/ d = <<"no info", Page(events, FALSE, NoCursor, FALSE)>>
        \/ d \in {<<"stuck", Page(t[1], TRUE, c, t[2])>> : t \in {<<>>, <<c>>} \X BOOLEAN}
    BY DEF Described
  <2> QED
    BY <1>3, <1>4, <1>5, <1>6, <1>7, <2>1, Zenon

LEMMA PageTyped ==
  ASSUME NEW n \in Nat, NEW events \in Seq(1..n), NEW info \in BOOLEAN, NEW next \in -1..n,
         NEW more \in BOOLEAN
  PROVE  Page(events, info, next, more)
           \in [kind : {"page"}, events : Seq(1..n), info : BOOLEAN, next : -1..n, more : BOOLEAN]
BY DEF Page

LEMMA PageForms ==
  ASSUME TypeOK, NEW page \in Pages(s.cursor)
  PROVE  /\ page \in Replies /\ page.kind = "page"
         /\ Whole(page, log, s.cursor, Len(log)) \/ Repeated(page, s.cursor)
<1> DEFINE c == s.cursor
           n == Len(log)
           rest == Places(c, n)
           events == Upto(rest, opts.limit)
           truncated == Len(rest) > opts.limit
           PageSet == [kind : {"page"}, events : Seq(1..n), info : BOOLEAN, next : -1..n,
                       more : BOOLEAN]
<1>1. /\ n \in Nat /\ c \in -1..n /\ opts.limit \in Nat
      /\ rest = InOrder(Visible(log, c, n), n)
      /\ rest \in Seq(1..n) /\ events \in Seq(1..n) /\ LastOf(events) \in 0..n
  <2>1. n \in Nat /\ c \in -1..n /\ opts.limit \in Nat
    BY LogFacts, Zenon
  <2>2. rest = InOrder(Visible(log, c, n), n)
    BY Asked, Zenon
  <2> HIDE DEF n, c
  <2> QED
    BY <2>1, <2>2, PlacesTyped
<1>2. PICK d \in Described(c, events, truncated) :
        /\ page = d[2] /\ d[1] \in opts.forms
        /\ d[1] = "stuck" => c \notin {NoCursor, EmptyCursor}
  BY DEF Pages
<1>3. \/ \E info \in BOOLEAN : \E next \in {LastOf(events), NoCursor, EmptyCursor} :
           page = Page(events, info, next, info /\ truncated)
      \/ d[1] = "stuck" /\ \E e \in {<<>>, <<c>>}, m \in BOOLEAN : page = Page(e, TRUE, c, m)
  <2>1. truncated \in BOOLEAN
    OBVIOUS
  <2>2. d[2] = page
    BY <1>2
  <2> HIDE DEF truncated, events, rest, c
  <2>3. d \in Described(c, events, truncated) /\ truncated \in BOOLEAN
    BY <1>2, <2>1 DEF truncated, events, rest, c
  <2> QED
    BY <2>2, <2>3, DescribedForms
<1>4. CASE d[1] = "stuck" /\ \E e \in {<<>>, <<c>>}, m \in BOOLEAN : page = Page(e, TRUE, c, m)
  <2>1. PICK e \in {<<>>, <<c>>}, m \in BOOLEAN : page = Page(e, TRUE, c, m)
    BY <1>4, Zenon
  <2>2. c \in 1..n
    <3>1. c # NoCursor /\ c # EmptyCursor /\ n \in Nat /\ c \in -1..n
      BY <1>1, <1>2, <1>4
    <3> HIDE DEF c, n
    <3> QED
      BY <3>1 DEF NoCursor, EmptyCursor
  <2>3. <<>> \in Seq(1..n) /\ <<c>> \in Seq(1..n)
    <3> HIDE DEF c, n
    <3> QED
      BY <2>2
  <2>4. e \in Seq(1..n) /\ c \in -1..n
    BY <1>1, <2>1, <2>3
  <2>5. page = [kind |-> "page", events |-> e, info |-> TRUE, next |-> c, more |-> m]
    BY <2>1 DEF Page
  <2>6. page \in PageSet
    BY <1>1, <2>1, <2>4, PageTyped, Zenon
  <2>7. Repeated(page, c)
    <3>1. "stuck" \in opts.forms
      BY <1>2, <1>4
    <3>2. c >= 1
      BY <1>1, <2>2
    <3>3. page.info /\ page.next = c /\ page.events = e
      BY <2>5
    <3> QED
      BY <2>1, <3>1, <3>2, <3>3, Zenon DEF Repeated
  <2> QED
    BY <2>5, <2>6, <2>7 DEF Replies
<1>5. CASE \E info \in BOOLEAN : \E next \in {LastOf(events), NoCursor, EmptyCursor} :
             page = Page(events, info, next, info /\ truncated)
  <2>1. PICK info \in BOOLEAN, next \in {LastOf(events), NoCursor, EmptyCursor} :
          page = Page(events, info, next, info /\ truncated)
    BY <1>5, Zenon
  <2> DEFINE more == info /\ truncated
  <2>2. next \in -1..n /\ more \in BOOLEAN
    BY <1>1, <2>1 DEF NoCursor, EmptyCursor
  <2>3. page = [kind |-> "page", events |-> events, info |-> info, next |-> next, more |-> more]
    BY <2>1, Zenon DEF Page
  <2>4. page \in PageSet
    BY <1>1, <2>1, <2>2, PageTyped, Zenon
  <2>5. Whole(page, log, c, n)
    BY <1>1, <2>1, <2>3 DEF Whole
  <2> QED
    BY <2>3, <2>4, <2>5 DEF Replies
<1> QED
  BY <1>3, <1>4, <1>5

Base == TypeOK /\ CallInv /\ PromptInv

LEMMA Begins == Init => Base
<1> SUFFICES ASSUME Init
             PROVE  Base
  OBVIOUS
<1>1. Len(log) = 0 /\ log \in Seq(opts.kinds) /\ <<>> \in Seq(1..Len(log))
  BY DEF Init
<1>2. s \in States
  <2>1. 0 \in -1..Len(log) /\ <<>> \in Seq(1..Len(log)) /\ FALSE \in BOOLEAN
    BY <1>1
  <2>2. s = [cursor |-> 0, pending |-> <<>>, after_page |-> FALSE, more |-> FALSE,
             terminal_event |-> FALSE, terminal_run |-> FALSE]
    BY DEF Init, NoCursor
  <2> QED
    BY <2>1, <2>2, Zenon DEF States
<1>3. reply \in Replies /\ reply.kind = "none"
  BY DEF Init, Replies, Reply
<1>4. TypeOK
  <2>1. opts \in Scenarios /\ 0 \in 0..Len(log) /\ 0 \in 0..1
    BY <1>1 DEF Init
  <2>2. /\ at = "idle" /\ left = Unlimited /\ initialized = FALSE /\ outcome = "none"
        /\ run = "none" /\ enroute = FALSE /\ cancelled = FALSE /\ prompts = 0
        /\ delivered = <<>> /\ start = 0 /\ horizon = 0 /\ overAt = 0
    BY DEF Init
  <2> QED
    BY <1>1, <1>2, <1>3, <2>1, <2>2, Zenon DEF TypeOK
<1>5. CallInv /\ PromptInv
  BY <1>3 DEF Init, CallInv, PromptInv
<1> QED
  BY <1>4, <1>5 DEF Base

LEMMA SameLog ==
  ASSUME log' = log
  PROVE  States' = States /\ Replies' = Replies /\ Len(log)' = Len(log)
BY DEF States, Replies

LEMMA PlainReplies ==
  \A kind \in {"none", "waiting", "error", "posted", "slept"} :
    Reply(kind) \in Replies /\ Reply(kind).kind = kind
BY DEF Reply, Replies

LEMMA EndKeeps ==
  ASSUME Base, NEW how \in {"aborted", "timeout", "error", "unexpected", "config", "end"},
         initialized \/ how = "config", End(how),
         UNCHANGED <<environment, left, initialized>>
  PROVE  Base'
<1>1. /\ at' = "over" /\ outcome' = how /\ reply' = Reply("none")
      /\ UNCHANGED <<s, delivered, enroute, opts, log, run, cancelled, prompts, start, horizon,
                     overAt, left, initialized>>
  BY DEF End, environment, ghosts
<1>2. reply' \in Replies /\ reply'.kind = "none"
  BY <1>1, PlainReplies
<1>3. TypeOK'
  BY <1>1, <1>2, SameLog DEF Base, TypeOK
<1>4. CallInv'
  BY <1>1, <1>2 DEF Base, CallInv, Refused, Prompting
<1>5. PromptInv'
  BY <1>1, <1>2 DEF Base, CallInv, PromptInv
<1> QED
  BY <1>3, <1>4, <1>5 DEF Base

LEMMA GotoKeeps ==
  ASSUME Base, at # "over", initialized,
         NEW place \in {"post", "status", "pause", "page", "idle", "loop"}, NEW state \in States,
         place \in {"post", "status"} => Prompting, place = "post" => at = "latest",
         Goto(place, state), UNCHANGED <<environment, left, initialized>>
  PROVE  Base'
<1>1. /\ at' = place /\ s' = state /\ reply' = Reply("none")
      /\ UNCHANGED <<outcome, delivered, enroute, opts, log, run, cancelled, prompts, start,
                     horizon, overAt, left, initialized>>
  BY DEF Goto, environment, ghosts
<1>2. reply' \in Replies /\ reply'.kind = "none"
  BY <1>1, PlainReplies
<1>3. TypeOK'
  BY <1>1, <1>2, SameLog DEF Base, TypeOK, Calls
<1>4. CallInv'
  BY <1>1, <1>2 DEF Base, CallInv, Refused, Prompting
<1>5. PromptInv'
  BY <1>1, <1>2 DEF Base, PromptInv
<1> QED
  BY <1>3, <1>4, <1>5 DEF Base

(* The consumer.                                                           *)
LEMMA PollKeeps ==
  ASSUME Base, Poll
  PROVE  Base'
<1>1. s \in States /\ at = "idle" /\ UNCHANGED environment
  BY DEF Base, TypeOK, Poll
<1>2. CASE initialized /\ Goto("loop", s) /\ UNCHANGED <<left, initialized>>
  BY <1>1, <1>2, GotoKeeps
<1>3. CASE ~initialized /\ End("config") /\ UNCHANGED <<left, initialized>>
  BY <1>1, <1>3, EndKeeps
<1>4. CASE /\ ~initialized /\ ~Refused /\ initialized' = TRUE
           /\ left' = IF opts.timeout = 0 THEN Unlimited ELSE opts.timeout
           /\ Goto(IF opts.existing THEN "loop" ELSE "latest", s)
  <2>1. /\ at' \in {"loop", "latest"} /\ reply' = Reply("none")
        /\ UNCHANGED <<s, outcome, delivered, enroute, opts, log, run, cancelled, prompts, start,
                       horizon, overAt>>
    BY <1>1, <1>4 DEF Goto, environment, ghosts
  <2>2. reply' \in Replies /\ reply'.kind = "none"
    BY <2>1, PlainReplies
  <2>3. left' \in {Unlimited} \cup 0..opts.timeout
    <3>1. opts.timeout \in Nat
      BY LogFacts, Zenon DEF Base
    <3>2. opts.timeout \in 0..opts.timeout
      BY <3>1
    <3> QED
      BY <1>4, <3>2, Zenon
  <2>4. TypeOK'
    BY <1>1, <1>4, <2>1, <2>2, <2>3, SameLog DEF Base, TypeOK, Calls
  <2>5. CallInv'
    BY <1>4, <2>1, <2>2 DEF Base, CallInv, Refused
  <2>6. PromptInv'
    BY <1>1, <1>4, <2>1, <2>2 DEF Base, PromptInv
  <2> QED
    BY <2>4, <2>5, <2>6 DEF Base
<1> QED
  BY <1>2, <1>3, <1>4 DEF Poll

(* The calls of the stream.                                                *)
LEMMA BeginKeeps ==
  ASSUME Base, Begin
  PROVE  Base'
<1>1. at \in Calls /\ reply.kind = "none" /\ UNCHANGED <<environment, left, initialized>>
  BY DEF Begin, Run
<1>2. initialized
  BY <1>1 DEF Base, CallInv, Calls
<1>3. CASE End("aborted") \/ End("timeout")
  BY <1>1, <1>2, <1>3, EndKeeps
<1>4. CASE /\ reply' = Reply("waiting")
           /\ enroute' = (at = "post" \/ enroute)
           /\ UNCHANGED <<at, s, outcome, delivered>>
  <2>1. UNCHANGED <<opts, log, run, cancelled, prompts, start, horizon, overAt>>
    BY <1>1 DEF environment, ghosts
  <2>2. reply' \in Replies /\ reply'.kind = "waiting"
    BY <1>4, PlainReplies
  <2>3. TypeOK'
    BY <1>1, <1>4, <2>1, <2>2, SameLog DEF Base, TypeOK
  <2>4. CallInv'
    BY <1>1, <1>4, <2>1, <2>2 DEF Base, CallInv, Refused, Prompting
  <2>5. PromptInv'
    <3>1. PromptInv /\ enroute \in BOOLEAN /\ at \in Calls /\ reply.kind = "none"
      BY <1>1 DEF Base, TypeOK
    <3>2. CASE at = "post"
      <4>1. prompts = 0 /\ ~enroute /\ enroute' = TRUE
        BY <1>2, <1>4, <3>1, <3>2 DEF PromptInv
      <4>2. prompts' + (IF enroute' THEN 1 ELSE 0) <= 1
        BY <2>1, <4>1
      <4>3. at' = "post" /\ reply'.kind # "none" /\ initialized'
        BY <1>1, <1>2, <1>4, <2>2, <3>2
      <4> QED
        BY <4>2, <4>3, Zenon DEF PromptInv
    <3>3. CASE at # "post"
      <4>1. enroute' = enroute
        BY <1>4, <3>1, <3>3
      <4>2. prompts' + (IF enroute' THEN 1 ELSE 0) <= 1
        BY <2>1, <3>1, <4>1 DEF PromptInv
      <4>3. at' = at /\ initialized' /\ prompts' = prompts
        BY <1>1, <1>2, <1>4, <2>1, Zenon
      <4> QED
        BY <3>1, <3>3, <4>1, <4>2, <4>3, Zenon DEF PromptInv
    <3> QED
      BY <3>2, <3>3
  <2> QED
    BY <2>3, <2>4, <2>5 DEF Base
<1> QED
  BY <1>3, <1>4 DEF Begin, Run

LEMMA ReplyFields ==
  ASSUME TypeOK
  PROVE  /\ reply.kind \in {"none", "waiting", "error", "posted", "slept", "latest", "status", "page"}
         /\ reply.kind = "latest" => reply.event \in 0..Len(log) /\ reply.next \in -1..Len(log)
         /\ reply.kind = "status" => reply.status \in {"none", "queued", "finished", "failed"}
         /\ reply.kind = "page" =>
              /\ reply.events \in Seq(1..Len(log)) /\ reply.info \in BOOLEAN
              /\ reply.next \in -1..Len(log) /\ reply.more \in BOOLEAN
BY DEF TypeOK, Replies

(* Whatever the stream does, it does after its first poll and before it is *)
(* over, and what is not its own stays.                                    *)
Still == UNCHANGED <<environment, left, initialized>>
Ended == \E how \in {"aborted", "timeout", "error", "unexpected"} : End(how)

LEMMA CodeIsAlive ==
  ASSUME Base, Code
  PROVE  initialized /\ at \notin {"idle", "over"} /\ Still
<1>1. at \in Calls \/ at = "loop"
  BY DEF Code, Begin, Interrupt, CallFailed, Latest, Posted, Yield, Continue, Status, Slept,
         PageArrived, Waiting, Base, TypeOK
<1>2. Still
  BY DEF Code, Begin, Interrupt, CallFailed, Latest, Posted, Yield, Continue, Status, Slept,
         PageArrived, Run, Checked, Still
<1> QED
  BY <1>1, <1>2 DEF Calls, Base, CallInv

(* What the code does with an answer, unless it ends.                      *)
LEMMA LatestStep ==
  ASSUME Base, Latest
  PROVE  /\ at = "latest"
         /\ \/ Ended
            \/ \E cursor \in -1..Len(log) :
                 /\ cursor = reply.event \/ (cursor = reply.next /\ cursor # NoCursor)
                 /\ Goto(IF Prompting THEN "post" ELSE "loop", [s EXCEPT !.cursor = cursor])
<1> DEFINE cursor == IF reply.event = 0 THEN NoCursor
                     ELSE IF Usable(reply.event) THEN reply.event
                     ELSE reply.next
<1>1. reply.kind = "latest" /\ at = "latest"
  BY DEF Latest, Base, CallInv
<1>2. reply.event \in 0..Len(log) /\ reply.next \in -1..Len(log) /\ Len(log) \in Nat
  BY <1>1, ReplyFields, LogFacts DEF Base
<1>3. \/ End("aborted") \/ End("timeout")
      \/ IF reply.event # 0 /\ cursor = NoCursor THEN End("unexpected")
         ELSE Goto(IF Prompting THEN "post" ELSE "loop", [s EXCEPT !.cursor = cursor])
  BY Zenon DEF Latest, Run
<1>4. cursor \in -1..Len(log) /\ (cursor = reply.event \/ cursor = reply.next)
  BY <1>2 DEF NoCursor
<1>5. reply.event = 0 => cursor = reply.event
  BY DEF NoCursor
<1> HIDE DEF cursor
<1> QED
  BY <1>1, <1>3, <1>4, <1>5, Zenon DEF Ended

LEMMA YieldStep ==
  ASSUME Base, Yield
  PROVE  /\ at = "loop" /\ s.pending # <<>>
         /\ \/ Ended
            \/ /\ at' = "idle"
               /\ delivered' = Append(delivered, Head(s.pending))
               /\ s' = [s EXCEPT !.pending = Tail(@),
                                 !.terminal_event = @ \/ (Prompting /\ Final(Head(s.pending)))]
               /\ UNCHANGED <<reply, outcome, enroute>>
BY Zenon DEF Yield, Checked, Run, Ended

LEMMA ContinueStep ==
  ASSUME Base, Continue
  PROVE  /\ at = "loop" /\ s.pending = <<>>
         /\ \/ Ended
            \/ /\ End("end") /\ s.after_page /\ ~s.more /\ Prompting
            \/ \E place \in {"status", "pause", "page"} :
                 Goto(place, s) /\ (place = "status" => Prompting)
BY Zenon DEF Continue, Checked, Run, Ended

LEMMA StatusStep ==
  ASSUME Base, Status
  PROVE  /\ at = "status" /\ reply.kind = "status"
         /\ \/ Ended
            \/ IsTerminal(reply.status) /\ Goto("page", [s EXCEPT !.terminal_run = TRUE])
            \/ ~IsTerminal(reply.status) /\ Goto("pause", s)
BY Zenon DEF Status, Run, Ended, Base, CallInv, AfterTerminalRun

LEMMA HasMoreTyped ==
  ASSUME reply.info \in BOOLEAN, reply.more \in BOOLEAN
  PROVE  (IF reply.info THEN reply.more ELSE Len(reply.events) >= opts.limit) \in BOOLEAN
<1>1. CASE reply.info
  <2>1. reply.more = TRUE \/ reply.more = FALSE
    BY Zenon
  <2> QED
    BY <1>1, <2>1
<1>2. CASE ~reply.info
  <2>1. CASE Len(reply.events) >= opts.limit
    BY <1>2, <2>1
  <2>2. CASE ~(Len(reply.events) >= opts.limit)
    BY <1>2, <2>2
  <2> QED
    BY <2>1, <2>2
<1> QED
  BY <1>1, <1>2

(* The page is dropped with an error, changes nothing but is noted, or     *)
(* moves the cursor to an event it names.                                  *)
LEMMA PageStep ==
  ASSUME Base, PageArrived
  PROVE  LET mine == {i \in 1..Len(log) : Mine(i)}
             has_more == IF reply.info THEN reply.more ELSE Len(reply.events) >= opts.limit
             next == IF reply.next \notin {NoCursor, EmptyCursor} THEN reply.next
                     ELSE LastOf(reply.events)
         IN  /\ at = "page" /\ reply.kind = "page"
             /\ \/ Ended
                \/ /\ reply.events = <<>> /\ ~has_more
                   /\ Goto("loop", [s EXCEPT !.more = FALSE, !.pending = Kept(<<>>, mine),
                                             !.after_page = TRUE])
                \/ /\ reply.events # <<>> \/ has_more
                   /\ next \notin {NoCursor, s.cursor} /\ next \in -1..Len(log)
                   /\ Goto("loop", [s EXCEPT !.cursor = next, !.more = has_more,
                                             !.pending = Kept(reply.events, mine),
                                             !.after_page = TRUE])
<1> DEFINE mine == {i \in 1..Len(log) : Mine(i)}
           has_more == IF reply.info THEN reply.more ELSE Len(reply.events) >= opts.limit
           last == LastOf(reply.events)
           next == IF reply.next \notin {NoCursor, EmptyCursor} THEN reply.next
                   ELSE IF last # NoCursor /\ Usable(last) THEN last ELSE NoCursor
           named == IF reply.next \notin {NoCursor, EmptyCursor} THEN reply.next ELSE last
           advances == reply.events # <<>> \/ has_more
           state == [s EXCEPT !.cursor = IF advances THEN next ELSE @,
                              !.more = has_more,
                              !.pending = Kept(reply.events, mine),
                              !.after_page = TRUE]
           noted == [s EXCEPT !.more = FALSE, !.pending = Kept(<<>>, mine), !.after_page = TRUE]
           moved == [s EXCEPT !.cursor = named, !.more = has_more,
                              !.pending = Kept(reply.events, mine), !.after_page = TRUE]
           Result == \/ Ended
                     \/ reply.events = <<>> /\ ~has_more /\ Goto("loop", noted)
                     \/ /\ reply.events # <<>> \/ has_more
                        /\ named \notin {NoCursor, s.cursor} /\ named \in -1..Len(log)
                        /\ Goto("loop", moved)
<1>1. reply.kind = "page" /\ at = "page" /\ s \in States
  BY DEF PageArrived, Base, CallInv, TypeOK
<1>2. /\ reply.events \in Seq(1..Len(log)) /\ reply.info \in BOOLEAN
      /\ reply.next \in -1..Len(log) /\ reply.more \in BOOLEAN
      /\ Len(log) \in Nat /\ opts.limit \in Nat
  BY <1>1, ReplyFields, LogFacts DEF Base
<1>3. \/ End("aborted") \/ End("timeout")
      \/ advances /\ Stalled(next) /\ End("unexpected")
      \/ ~(advances /\ Stalled(next)) /\ Goto("loop", state)
  BY Zenon DEF PageArrived, Run
<1>4. next # NoCursor => next = named
  BY DEF NoCursor
<1>5. named \in -1..Len(log)
  BY <1>2 DEF LastOf, NoCursor
<1>6. has_more \in BOOLEAN
  BY <1>2, HasMoreTyped
<1>7. ASSUME ~advances PROVE Result
  <2>1. reply.events = <<>> /\ ~has_more /\ has_more = FALSE
    BY <1>6, <1>7
  <2>2. state = noted
    <3> HIDE DEF has_more, mine
    <3> QED
      BY <1>1, <1>7, <2>1, Zenon DEF States
  <2>3. reply.events = <<>> /\ ~has_more /\ ~(advances /\ Stalled(next)) /\ ~advances
    BY <1>7
  <2> HIDE DEF state, advances, has_more, next, noted, moved, named
  <2> QED
    BY <1>3, <2>2, <2>3, Zenon DEF Ended
<1>8. ASSUME advances, ~Stalled(next) PROVE Result
  <2>1. next \notin {NoCursor, s.cursor}
    BY <1>8 DEF Stalled
  <2>2. named = next
    BY <1>4, <2>1
  <2>3. state = moved
    <3> HIDE DEF has_more, mine, next, named
    <3> QED
      BY <1>8, <2>2, Zenon
  <2>4. reply.events # <<>> \/ has_more
    BY <1>8
  <2>5. named \notin {NoCursor, s.cursor} /\ named \in -1..Len(log)
    BY <1>5, <2>1, <2>2
  <2> HIDE DEF state, advances, next, named, has_more, noted, moved
  <2> QED
    BY <1>3, <1>8, <2>3, <2>4, <2>5, Zenon DEF Ended
<1>9. ASSUME advances, Stalled(next) PROVE Result
  <2> HIDE DEF state, advances, next, named, has_more, noted, moved
  <2> QED
    BY <1>3, <1>9, Zenon DEF Ended
<1>10. Result
  <2> HIDE DEF Result
  <2> QED
    BY <1>7, <1>8, <1>9
<1> QED
  BY <1>1, <1>10

LEMMA EndedKeeps ==
  ASSUME Base, initialized, Still, Ended
  PROVE  Base'
BY EndKeeps DEF Ended, Still

LEMMA LoopKeeps ==
  ASSUME Base, initialized, at # "over", Still,
         NEW place \in {"post", "status", "pause", "page", "idle", "loop"}, NEW state \in States,
         place \in {"post", "status"} => Prompting, place = "post" => at = "latest",
         Goto(place, state)
  PROVE  Base'
BY GotoKeeps DEF Still

LEMMA CodeKeeps ==
  ASSUME Base, Code
  PROVE  Base'
<1>1. initialized /\ at # "over" /\ Still /\ s \in States /\ TypeOK
  BY CodeIsAlive DEF Base, TypeOK
<1>2. Len(log) \in Nat /\ Prompting \in BOOLEAN /\ opts.limit \in Nat
  BY <1>1, LogFacts
<1>3. ASSUME Ended
      PROVE  Base'
  BY <1>1, <1>3, EndedKeeps
<1>4. CASE Begin
  BY <1>4, BeginKeeps
<1>5. CASE Interrupt
  BY <1>3, <1>5, Zenon DEF Interrupt, Run, Ended
<1>6. CASE CallFailed
  BY <1>3, <1>6, Zenon DEF CallFailed, Run, Ended, OnFailure
<1>7. CASE Latest
  <2>1. at = "latest"
    BY <1>7, LatestStep
  <2>2. ASSUME NEW cursor \in -1..Len(log),
               Goto(IF Prompting THEN "post" ELSE "loop", [s EXCEPT !.cursor = cursor])
        PROVE  Base'
    <3>1. [s EXCEPT !.cursor = cursor] \in States
      BY <1>1, <2>2, Zenon DEF States
    <3>2. CASE Prompting
      <4>1. Goto("post", [s EXCEPT !.cursor = cursor])
        BY <2>2, <3>2
      <4> QED
        BY <1>1, <2>1, <3>1, <3>2, <4>1, LoopKeeps
    <3>3. CASE ~Prompting
      <4>1. Goto("loop", [s EXCEPT !.cursor = cursor])
        BY <2>2, <3>3
      <4> QED
        BY <1>1, <2>1, <3>1, <3>3, <4>1, LoopKeeps
    <3> QED
      BY <3>2, <3>3
  <2> QED
    BY <1>3, <1>7, <2>2, LatestStep
<1>8. CASE Posted
  <2>1. Ended \/ Goto("loop", s)
    BY <1>8, Zenon DEF Posted, Run, Ended
  <2> QED
    BY <1>1, <1>3, <2>1, LoopKeeps
<1>9. CASE Slept
  <2>1. Ended \/ Goto("page", s)
    BY <1>9, Zenon DEF Slept, Run, Ended
  <2> QED
    BY <1>1, <1>3, <2>1, LoopKeeps
<1>10. CASE Continue
  <2>1. \/ Ended \/ End("end")
        \/ \E place \in {"status", "pause", "page"} :
             Goto(place, s) /\ (place = "status" => Prompting)
    BY <1>10, ContinueStep
  <2>2. CASE End("end")
    BY <1>1, <2>2, EndKeeps DEF Still
  <2>3. ASSUME NEW place \in {"status", "pause", "page"}, Goto(place, s),
               place = "status" => Prompting
        PROVE  Base'
    BY <1>1, <2>3, LoopKeeps
  <2> QED
    BY <1>3, <2>1, <2>2, <2>3, Zenon
<1>11. CASE Status
  <2>1. [s EXCEPT !.terminal_run = TRUE] \in States
    BY <1>1, Zenon DEF States
  <2>2. Ended \/ Goto("page", [s EXCEPT !.terminal_run = TRUE]) \/ Goto("pause", s)
    BY <1>11, StatusStep
  <2>3. CASE Goto("page", [s EXCEPT !.terminal_run = TRUE])
    BY <1>1, <2>1, <2>3, LoopKeeps
  <2>4. CASE Goto("pause", s)
    BY <1>1, <2>4, LoopKeeps
  <2> QED
    BY <1>3, <2>2, <2>3, <2>4
<1>12. CASE PageArrived
  <2> DEFINE mine == {i \in 1..Len(log) : Mine(i)}
             has_more == IF reply.info THEN reply.more ELSE Len(reply.events) >= opts.limit
             next == IF reply.next \notin {NoCursor, EmptyCursor} THEN reply.next
                     ELSE LastOf(reply.events)
             noted == [s EXCEPT !.more = FALSE, !.pending = Kept(<<>>, mine),
                                !.after_page = TRUE]
             moved == [s EXCEPT !.cursor = next, !.more = has_more,
                                !.pending = Kept(reply.events, mine), !.after_page = TRUE]
  <2>1. \/ Ended
        \/ Goto("loop", noted)
        \/ next \in -1..Len(log) /\ Goto("loop", moved)
    BY <1>12, PageStep
  <2>2. reply.events \in Seq(1..Len(log)) /\ <<>> \in Seq(1..Len(log))
        /\ reply.info \in BOOLEAN /\ reply.more \in BOOLEAN
    BY <1>1, <1>12, ReplyFields DEF PageArrived
  <2>3. Kept(<<>>, mine) \in Seq(1..Len(log)) /\ Kept(reply.events, mine) \in Seq(1..Len(log))
    BY <2>2, KeptTyped
  <2>4. has_more \in BOOLEAN
    BY <2>2, HasMoreTyped
  <2> HIDE DEF mine, has_more, next
  <2>5. noted \in States
    BY <1>1, <2>3, Zenon DEF States
  <2>6. next \in -1..Len(log) => moved \in States
    BY <1>1, <2>3, <2>4, Zenon DEF States
  <2> HIDE DEF noted, moved
  <2>7. CASE Goto("loop", noted)
    BY <1>1, <2>5, <2>7, LoopKeeps
  <2>8. CASE next \in -1..Len(log) /\ Goto("loop", moved)
    BY <1>1, <2>6, <2>8, LoopKeeps
  <2> QED
    BY <1>3, <2>1, <2>7, <2>8
<1>13. CASE Yield
  <2>1. \/ Ended
        \/ /\ at' = "idle"
           /\ delivered' = Append(delivered, Head(s.pending))
           /\ s' = [s EXCEPT !.pending = Tail(@),
                             !.terminal_event = @ \/ (Prompting /\ Final(Head(s.pending)))]
           /\ UNCHANGED <<reply, outcome, enroute>>
    BY <1>13, YieldStep
  <2>2. s.pending # <<>> /\ s.pending \in Seq(1..Len(log)) /\ at = "loop"
    BY <1>1, <1>13, YieldStep, LogFacts
  <2>3. CASE /\ at' = "idle"
             /\ delivered' = Append(delivered, Head(s.pending))
             /\ s' = [s EXCEPT !.pending = Tail(@),
                               !.terminal_event = @ \/ (Prompting /\ Final(Head(s.pending)))]
             /\ UNCHANGED <<reply, outcome, enroute>>
    <3>1. Tail(s.pending) \in Seq(1..Len(log)) /\ Head(s.pending) \in 1..Len(log)
      BY <2>2, HeadTailProperties, Zenon
    <3>2. delivered' \in Seq(1..Len(log))
      BY <1>1, <2>3, <3>1 DEF TypeOK
    <3>3. s' \in States
      <4> DEFINE final == s.terminal_event \/ (Prompting /\ Final(Head(s.pending)))
      <4>1. final \in BOOLEAN
        OBVIOUS
      <4>2. s' = [s EXCEPT !.pending = Tail(s.pending), !.terminal_event = final]
        BY <2>3
      <4> HIDE DEF final
      <4> QED
        BY <1>1, <3>1, <4>1, <4>2, Zenon DEF States
    <3>4. UNCHANGED <<opts, log, run, cancelled, prompts, start, horizon, overAt, left,
                      initialized>>
      BY <1>1 DEF Still, environment, ghosts
    <3>5. TypeOK'
      BY <1>1, <2>2, <2>3, <3>2, <3>3, <3>4, SameLog DEF TypeOK, Calls
    <3>6. CallInv' /\ PromptInv'
      BY <1>1, <2>2, <2>3, <3>4 DEF Base, CallInv, PromptInv, Refused, Prompting
    <3> QED
      BY <3>5, <3>6 DEF Base
  <2> QED
    BY <1>3, <2>1, <2>3
<1> QED
  BY <1>4, <1>5, <1>6, <1>7, <1>8, <1>9, <1>10, <1>11, <1>12, <1>13 DEF Code

(* The service, the consumer's token, and time.                            *)
LEMMA AnswerKeeps ==
  ASSUME Base, Answer
  PROVE  Base'
<1>1. /\ UNCHANGED <<opts, at, left, initialized, s, outcome, delivered, log, run, enroute,
                     cancelled, prompts>>
      /\ reply.kind = "waiting" /\ at \in Calls /\ TypeOK
  BY DEF Answer, client, Waiting, Base, TypeOK
<1>2. Len(log) \in Nat /\ Newest \in 0..Len(log) /\ run \in {"none", "queued", "finished", "failed"}
  <2>1. Len(log) \in Nat
    BY <1>1, LogFacts
  <2> QED
    BY <1>1, <2>1, NewestTyped DEF TypeOK
<1>3. /\ reply' \in Replies
      /\ {start, horizon, overAt}' \subseteq 0..Len(log)
      /\ reply'.kind = "error"
         \/ (reply'.kind = "latest" /\ at = "latest") \/ (reply'.kind = "posted" /\ at = "post")
         \/ (reply'.kind = "status" /\ at = "status") \/ (reply'.kind = "slept" /\ at = "pause")
         \/ (reply'.kind = "page" /\ at = "page")
  <2>0. {start, horizon, overAt} \subseteq 0..Len(log) /\ Len(log) \in 0..Len(log)
    BY <1>1, <1>2 DEF TypeOK
  <2>1. CASE reply' = Reply("error") /\ UNCHANGED <<start, horizon, overAt>>
    BY <2>0, <2>1, PlainReplies
  <2>2. CASE /\ at = "latest"
             /\ \E c \in NewestCursors :
                  reply' = [kind |-> "latest", event |-> Newest, next |-> c]
             /\ start' = Newest /\ UNCHANGED <<horizon, overAt>>
    <3>1. PICK c \in NewestCursors : reply' = [kind |-> "latest", event |-> Newest, next |-> c]
      BY <2>2, Zenon
    <3>2. c \in -1..Len(log)
      <4>1. c \in {Newest, EmptyCursor, NoCursor}
        BY <3>1, Zenon DEF NewestCursors
      <4> QED
        BY <1>2, <4>1 DEF NoCursor, EmptyCursor
    <3>3. reply' \in Replies
      BY <1>2, <3>1, <3>2 DEF Replies
    <3> QED
      BY <1>2, <2>0, <2>2, <3>1, <3>3
  <2>3. CASE at = "post" /\ reply' = Reply("posted") /\ UNCHANGED <<start, horizon, overAt>>
    BY <2>0, <2>3, PlainReplies
  <2>4. CASE /\ at = "status"
             /\ reply' = [kind |-> "status", status |-> run]
             /\ overAt' = IF run \in {"finished", "failed"} THEN Len(log) ELSE overAt
             /\ UNCHANGED <<start, horizon>>
    <3>1. reply' \in Replies /\ reply'.kind = "status"
      BY <1>2, <2>4 DEF Replies
    <3>2. overAt' \in 0..Len(log)
      BY <2>0, <2>4
    <3> QED
      BY <2>0, <2>4, <3>1, <3>2
  <2>5. CASE at = "pause" /\ reply' = Reply("slept") /\ UNCHANGED <<start, horizon, overAt>>
    BY <2>0, <2>5, PlainReplies
  <2>6. CASE /\ at = "page" /\ reply' \in Pages(s.cursor)
             /\ horizon' = Len(log) /\ UNCHANGED <<start, overAt>>
    <3>1. reply' \in Replies /\ reply'.kind = "page"
      BY <1>1, <2>6, PageForms
    <3> QED
      BY <2>0, <2>6, <3>1
  <2> QED
    BY <2>1, <2>2, <2>3, <2>4, <2>5, <2>6, Zenon DEF Answer
<1>4. TypeOK'
  BY <1>1, <1>3, SameLog DEF TypeOK
<1>5. CallInv'
  BY <1>1, <1>3 DEF Base, CallInv, Refused, Prompting
<1>6. PromptInv'
  <2>1. at = "post" => reply.kind # "none"
    BY <1>1
  <2>2. prompts' + (IF enroute' THEN 1 ELSE 0) <= 1
    BY <1>1 DEF Base, PromptInv
  <2>3. reply'.kind # "none"
    BY <1>3
  <2> QED
    BY <1>1, <2>2, <2>3, Zenon DEF Base, PromptInv
<1> QED
  BY <1>4, <1>5, <1>6 DEF Base

LEMMA PersistKeeps ==
  ASSUME Base, NEW kind \in opts.kinds, Persist(kind)
  PROVE  Base'
<1>1. /\ log' = Append(log, kind) /\ log \in Seq(opts.kinds) /\ TypeOK
      /\ UNCHANGED <<opts, at, left, initialized, s, outcome, delivered, reply, run, enroute,
                     cancelled, prompts, start, horizon, overAt>>
  BY DEF Persist, client, ghosts, Base, TypeOK
<1>2. log' \in Seq(opts.kinds) /\ Len(log) \in Nat /\ Len(log') = Len(log) + 1
  BY <1>1
<1>3. /\ 1..Len(log) \subseteq 1..Len(log') /\ 0..Len(log) \subseteq 0..Len(log')
      /\ -1..Len(log) \subseteq -1..Len(log')
  BY <1>2
<1>4. Seq(1..Len(log)) \subseteq Seq(1..Len(log'))
  <2>1. ASSUME NEW q \in Seq(1..Len(log))
        PROVE  q \in Seq(1..Len(log'))
    <3>1. q \in [1..Len(q) -> 1..Len(log')] /\ Len(q) \in Nat
      BY <1>3
    <3>2. \A n \in Nat : [1..n -> 1..Len(log')] \subseteq Seq(1..Len(log'))
      BY SeqDef
    <3> QED
      BY <3>1, <3>2, Zenon
  <2> QED
    BY <2>1
<1>5. States \subseteq States'
  <2>1. States' = [cursor : -1..Len(log'), pending : Seq(1..Len(log')), after_page : BOOLEAN,
                   more : BOOLEAN, terminal_event : BOOLEAN, terminal_run : BOOLEAN]
    BY DEF States
  <2> QED
    BY <1>3, <1>4, <2>1, Zenon DEF States
<1>6. Replies \subseteq Replies'
  <2>1. Replies' =
          [kind : {"none", "waiting", "error", "posted", "slept"}]
          \cup [kind : {"latest"}, event : 0..Len(log'), next : -1..Len(log')]
          \cup [kind : {"status"}, status : {"none", "queued", "finished", "failed"}]
          \cup [kind : {"page"}, events : Seq(1..Len(log')), info : BOOLEAN,
                next : -1..Len(log'), more : BOOLEAN]
    BY DEF Replies
  <2>2. [kind : {"latest"}, event : 0..Len(log), next : -1..Len(log)]
          \subseteq [kind : {"latest"}, event : 0..Len(log'), next : -1..Len(log')]
    BY <1>3, Zenon
  <2>3. [kind : {"page"}, events : Seq(1..Len(log)), info : BOOLEAN,
         next : -1..Len(log), more : BOOLEAN]
          \subseteq [kind : {"page"}, events : Seq(1..Len(log')), info : BOOLEAN,
                     next : -1..Len(log'), more : BOOLEAN]
    BY <1>3, <1>4, Zenon
  <2> QED
    BY <2>1, <2>2, <2>3, Zenon DEF Replies
<1>7. /\ s \in States' /\ reply \in Replies' /\ delivered \in Seq(1..Len(log'))
      /\ {start, horizon, overAt} \subseteq 0..Len(log')
  BY <1>1, <1>3, <1>4, <1>5, <1>6, Zenon DEF TypeOK
<1>8. TypeOK'
  BY <1>1, <1>2, <1>7 DEF TypeOK
<1>9. CallInv' /\ PromptInv'
  BY <1>1 DEF Base, CallInv, PromptInv, Refused, Prompting
<1> QED
  BY <1>8, <1>9 DEF Base

LEMMA OthersKeep ==
  ASSUME Base, Accept \/ RunOver \/ Cancel \/ Tick \/ UNCHANGED vars
  PROVE  Base'
<1>1. /\ UNCHANGED <<opts, at, initialized, s, outcome, delivered, reply, log, start, horizon,
                     overAt>>
      /\ TypeOK
  BY DEF Accept, RunOver, Cancel, Tick, environment, client, vars, ghosts, Base
<1>2. opts.timeout \in Nat
  BY <1>1, LogFacts
<1>3. CASE Accept
  <2>1. enroute /\ enroute' = FALSE /\ run' = "queued" /\ prompts' = prompts + 1
        /\ UNCHANGED <<left, cancelled>>
    BY <1>3 DEF Accept, client
  <2>2. prompts = 0
    BY <1>1, <2>1 DEF Base, PromptInv, TypeOK
  <2>3. TypeOK'
    <3>1. prompts' \in 0..1 /\ run' \in {"none", "queued", "finished", "failed"}
      BY <2>1, <2>2
    <3> QED
      BY <1>1, <2>1, <3>1, SameLog, Zenon DEF TypeOK
  <2>4. CallInv'
    BY <1>1, <2>1 DEF Base, CallInv, Refused, Prompting
  <2>5. PromptInv'
    <3>1. ~(~initialized \/ at = "latest" \/ (at = "post" /\ reply.kind = "none"))
      BY <2>1, Zenon DEF Base, PromptInv
    <3>2. prompts' + (IF enroute' THEN 1 ELSE 0) <= 1
      BY <2>1, <2>2
    <3> QED
      BY <1>1, <3>1, <3>2, Zenon DEF Base, PromptInv
  <2> QED
    BY <2>3, <2>4, <2>5 DEF Base
<1>4. CASE RunOver \/ Cancel \/ UNCHANGED vars
  <2>1. /\ UNCHANGED <<left, enroute, prompts>>
        /\ run' \in {"none", "queued", "finished", "failed"} /\ cancelled' \in BOOLEAN
    BY <1>1, <1>4 DEF RunOver, Cancel, vars, client, ghosts, TypeOK
  <2>2. TypeOK'
    BY <1>1, <2>1, SameLog DEF TypeOK
  <2>3. CallInv' /\ PromptInv'
    BY <1>1, <2>1 DEF Base, CallInv, PromptInv, Refused, Prompting
  <2> QED
    BY <2>2, <2>3 DEF Base
<1>5. CASE Tick
  <2>1. left > 0 /\ left' = left - 1 /\ UNCHANGED <<run, enroute, cancelled, prompts>>
    BY <1>5 DEF Tick, environment, ghosts
  <2>2. left' \in {Unlimited} \cup 0..opts.timeout
    BY <1>1, <1>2, <2>1 DEF TypeOK, Unlimited
  <2>3. TypeOK'
    BY <1>1, <2>1, <2>2, SameLog DEF TypeOK
  <2>4. initialized
    BY <2>1 DEF Base, CallInv, Unlimited
  <2>5. CallInv' /\ PromptInv'
    BY <1>1, <2>1, <2>4 DEF Base, CallInv, PromptInv, Refused, Prompting
  <2> QED
    BY <2>3, <2>5 DEF Base
<1> QED
  BY <1>3, <1>4, <1>5

LEMMA NextKeeps ==
  ASSUME Base, [Next]_vars
  PROVE  Base'
BY PollKeeps, CodeKeeps, AnswerKeeps, PersistKeeps, OthersKeep DEF Next, Fused

(* The shape of a stream's state holds always.                             *)
THEOREM AlwaysBase == Spec => []Base
<1>1. Init => Base
  BY Begins
<1>2. Base /\ [Next]_vars => Base'
  BY NextKeeps
<1> QED
  BY <1>1, <1>2, PTL DEF Spec

(* TypeOK: the cursor is a place of the log, answers are for the call that *)
(* is made, and a stream is over as soon as it has an outcome              *)
(* (make_stream).                                                          *)
THEOREM StreamTypeCorrect == Spec => []TypeOK
<1>1. Base => TypeOK
  BY DEF Base
<1> QED
  BY <1>1, AlwaysBase, PTL

(* At most one prompt is queued, whatever interrupts the stream and        *)
(* whenever the service accepts it (initialize).                           *)
THEOREM OnePromptIsQueued == Spec => []OnePrompt
<1>1. Base => OnePrompt
  BY DEF Base, PromptInv, OnePrompt
<1> QED
  BY <1>1, AlwaysBase, PTL

Interrupted == cancelled \/ (initialized /\ Expired)

(* No event is yielded and no call begins after the token is cancelled or  *)
(* the deadline has passed, and cancellation prevails (run, next_event).   *)
THEOREM InterruptionIsHonoured == Spec => InterruptionStops
<1> DEFINE Stops ==
             Interrupted =>
               /\ delivered' = delivered
               /\ Waiting' => Waiting
               /\ (outcome = "none" /\ outcome' # "none" /\ initialized) =>
                    outcome' = IF cancelled THEN "aborted" ELSE "timeout"
<1>1. ASSUME Code, Interrupted
      PROVE  End(IF cancelled THEN "aborted" ELSE "timeout")
  BY <1>1, Zenon DEF Code, Begin, Interrupt, CallFailed, Latest, Posted, Yield, Continue,
                     Status, Slept, PageArrived, Checked, Run, Interrupted
<1>2. ASSUME Code, Interrupted
      PROVE  Stops
  <2>1. /\ outcome' = IF cancelled THEN "aborted" ELSE "timeout"
        /\ delivered' = delivered /\ reply' = Reply("none")
    BY <1>1, <1>2 DEF End
  <2>2. ~Waiting'
    BY <2>1 DEF Waiting, Reply
  <2> QED
    BY <2>1, <2>2
<1>3. ASSUME Poll
      PROVE  Stops
  <2>1. /\ reply' = Reply("none") /\ delivered' = delivered
        /\ initialized => outcome' = outcome
    BY <1>3 DEF Poll, Goto, End
  <2>2. ~Waiting'
    BY <2>1 DEF Waiting, Reply
  <2> QED
    BY <2>1, <2>2
<1>4. ASSUME Answer
      PROVE  Stops
  BY <1>4 DEF Answer, client
<1>5. ASSUME Fused \/ Accept \/ RunOver \/ Cancel \/ Tick \/ UNCHANGED vars
             \/ \E kind \in opts.kinds : Persist(kind)
      PROVE  Stops
  <2>1. delivered' = delivered /\ reply' = reply /\ outcome' = outcome
    BY <1>5 DEF Fused, Accept, RunOver, Cancel, Tick, Persist, environment, client, vars
  <2>2. Waiting' = Waiting
    BY <2>1 DEF Waiting
  <2> QED
    BY <2>1, <2>2
<1>6. [Next]_vars => [Stops]_vars
  <2> SUFFICES ASSUME [Next]_vars
               PROVE  Stops
    OBVIOUS
  <2>1. CASE Code
    BY <1>2, <2>1
  <2> HIDE DEF Stops
  <2> QED
    BY <1>3, <1>4, <1>5, <2>1 DEF Next
<1>7. [][Next]_vars => [][Stops]_vars
  BY <1>6, PTL
<1> QED
  BY <1>7, PTL DEF Spec, InterruptionStops, Interrupted

-----------------------------------------------------------------------------
(* Events, as long as cursors can be used.                                 *)
StreamInv == AnswerInv /\ BufferInv /\ (TellsPromptsAll => EndInv)

LEMMA StreamBegins == Init => StreamInv
<1> SUFFICES ASSUME Init
             PROVE  StreamInv
  OBVIOUS
<1>1. /\ reply.kind = "none" /\ s.cursor = 0 /\ s.pending = <<>> /\ s.after_page = FALSE
      /\ start = 0 /\ horizon = 0 /\ overAt = 0 /\ delivered = <<>> /\ at = "idle"
      /\ outcome = "none" /\ initialized = FALSE
  BY DEF Init, Reply, NoCursor
<1>2. Joined(delivered, s.pending) = Seen(log, Prompting, start, s.cursor)
  <2>1. Prompting \in BOOLEAN
    BY DEF Prompting
  <2>2. Seen(log, Prompting, 0, 0) = <<>>
    BY NothingSeen
  <2>3. Joined(<<>>, <<>>) = <<>>
    <3>1. <<>> \in Seq({})
      OBVIOUS
    <3> QED
      BY <3>1, JoinedEmpty
  <2> QED
    BY <1>1, <2>2, <2>3
<1>3. BufferInv
  BY <1>1, <1>2 DEF BufferInv, NoCursor, Calls
<1> QED
  BY <1>1, <1>3 DEF StreamInv, AnswerInv, EndInv

LEMMA EndedKeepsEvents ==
  ASSUME Base, StreamInv, NEW how \in {"aborted", "timeout", "error", "unexpected", "config"},
         End(how), UNCHANGED <<environment, left, initialized>>
  PROVE  StreamInv'
<1>1. /\ at' = "over" /\ outcome' = how /\ reply' = Reply("none")
      /\ UNCHANGED <<s, delivered, opts, log, start, horizon, overAt, initialized>>
  BY DEF End, environment, ghosts
<1>2. reply'.kind = "none"
  BY <1>1, PlainReplies
<1>3. BufferInv'
  BY <1>1, <1>2 DEF StreamInv, BufferInv, Prompting, Calls
<1>4. TellsPromptsAll => EndInv'
  BY <1>1, <1>2 DEF StreamInv, EndInv
<1> QED
  BY <1>2, <1>3, <1>4 DEF StreamInv, AnswerInv

(* A step that leaves cursor and buffer alone.                             *)
LEMMA GotoKeepsEvents ==
  ASSUME Base, StreamInv, initialized, at \notin {"over", "latest"}, reply.kind # "page",
         NEW place \in {"status", "pause", "page", "idle", "loop"}, NEW state,
         state.cursor = s.cursor, state.pending = s.pending,
         state.after_page = s.after_page, state.more = s.more,
         place \in Calls => s.pending = <<>>,
         at = "status" /\ IsTerminal(reply.status) => place = "page",
         at = "page" => place = "page",
         Goto(place, state), UNCHANGED <<environment, left, initialized>>
  PROVE  StreamInv'
<1>1. /\ at' = place /\ s' = state /\ reply' = Reply("none")
      /\ UNCHANGED <<outcome, delivered, opts, log, start, horizon, overAt, initialized>>
  BY DEF Goto, environment, ghosts
<1>2. reply'.kind = "none" /\ outcome = "none"
  BY <1>1, PlainReplies DEF Base, TypeOK
<1>3. BufferInv'
  BY <1>1, <1>2 DEF StreamInv, BufferInv, Prompting
<1>4. TellsPromptsAll => EndInv'
  BY <1>1, <1>2 DEF StreamInv, EndInv, Prompting
<1> QED
  BY <1>2, <1>3, <1>4 DEF StreamInv, AnswerInv

LEMMA PollKeepsEvents ==
  ASSUME Base, StreamInv, Poll
  PROVE  StreamInv'
<1>1. at = "idle" /\ reply.kind = "none" /\ UNCHANGED environment
  <2>1. at \notin Calls /\ at = "idle"
    BY DEF Poll, Calls
  <2> QED
    BY <2>1 DEF Poll, Base, TypeOK
<1>2. CASE initialized /\ Goto("loop", s) /\ UNCHANGED <<left, initialized>>
  BY <1>1, <1>2, GotoKeepsEvents DEF Calls
<1>3. CASE ~initialized /\ End("config") /\ UNCHANGED <<left, initialized>>
  BY <1>1, <1>3, EndedKeepsEvents
<1>4. CASE /\ ~initialized /\ initialized' = TRUE
           /\ Goto(IF opts.existing THEN "loop" ELSE "latest", s)
  <2>1. /\ at' \in {"loop", "latest"} /\ reply' = Reply("none")
        /\ UNCHANGED <<s, delivered, outcome, opts, log, start, horizon, overAt>>
    BY <1>1, <1>4 DEF Goto, environment, ghosts
  <2>2. reply'.kind = "none" /\ outcome = "none"
    BY <1>1, <2>1, PlainReplies DEF Base, TypeOK
  <2>3. s.cursor = 0 /\ start = 0
    BY <1>4 DEF StreamInv, BufferInv, NoCursor
  <2>4. s.pending = <<>> /\ ~s.after_page
    BY <1>4 DEF StreamInv, BufferInv
  <2>5. BufferInv'
    BY <1>4, <2>1, <2>3, <2>4 DEF StreamInv, BufferInv, Prompting, NoCursor
  <2>6. TellsPromptsAll => EndInv'
    BY <1>1, <2>1, <2>2 DEF StreamInv, EndInv, Prompting
  <2> QED
    BY <2>2, <2>5, <2>6 DEF StreamInv, AnswerInv
<1> QED
  BY <1>2, <1>3, <1>4 DEF Poll

LEMMA BeginKeepsEvents ==
  ASSUME Base, StreamInv, Begin
  PROVE  StreamInv'
<1>1. at \in Calls /\ reply.kind = "none" /\ UNCHANGED <<environment, left, initialized>>
  BY DEF Begin, Run
<1>2. CASE End("aborted") \/ End("timeout")
  BY <1>1, <1>2, EndedKeepsEvents
<1>3. CASE /\ reply' = Reply("waiting")
           /\ UNCHANGED <<at, s, outcome, delivered>>
  <2>1. UNCHANGED <<opts, log, start, horizon, overAt, initialized>>
    BY <1>1 DEF environment, ghosts
  <2>2. reply'.kind = "waiting"
    BY <1>3, PlainReplies
  <2>3. BufferInv'
    BY <1>3, <2>1 DEF StreamInv, BufferInv, Prompting
  <2>4. TellsPromptsAll => EndInv'
    BY <1>1, <1>3, <2>1, <2>2 DEF StreamInv, EndInv, Prompting
  <2> QED
    BY <2>2, <2>3, <2>4 DEF StreamInv, AnswerInv
<1> QED
  BY <1>2, <1>3 DEF Begin, Run

(* The stream starts after the newest event.                               *)
LEMMA LatestKeepsEvents ==
  ASSUME Base, StreamInv, Latest, s'.cursor # EmptyCursor
  PROVE  StreamInv'
<1>1. Latest => Code
  BY DEF Code
<1>2. initialized /\ Still /\ TypeOK /\ s \in States
  BY <1>1, CodeIsAlive DEF Base, TypeOK
<1>3. at = "latest" /\ reply.kind = "latest" /\ Prompting \in BOOLEAN
  BY DEF Latest, Base, CallInv, Prompting
<1>4. ASSUME Ended
      PROVE  StreamInv'
  BY <1>2, <1>4, EndedKeepsEvents DEF Ended, Still
<1>5. ASSUME NEW cursor \in -1..Len(log), cursor = reply.event \/ (cursor = reply.next /\ cursor # NoCursor),
             Goto(IF Prompting THEN "post" ELSE "loop", [s EXCEPT !.cursor = cursor])
      PROVE  StreamInv'
  <2>1. /\ at' \in {"post", "loop"} /\ s' = [s EXCEPT !.cursor = cursor]
        /\ reply' = Reply("none")
        /\ UNCHANGED <<outcome, delivered, opts, log, start, horizon, overAt, initialized>>
    BY <1>2, <1>5 DEF Goto, Still, environment, ghosts
  <2>2. /\ s'.cursor = cursor /\ s'.pending = s.pending /\ s'.after_page = s.after_page
        /\ s'.more = s.more
    BY <1>2, <2>1 DEF States
  <2>3. cursor = start
    BY <1>3, <1>5, <2>2 DEF StreamInv, AnswerInv
  <2>4. start \in Nat
    <3>1. Len(log) \in Nat /\ start \in 0..Len(log)
      BY <1>2, LogFacts
    <3> QED
      BY <3>1
  <2>5. Seen(log, Prompting, start, start) = <<>> /\ Seen(log, Prompting, start, 0) = <<>>
    <3>1. start <= start /\ 0 <= start /\ 0 \in Nat
      BY <2>4
    <3> QED
      BY <2>4, <3>1, NothingSeen, Zenon
  <2>6. Joined(delivered, s.pending) = <<>> /\ s.pending = <<>>
    BY <1>3, <2>5 DEF StreamInv, BufferInv, NoCursor, Calls
  <2>7. reply'.kind = "none" /\ outcome = "none"
    BY <1>3, <2>1, PlainReplies DEF Base, TypeOK
  <2>8. BufferInv'
    <3>1. Joined(delivered', s'.pending) = Seen(log', Prompting', start', s'.cursor)
      BY <2>1, <2>2, <2>3, <2>5, <2>6 DEF Prompting
    <3>2. /\ s'.pending = <<>> /\ at' \notin {"latest", "over"}
          /\ initialized' /\ start' <= s'.cursor
      BY <1>2, <2>1, <2>2, <2>3, <2>4, <2>6
    <3> QED
      BY <3>1, <3>2, Zenon DEF BufferInv
  <2>9. TellsPromptsAll => EndInv'
    <3> SUFFICES ASSUME TellsPromptsAll
                 PROVE  EndInv'
      OBVIOUS
    <3>1. ~s.after_page /\ overAt <= horizon
      BY <1>3 DEF StreamInv, EndInv, BufferInv
    <3> QED
      BY <2>1, <2>2, <2>7, <3>1 DEF EndInv
  <2> QED
    BY <2>7, <2>8, <2>9 DEF StreamInv, AnswerInv
<1> QED
  BY <1>4, <1>5, LatestStep

LEMMA YieldKeepsEvents ==
  ASSUME Base, StreamInv, Yield
  PROVE  StreamInv'
<1>1. Yield => Code
  BY DEF Code
<1>2. initialized /\ Still /\ TypeOK /\ s \in States
  BY <1>1, CodeIsAlive DEF Base, TypeOK
<1>3. CASE Ended
  BY <1>2, <1>3, EndedKeepsEvents DEF Ended, Still
<1>4. CASE /\ at' = "idle"
           /\ delivered' = Append(delivered, Head(s.pending))
           /\ s' = [s EXCEPT !.pending = Tail(@),
                             !.terminal_event = @ \/ (Prompting /\ Final(Head(s.pending)))]
           /\ UNCHANGED <<reply, outcome, enroute>>
  <2>1. at = "loop" /\ s.pending # <<>> /\ s.pending \in Seq(1..Len(log))
        /\ delivered \in Seq(1..Len(log))
    BY <1>2, YieldStep, LogFacts DEF TypeOK
  <2>2. /\ s'.cursor = s.cursor /\ s'.pending = Tail(s.pending)
        /\ s'.after_page = s.after_page /\ s'.more = s.more
    BY <1>2, <1>4 DEF States
  <2>3. UNCHANGED <<opts, log, start, horizon, overAt, initialized>>
    BY <1>2 DEF Still, environment, ghosts
  <2>4. reply.kind = "none" /\ outcome = "none"
    BY <1>2, <2>1 DEF TypeOK, Calls
  <2>5. Joined(delivered', s'.pending) = Joined(delivered, s.pending)
    BY <1>4, <2>1, <2>2, JoinedShift
  <2>6. BufferInv'
    <3>1. start <= s.cursor /\ Joined(delivered, s.pending) = Seen(log, Prompting, start, s.cursor)
      BY <2>1 DEF StreamInv, BufferInv
    <3>2. start' <= s'.cursor
          /\ Joined(delivered', s'.pending) = Seen(log', Prompting', start', s'.cursor)
      BY <2>2, <2>3, <2>5, <3>1 DEF Prompting
    <3>3. initialized' /\ at' = "idle"
      BY <1>2, <1>4, <2>3
    <3> QED
      BY <3>2, <3>3 DEF BufferInv, Calls
  <2>7. TellsPromptsAll => EndInv'
    BY <1>4, <2>1, <2>2, <2>3, <2>4 DEF StreamInv, EndInv, Prompting
  <2> QED
    BY <1>4, <2>4, <2>6, <2>7 DEF StreamInv, AnswerInv
<1> QED
  BY <1>3, <1>4, YieldStep

(* The stream ends, pauses or goes on from an empty buffer.                *)
LEMMA ContinueKeepsEvents ==
  ASSUME Base, StreamInv, Continue, s.cursor # EmptyCursor
  PROVE  StreamInv'
<1>1. Continue => Code
  BY DEF Code
<1>2. initialized /\ Still /\ TypeOK
  BY <1>1, CodeIsAlive DEF Base
<1>3. at = "loop" /\ s.pending = <<>> /\ reply.kind = "none"
  BY <1>2, ContinueStep DEF TypeOK, Calls
<1>4. CASE Ended
  BY <1>2, <1>4, EndedKeepsEvents DEF Ended, Still
<1>5. ASSUME NEW place \in {"status", "pause", "page"}, Goto(place, s)
      PROVE  StreamInv'
  BY <1>2, <1>3, <1>5, GotoKeepsEvents DEF Still
<1>6. CASE End("end") /\ s.after_page /\ ~s.more /\ Prompting
  <2>1. /\ at' = "over" /\ outcome' = "end" /\ reply' = Reply("none")
        /\ UNCHANGED <<s, delivered, opts, log, start, horizon, overAt, initialized>>
    BY <1>2, <1>6 DEF End, Still, environment, ghosts
  <2>2. reply'.kind = "none"
    BY <2>1, PlainReplies
  <2>3. BufferInv'
    BY <1>2, <2>1 DEF StreamInv, BufferInv, Prompting, Calls
  <2>4. ASSUME TellsPromptsAll
        PROVE  EndInv'
    <3>1. s.cursor <= horizon /\ Visible(log, s.cursor, horizon) = {} /\ overAt <= horizon
      BY <1>3, <1>6, <2>4 DEF StreamInv, EndInv
    <3>2. s.cursor \in Nat /\ start \in Nat /\ horizon \in Nat
      <4>1. /\ Len(log) \in Nat /\ start \in 0..Len(log) /\ horizon \in 0..Len(log)
            /\ s.cursor \in -1..Len(log)
        BY <1>2, LogFacts
      <4> QED
        BY <4>1 DEF EmptyCursor
    <3>3. Seen(log, Prompting, start, horizon) = Seen(log, Prompting, start, s.cursor)
      <4>1. Prompting \in BOOLEAN
        BY DEF Prompting
      <4> QED
        BY <3>1, <3>2, <4>1, SeenSettled, SMTT(30)
    <3>4. delivered = Seen(log, Prompting, start, s.cursor)
      <4>1. Joined(delivered, <<>>) = delivered
        BY <1>2, JoinedEmpty DEF TypeOK
      <4> QED
        BY <1>3, <4>1 DEF StreamInv, BufferInv
    <3>5. delivered' = Seen(log', Prompting', start', horizon') /\ Prompting'
      BY <1>6, <2>1, <3>3, <3>4 DEF Prompting
    <3> QED
      BY <2>1, <2>2, <3>1, <3>5 DEF EndInv
  <2> QED
    BY <2>2, <2>3, <2>4 DEF StreamInv, AnswerInv
<1> QED
  BY <1>4, <1>5, <1>6, ContinueStep

(* A page takes the cursor where it ends, and what it has is buffered.     *)
LEMMA PageKeepsEvents ==
  ASSUME Base, StreamInv, PageArrived, s.cursor # EmptyCursor, s'.cursor # EmptyCursor
  PROVE  StreamInv'
<1> DEFINE c == s.cursor
           mine == {i \in 1..Len(log) : Mine(i)}
           has_more == IF reply.info THEN reply.more ELSE Len(reply.events) >= opts.limit
           next == IF reply.next \notin {NoCursor, EmptyCursor} THEN reply.next
                   ELSE LastOf(reply.events)
           noted == [s EXCEPT !.more = FALSE, !.pending = Kept(<<>>, mine), !.after_page = TRUE]
           moved == [s EXCEPT !.cursor = next, !.more = has_more,
                              !.pending = Kept(reply.events, mine), !.after_page = TRUE]
           rest == InOrder(Visible(log, c, horizon), horizon)
           events == Upto(rest, opts.limit)
           last == LastOf(events)
<1>1. PageArrived => Code
  BY DEF Code
<1>2. initialized /\ Still /\ TypeOK /\ s \in States
  BY <1>1, CodeIsAlive DEF Base, TypeOK
<1>3. at = "page" /\ reply.kind = "page" /\ outcome = "none"
  BY <1>2 DEF PageArrived, Base, CallInv, TypeOK
<1>4. /\ Len(log) \in Nat /\ start \in Nat /\ c \in Nat /\ horizon \in Nat
      /\ horizon <= Len(log) /\ opts.limit \in Nat \ {0} /\ start <= c /\ Prompting \in BOOLEAN
  <2>1. /\ Len(log) \in Nat /\ start \in 0..Len(log) /\ horizon \in 0..Len(log)
        /\ s.cursor \in -1..Len(log) /\ opts.limit \in Nat /\ Prompting \in BOOLEAN
    BY <1>2, LogFacts
  <2>2. opts.limit # 0 /\ start <= s.cursor
    BY <1>2, <1>3 DEF Base, CallInv, Refused, StreamInv, BufferInv
  <2> QED
    BY <2>1, <2>2 DEF EmptyCursor
<1>5. s.pending = <<>> /\ delivered = Seen(log, Prompting, start, c)
  <2>1. s.pending = <<>> /\ Joined(delivered, s.pending) = Seen(log, Prompting, start, s.cursor)
    BY <1>3 DEF StreamInv, BufferInv, Calls
  <2>2. Joined(delivered, <<>>) = delivered
    BY <1>2, JoinedEmpty DEF TypeOK
  <2> QED
    BY <2>1, <2>2
<1>6. ASSUME Ended
      PROVE  StreamInv'
  BY <1>2, <1>6, EndedKeepsEvents DEF Ended, Still
(* Either way the new cursor and buffer decide.                            *)
<1>7. ASSUME Goto("loop", s'), s'.after_page, start <= s'.cursor,
             Joined(delivered, s'.pending) = Seen(log, Prompting, start, s'.cursor),
             TellsPromptsAll => s'.cursor <= horizon,
             TellsPromptsAll /\ Prompting /\ ~s'.more => Visible(log, s'.cursor, horizon) = {}
      PROVE  StreamInv'
  <2>1. /\ at' = "loop" /\ reply' = Reply("none")
        /\ UNCHANGED <<outcome, delivered, opts, log, start, horizon, overAt, initialized>>
    BY <1>2, <1>7 DEF Goto, Still, environment, ghosts
  <2>2. reply'.kind = "none"
    BY <2>1, PlainReplies
  <2>3. BufferInv'
    <3>1. /\ start' <= s'.cursor /\ at' \notin Calls /\ at' # "latest" /\ initialized'
          /\ Joined(delivered', s'.pending) = Seen(log', Prompting', start', s'.cursor)
      BY <1>2, <1>7, <2>1 DEF Prompting, Calls
    <3> QED
      BY <3>1 DEF BufferInv
  <2>4. ASSUME TellsPromptsAll
        PROVE  EndInv'
    <3>1. overAt <= horizon
      BY <1>3, <2>4 DEF StreamInv, EndInv
    <3>2. /\ s'.cursor <= horizon' /\ overAt' <= horizon' /\ outcome' # "end"
          /\ Prompting' /\ ~s'.more => Visible(log', s'.cursor, horizon') = {}
      BY <1>3, <1>7, <2>1, <2>4, <3>1 DEF Prompting
    <3> QED
      BY <2>1, <2>2, <3>2 DEF EndInv
  <2> QED
    BY <2>2, <2>3, <2>4 DEF StreamInv, AnswerInv
<1>8. \/ Ended
      \/ reply.events = <<>> /\ ~has_more /\ Goto("loop", noted)
      \/ /\ reply.events # <<>> \/ has_more
         /\ next \notin {NoCursor, c} /\ Goto("loop", moved)
  BY PageStep
<1>9. Whole(reply, log, c, horizon) \/ Repeated(reply, c)
  BY <1>3 DEF StreamInv, AnswerInv
<1>10. /\ rest = <<>> => Visible(log, c, horizon) = {}
       /\ events = <<>> <=> rest = <<>>
       /\ rest # <<>> =>
            /\ last \in 1..horizon /\ last > c
            /\ Len(rest) <= opts.limit => Visible(log, last, horizon) = {}
            /\ \A T : (\A i \in 1..last : i \in T <=> (Prompting => log[i] # "other")) =>
                 Joined(Seen(log, Prompting, start, c), Kept(events, T))
                   = Seen(log, Prompting, start, last)
  <2> HIDE DEF c
  <2> QED
    BY <1>4, PageContents
<1>11. Prompting /\ TellsPromptsAll => ~Repeated(reply, c)
  BY <1>2, Zenon DEF TellsPromptsAll, Prompting, Repeated, TypeOK
<1>12. CASE reply.events = <<>> /\ ~has_more /\ Goto("loop", noted)
  <2>1. s' = noted /\ Goto("loop", s')
    BY <1>12 DEF Goto
  <2>2. Kept(<<>>, mine) = <<>>
    BY <1>2, KeptTyped DEF TypeOK
  <2>3. s'.cursor = c /\ s'.pending = <<>> /\ s'.after_page
    BY <1>2, <2>1, <2>2 DEF States
  <2>4. Joined(delivered, <<>>) = delivered
    BY <1>2, JoinedEmpty DEF TypeOK
  <2>5. TellsPromptsAll => s'.cursor <= horizon
    BY <1>3, <2>3 DEF StreamInv, EndInv
  <2>6. TellsPromptsAll /\ Prompting => Visible(log, c, horizon) = {}
    <3> HIDE DEF rest
    <3> QED
      BY <1>9, <1>10, <1>11, <1>12 DEF Whole, rest
  <2> QED
    BY <1>4, <1>5, <1>7, <2>1, <2>3, <2>4, <2>5, <2>6
<1>13. CASE /\ reply.events # <<>> \/ has_more
            /\ next \notin {NoCursor, c} /\ Goto("loop", moved)
  <2>1. s' = moved /\ Goto("loop", s')
    BY <1>13 DEF Goto
  <2>2. s'.cursor = next /\ s'.pending = Kept(reply.events, mine) /\ s'.after_page
        /\ s'.more = has_more
    <3> HIDE DEF next, has_more, mine
    <3> QED
      BY <1>2, <2>1 DEF States
  <2>3. next # c
    BY <1>13
  <2>4. ~Repeated(reply, c)
    <3>1. Repeated(reply, c) => reply.next = c /\ c >= 1
      BY DEF Repeated
    <3>2. c >= 1 => c \notin {NoCursor, EmptyCursor}
      BY <1>4 DEF NoCursor, EmptyCursor
    <3> HIDE DEF c
    <3>3. Repeated(reply, c) => next = c
      BY <3>1, <3>2
    <3> QED
      BY <2>3, <3>3
  <2>5. /\ reply.events = events /\ reply.next \in {last, NoCursor, EmptyCursor}
        /\ reply.more = (reply.info /\ Len(rest) > opts.limit)
    BY <1>9, <2>4 DEF Whole
  <2>6. rest # <<>>
    <3>1. rest = <<>> => events = <<>> /\ Len(rest) = 0
      BY <1>10
    <3>2. rest = <<>> => ~has_more
      <4>1. CASE reply.info
        <5>1. has_more = reply.more
          BY <4>1
        <5>2. Len(rest) = 0 => ~(Len(rest) > opts.limit)
          BY <1>4
        <5> HIDE DEF rest, events, has_more
        <5> QED
          BY <2>5, <3>1, <5>1, <5>2, Zenon
      <4>2. CASE ~reply.info
        <5>1. has_more = (Len(reply.events) >= opts.limit)
          BY <4>2
        <5>2. ~(Len(<<>>) >= opts.limit)
          BY <1>4
        <5> HIDE DEF rest, events, has_more
        <5> QED
          BY <2>5, <3>1, <5>1, <5>2, Zenon
      <4> QED
        BY <4>1, <4>2
    <3> HIDE DEF rest, events, has_more
    <3> QED
      BY <1>13, <2>5, <3>1, <3>2
  <2>7. /\ last \in 1..horizon /\ last > c
        /\ Len(rest) <= opts.limit => Visible(log, last, horizon) = {}
        /\ \A T : (\A i \in 1..last : i \in T <=> (Prompting => log[i] # "other")) =>
             Joined(Seen(log, Prompting, start, c), Kept(events, T))
               = Seen(log, Prompting, start, last)
    <3> HIDE DEF rest, events, last, c
    <3> QED
      BY <1>10, <2>6
  <2>8. next = last
    <3> HIDE DEF last, events
    <3> QED
      BY <2>5, Zenon DEF last
  <2>9. \A i \in 1..last : i \in mine <=> (Prompting => log[i] # "other")
    <3>1. \A i \in 1..last : i \in 1..Len(log)
      <4> HIDE DEF last
      <4> QED
        BY <1>4, <2>7
    <3> HIDE DEF last
    <3> QED
      BY <3>1 DEF Mine
  <2>10. Joined(delivered, s'.pending) = Seen(log, Prompting, start, s'.cursor)
    <3> HIDE DEF last, events, rest, c, mine, next
    <3> QED
      BY <1>5, <2>2, <2>5, <2>7, <2>8, <2>9
  <2>11. ~has_more => Visible(log, last, horizon) = {}
    <3>1. ~has_more => Len(rest) <= opts.limit
      <4>1. rest \in Seq(1..horizon)
        BY <1>4, PlacesTyped
      <4>2. rest \in Seq(Nat) /\ Len(rest) \in Nat
        <5> HIDE DEF rest
        <5> QED
          BY <1>4, <4>1
      <4>3. reply.info \in BOOLEAN
        BY <1>2, <1>3, ReplyFields
      <4>4. ~has_more => ~(IF reply.info THEN reply.info /\ Len(rest) > opts.limit
                           ELSE Len(Upto(rest, opts.limit)) >= opts.limit)
        BY <2>5
      <4> HIDE DEF rest, has_more
      <4> QED
        BY <1>4, <4>2, <4>3, <4>4, FullPages
    <3> HIDE DEF last, rest, has_more
    <3> QED
      BY <2>7, <3>1
  <2>12. start <= s'.cursor /\ s'.cursor <= horizon
    <3> HIDE DEF last, c, next
    <3> QED
      BY <1>4, <2>2, <2>7, <2>8
  <2> HIDE DEF last, has_more, next, mine, c
  <2> QED
    BY <1>7, <2>1, <2>2, <2>8, <2>10, <2>11, <2>12
<1> QED
  BY <1>6, <1>8, <1>12, <1>13

LEMMA AnswerKeepsEvents ==
  ASSUME Base, StreamInv, Answer, s.cursor # EmptyCursor
  PROVE  StreamInv'
<1>1. /\ UNCHANGED <<opts, at, left, initialized, s, outcome, delivered, log, run, enroute,
                     cancelled, prompts>>
      /\ reply.kind = "waiting" /\ at \in Calls /\ TypeOK
  BY DEF Answer, client, Waiting, Base, TypeOK
<1>2. /\ Len(log) \in Nat /\ start \in 0..Len(log) /\ horizon \in 0..Len(log)
      /\ s.cursor \in -1..Len(log) /\ Prompting \in BOOLEAN /\ overAt \in 0..Len(log)
  BY <1>1, LogFacts
<1>3. s.cursor \in Nat /\ s.cursor <= Len(log) /\ outcome = "none"
  BY <1>1, <1>2 DEF EmptyCursor, TypeOK, Calls
(* Whatever else is answered, the log of the last page stays.              *)
<1>4. ASSUME UNCHANGED <<start, horizon>>, reply'.kind \notin {"latest", "page"},
             overAt' = overAt \/ (at = "status" /\ reply'.kind = "status" /\ IsTerminal(reply'.status))
      PROVE  StreamInv'
  <2>1. AnswerInv'
    BY <1>4 DEF AnswerInv
  <2>2. BufferInv'
    BY <1>1, <1>4 DEF StreamInv, BufferInv, Prompting
  <2>3. TellsPromptsAll => EndInv'
    BY <1>1, <1>3, <1>4 DEF StreamInv, EndInv, Prompting, Calls
  <2> QED
    BY <2>1, <2>2, <2>3 DEF StreamInv
<1>5. CASE reply' = Reply("error") /\ UNCHANGED <<start, horizon, overAt>>
  BY <1>4, <1>5, PlainReplies
<1>6. CASE /\ at = "latest"
           /\ \E c \in NewestCursors :
                reply' = [kind |-> "latest", event |-> Newest, next |-> c]
           /\ start' = Newest /\ UNCHANGED <<horizon, overAt>>
  <2>1. PICK c \in NewestCursors : reply' = [kind |-> "latest", event |-> Newest, next |-> c]
    BY <1>6, Zenon
  <2>2. reply'.kind = "latest" /\ reply'.event = start' /\ reply'.next = c
    BY <1>6, <2>1
  <2>3. c \in {start', NoCursor, EmptyCursor}
    BY <1>6, <2>1, Zenon DEF NewestCursors
  <2>4. Newest \in Nat
    BY <1>2, NewestTyped
  <2>5. BufferInv'
    <3>1. /\ s.cursor = 0 /\ s.pending = <<>> /\ ~s.after_page /\ initialized
          /\ Joined(delivered, s.pending) = Seen(log, Prompting, start, 0)
      BY <1>1, <1>6 DEF StreamInv, BufferInv, NoCursor, Base, CallInv, Calls
    <3>2. Seen(log, Prompting, Newest, 0) = <<>> /\ Seen(log, Prompting, start, 0) = <<>>
      BY <1>2, <2>4, NothingSeen
    <3>3. Joined(delivered', s'.pending) = Seen(log', Prompting', start', s'.cursor)
      BY <1>1, <1>6, <3>1, <3>2 DEF Prompting
    <3>4. initialized' /\ at' = "latest" /\ s' = s
      BY <1>1, <1>6, <3>1
    <3> QED
      BY <3>1, <3>3, <3>4 DEF BufferInv, NoCursor
  <2>6. TellsPromptsAll => EndInv'
    BY <1>1, <1>3, <1>6, <2>2 DEF StreamInv, EndInv, Prompting
  <2> QED
    BY <2>2, <2>3, <2>5, <2>6 DEF StreamInv, AnswerInv
<1>7. CASE reply' = Reply("posted") /\ UNCHANGED <<start, horizon, overAt>>
  BY <1>4, <1>7, PlainReplies
<1>8. CASE /\ at = "status"
           /\ reply' = [kind |-> "status", status |-> run]
           /\ overAt' = IF run \in {"finished", "failed"} THEN Len(log) ELSE overAt
           /\ UNCHANGED <<start, horizon>>
  <2>1. reply'.kind = "status" /\ reply'.status = run
    BY <1>8
  <2>2. overAt' = overAt \/ IsTerminal(run)
    BY <1>8 DEF IsTerminal
  <2> QED
    BY <1>4, <1>8, <2>1, <2>2
<1>9. CASE reply' = Reply("slept") /\ UNCHANGED <<start, horizon, overAt>>
  BY <1>4, <1>9, PlainReplies
<1>10. CASE /\ at = "page" /\ reply' \in Pages(s.cursor)
            /\ horizon' = Len(log) /\ UNCHANGED <<start, overAt>>
  <2>1. /\ reply'.kind = "page"
        /\ Whole(reply', log, s.cursor, Len(log)) \/ Repeated(reply', s.cursor)
    BY <1>1, <1>10, PageForms
  <2>2. AnswerInv'
    <3>1. Whole(reply', log, s.cursor, Len(log)) =>
            (Whole(reply, log, s.cursor, horizon))'
      BY <1>1, <1>10 DEF Whole
    <3>2. Repeated(reply', s.cursor) => (Repeated(reply, s.cursor))'
      BY <1>1 DEF Repeated
    <3> QED
      BY <2>1, <3>1, <3>2 DEF AnswerInv
  <2>3. BufferInv'
    BY <1>1, <1>10 DEF StreamInv, BufferInv, Prompting
  <2>4. TellsPromptsAll => EndInv'
    BY <1>1, <1>2, <1>3, <1>10, <2>1 DEF EndInv
  <2> QED
    BY <2>2, <2>3, <2>4 DEF StreamInv
<1> QED
  BY <1>5, <1>6, <1>7, <1>8, <1>9, <1>10, Zenon DEF Answer

(* A longer log says the same of what the stream has asked for.            *)
LEMMA PersistKeepsEvents ==
  ASSUME Base, StreamInv, NEW kind \in opts.kinds, Persist(kind), s.cursor # EmptyCursor
  PROVE  StreamInv'
<1>1. /\ log' = Append(log, kind) /\ log \in Seq(opts.kinds) /\ TypeOK
      /\ UNCHANGED <<opts, at, left, initialized, s, outcome, delivered, reply, run, enroute,
                     cancelled, prompts, start, horizon, overAt>>
  BY DEF Persist, client, ghosts, Base, TypeOK
<1>2. /\ Len(log) \in Nat /\ start \in 0..Len(log) /\ horizon \in 0..Len(log)
      /\ s.cursor \in -1..Len(log) /\ Prompting \in BOOLEAN
  BY <1>1, LogFacts
<1>3. \A i \in 1..Len(log) : log[i] = log'[i]
  BY <1>1
<1>4. ASSUME NEW n \in Nat, n <= Len(log)
      PROVE  /\ \A f : Visible(log, f, n) = Visible(log', f, n)
             /\ \A p, f : Seen(log, p, f, n) = Seen(log', p, f, n)
  <2>1. \A i \in 1..n : log[i] = log'[i]
    BY <1>2, <1>3, <1>4
  <2> QED
    BY <2>1, SeenSame
<1>5. s.cursor \in Nat /\ s.cursor <= Len(log) /\ horizon \in Nat /\ horizon <= Len(log)
  BY <1>2 DEF EmptyCursor
<1>6. /\ \A f : Visible(log', f, horizon) = Visible(log, f, horizon)
      /\ \A p, f : Seen(log', p, f, horizon) = Seen(log, p, f, horizon)
      /\ \A p, f : Seen(log', p, f, s.cursor) = Seen(log, p, f, s.cursor)
  BY <1>4, <1>5
<1>7. AnswerInv'
  <2>1. Whole(reply, log, s.cursor, horizon) => (Whole(reply, log, s.cursor, horizon))'
    BY <1>1, <1>6 DEF Whole
  <2>2. Repeated(reply, s.cursor) => (Repeated(reply, s.cursor))'
    BY <1>1 DEF Repeated
  <2> QED
    BY <1>1, <2>1, <2>2 DEF StreamInv, AnswerInv
<1>8. BufferInv'
  BY <1>1, <1>6 DEF StreamInv, BufferInv, Prompting
<1>9. TellsPromptsAll => EndInv'
  BY <1>1, <1>6 DEF StreamInv, EndInv, Prompting
<1> QED
  BY <1>7, <1>8, <1>9 DEF StreamInv

LEMMA OthersKeepEvents ==
  ASSUME StreamInv, Accept \/ RunOver \/ Cancel \/ Tick \/ UNCHANGED vars
  PROVE  StreamInv'
<1>1. UNCHANGED <<opts, at, initialized, s, outcome, delivered, reply, log, start, horizon, overAt>>
  BY DEF Accept, RunOver, Cancel, Tick, environment, client, vars, ghosts
<1>2. AnswerInv'
  BY <1>1 DEF StreamInv, AnswerInv, Whole, Repeated
<1>3. BufferInv' /\ (TellsPromptsAll => EndInv')
  BY <1>1 DEF StreamInv, BufferInv, EndInv, Prompting
<1> QED
  BY <1>2, <1>3 DEF StreamInv

LEMMA CodeKeepsEvents ==
  ASSUME Base, StreamInv, Code, s.cursor # EmptyCursor, s'.cursor # EmptyCursor
  PROVE  StreamInv'
<1>1. initialized /\ at # "over" /\ Still /\ TypeOK
  BY CodeIsAlive DEF Base
<1>2. ASSUME Ended
      PROVE  StreamInv'
  BY <1>1, <1>2, EndedKeepsEvents DEF Ended, Still
<1>3. CASE Interrupt \/ CallFailed
  BY <1>2, <1>3, Zenon DEF Interrupt, CallFailed, Run, Ended, OnFailure
<1>4. CASE Posted
  <2>1. at = "post" /\ reply.kind = "posted"
    BY <1>4 DEF Posted, Base, CallInv
  <2>2. Ended \/ Goto("loop", s)
    BY <1>4, Zenon DEF Posted, Run, Ended
  <2> QED
    BY <1>1, <1>2, <2>1, <2>2, GotoKeepsEvents DEF Still, Calls
<1>5. CASE Slept
  <2>1. at = "pause" /\ reply.kind = "slept" /\ s.pending = <<>>
    BY <1>5 DEF Slept, Base, CallInv, StreamInv, BufferInv, Calls
  <2>2. Ended \/ Goto("page", s)
    BY <1>5, Zenon DEF Slept, Run, Ended
  <2> QED
    BY <1>1, <1>2, <2>1, <2>2, GotoKeepsEvents DEF Still
<1>6. CASE Status
  <2>1. at = "status" /\ reply.kind = "status" /\ s.pending = <<>> /\ s \in States
    BY <1>1, <1>6, StatusStep DEF StreamInv, BufferInv, Calls, TypeOK
  <2>2. CASE Goto("page", [s EXCEPT !.terminal_run = TRUE])
    <3> DEFINE state == [s EXCEPT !.terminal_run = TRUE]
    <3>1. /\ state.cursor = s.cursor /\ state.pending = s.pending
          /\ state.after_page = s.after_page /\ state.more = s.more
      BY <2>1 DEF States
    <3>2. Goto("page", state)
      BY <2>2
    <3> HIDE DEF state
    <3> QED
      BY <1>1, <2>1, <3>1, <3>2, GotoKeepsEvents DEF Still
  <2>3. CASE ~IsTerminal(reply.status) /\ Goto("pause", s)
    BY <1>1, <2>1, <2>3, GotoKeepsEvents DEF Still
  <2> QED
    BY <1>2, <1>6, <2>2, <2>3, StatusStep
<1> QED
  BY <1>3, <1>4, <1>5, <1>6, BeginKeepsEvents, LatestKeepsEvents, YieldKeepsEvents,
     ContinueKeepsEvents, PageKeepsEvents DEF Code

LEMMA NextKeepsEvents ==
  ASSUME Base, StreamInv, [Next]_vars, UnusableCursorsAreErrors, UnusableCursorsAreErrors'
  PROVE  StreamInv'
BY PollKeepsEvents, CodeKeepsEvents, AnswerKeepsEvents, PersistKeepsEvents, OthersKeepEvents
   DEF Next, Fused, UnusableCursorsAreErrors

LEMMA AlwaysEvents == Spec /\ []UnusableCursorsAreErrors => []StreamInv
<1>1. Init => StreamInv
  BY StreamBegins
<1>2. Base /\ StreamInv /\ UnusableCursorsAreErrors /\ UnusableCursorsAreErrors' /\ [Next]_vars
        => StreamInv'
  BY NextKeepsEvents
<1> QED
  BY <1>1, <1>2, AlwaysBase, PTL DEF Spec

(* What is yielded is a beginning of what should be: each event of the     *)
(* type asked for, and for a prompt its own, once and in order, whatever   *)
(* the pages are and however often they repeat (next_event, initialize).   *)
THEOREM EventsComeOnceInOrder ==
  Spec /\ []UnusableCursorsAreErrors => []ExactlyOnceInOrder
<1>1. ASSUME Base, StreamInv, UnusableCursorsAreErrors
      PROVE  ExactlyOnceInOrder
  <2> DEFINE n == Len(log)
             c == s.cursor
             W == Seen(log, Prompting, start, n)
             D == Due(log, Prompting, start, n)
             tail == InOrder(Beyond(D, c), n)
  <2>1. TypeOK
    BY <1>1 DEF Base
  <2>2. n \in Nat /\ start \in Nat /\ c \in Nat /\ c <= n /\ Prompting \in BOOLEAN
    <3>1. /\ Len(log) \in Nat /\ start \in 0..Len(log) /\ s.cursor \in -1..Len(log)
          /\ Prompting \in BOOLEAN
      BY <2>1, LogFacts
    <3> QED
      BY <1>1, <3>1 DEF UnusableCursorsAreErrors, EmptyCursor
  <2>3. W = Joined(Seen(log, Prompting, start, c), tail)
    <3> HIDE DEF n, c
    <3> QED
      BY <2>2, SeenGrows DEF W, D, tail
  <2>4. Seen(log, Prompting, start, c) = Joined(delivered, s.pending)
    BY <1>1 DEF StreamInv, BufferInv
  <2>5. delivered \in Seq(Nat) /\ s.pending \in Seq(Nat) /\ tail \in Seq(Nat)
    <3>1. delivered \in Seq(1..n) /\ s.pending \in Seq(1..n)
      BY <2>1, LogFacts DEF TypeOK
    <3>2. tail \in Seq(1..n)
      <4> HIDE DEF n, D
      <4> QED
        BY <2>2, PlacesTyped
    <3> HIDE DEF n, tail
    <3> QED
      BY <2>2, <3>1, <3>2
  <2>6. Len(delivered) <= Len(W) /\ delivered = SubSeq(W, 1, Len(delivered))
    <3> HIDE DEF W, tail
    <3> QED
      BY <2>3, <2>4, <2>5, JoinedBegins
  <2>7. Wanted(n) = W
    <3> HIDE DEF n
    <3> QED
      BY <2>2, Asked DEF W
  <2> HIDE DEF W
  <2> QED
    BY <2>6, <2>7 DEF ExactlyOnceInOrder
<1> QED
  BY <1>1, AlwaysBase, AlwaysEvents, PTL

(* What the cursor has passed is yielded or buffered (next_event).         *)
THEOREM NoEventIsSkipped ==
  Spec /\ []UnusableCursorsAreErrors => []NothingSkipped
<1>1. ASSUME Base, StreamInv, UnusableCursorsAreErrors
      PROVE  NothingSkipped
  <2>1. s.cursor \in Nat
    <3>1. Len(log) \in Nat /\ s.cursor \in -1..Len(log)
      BY <1>1, LogFacts DEF Base
    <3> QED
      BY <1>1, <3>1 DEF UnusableCursorsAreErrors, EmptyCursor
  <2>2. Wanted(s.cursor) = Seen(log, Prompting, start, s.cursor)
    BY <2>1, Asked
  <2>3. Joined(delivered, s.pending) = Wanted(s.cursor)
    BY <1>1, <2>2 DEF StreamInv, BufferInv
  <2> QED
    BY <2>3, Zenon DEF NothingSkipped, Joined
<1> QED
  BY <1>1, AlwaysBase, AlwaysEvents, PTL

(* A prompt stream that ends without an error has yielded all the events   *)
(* of its prompt up to its last page, which was asked for after the run    *)
(* was over (next_event), if the service does not end its pages early.     *)
THEOREM AnEndedStreamIsComplete ==
  TellsPromptsAll => (Spec /\ []UnusableCursorsAreErrors => []EndIsComplete)
<1>1. ASSUME Base, StreamInv, TellsPromptsAll
      PROVE  EndIsComplete
  <2>1. horizon \in Nat
    <3>1. Len(log) \in Nat /\ horizon \in 0..Len(log)
      BY <1>1, LogFacts DEF Base
    <3> QED
      BY <3>1
  <2>2. Wanted(horizon) = Seen(log, Prompting, start, horizon)
    BY <2>1, Asked
  <2>3. outcome = "end" => at = "over"
    BY <1>1 DEF Base, TypeOK
  <2> QED
    BY <1>1, <2>2, <2>3 DEF StreamInv, EndInv, EndIsComplete, Calls
<1> SUFFICES ASSUME TellsPromptsAll
             PROVE  Spec /\ []UnusableCursorsAreErrors => []EndIsComplete
  OBVIOUS
<1>2. Base /\ StreamInv => EndIsComplete
  BY <1>1
<1> QED
  BY <1>2, AlwaysBase, AlwaysEvents, PTL

(* A service that writes no empty cursor gives the stream none: then the   *)
(* theorems above hold without their condition (initialize, next_event).   *)
WritesNoEmptyCursor == \A c \in Scenarios : "empty cursor" \notin c.forms
CursorInv ==
  WritesNoEmptyCursor =>
    s.cursor # EmptyCursor /\ (reply.kind = "latest" => reply.next # EmptyCursor)

THEOREM CursorsAreUsable ==
  WritesNoEmptyCursor => (Spec => []UnusableCursorsAreErrors)
<1>1. Init => CursorInv
  BY DEF Init, CursorInv, NoCursor, EmptyCursor, Reply
<1>2. ASSUME Base, CursorInv, [Next]_vars
      PROVE  CursorInv'
  <2> SUFFICES ASSUME WritesNoEmptyCursor
               PROVE  s'.cursor # EmptyCursor /\ (reply'.kind = "latest" => reply'.next # EmptyCursor)
    BY DEF CursorInv
  <2>1. /\ s.cursor # EmptyCursor /\ (reply.kind = "latest" => reply.next # EmptyCursor)
        /\ TypeOK /\ s \in States /\ Len(log) \in Nat
        /\ "empty cursor" \notin opts.forms
    BY <1>2, LogFacts, Zenon DEF CursorInv, Base, TypeOK, WritesNoEmptyCursor
  <2>2. \A how : End(how) => s' = s /\ reply'.kind = "none"
    BY PlainReplies DEF End
  <2>3. \A place, state : Goto(place, state) => s' = state /\ reply'.kind = "none"
    BY PlainReplies DEF Goto
  <2>4. CASE Poll
    BY <2>1, <2>2, <2>3, <2>4, Zenon DEF Poll
  <2>5. CASE Begin
    BY <2>1, <2>2, <2>5, PlainReplies DEF Begin, Run
  <2>6. CASE Interrupt \/ CallFailed \/ Posted \/ Slept
    BY <2>1, <2>2, <2>3, <2>6, Zenon DEF Interrupt, CallFailed, Posted, Slept, Run, OnFailure
  <2>7. CASE Continue
    BY <1>2, <2>1, <2>2, <2>3, <2>7, ContinueStep, Zenon DEF Ended
  <2>8. CASE Status
    <3>1. [s EXCEPT !.terminal_run = TRUE].cursor = s.cursor
      BY <2>1 DEF States
    <3> QED
      BY <1>2, <2>1, <2>2, <2>3, <2>8, <3>1, StatusStep, Zenon DEF Ended
  <2>9. CASE Yield
    <3>1. CASE s' = [s EXCEPT !.pending = Tail(@),
                              !.terminal_event = @ \/ (Prompting /\ Final(Head(s.pending)))]
               /\ reply' = reply
      BY <2>1, <3>1 DEF States
    <3> QED
      BY <1>2, <2>1, <2>2, <2>9, <3>1, YieldStep, Zenon DEF Ended
  <2>10. CASE Latest
    <3>1. ASSUME NEW cursor, cursor = reply.event \/ cursor = reply.next,
                 s' = [s EXCEPT !.cursor = cursor]
          PROVE  s'.cursor # EmptyCursor
      <4>1. reply.kind = "latest" /\ reply.event \in 0..Len(log)
        BY <2>1, <2>10, ReplyFields DEF Latest
      <4>2. s'.cursor = cursor
        BY <2>1, <3>1 DEF States
      <4>3. reply.event # EmptyCursor
        BY <2>1, <4>1, PlacesAreUsable, Zenon
      <4> QED
        BY <2>1, <3>1, <4>1, <4>2, <4>3, Zenon
    <3>2. CASE Ended
      BY <2>1, <2>2, <3>2, Zenon DEF Ended
    <3>3. ASSUME NEW cursor, cursor = reply.event \/ cursor = reply.next,
                 Goto(IF Prompting THEN "post" ELSE "loop", [s EXCEPT !.cursor = cursor])
          PROVE  s'.cursor # EmptyCursor /\ reply'.kind = "none"
      <4>1. s' = [s EXCEPT !.cursor = cursor] /\ reply'.kind = "none"
        BY <2>3, <3>3, Zenon
      <4> QED
        BY <3>1, <3>3, <4>1, Zenon
    <3>4. \/ Ended
          \/ \E cursor : /\ cursor = reply.event \/ cursor = reply.next
                        /\ Goto(IF Prompting THEN "post" ELSE "loop", [s EXCEPT !.cursor = cursor])
      BY <1>2, <2>10, LatestStep, Zenon
    <3> QED
      BY <3>2, <3>3, <3>4, Zenon
  <2>11. CASE PageArrived
    <3> DEFINE mine == {i \in 1..Len(log) : Mine(i)}
               has_more == IF reply.info THEN reply.more ELSE Len(reply.events) >= opts.limit
               next == IF reply.next \notin {NoCursor, EmptyCursor} THEN reply.next
                       ELSE LastOf(reply.events)
               noted == [s EXCEPT !.more = FALSE, !.pending = Kept(<<>>, mine),
                                  !.after_page = TRUE]
               moved == [s EXCEPT !.cursor = next, !.more = has_more,
                                  !.pending = Kept(reply.events, mine), !.after_page = TRUE]
    <3>1. Ended \/ Goto("loop", noted) \/ Goto("loop", moved)
      BY <1>2, <2>11, PageStep
    <3>2. next # EmptyCursor
      <4>1. reply.events \in Seq(1..Len(log))
        BY <2>1, <2>11, ReplyFields DEF PageArrived
      <4>2. LastOf(reply.events) \in 0..Len(log)
        BY <2>1, <4>1, LastTyped
      <4> QED
        BY <2>1, <4>2, PlacesAreUsable, Zenon
    <3> HIDE DEF mine, has_more, next
    <3>3. noted.cursor = s.cursor /\ moved.cursor = next
      BY <2>1 DEF States
    <3> HIDE DEF noted, moved
    <3> QED
      BY <2>1, <2>2, <2>3, <3>1, <3>2, <3>3, Zenon DEF Ended
  <2>12. CASE Answer
    <3>1. s' = s
      BY <2>12 DEF Answer, client
    <3>2. ASSUME NEW c \in NewestCursors,
                 reply' = [kind |-> "latest", event |-> Newest, next |-> c]
          PROVE  reply'.next # EmptyCursor
      <4>1. Newest \in 0..Len(log)
        BY <2>1, NewestTyped
      <4>2. c \in {Newest, NoCursor}
        BY <2>1, <3>2, Zenon DEF NewestCursors
      <4>3. c # EmptyCursor
        BY <2>1, <4>1, <4>2, PlacesAreUsable, Zenon
      <4> QED
        BY <3>2, <4>3
    <3>3. ASSUME reply' \in Pages(s.cursor)
          PROVE  reply'.kind # "latest"
      BY <2>1, <3>3, PageForms
    <3>4. \/ reply' \in {Reply("error"), Reply("posted"), Reply("slept"),
                         [kind |-> "status", status |-> run]}
          \/ \E c \in NewestCursors : reply' = [kind |-> "latest", event |-> Newest, next |-> c]
          \/ reply' \in Pages(s.cursor)
      BY <2>12, Zenon DEF Answer
    <3>5. reply' \in {Reply("error"), Reply("posted"), Reply("slept"),
                      [kind |-> "status", status |-> run]} => reply'.kind # "latest"
      BY DEF Reply
    <3> QED
      BY <2>1, <3>1, <3>2, <3>3, <3>4, <3>5, Zenon
  <2>13. CASE Fused \/ Accept \/ RunOver \/ Cancel \/ Tick \/ UNCHANGED vars
              \/ \E kind \in opts.kinds : Persist(kind)
    BY <2>1, <2>13 DEF Fused, Accept, RunOver, Cancel, Tick, Persist, client, vars
  <2> QED
    BY <1>2, <2>4, <2>5, <2>6, <2>7, <2>8, <2>9, <2>10, <2>11, <2>12, <2>13 DEF Next, Code
<1> SUFFICES ASSUME WritesNoEmptyCursor
             PROVE  Spec => []UnusableCursorsAreErrors
  OBVIOUS
<1>3. CursorInv => UnusableCursorsAreErrors
  BY DEF CursorInv, UnusableCursorsAreErrors
<1> QED
  BY <1>1, <1>2, <1>3, AlwaysBase, PTL DEF Spec

=============================================================================
