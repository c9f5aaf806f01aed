------------------------------ MODULE BoxApiProofs ------------------------------
(***************************************************************************)
(* For all identifiers, keys and base URLs: a request reaches the          *)
(* operation it was built for and what its caller named, a deletion names  *)
(* the same in its header as in its path, and a key makes one box.         *)
(***************************************************************************)
EXTENDS BoxApi, SequenceTheorems, WellFoundedInduction, TLAPS

Pieces == Seq(STRING)
Paths == Seq(Pieces)

-----------------------------------------------------------------------------
(* Induction on the natural numbers, for a set.                            *)
LEMMA Induction ==
  ASSUME NEW S, 0 \in S, \A n \in Nat : n \in S => n + 1 \in S
  PROVE  \A n \in Nat : n \in S
<1> DEFINE R == OpToRel(<, Nat)
           T == Nat \ S
<1>1. SUFFICES ASSUME T # {}
               PROVE  FALSE
  OBVIOUS
<1>2. IsWellFoundedOn(R, Nat)
  BY NatLessThanWellFounded
<1>3. T \subseteq Nat
  OBVIOUS
<1>4. \A x, y \in Nat : <<y, x>> \in R <=> y < x
  BY DEF OpToRel
<1> HIDE DEF R
<1>5. PICK x \in T : \A y \in T : ~(<<y, x>> \in R)
  BY <1>1, <1>2, <1>3, WFMin
<1>6. x # 0 /\ x - 1 \in Nat /\ x - 1 < x
  BY <1>5
<1>7. x - 1 \in S
  BY <1>4, <1>5, <1>6
<1> QED
  BY <1>5, <1>6, <1>7

(* What is computed from one step to the next is there for every length.   *)
LEMMA StepByStep ==
  ASSUME NEW D, NEW first \in D, NEW N \in Nat, NEW f \in [1..N -> [D -> D]]
  PROVE  \E g \in [0..N -> D] : g[0] = first /\ \A n \in 1..N : g[n] = f[n][g[n - 1]]
<1> DEFINE Upto(n, g) == g \in [0..n -> D] /\ g[0] = first /\ \A i \in 1..n : g[i] = f[i][g[i - 1]]
           S == {n \in Nat : n <= N => \E g : Upto(n, g)}
<1>1. 0 \in S
  <2>1. Upto(0, [i \in 0..0 |-> first])
    OBVIOUS
  <2> QED
    BY <2>1
<1>2. ASSUME NEW n \in Nat, n \in S
      PROVE  n + 1 \in S
  <2> SUFFICES ASSUME n + 1 <= N
               PROVE  \E g : Upto(n + 1, g)
    OBVIOUS
  <2>1. PICK g : Upto(n, g)
    BY <1>2
  <2> DEFINE last == f[n + 1][g[n]]
             h == [i \in 0..(n + 1) |-> IF i = n + 1 THEN last ELSE g[i]]
  <2>2. last \in D
    BY <2>1
  <2>3. h \in [0..(n + 1) -> D] /\ h[0] = first
    <3> HIDE DEF last
    <3> QED
      BY <2>1, <2>2
  <2>4. ASSUME NEW i \in 1..(n + 1)
        PROVE  h[i] = f[i][h[i - 1]]
    <3>1. i - 1 \in 0..n /\ h[i - 1] = g[i - 1]
      <4> HIDE DEF last
      <4> QED
        OBVIOUS
    <3>2. CASE i = n + 1
      <4>1. h[i] = last /\ i - 1 = n
        <5> HIDE DEF last
        <5> QED
          BY <3>2
      <4> QED
        BY <3>1, <3>2, <4>1
    <3>3. CASE i # n + 1
      <4>1. i \in 1..n /\ h[i] = g[i]
        <5> HIDE DEF last
        <5> QED
          BY <3>3
      <4> QED
        BY <2>1, <3>1, <4>1
    <3> QED
      BY <3>2, <3>3
  <2>5. Upto(n + 1, h)
    <3> HIDE DEF h
    <3> QED
      BY <2>3, <2>4
  <2> HIDE DEF h, Upto
  <2> QED
    BY <2>5
<1>3. N \in S
  <2> HIDE DEF S
  <2>1. \A n \in Nat : n \in S
    BY <1>1, <1>2, Induction
  <2> QED
    BY <2>1
<1> QED
  BY <1>3

-----------------------------------------------------------------------------
(* Paths *)

LEMMA One ==
  ASSUME NEW S, NEW x \in S
  PROVE  <<x>> \in Seq(S) /\ Len(<<x>>) = 1 /\ <<x>>[1] = x
OBVIOUS

Joined(p, q) == p \o q

LEMMA JoinedAppend ==
  ASSUME NEW S, NEW s \in Seq(S), NEW t \in Seq(S), NEW x \in S
  PROVE  Append(Joined(s, t), x) = Joined(s, Append(t, x))
<1> SUFFICES Append(s \o t, x) = s \o Append(t, x)
  BY DEF Joined
<1>1. /\ Append(s \o t, x) \in Seq(S) /\ s \o Append(t, x) \in Seq(S)
      /\ Len(Append(s \o t, x)) = Len(s \o Append(t, x))
  OBVIOUS
<1>2. \A i \in 1..Len(Append(s \o t, x)) : Append(s \o t, x)[i] = (s \o Append(t, x))[i]
  OBVIOUS
<1> QED
  BY <1>1, <1>2, SeqEqual

LEMMA Different ==
  Dot # DotDot /\ Empty \notin {Dot, DotDot} /\ WellFormedBox \notin {Empty, Dot, DotDot}
<1>1. /\ Dot[1] = "." /\ DotDot[1] = ".." /\ Empty[1] = "" /\ WellFormedBox[1] = "bx_23456789"
  BY DEF Dot, DotDot, Empty, WellFormedBox
<1> QED
  BY <1>1

LEMMA PushKeeps ==
  ASSUME NEW done \in Paths, NEW piece \in Pieces
  PROVE  /\ Push(done, piece) \in Paths
         /\ piece \notin {Dot, DotDot} => Push(done, piece) = Append(done, piece)
<1>1. Front(done) \in Paths \/ done = <<>>
  BY DEF Front, Paths
<1>2. Append(done, piece) \in Paths
  BY DEF Paths
<1> QED
  BY <1>1, <1>2 DEF Push

(* How a path is resolved, piece by piece.                                 *)
LEMMA Resolving ==
  ASSUME NEW path \in Paths
  PROVE  \E g \in [0..Len(path) -> Paths] :
           /\ g[0] = <<>>
           /\ \A n \in 1..Len(path) : g[n] = Push(g[n - 1], path[n])
           /\ Resolved(path) = g[Len(path)]
<1> DEFINE N == Len(path)
           f == [n \in 1..N |-> [p \in Paths |-> Push(p, path[n])]]
           Is(g) == g = [n \in 0..N |-> IF n = 0 THEN <<>> ELSE Push(g[n - 1], path[n])]
           done == CHOOSE g : Is(g)
<1>1. N \in Nat /\ <<>> \in Paths /\ \A n \in 1..N : path[n] \in Pieces
  BY DEF Paths
<1>2. f \in [1..N -> [Paths -> Paths]]
  BY <1>1, PushKeeps
<1>3. PICK g \in [0..N -> Paths] :
        g[0] = <<>> /\ \A n \in 1..N : g[n] = f[n][g[n - 1]]
  <2> HIDE DEF f, N
  <2> QED
    BY <1>1, <1>2, StepByStep
<1>4. \A n \in 1..N : g[n] = Push(g[n - 1], path[n])
  <2> TAKE n \in 1..N
  <2>1. n - 1 \in 0..N /\ g[n - 1] \in Paths
    BY <1>1, <1>3
  <2>2. f[n][g[n - 1]] = Push(g[n - 1], path[n])
    BY <2>1, Zenon
  <2> QED
    BY <1>3, <2>2
<1>5. Is(g)
  <2>1. g = [n \in 0..N |-> g[n]]
    BY <1>3
  <2>2. \A n \in 0..N : g[n] = IF n = 0 THEN <<>> ELSE Push(g[n - 1], path[n])
    BY <1>1, <1>3, <1>4
  <2> QED
    BY <2>1, <2>2, Zenon
<1>6. Is(done)
  <2> HIDE DEF Is
  <2> QED
    BY <1>5, Zenon
<1>7. Resolved(path) = done[N]
  BY Zenon DEF Resolved
<1> HIDE DEF done
<1>8. \A n \in 0..N : done[n] = IF n = 0 THEN <<>> ELSE Push(done[n - 1], path[n])
  BY <1>6, Zenon
<1> DEFINE S == {n \in Nat : n <= N => done[n] = g[n]}
<1>9. 0 \in S
  BY <1>1, <1>3, <1>8
<1>10. ASSUME NEW n \in Nat, n \in S
       PROVE  n + 1 \in S
  <2> SUFFICES ASSUME n + 1 <= N
               PROVE  done[n + 1] = g[n + 1]
    OBVIOUS
  <2>1. n + 1 \in 1..N /\ n + 1 \in 0..N /\ n + 1 # 0 /\ (n + 1) - 1 = n /\ done[n] = g[n]
    BY <1>1, <1>10
  <2>2. done[n + 1] = Push(done[n], path[n + 1])
    BY <1>8, <2>1, Zenon
  <2>3. g[n + 1] = Push(g[n], path[n + 1])
    BY <1>4, <2>1, Zenon
  <2> QED
    BY <2>1, <2>2, <2>3
<1>11. \A n \in Nat : n \in S
  <2> HIDE DEF S
  <2> QED
    BY <1>9, <1>10, Induction
<1>12. done[N] = g[N]
  BY <1>1, <1>11
<1> QED
  BY <1>3, <1>4, <1>7, <1>12

LEMMA OneMore ==
  ASSUME NEW done \in Paths, NEW more \in Paths, NEW n \in Nat, n + 1 \in 1..Len(more)
  PROVE  Append(done \o SubSeq(more, 1, n), more[n + 1]) = done \o SubSeq(more, 1, n + 1)
<1> DEFINE s == SubSeq(more, 1, n)
           x == more[n + 1]
<1>1. s \in Paths /\ x \in Pieces /\ SubSeq(more, 1, n + 1) = Append(s, x)
  BY DEF Paths
<1> HIDE DEF s, x
<1>2. Append(done \o s, x) = done \o Append(s, x)
  <2>1. Append(Joined(done, s), x) = Joined(done, Append(s, x))
    <3>1. done \in Seq(Pieces) /\ s \in Seq(Pieces) /\ x \in Pieces
      BY <1>1 DEF Paths
    <3> QED
      BY <3>1, JoinedAppend
  <2> QED
    BY <2>1 DEF Joined
<1> QED
  BY <1>1, <1>2 DEF s, x

(* Pieces that are no dot segments stay behind what is resolved.           *)
LEMMA ResolvedSplit ==
  ASSUME NEW root \in Paths, NEW more \in Paths,
         \A i \in 1..Len(more) : more[i] \notin {Dot, DotDot}
  PROVE  Resolved(root \o more) = Resolved(root) \o more /\ Resolved(root) \in Paths
<1> DEFINE path == root \o more
           M == Len(root)
           N == Len(more)
<1>1. /\ path \in Paths /\ M \in Nat /\ N \in Nat /\ Len(path) = M + N
      /\ \A i \in 1..M : path[i] = root[i]
      /\ \A i \in 1..N : path[M + i] = more[i] /\ more[i] \in Pieces
  BY DEF Paths
<1> HIDE DEF path
<1>2. PICK g \in [0..M -> Paths] :
        /\ g[0] = <<>>
        /\ \A n \in 1..M : g[n] = Push(g[n - 1], root[n])
        /\ Resolved(root) = g[M]
  BY Resolving
<1>3. PICK h \in [0..Len(path) -> Paths] :
        /\ h[0] = <<>>
        /\ \A n \in 1..Len(path) : h[n] = Push(h[n - 1], path[n])
        /\ Resolved(path) = h[Len(path)]
  BY <1>1, Resolving
<1> DEFINE S == {n \in Nat : n <= M => h[n] = g[n]}
<1>4. 0 \in S
  BY <1>2, <1>3
<1>5. ASSUME NEW n \in Nat, n \in S
      PROVE  n + 1 \in S
  <2> SUFFICES ASSUME n + 1 <= M
               PROVE  h[n + 1] = g[n + 1]
    OBVIOUS
  <2>1. n + 1 \in 1..M /\ n + 1 \in 1..Len(path) /\ (n + 1) - 1 = n /\ h[n] = g[n]
    BY <1>1, <1>5
  <2>2. h[n + 1] = Push(h[n], path[n + 1]) /\ g[n + 1] = Push(g[n], root[n + 1])
    BY <1>2, <1>3, <2>1, Zenon
  <2> QED
    BY <1>1, <2>1, <2>2
<1>6. h[M] = g[M]
  <2>1. \A n \in Nat : n \in S
    <3> HIDE DEF S
    <3> QED
      BY <1>4, <1>5, Induction
  <2> QED
    BY <1>1, <2>1
<1> DEFINE done == Resolved(root)
           T == {n \in Nat : n <= N => h[M + n] = done \o SubSeq(more, 1, n)}
<1>7. done \in Paths /\ h[M] = done
  BY <1>1, <1>2, <1>6
<1> HIDE DEF done
<1>8. 0 \in T
  BY <1>1, <1>7 DEF Paths
<1>9. ASSUME NEW n \in Nat, n \in T
      PROVE  n + 1 \in T
  <2> SUFFICES ASSUME n + 1 <= N
               PROVE  h[M + (n + 1)] = done \o SubSeq(more, 1, n + 1)
    OBVIOUS
  <2>1. /\ n + 1 \in 1..N /\ M + (n + 1) \in 1..Len(path) /\ M + (n + 1) - 1 = M + n
        /\ M + n \in 0..Len(path) /\ h[M + n] = done \o SubSeq(more, 1, n)
    BY <1>1, <1>9
  <2>2. h[M + (n + 1)] = Push(h[M + n], more[n + 1]) /\ h[M + n] \in Paths
    <3> DEFINE k == M + (n + 1)
    <3>1. h[k] = Push(h[k - 1], path[k])
      <4>1. k \in 1..Len(path)
        BY <2>1
      <4> HIDE DEF k
      <4> QED
        BY <1>3, <4>1
    <3>2. path[k] = more[n + 1]
      BY <1>1, <2>1, Zenon
    <3>3. k - 1 = M + n
      BY <2>1
    <3>4. h[M + n] \in Paths
      BY <1>3, <2>1, Zenon
    <3> QED
      BY <3>1, <3>2, <3>3, <3>4, Zenon
  <2>3. h[M + (n + 1)] = Append(h[M + n], more[n + 1])
    BY <1>1, <2>1, <2>2, PushKeeps
  <2>4. Append(done \o SubSeq(more, 1, n), more[n + 1]) = done \o SubSeq(more, 1, n + 1)
    BY <1>1, <1>7, <2>1, OneMore
  <2> QED
    BY <2>1, <2>3, <2>4
<1>10. h[M + N] = done \o SubSeq(more, 1, N)
  <2>1. \A n \in Nat : n \in T
    <3> HIDE DEF T
    <3> QED
      BY <1>8, <1>9, Induction
  <2> QED
    BY <1>1, <2>1
<1>11. SubSeq(more, 1, N) = more
  BY DEF Paths
<1> QED
  BY <1>1, <1>3, <1>7, <1>10, <1>11 DEF path, done

(* Pieces put one after another, each for itself, are a path of them.      *)
LEMMA FlattenOnes ==
  ASSUME NEW N \in Nat \ {0}, NEW p \in [1..N -> Pieces]
  PROVE  FlattenSeq([i \in 1..N |-> <<p[i]>>]) = p
<1> DEFINE ps == [i \in 1..N |-> <<p[i]>>]
           Is(g) == g = [i \in 1..N |-> IF i = 1 THEN ps[i] ELSE g[i - 1] \o ps[i]]
           flat == CHOOSE g : Is(g)
           pre == [i \in 1..N |-> [j \in 1..i |-> p[j]]]
<1>1. Len(ps) = N /\ N \in Nat /\ N # 0 /\ \A i \in 1..N : ps[i] = <<p[i]>>
  OBVIOUS
<1> HIDE DEF ps
<1>2. FlattenSeq(ps) = flat[N]
  <2>1. FlattenSeq(ps) =
          (CHOOSE g : g = [i \in 1..Len(ps) |-> IF i = 1 THEN ps[i] ELSE g[i - 1] \o ps[i]])[Len(ps)]
    BY <1>1, Zenon DEF FlattenSeq
  <2> QED
    BY <1>1, <2>1
<1>3. Is(pre)
  <2>1. \A i \in 1..N : pre[i] = IF i = 1 THEN ps[i] ELSE pre[i - 1] \o ps[i]
    <3> TAKE i \in 1..N
    <3>1. pre[i] = [j \in 1..i |-> p[j]] /\ ps[i] = <<p[i]>> /\ p[i] \in Pieces
      BY <1>1
    <3>2. CASE i = 1
      BY <3>1, <3>2
    <3>3. CASE i # 1
      <4>1. i - 1 \in 1..N /\ pre[i - 1] = [j \in 1..(i - 1) |-> p[j]]
        BY <1>1, <3>3
      <4>2. [j \in 1..(i - 1) |-> p[j]] \o <<p[i]>> = [j \in 1..i |-> p[j]]
        BY <3>1, <4>1
      <4> QED
        BY <3>1, <3>3, <4>1, <4>2
    <3> QED
      BY <3>2, <3>3
  <2>2. pre = [i \in 1..N |-> pre[i]]
    OBVIOUS
  <2> HIDE DEF pre
  <2> QED
    BY <2>1, <2>2, Zenon
<1>4. Is(flat)
  <2> HIDE DEF Is, pre
  <2> QED
    BY <1>3, Zenon
<1> HIDE DEF flat
<1>5. \A i \in 1..N : flat[i] = IF i = 1 THEN ps[i] ELSE flat[i - 1] \o ps[i]
  BY <1>4, Zenon
<1>6. \A i \in 1..N : pre[i] = IF i = 1 THEN ps[i] ELSE pre[i - 1] \o ps[i]
  <2> HIDE DEF pre
  <2> QED
    BY <1>3, Zenon
<1> DEFINE S == {n \in Nat : n + 1 <= N => flat[n + 1] = pre[n + 1]}
<1>7. 0 \in S
  <2> HIDE DEF pre
  <2> QED
    BY <1>1, <1>5, <1>6
<1>8. ASSUME NEW n \in Nat, n \in S
      PROVE  n + 1 \in S
  <2> SUFFICES ASSUME (n + 1) + 1 <= N
               PROVE  flat[(n + 1) + 1] = pre[(n + 1) + 1]
    OBVIOUS
  <2> DEFINE k == (n + 1) + 1
  <2>1. k \in 1..N /\ k # 1 /\ k - 1 = n + 1 /\ flat[n + 1] = pre[n + 1]
    BY <1>1, <1>8
  <2> HIDE DEF k, pre
  <2>2. flat[k] = flat[k - 1] \o ps[k] /\ pre[k] = pre[k - 1] \o ps[k]
    BY <1>5, <1>6, <2>1, Zenon
  <2>3. flat[k] = pre[k]
    BY <2>1, <2>2, Zenon
  <2> QED
    BY <2>3 DEF k
<1>9. flat[N] = pre[N]
  <2>1. \A n \in Nat : n \in S
    <3> HIDE DEF S
    <3> QED
      BY <1>7, <1>8, Induction
  <2>2. N - 1 \in Nat /\ (N - 1) + 1 = N
    BY <1>1
  <2> HIDE DEF pre
  <2> QED
    BY <2>1, <2>2
<1>10. pre[N] = p
  BY <1>1
<1> QED
  BY <1>2, <1>9, <1>10 DEF ps

-----------------------------------------------------------------------------
(* Requests *)

RouteOf(op) == Operations[op].route

LEMMA RouteFacts ==
  ASSUME NEW op \in DOMAIN Operations
  PROVE  /\ RouteOf(op) \in Seq(STRING) /\ Len(RouteOf(op)) \in Nat \ {0}
         /\ DOMAIN RouteOf(op) = 1..Len(RouteOf(op))
         /\ \A i \in DOMAIN RouteOf(op) :
              RouteOf(op)[i] \in STRING /\ RouteOf(op)[i] \notin {".", ".."}
         /\ Slots(op) = {i \in DOMAIN RouteOf(op) : RouteOf(op)[i] \in {Box, Id}}
<1>1. RouteOf(op) \in Seq(STRING) \ {<<>>}
      /\ \A i \in DOMAIN RouteOf(op) : RouteOf(op)[i] \notin {".", ".."}
  BY RoutesAssumption DEF RouteOf
<1>2. Slots(op) = {i \in DOMAIN RouteOf(op) : RouteOf(op)[i] \in {Box, Id}}
  BY DEF Slots, RouteOf
<1> QED
  BY <1>1, <1>2

LEMMA CallFacts ==
  ASSUME NEW c \in AnyCall
  PROVE  /\ c.op \in Called /\ c.op \in DOMAIN Operations
         /\ c.ids \in [Slots(c.op) -> BoxIds \cup Ids]
         /\ c.key \in Keys \cup {None}
         /\ c.op \notin KeyedOps => c.key = None
<1>1. PICK op \in Called : c \in CallsOf(op)
  BY Zenon DEF AnyCall
<1>2. /\ c.op = op
      /\ c.ids \in [Slots(op) -> BoxIds \cup Ids]
      /\ c.key \in IF op \in KeyedOps THEN Keys \cup {None} ELSE {None}
  <2>1. PICK a \in {op}, k \in IF op \in KeyedOps THEN Keys \cup {None} ELSE {None},
             f \in IF op \in FilePathOps THEN FilePaths ELSE {None},
             ids \in {ids \in [Slots(op) -> BoxIds \cup Ids] :
                        \A i \in Slots(op) :
                          ids[i] \in IF Operations[op].route[i] = Box THEN BoxIds ELSE Ids} :
               c = [op |-> a, key |-> k, file |-> f, ids |-> ids]
    BY <1>1 DEF CallsOf
  <2> QED
    BY <2>1
<1> QED
  BY <1>1, <1>2, ApiAssumption

(* The pieces of the route of a call, its slots filled.                    *)
Filled(c) ==
  [i \in 1..Len(RouteOf(c.op)) |-> IF i \in Slots(c.op) THEN c.ids[i] ELSE <<RouteOf(c.op)[i]>>]

LEMMA FilledFacts ==
  ASSUME NEW c \in AnyCall, Accepted(c)
  PROVE  /\ Filled(c) \in [1..Len(RouteOf(c.op)) -> Pieces] /\ Filled(c) \in Paths
         /\ Len(Filled(c)) = Len(RouteOf(c.op))
         /\ \A i \in DOMAIN RouteOf(c.op) :
              /\ Filled(c)[i] \notin {Dot, DotDot}
              /\ i \in Slots(c.op) => Filled(c)[i] = c.ids[i] /\ c.ids[i] # Empty
              /\ i \notin Slots(c.op) => Filled(c)[i] = <<RouteOf(c.op)[i]>>
<1> DEFINE op == c.op
           N == Len(RouteOf(op))
<1>1. /\ op \in DOMAIN Operations /\ N \in Nat \ {0} /\ DOMAIN RouteOf(op) = 1..N
      /\ \A i \in 1..N : RouteOf(op)[i] \in STRING /\ RouteOf(op)[i] \notin {".", ".."}
      /\ c.ids \in [Slots(op) -> BoxIds \cup Ids] /\ BoxIds \cup Ids \subseteq Pieces
  BY CallFacts, RouteFacts, ApiAssumption DEF Pieces
<1>2. ASSUME NEW i \in 1..N, i \in Slots(op)
      PROVE  /\ Filled(c)[i] = c.ids[i] /\ c.ids[i] \in Pieces
             /\ c.ids[i] \notin {Dot, DotDot, Empty}
  <2>1. c.ids[i] = WellFormedBox \/ c.ids[i] \notin {Empty, Blank, Dot, DotDot}
    BY <1>2 DEF Accepted, ValidateBoxId, ValidateSegment
  <2> QED
    BY <1>1, <1>2, <2>1, Different DEF Filled
<1>3. ASSUME NEW i \in 1..N, i \notin Slots(op)
      PROVE  /\ Filled(c)[i] = <<RouteOf(op)[i]>> /\ <<RouteOf(op)[i]>> \in Pieces
             /\ <<RouteOf(op)[i]>> \notin {Dot, DotDot}
  <2> DEFINE x == RouteOf(op)[i]
  <2>1. x \in STRING /\ x # "." /\ x # ".."
    BY <1>1
  <2>2. Filled(c)[i] = <<x>>
    BY <1>3 DEF Filled
  <2> HIDE DEF x
  <2>3. <<x>> \in Pieces /\ <<x>>[1] = x
    BY <2>1, One DEF Pieces
  <2>4. Dot[1] = "." /\ DotDot[1] = ".."
    BY DEF Dot, DotDot
  <2>5. <<x>> # Dot /\ <<x>> # DotDot
    BY <2>1, <2>3, <2>4
  <2> QED
    BY <2>2, <2>3, <2>5 DEF x
<1>4. Filled(c) \in [1..N -> Pieces]
  <2>1. Filled(c) = [i \in 1..N |-> Filled(c)[i]]
    BY DEF Filled
  <2>2. \A i \in 1..N : Filled(c)[i] \in Pieces
    BY <1>2, <1>3, Zenon
  <2> QED
    BY <2>1, <2>2, Zenon
<1>5. Filled(c) \in Paths /\ Len(Filled(c)) = N
  BY <1>1, <1>4 DEF Paths
<1> QED
  BY <1>1, <1>2, <1>3, <1>4, <1>5

(* A request is on the route of its operation, from where the base leads.  *)
LEMMA RequestForm ==
  ASSUME NEW c \in AnyCall, Accepted(c), base \in Paths
  PROVE  /\ Request(c).path = Joined(Root, Filled(c)) /\ Root \in Paths
         /\ Request(c).method = Operations[c.op].method
         /\ Request(c).confirm = Confirmation(c)
         /\ Request(c).key = IdempotencyKey(c)
<1> DEFINE op == c.op
           N == Len(RouteOf(op))
           route == Operations[op].route
           pieces == [i \in DOMAIN route |->
                        IF i \in Slots(op) THEN Encoded(c.ids[i]) ELSE Literal(route[i])]
           path == base \o Filled(c)
<1>1. /\ op \in DOMAIN Operations /\ N \in Nat \ {0} /\ DOMAIN RouteOf(op) = 1..N
      /\ Filled(c) \in [1..N -> Pieces] /\ Filled(c) \in Paths /\ Len(Filled(c)) = N
      /\ \A i \in 1..N : Filled(c)[i] \notin {Dot, DotDot}
  BY CallFacts, RouteFacts, FilledFacts
<1>2. pieces = [i \in 1..N |-> <<Filled(c)[i]>>]
  <2>1. \A i \in 1..N : pieces[i] = <<Filled(c)[i]>>
    BY <1>1 DEF Filled, Encoded, Literal, RouteOf
  <2> QED
    BY <1>1, <2>1 DEF RouteOf
<1>3. FlattenSeq(pieces) = Filled(c)
  <2> HIDE DEF pieces
  <2> QED
    BY <1>1, <1>2, FlattenOnes
<1>4. /\ path \in Paths /\ path # <<>> /\ Last(path) \notin {Dot, DotDot}
  <2>1. path \in Paths /\ Len(path) = Len(base) + N /\ path[Len(base) + N] = Filled(c)[N]
    BY <1>1 DEF Paths
  <2>2. Len(base) \in Nat /\ Filled(c)[N] \notin {Dot, DotDot}
    BY <1>1 DEF Paths
  <2> HIDE DEF path
  <2> QED
    BY <1>1, <2>1, <2>2 DEF Last
<1>5. Resolved(path) = Root \o Filled(c) /\ Root \in Paths
  <2> HIDE DEF N
  <2>1. \A i \in 1..Len(Filled(c)) : Filled(c)[i] \notin {Dot, DotDot}
    BY <1>1
  <2> QED
    BY <1>1, <2>1, ResolvedSplit DEF Root
<1>6. Normalized(path) = Joined(Root, Filled(c))
  <2>1. Normalized(path) = Resolved(path) \o <<>>
    <3> HIDE DEF path
    <3> QED
      BY <1>4, Zenon DEF Normalized
  <2>2. Root \o Filled(c) \in Paths
    BY <1>1, <1>5 DEF Paths
  <2>3. (Root \o Filled(c)) \o <<>> = Root \o Filled(c)
    BY <2>2 DEF Paths
  <2> QED
    BY <1>5, <2>1, <2>3 DEF Joined
<1>7. Request(c) = [method |-> Operations[op].method,
                    path |-> Normalized(base \o FlattenSeq(pieces)),
                    confirm |-> Confirmation(c), key |-> IdempotencyKey(c)]
  BY DEF Request
<1> HIDE DEF pieces
<1> QED
  BY <1>3, <1>5, <1>6, <1>7

LEMMA JoinedAt ==
  ASSUME NEW p \in Paths, NEW q \in Paths
  PROVE  /\ Len(Joined(p, q)) = Len(p) + Len(q) /\ Len(p) \in Nat
         /\ \A i \in 1..Len(p) : Joined(p, q)[i] = p[i]
         /\ \A i \in 1..Len(q) : Joined(p, q)[Len(p) + i] = q[i]
BY DEF Joined, Paths

(* It fits the route of that operation and of no other, and what it names  *)
(* is what the call names.                                                 *)
LEMMA OnlyHandler ==
  ASSUME NEW c \in AnyCall, Accepted(c), base \in Paths
  PROVE  /\ Handlers(Request(c)) = {c.op}
         /\ Target(Request(c), c.op) = c.ids
<1> DEFINE r == Request(c)
           op == c.op
           N == Len(RouteOf(op))
<1>1. /\ op \in DOMAIN Operations /\ N \in Nat \ {0} /\ DOMAIN RouteOf(op) = 1..N
      /\ Slots(op) \subseteq 1..N
      /\ c.ids \in [Slots(op) -> BoxIds \cup Ids]
      /\ Filled(c) \in Paths /\ Len(Filled(c)) = N
      /\ \A i \in 1..N :
           /\ i \in Slots(op) => Filled(c)[i] = c.ids[i] /\ c.ids[i] # Empty
           /\ i \notin Slots(op) => Filled(c)[i] = <<RouteOf(op)[i]>>
  BY CallFacts, RouteFacts, FilledFacts
<1>2. r.path = Joined(Root, Filled(c)) /\ Root \in Paths /\ r.method = Operations[op].method
  BY RequestForm
<1>3. /\ Len(r.path) = Len(Root) + N /\ Len(Root) \in Nat
      /\ \A i \in 1..Len(Root) : r.path[i] = Root[i]
      /\ \A i \in 1..N : At(r, i) = Filled(c)[i]
  BY <1>1, <1>2, JoinedAt DEF At
<1> HIDE DEF r
<1>4. Fits(r, op)
  <2>1. \A i \in 1..N : IF i \in Slots(op) THEN At(r, i) # Empty
                        ELSE At(r, i) = <<RouteOf(op)[i]>>
    BY <1>1, <1>3
  <2> QED
    BY <1>1, <1>2, <1>3, <2>1 DEF Fits, RouteOf
<1>5. ASSUME NEW other \in DOMAIN Operations, Fits(r, other)
      PROVE  other = op
  <2>1. SUFFICES ASSUME other # op
                 PROVE  FALSE
    OBVIOUS
  <2>2. /\ Operations[other].method = Operations[op].method
        /\ Len(RouteOf(other)) = N /\ DOMAIN RouteOf(other) = 1..N
    <3>1. Operations[other].method = r.method /\ Len(r.path) = Len(Root) + Len(RouteOf(other))
      BY <1>5 DEF Fits, RouteOf
    <3>2. Len(RouteOf(other)) \in Nat /\ DOMAIN RouteOf(other) = 1..Len(RouteOf(other))
      BY RouteFacts
    <3> QED
      BY <1>1, <1>2, <1>3, <3>1, <3>2
  <2>3. Apart(op, other)
    BY <1>1, <2>1, RoutesAssumption, Zenon
  <2>4. PICK i \in 1..N : i \notin Slots(op) /\ i \notin Slots(other)
                          /\ RouteOf(op)[i] # RouteOf(other)[i]
    BY <1>1, <2>2, <2>3 DEF Apart, RouteOf
  <2>5. At(r, i) = <<RouteOf(op)[i]>>
    BY <1>1, <1>3, <2>4
  <2>6. At(r, i) = <<RouteOf(other)[i]>>
    BY <1>5, <2>2, <2>4 DEF Fits, RouteOf
  <2> QED
    <3> DEFINE a == RouteOf(op)[i]
               b == RouteOf(other)[i]
    <3>1. <<a>> = <<b>> /\ a # b
      BY <2>4, <2>5, <2>6
    <3> HIDE DEF a, b
    <3> QED
      BY <3>1
<1>6. Handlers(r) = {op}
  BY <1>1, <1>4, <1>5 DEF Handlers
<1>7. Target(r, op) = c.ids
  <2>1. Target(r, op) = [i \in Slots(op) |-> At(r, i)]
    BY DEF Target
  <2>2. \A i \in Slots(op) : At(r, i) = c.ids[i]
    BY <1>1, <1>3
  <2>3. c.ids = [i \in Slots(op) |-> c.ids[i]]
    BY <1>1
  <2> QED
    BY <2>1, <2>2, <2>3
<1> QED
  BY <1>6, <1>7 DEF r

(* What is left of a base URL is a path that does not end with a slash.    *)
LEMMA TrimmedPath ==
  ASSUME NEW b \in Paths
  PROVE  /\ TrimSlashes(b) \in Paths
         /\ TrimSlashes(b) = <<>> \/ Last(TrimSlashes(b)) # Empty
<1> DEFINE T(n) == {0} \cup {i \in 1..n : b[i] # Empty}
           Top(x, n) == x \in T(n) /\ \A y \in T(n) : x >= y
           S == {n \in Nat : \E x \in T(n) : Top(x, n)}
           m == Max(T(Len(b)))
<1>1. Len(b) \in Nat /\ DOMAIN b = 1..Len(b) /\ \A i \in 1..Len(b) : b[i] \in Pieces
  BY DEF Paths
<1>2. 0 \in S
  <2>1. Top(0, 0)
    OBVIOUS
  <2> QED
    BY <2>1
<1>3. ASSUME NEW n \in Nat, n \in S
      PROVE  n + 1 \in S
  <2>1. PICK x \in T(n) : Top(x, n)
    BY <1>3
  <2>2. Top(x, n + 1) \/ Top(n + 1, n + 1)
    <3>1. CASE b[n + 1] = Empty
      BY <2>1, <3>1
    <3>2. CASE b[n + 1] # Empty
      BY <2>1, <3>2
    <3> QED
      BY <3>1, <3>2
  <2>3. \E y \in T(n + 1) : Top(y, n + 1)
    <3> HIDE DEF T
    <3> QED
      BY <2>2
  <2> HIDE DEF T, Top
  <2> QED
    BY <2>3
<1>4. \E x \in T(Len(b)) : Top(x, Len(b))
  <2>1. \A n \in Nat : n \in S
    <3> HIDE DEF S
    <3> QED
      BY <1>2, <1>3, Induction
  <2> HIDE DEF T, Top
  <2> QED
    BY <1>1, <2>1
<1>5. m \in T(Len(b))
  <2>1. \E x \in T(Len(b)) : \A y \in T(Len(b)) : x >= y
    <3> HIDE DEF T
    <3> QED
      BY <1>4
  <2> HIDE DEF T
  <2> QED
    BY <2>1, Zenon DEF Max
<1>6. TrimSlashes(b) = SubSeq(b, 1, m)
  BY <1>1 DEF TrimSlashes
<1> HIDE DEF m
<1>7. CASE m = 0
  BY <1>6, <1>7 DEF Paths
<1>8. CASE m # 0
  <2>1. m \in 1..Len(b) /\ b[m] # Empty
    BY <1>1, <1>5, <1>8
  <2>2. /\ SubSeq(b, 1, m) \in Paths /\ Len(SubSeq(b, 1, m)) = m
        /\ SubSeq(b, 1, m)[m] = b[m]
    BY <2>1 DEF Paths
  <2> QED
    BY <1>6, <2>1, <2>2 DEF Last
<1> QED
  BY <1>7, <1>8

-----------------------------------------------------------------------------
(* The invariant: a request on its way is the one its call makes, whatever *)
(* has happened since, and its arguments were accepted.                    *)
RequestInv == \A r \in inflight : Accepted(r.for) /\ r.request = Request(r.for)

ApiInv == TypeOK /\ RequestInv /\ ReachesItsTarget /\ DeletionsAreConfirmed /\ OneBoxPerKey

LEMMA ApiBegins == Init => ApiInv
<1> SUFFICES ASSUME Init
             PROVE  ApiInv
  OBVIOUS
<1>1. base \in Paths /\ (base = <<>> \/ Last(base) # Empty)
  <2>1. PICK b \in Bases : base = TrimSlashes(b)
    BY Zenon DEF Init
  <2>2. b \in Paths
    BY ApiAssumption DEF Paths, Pieces
  <2> QED
    BY <2>1, <2>2, TrimmedPath
<1>2. TypeOK
  <2>1. /\ calls \in 0..MaxCalls /\ created \in [Keys -> Nat]
        /\ intent \in [Keys -> AnyCall \cup {NoCall}]
    <3>1. MaxCalls \in Nat /\ 0 \in 0..MaxCalls /\ 0 \in Nat /\ NoCall \in AnyCall \cup {NoCall}
      BY ApiAssumption
    <3> QED
      BY <3>1 DEF Init
  <2>2. /\ call = NoCall /\ inflight = {} /\ outcome \in Outcomes
        /\ served.for = NoCall
    BY DEF Init, Outcomes, NothingDone, Deed
  <2> QED
    BY <1>1, <2>1, <2>2 DEF TypeOK, Paths, Pieces
<1>3. RequestInv /\ ReachesItsTarget /\ DeletionsAreConfirmed
  BY DEF Init, RequestInv, ReachesItsTarget, DeletionsAreConfirmed, NothingDone, Deed
<1>4. OneBoxPerKey
  BY DEF Init, OneBoxPerKey
<1> QED
  BY <1>2, <1>3, <1>4 DEF ApiInv

(* A request does not change while the base stays.                         *)
LEMMA SameRequest ==
  ASSUME UNCHANGED base
  PROVE  \A c : Request(c)' = Request(c)
BY DEF Request

LEMMA CallKeeps ==
  ASSUME ApiInv, NEW c \in AnyCall, Call(c)
  PROVE  ApiInv'
<1> DEFINE r == [n |-> calls + 1, for |-> c, request |-> Request(c)]
<1>1. /\ UNCHANGED <<base, created, served>>
      /\ calls' = calls + 1 /\ calls \in 0..MaxCalls /\ calls < MaxCalls /\ MaxCalls \in Nat
      /\ intent' = [k \in Keys |-> IF c.key = k THEN c ELSE intent[k]]
      /\ call = NoCall
  BY ApiAssumption DEF Call, ApiInv, TypeOK
<1>2. \A x : Request(x)' = Request(x)
  BY <1>1, SameRequest
<1>3. \/ Accepted(c) /\ call' = c /\ inflight' = inflight \cup {r} /\ outcome' = "none"
      \/ outcome' = "refused" /\ UNCHANGED <<call, inflight>>
  BY Zenon DEF Call
<1>4. intent' \in [Keys -> AnyCall \cup {NoCall}]
  BY <1>1 DEF ApiInv, TypeOK
<1>5. \A q \in inflight' : q.for \in AnyCall /\ q.n \in 1..calls'
  <2>1. \A q \in inflight : q.for \in AnyCall /\ q.n \in 1..calls'
    BY <1>1 DEF ApiInv, TypeOK
  <2>2. r.for \in AnyCall /\ r.n \in 1..calls'
    BY <1>1
  <2> HIDE DEF r
  <2> QED
    BY <1>3, <2>1, <2>2, Zenon
<1>6. TypeOK'
  <2>1. /\ call' \in AnyCall \cup {NoCall} /\ (call' # NoCall => Accepted(call'))
        /\ outcome' \in Outcomes
    <3> HIDE DEF r
    <3> QED
      BY <1>3 DEF ApiInv, TypeOK, Outcomes
  <2>2. calls' \in 0..MaxCalls
    BY <1>1
  <2>3. /\ (base \in Seq(Seq(STRING)) /\ (base = <<>> \/ Last(base) # Empty))'
        /\ created' \in [Keys -> Nat] /\ served'.for \in AnyCall \cup {NoCall}
    BY <1>1 DEF ApiInv, TypeOK
  <2> QED
    BY <1>4, <1>5, <2>1, <2>2, <2>3, Zenon DEF TypeOK
<1>7. RequestInv'
  <2>1. \A q \in inflight : Accepted(q.for) /\ q.request = Request(q.for)
    BY DEF ApiInv, RequestInv
  <2>2. r.for = c /\ r.request = Request(c)
    OBVIOUS
  <2>3. \A q \in inflight' : Accepted(q.for) /\ q.request = Request(q.for)
    <3> HIDE DEF r
    <3> QED
      BY <1>3, <2>1, <2>2, Zenon
  <2>4. \A q \in inflight' : Accepted(q.for) /\ q.request = Request(q.for)'
    BY <1>2, <2>3, Zenon
  <2> QED
    BY <2>4 DEF RequestInv
<1>8. (ReachesItsTarget /\ DeletionsAreConfirmed /\ OneBoxPerKey)'
  BY <1>1 DEF ApiInv, ReachesItsTarget, DeletionsAreConfirmed, OneBoxPerKey
<1> QED
  BY <1>6, <1>7, <1>8 DEF ApiInv

(* A request that is gone: what is left stays as it is.                    *)
LEMMA GoneKeeps ==
  ASSUME ApiInv, NEW r \in inflight, inflight' = inflight \ {r}, UNCHANGED <<base, calls, intent>>,
         \/ call' = NoCall /\ outcome' \in Outcomes
         \/ UNCHANGED <<call, outcome>>
  PROVE  /\ RequestInv'
         /\ created' \in [Keys -> Nat] /\ served'.for \in AnyCall \cup {NoCall} => TypeOK'
<1>1. \A x : Request(x)' = Request(x)
  BY SameRequest
<1>2. RequestInv'
  <2>1. \A q \in inflight' : Accepted(q.for) /\ q.request = Request(q.for)'
    BY <1>1 DEF ApiInv, RequestInv
  <2> QED
    BY <2>1 DEF RequestInv
<1>3. ASSUME created' \in [Keys -> Nat], served'.for \in AnyCall \cup {NoCall}
      PROVE  TypeOK'
  BY <1>3 DEF ApiInv, TypeOK
<1> QED
  BY <1>2, <1>3

LEMMA ServeKeeps ==
  ASSUME ApiInv, NEW r \in inflight, Serve(r)
  PROVE  ApiInv'
<1> DEFINE c == r.for
           key == c.key
<1>1. /\ c \in AnyCall /\ Accepted(c) /\ r.request = Request(c) /\ base \in Paths
      /\ r.n \in 1..calls /\ calls \in 0..MaxCalls /\ MaxCalls \in Nat
      /\ created \in [Keys -> Nat]
  BY ApiAssumption DEF ApiInv, TypeOK, RequestInv, Paths, Pieces
<1>2. /\ inflight' = inflight \ {r} /\ UNCHANGED <<base, calls, intent>>
      /\ \/ call' = NoCall /\ outcome' \in Outcomes
         \/ UNCHANGED <<call, outcome>>
  BY DEF Serve, Return, Outcomes
<1>3. Handlers(r.request) = {c.op} /\ Target(r.request, c.op) = c.ids
  BY <1>1, OnlyHandler
<1>4. /\ r.request.confirm = Confirmation(c) /\ r.request.key = IdempotencyKey(c)
  BY <1>1, RequestForm
<1>5. c.op \in ConfirmedOps =>
        /\ r.request.confirm = c.ids[2]
        /\ c.op = "delete_snapshot" \/ Read(c.ids[2]) = c.ids[2]
  <2>1. c.op = "delete_box" => c.ids[2] = WellFormedBox
    BY <1>1, RoutesAssumption DEF Accepted, ValidateBoxId
  <2> QED
    BY <1>4, <2>1, ApiAssumption DEF Confirmation, ConfirmedOps
<1>6. \E kind \in {"done", "unconfirmed"} :
        /\ served' = Deed(kind, c.op, c.ids, c)
        /\ kind = "unconfirmed" => c.op \in ConfirmedOps /\ Read(r.request.confirm) # c.ids[2]
        /\ created' = IF key = None \/ c.op \notin KeyedOps \/ Repeated(r.request)
                      THEN created ELSE [created EXCEPT ![key] = @ + 1]
  <2>1. PICK op \in {c.op} :
          LET ids == Target(r.request, op)
              confirmed == op \in ConfirmedOps => Read(r.request.confirm) = ids[2]
              k == r.for.key
          IN  /\ served' = Deed(IF confirmed THEN "done" ELSE "unconfirmed", op, ids, r.for)
              /\ created' = IF k = None \/ op \notin KeyedOps \/ Repeated(r.request)
                            THEN created ELSE [created EXCEPT ![k] = @ + 1]
    BY <1>3, Zenon DEF Serve
  <2> DEFINE confirmed == c.op \in ConfirmedOps => Read(r.request.confirm) = c.ids[2]
  <2>2. served' = Deed(IF confirmed THEN "done" ELSE "unconfirmed", c.op, c.ids, c)
    BY <1>3, <2>1
  <2>3. created' = IF key = None \/ c.op \notin KeyedOps \/ Repeated(r.request)
                   THEN created ELSE [created EXCEPT ![key] = @ + 1]
    BY <2>1
  <2>4. CASE confirmed
    BY <2>2, <2>3, <2>4
  <2>5. CASE ~confirmed
    BY <2>2, <2>3, <2>5
  <2> QED
    BY <2>4, <2>5
<1>7. /\ served'.op = c.op /\ served'.ids = c.ids /\ served'.for = c
      /\ served'.kind = "unconfirmed" => c.op \in ConfirmedOps /\ Read(r.request.confirm) # c.ids[2]
  BY <1>6 DEF Deed
<1>8. (ReachesItsTarget /\ DeletionsAreConfirmed)'
  BY <1>5, <1>7 DEF ReachesItsTarget, DeletionsAreConfirmed
<1>9. created' \in [Keys -> Nat] /\ \A k \in Keys : Read(k) # Empty => created'[k] <= 1
  <2>1. \A k \in Keys : Read(k) # Empty => created[k] <= 1
    BY DEF ApiInv, OneBoxPerKey
  <2>2. CASE created' = created
    BY <1>1, <2>1, <2>2
  <2>3. CASE created' # created
    <3>1. /\ key # None /\ c.op \in KeyedOps /\ ~Repeated(r.request)
          /\ created' = [created EXCEPT ![key] = @ + 1]
      BY <1>6, <2>3
    <3>2. key \in Keys /\ r.request.key = key
      BY <1>1, <1>4, <3>1, CallFacts DEF IdempotencyKey
    <3>3. Read(key) # Empty => created[key] = 0
      BY <1>1, <3>1, <3>2 DEF Repeated
    <3> HIDE DEF key
    <3> QED
      BY <1>1, <2>1, <3>1, <3>2, <3>3
  <2> QED
    BY <2>2, <2>3
<1>10. RequestInv' /\ TypeOK'
  BY <1>1, <1>2, <1>7, <1>9, GoneKeeps
<1> QED
  BY <1>8, <1>9, <1>10 DEF ApiInv, OneBoxPerKey

LEMMA LoseKeeps ==
  ASSUME ApiInv, NEW r \in inflight, Lose(r)
  PROVE  ApiInv'
<1>1. /\ inflight' = inflight \ {r} /\ UNCHANGED <<base, calls, intent, created, served>>
      /\ \/ call' = NoCall /\ outcome' \in Outcomes
         \/ UNCHANGED <<call, outcome>>
  BY DEF Lose, Return, Outcomes
<1>2. created' \in [Keys -> Nat] /\ served'.for \in AnyCall \cup {NoCall}
  BY <1>1 DEF ApiInv, TypeOK
<1>3. RequestInv' /\ TypeOK'
  BY <1>1, <1>2, GoneKeeps
<1> QED
  BY <1>1, <1>3 DEF ApiInv, ReachesItsTarget, DeletionsAreConfirmed, OneBoxPerKey

LEMMA GiveUpKeeps ==
  ASSUME ApiInv, GiveUp \/ UNCHANGED vars
  PROVE  ApiInv'
<1>1. /\ UNCHANGED <<base, inflight, calls, intent, created, served>>
      /\ \/ call' = NoCall /\ outcome' \in Outcomes
         \/ UNCHANGED <<call, outcome>>
  BY DEF GiveUp, Return, Outcomes, vars
<1>2. \A x : Request(x)' = Request(x)
  BY <1>1, SameRequest
<1>3. RequestInv'
  BY <1>1, <1>2 DEF ApiInv, RequestInv
<1>4. TypeOK'
  BY <1>1 DEF ApiInv, TypeOK
<1> QED
  BY <1>1, <1>3, <1>4 DEF ApiInv, ReachesItsTarget, DeletionsAreConfirmed, OneBoxPerKey

THEOREM ApiInvariant == Spec => []ApiInv
<1>1. ApiInv /\ [Next]_vars => ApiInv'
  <2> SUFFICES ASSUME ApiInv, [Next]_vars
               PROVE  ApiInv'
    OBVIOUS
  <2>1. ASSUME NEW c \in AnyCall, Call(c)
        PROVE  ApiInv'
    BY <2>1, CallKeeps
  <2>2. ASSUME NEW r \in inflight, Serve(r) \/ Lose(r)
        PROVE  ApiInv'
    BY <2>2, ServeKeeps, LoseKeeps
  <2>3. CASE GiveUp \/ UNCHANGED vars
    BY <2>3, GiveUpKeeps
  <2> QED
    BY <2>1, <2>2, <2>3 DEF Next, Done
<1> QED
  BY <1>1, ApiBegins, PTL DEF Spec

(* TypeOK: a client's base does not end with a slash, and a call that is   *)
(* under way has arguments the client accepted (BoxApi::new).              *)
THEOREM ApiTypeCorrect == Spec => []TypeOK
<1>1. ApiInv => TypeOK
  BY DEF ApiInv
<1> QED
  BY <1>1, ApiInvariant, PTL

(* Every request is handled as the operation that was called, on what the  *)
(* call named, for all identifiers and every base URL (segment,            *)
(* validate_box_id, BoxApi::new).                                          *)
THEOREM RequestsReachTheirTarget == Spec => []ReachesItsTarget
<1>1. ApiInv => ReachesItsTarget
  BY DEF ApiInv
<1> QED
  BY <1>1, ApiInvariant, PTL

(* Whatever the service reads of header values that are not visible ASCII: *)
(* the only deletion it can turn down for want of a confirmation is the    *)
(* one of a snapshot whose identifier it reads otherwise in a header than  *)
(* in a path (delete_box, delete_snapshot).                                *)
THEOREM DeletionsCarryTheirConfirmation == Spec => []DeletionsAreConfirmed
<1>1. ApiInv => DeletionsAreConfirmed
  BY DEF ApiInv
<1> QED
  BY <1>1, ApiInvariant, PTL

(* However often a call is repeated under its key, and however late its    *)
(* requests arrive, there is one box (create, fork).                       *)
THEOREM AKeyMakesOneBox == Spec => []OneBoxPerKey
<1>1. ApiInv => OneBoxPerKey
  BY DEF ApiInv
<1> QED
  BY <1>1, ApiInvariant, PTL
=============================================================================
