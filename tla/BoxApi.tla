--------------------------------- MODULE BoxApi ---------------------------------
(***************************************************************************)
(* BoxApi between its caller and the service: how a call of an endpoint    *)
(* method turns its identifiers into one request, and what the service     *)
(* does with it.  The caller issues one call after another and may repeat  *)
(* a call whose outcome it does not know; a request it has given up on may *)
(* still reach the service, before or after the ones that follow it.       *)
(*                                                                         *)
(* A path is a sequence of pieces.  A piece is a sequence of the names     *)
(* that an unescaped slash would have separated: <<"a">> is the piece a,   *)
(* <<"a", "b">> the piece a%2Fb.  An identifier is a piece that has not    *)
(* been escaped.  Attempts within a call are in HttpCall.                  *)
(***************************************************************************)
EXTENDS Operations, Naturals, SequencesExt

CONSTANTS
  Bases,      \* the paths of the base URLs a client may be given
  BoxIds,     \* identifiers of boxes that callers give
  Ids,        \* other identifiers that callers give
  FilePaths,  \* paths of files that callers give
  Called,     \* the operations called
  Keys,       \* idempotency keys
  Unsendable, \* texts with a control character other than tab: no header can
              \* carry them
  Read(_),    \* what the service reads of a header value.  It is the value if
              \* that is visible ASCII; blanks at its ends are cut off, and
              \* other characters, which are sent as they are, are read in the
              \* charset the service takes them for.
  MaxCalls    \* bound: calls of one caller

None == <<>>        \* no key, no header, no request
Dot == <<".">>
DotDot == <<"..">>
Empty == <<"">>
Blank == <<" ">>
WellFormedBox == <<"bx_23456789">>

ASSUME ApiAssumption ==
  /\ \A base \in Bases : base \in Seq(Seq(STRING))
  /\ BoxIds \cup Ids \subseteq Seq(STRING) \ {<<>>}
  /\ FilePaths \subseteq Seq(STRING) \ {<<>>}
  /\ Called \subseteq DOMAIN Operations
  /\ None \notin Keys
  /\ WellFormedBox \notin Unsendable /\ Read(WellFormedBox) = WellFormedBox
  /\ MaxCalls \in Nat

VARIABLES
  base,      \* BoxApi::base
  call,      \* the call whose request is awaited
  inflight,  \* requests on their way, each with the call it was made for
  outcome,   \* what the last call that returned has returned
  calls,     \* calls made so far
  intent,    \* the call the caller chose each key for; not in the code
  created,   \* what the service has made under each key, and how often
  served     \* what the service last did, and for which call

vars == <<base, call, inflight, outcome, calls, intent, created, served>>

-----------------------------------------------------------------------------
(* trim_end_matches('/'): no empty piece at the end.                       *)
TrimSlashes(path) ==
  SubSeq(path, 1, Max({0} \cup {i \in DOMAIN path : path[i] # Empty}))

(* A literal of a route is a piece.                                        *)
Literal(name) == <<<<name>>>>

(* utf8_percent_encode: a slash inside an identifier is escaped.  The dot  *)
(* is not, nor is an identifier of a box that validate_box_id accepts.     *)
Encoded(id) == <<id>>

ValidateBoxId(id) == id = WellFormedBox

(* A bug: dot segments are identifiers like any other.                     *)
ValidateSegmentDots(id) == id \notin {Empty, Blank}
ValidateSegment(id) == id \notin {Empty, Blank, Dot, DotDot}

ValidateFilePath(path) == path \notin {Empty, Blank}

(* The arguments an endpoint method goes on with.                          *)
Accepted(c) ==
  /\ c.op \in FilePathOps => ValidateFilePath(c.file)
  /\ \A i \in Slots(c.op) :
       IF Operations[c.op].route[i] = Box THEN ValidateBoxId(c.ids[i])
       ELSE ValidateSegment(c.ids[i])

(* A bug: the header repeats the piece of the path, not the identifier.    *)
ConfirmationEscaped(c) ==
  IF c.op \in ConfirmedOps
  THEN IF Len(c.ids[2]) > 1 THEN <<"escaped">> ELSE c.ids[2]
  ELSE None

(* X-Ascii-Confirm-Delete: the identifier in the second piece of the route.*)
Confirmation(c) == IF c.op \in ConfirmedOps THEN c.ids[2] ELSE None

(* A bug: the caller's key is not sent.                                    *)
IdempotencyKeyDropped(c) == None
IdempotencyKey(c) == IF c.op \in KeyedOps THEN c.key ELSE None

(* The url crate drops dot segments when reqwest parses the URL: .. takes  *)
(* the piece before it away.                                               *)
Push(done, piece) ==
  CASE piece = Dot -> done
    [] piece = DotDot -> IF done = <<>> THEN done ELSE Front(done)
    [] OTHER -> Append(done, piece)

Resolved(path) ==
  LET done[n \in 0..Len(path)] == IF n = 0 THEN <<>> ELSE Push(done[n - 1], path[n])
  IN  done[Len(path)]

Normalized(path) ==
  Resolved(path) \o IF path # <<>> /\ Last(path) \in {Dot, DotDot} THEN <<Empty>> ELSE <<>>

Request(c) ==
  LET route == Operations[c.op].route
      pieces == [i \in DOMAIN route |->
                   IF i \in Slots(c.op) THEN Encoded(c.ids[i]) ELSE Literal(route[i])]
  IN  [method |-> Operations[c.op].method,
       path |-> Normalized(base \o FlattenSeq(pieces)),
       confirm |-> Confirmation(c),
       key |-> IdempotencyKey(c)]

(* ApiRequest::header: a request with an unsendable value is not built.    *)
Buildable(request) == request.confirm \notin Unsendable /\ request.key \notin Unsendable

-----------------------------------------------------------------------------
NoCall == [op |-> "none", ids |-> None, key |-> None, file |-> None]

CallsOf(op) ==
  [op : {op}, key : IF op \in KeyedOps THEN Keys \cup {None} ELSE {None},
   file : IF op \in FilePathOps THEN FilePaths ELSE {None},
   ids : {ids \in [Slots(op) -> BoxIds \cup Ids] :
            \A i \in Slots(op) :
              ids[i] \in IF Operations[op].route[i] = Box THEN BoxIds ELSE Ids}]

AnyCall == UNION {CallsOf(op) : op \in Called}

Outcomes == {"none", "refused", "ok", "failed", "unknown"}

Deed(kind, op, ids, for) == [kind |-> kind, op |-> op, ids |-> ids, for |-> for]
NothingDone == Deed("none", "none", None, NoCall)

(* A request has the form the client gives it, and base paths do not end   *)
(* with a slash (url, BoxApi::new).                                        *)
TypeOK ==
  /\ base \in Seq(Seq(STRING)) /\ (base = <<>> \/ Last(base) # Empty)
  /\ call \in AnyCall \cup {NoCall}
  /\ \A c \in inflight : c.for \in AnyCall /\ c.n \in 1..calls
  /\ outcome \in Outcomes
  /\ calls \in 0..MaxCalls
  /\ intent \in [Keys -> AnyCall \cup {NoCall}]
  /\ created \in [Keys -> Nat]
  /\ served.for \in AnyCall \cup {NoCall}
  /\ call # NoCall => Accepted(call)

Init ==
  /\ base \in {TrimSlashes(b) : b \in Bases}
  /\ call = NoCall /\ inflight = {} /\ outcome = "none" /\ calls = 0
  /\ intent = [k \in Keys |-> NoCall]
  /\ created = [k \in Keys |-> 0]
  /\ served = NothingDone

(* A caller keeps a key for the call it was chosen for (guide.md:260).     *)
KeyIsFree(c) == \A k \in Keys : c.key = k => intent[k] \in {NoCall, c}

(* The prologue of an endpoint method: it is refused, or a request leaves. *)
Call(c) ==
  /\ call = NoCall /\ calls < MaxCalls
  /\ KeyIsFree(c)
  /\ calls' = calls + 1
  /\ intent' = [k \in Keys |-> IF c.key = k THEN c ELSE intent[k]]
  /\ \/ /\ Accepted(c) /\ Buildable(Request(c))
        /\ call' = c
        /\ inflight' = inflight \cup {[n |-> calls + 1, for |-> c, request |-> Request(c)]}
        /\ outcome' = "none"
     \/ /\ ~Accepted(c) \/ ~Buildable(Request(c))
        /\ outcome' = "refused"
        /\ UNCHANGED <<call, inflight>>
  /\ UNCHANGED <<base, created, served>>

Return(result) == call' = NoCall /\ outcome' = result

Awaited(r) == call # NoCall /\ r.n = calls

-----------------------------------------------------------------------------
(* The service lives where the base URL leads.  The operations whose       *)
(* documented route a request fits, and the identifiers the service reads  *)
(* in its path.                                                            *)
Root == Resolved(base)
At(request, i) == request.path[Len(Root) + i]
Fits(request, op) ==
  LET route == Operations[op].route
  IN  /\ request.method = Operations[op].method
      /\ Len(request.path) = Len(Root) + Len(route)
      /\ \A i \in 1..Len(Root) : request.path[i] = Root[i]
      /\ \A i \in DOMAIN route :
           IF i \in Slots(op) THEN At(request, i) # Empty
           ELSE At(request, i) = <<route[i]>>
Handlers(request) == {op \in DOMAIN Operations : Fits(request, op)}
Target(request, op) == [i \in Slots(op) |-> At(request, i)]

(* A key the service reads and has already made something under.           *)
Repeated(request) ==
  /\ request.key # None /\ Read(request.key) # Empty
  /\ \E k \in Keys : created[k] > 0 /\ Read(k) = Read(request.key)

(* The service answers a request: there may be no such route, a deletion   *)
(* must be confirmed by a header that names what the decoded path names,   *)
(* and work under a key that was used is not repeated.  The answer ends    *)
(* the call if that still waits for it.                                    *)
Serve(r) ==
  /\ inflight' = inflight \ {r}
  /\ \/ /\ Handlers(r.request) = {}
        /\ served' = Deed("no route", "none", None, r.for)
        /\ UNCHANGED created
     \/ \E op \in Handlers(r.request) :
          LET ids == Target(r.request, op)
              confirmed == op \in ConfirmedOps => Read(r.request.confirm) = ids[2]
              key == r.for.key
          IN  /\ served' = Deed(IF confirmed THEN "done" ELSE "unconfirmed", op, ids, r.for)
              /\ created' = IF key = None \/ op \notin KeyedOps \/ Repeated(r.request)
                            THEN created ELSE [created EXCEPT ![key] = @ + 1]
  /\ IF Awaited(r) THEN Return(IF served'.kind = "done" THEN "ok" ELSE "failed")
     ELSE UNCHANGED <<call, outcome>>
  /\ UNCHANGED <<base, calls, intent>>

(* The request is lost, refused by an overloaded service or never read.    *)
Lose(r) ==
  /\ inflight' = inflight \ {r}
  /\ IF Awaited(r) THEN Return("failed") ELSE UNCHANGED <<call, outcome>>
  /\ UNCHANGED <<base, calls, intent, created, served>>

(* The client gives up, or the answer is lost: what the service has done   *)
(* or will do with the request is unknown.                                 *)
GiveUp ==
  /\ call # NoCall
  /\ Return("unknown")
  /\ UNCHANGED <<base, inflight, calls, intent, created, served>>

(* The bound on calls is reached and nothing is on its way any more.       *)
Done == call = NoCall /\ calls = MaxCalls /\ inflight = {} /\ UNCHANGED vars

Next ==
  \/ \E c \in AnyCall : Call(c)
  \/ \E r \in inflight : Serve(r) \/ Lose(r)
  \/ GiveUp
  \/ Done

Spec == Init /\ [][Next]_vars

-----------------------------------------------------------------------------
(* Whatever identifiers a caller gives, a request that leaves the client   *)
(* is handled as the operation that was called, on the resources that were *)
(* named: no slash or dot segment in an identifier, and no slash at the    *)
(* end of the base URL, leads to another route (segment, validate_box_id,  *)
(* BoxApi::new).                                                           *)
ReachesItsTarget ==
  served.kind # "none" =>
    /\ served.op = served.for.op
    /\ served.ids = served.for.ids

(* Only the deletion of a snapshot can be turned down for want of its      *)
(* confirmation, and only if the service does not read the identifier in   *)
(* the header as it is: the header carries the identifier itself, while    *)
(* the path carries its escaped form (delete_box, delete_snapshot).        *)
DeletionsAreConfirmed ==
  served.kind = "unconfirmed" =>
    /\ served.for.op = "delete_snapshot"
    /\ Read(served.for.ids[2]) # served.for.ids[2]

(* A caller that repeats a call it has no answer for, with the key it      *)
(* chose for that call, never gets a second box, even if the first request *)
(* is only delayed and arrives after the repetition (create, fork).  A key *)
(* of which the service reads nothing is none.                             *)
OneBoxPerKey == \A k \in Keys : Read(k) # Empty => created[k] <= 1

=============================================================================
