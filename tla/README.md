# A specification of the Ascii Box client

These modules specify `box_client`, the Rust client of the Ascii Box API, and its durable handoff
journal. Paths such as `handoff/mod.rs` are relative to `src/src/`. `PROJECT.json` lists the
components, the TLC runs, the mutants that show each property can fail, the source lines every
definition stands for, the hazards, and the theorems.

To check a run: `tlc -config MCHandoffJournal.cfg MCHandoffJournal`. To check the proofs:
`tlapm` on each module whose name ends in `Proofs`, for instance `tlapm EventStreamProofs.tla`.

## Inventory

The library is a set of async methods; nothing runs in the background except the blocking tasks
of the file store. What makes it hard is what its futures meet: they are dropped at any await, the
other side acts on requests the caller has given up on, several controllers share one store,
processes die between two system calls.

| Component | State | Operations | Hard because | Correct when |
|---|---|---|---|---|
| Handoff receipts (`handoff/mod.rs`) | phase, revision, plan, checkpoint, run id, last reconciliation | `validate`, `next` | reconciliation goes back a phase; the revision is finite | every receipt is valid, histories follow the table, the checkpoint survives |
| Store contract (trait `ReceiptStore`) | committed receipt per id | `load`, `compare_exchange` | a failed write may have committed, or commit later | writes are atomic on the revision and durable |
| Handoff journal (`HandoffJournal`) | none of its own; the receipts its callers hold | `create`, `load`, `advance`, `capture_with`, `restore_with`, `start_with` | races of controllers, lost answers, dropped futures, crashes while an external action runs | an action runs only under its committed claim, once per claim; with verified reconciliation each step is applied exactly once |
| File store (`handoff/file.rs`) | directory, receipt files, lock files, temporary files | `load`, `compare_exchange` as blocking tasks | tasks outlive their futures; crash and power loss between system calls; page cache order | keeps the store contract; what a caller was told survives power loss |
| Transport (`client/transport.rs`, `config.rs`, `error.rs`) | attempt, buffer | `execute`, `execute_bytes`, `send_once`, backoff | timeouts race answers; executed requests whose response is lost; body limits | only GETs are retried, only transient failures, no earlier than asked; bounded time and memory |
| Client operations (`client.rs`, `client/administration.rs`, `helpers.rs`) | none | 59 endpoint methods and their helpers | identifiers become parts of URLs; calls repeated while a first request is still on its way | a request means the operation and the identifiers of its call |
| Commands (`client.rs`, `config.rs`) | none | `command`, `command_raw`, `exec`, `exec_command` | two timers watch the same command | the result of a command that keeps to its time is not lost; no command is left running unnoticed |
| Configuration (`config.rs`) | public fields | `new`, `from_env`, `with_*`, `BoxApi::new` | values can be assigned past the checks | every client can run and talks to the service that was chosen |
| Waits (`wait.rs`) | deadline, last state | five waits over `poll` and `PollBudget` | deadline against late answers; states that never become ready | the deadline decides, no poll begins late, waits end |
| Event streams (`stream.rs`) | cursor, buffered page, flags | `stream_events`, `stream_prompt` | status and events are persisted in either order, pages repeat or lack cursors, cancellation while events are buffered | one prompt; each event once, in order, complete at the end |
| Wire types (`types*`) | none | serde, `Debug` | an untagged union is told apart by its fields only | no answer is decoded as the other kind; otherwise not modelled |
| Error texts, logging, crate root | none | `Display`, `Debug` | - | not modelled |

Interactions. The application calls the journal, which awaits its store; the store's file
implementation runs each call as a blocking task, so a dropped future leaves its task running. The
journal calls the application back to act on boxes, through `BoxApi` or otherwise. Every endpoint
method builds one request (`BoxApi`) and hands it to the transport (`HttpCall`). Waits and streams
loop over endpoint methods under one `PollBudget`. `BoxApi::new` is the only place where the retry
policy is validated, which the transport relies on.

## The modules

| Module | Models | Relation to others |
|---|---|---|
| `HandoffReceipts` | `HandoffReceipt::validate`, `next`, the transition table; definitions only | used by all handoff modules |
| `ReceiptStore` | the contract of the trait: invocation, commit, answer, return; ambiguous writes; outages | abstract specification of a store |
| `HandoffJournal` | the journal, its controllers and their external actions | EXTENDS `ReceiptStore`: the journal over any store that keeps the contract |
| `HandoffRecovery` | controllers that follow the recovery table of `docs/handoff.md`, a count of what goes wrong, fairness | EXTENDS `HandoffJournal`: application, journal and store together |
| `FileReceiptStore` | the Unix file store, system call by system call, for several receipts | what `FileStoreRefinement` maps |
| `FileStoreRefinement` | the refinement mapping: what the contract sees of tasks and files | `FileReceiptStore` implements `ReceiptStore` for each receipt (`KeepsTheContract`) |
| `RetryPolicy` | backoff, `Retry-After`, error classification, retry budget; definitions only | used by `HttpCall`, `CommandCall`, `ClientConfig` |
| `ApiCall` | what a caller may rely on: at most a budget of executions, a success was executed, a refused call never is, there is an answer | abstract specification of a call; waits and streams assume it |
| `HttpCall` | one API call from building the request to its result | implements `ApiCall` (`KeepsTheCallContract`, safety and termination) |
| `Operations` | method and route of every endpoint method; definitions only | used by `BoxApi` |
| `BoxApi` | a sequence of calls, their requests, and a service that routes them | one request per call; attempts are in `HttpCall` |
| `CommandCall` | one command, the client's timer and the box's, the decoding of the answer | uses the saturating arithmetic of `RetryPolicy` |
| `ClientConfig` | the making of a client | uses `RetryConfig::validate` of `RetryPolicy` |
| `PollWait` | `poll` under `PollBudget`, the five predicates | |
| `EventStream` | `initialize`, `next_event`, `pause`, `make_stream` | |
| `HandoffReceiptsProofs` | lemmas about receipts and transitions | used by the next two |
| `HandoffJournalProofs`, `FileReceiptStoreProofs` | theorems about the journal, the file store and its refinement | each EXTENDS the module it is about |
| `HttpCallProofs`, `EventStreamProofs`, `BoxApiProofs`, `CommandCallProofs`, `ClientConfigProofs` | theorems about the client | each EXTENDS the module it is about |

`MC*` modules only define constants, symmetry sets, constraints and one alternative initial state.

### How state and actions correspond to the code

*Handoff.* `committed` is the durable receipt, `stage`, `request` and `answer` the store call a
controller awaits. `pc[c]` names the await a controller is at: `create`'s compare_exchange,
`create`'s load after a conflict (`reopen`), `load`, the two compare_exchanges of `run_step` around
`acting`, where its callback runs, and `advance` by hand. `held[c]` is the receipt the application
has, which may be arbitrarily stale, `pending[c]` the begin receipt inside `run_step`. `effect[v]`
follows the external action begun under revision `v`; it goes on when its controller is dropped or
crashes. A write that fails, or whose caller is gone, stays in `ambiguous` and may commit later.
`Settled` and `Verified` say what the documentation of `ReconcileNotApplied` and of the confirming
transitions asks of applications; with `VerifiedReconcile = FALSE` they reconcile at will, but
still confirm by hand only what they have found to be done.

*Recovery.* `fresh[c]` says that `held[c]` is what the last call of the controller returned. With
it the controller takes the step its phase calls for, without it, after any error, it loads first;
an action it cannot decide about yet makes it wait. `faults` counts backend failures, dropped
futures, crashes and failing actions up to `MaxFaults`; `Busy` and `Conflict` are not faults and
may happen without limit.

*File store.* A task is at the system call named by `pc[t]`. `visible` is what the page cache
shows, `durable` what the disk holds; fsync, write-back and power loss move between the two.
`lock[i]` is the advisory lock, released by the guard's `drop` on every path and by the death of
its process. `exposed` collects what callers were given.

*Transport.* `timer` is what the request timeout or the sleep has left, `bytes` the buffer, each
byte marked with its attempt and place, so that a mixed-up body shows. `enroute` holds attempts
that the server has not executed yet, also after the client gave up on them.

*Operations.* A path is a sequence of pieces, a piece the sequence of names an unescaped slash
would separate, so that `a/b` and `a%2Fb` differ and dot segments act when the URL is normalised.
The service lives where the base URL leads once its own dot segments have acted (`Root`), and
routes what arrives by the table of `Operations`. A header carries its value as it is: reqwest only
refuses control characters (`Unsendable`; tab is none of them), so an identifier beyond ASCII goes
into the confirmation in raw UTF-8 and into the path escaped. What the service makes of a value is
the constant operator `Read`: HTTP cuts off blanks at the ends, and nothing says in which charset
octets beyond ASCII are read.

*Waits and streams.* Time is what a budget has left. A wait's resource and a stream's log live at
the service and change by themselves. A cursor is a place in the log.

## The runs

| Run | Shows | Bounds |
|---|---|---|
| `journal_verified` | with verified reconciliation: `ActedAfterCommit`, `ActionsDoNotOverlap`, `EachStepAppliedOnce`, `LegalHistory`, `CheckpointIsKept` | two controllers; revisions 0 to 3 from the start (begin, reconcile or confirm, begin again), 4 to 7 from a restored handoff to a launched one |
| `journal_careless` | applications reconcile at will (confirmations by hand are still of actions found to be done): `ActedAtMostOnce`, `ConfirmsItsOwnClaim`, `HeldIsCommitted`, `CreateKeepsThePlan` | two controllers, two plans, revisions to 3 |
| `recovery` | `HandoffCompletes` | two controllers that act as documented, one fault at any point (a failed action or attempt, a crash, a lost answer), revisions to 8: three steps and one that is taken again; fairness, with the hypothesis that no controller is refused for ever |
| `file_store` | `ToldIsDurable`, `NeverUnreadable`, `DurableHistory`, `OneWriterWins`, `LockIsFreed`, refinement of `ReceiptStore` | two tasks on one receipt, revisions to 2, receipts below, at and above the limit, fairness |
| `http` | `CallIsBounded`, `RetryAfterHonoured`, `BackoffIsExponential`, `RetriesExactlyTransient`, `WholeBody`, `BufferWithinLimit`, refinement of `ApiCall` | up to three attempts; delays below, at and above the request timeout, saturation at 5; every class of status and body, bodies up to one byte over limits 0 and 2 |
| `waits` | `DeadlineDecides`, `NoLatePoll`, `WaitEnds` | timeouts 0, 1, 3 and one too large |
| `streams` | `ExactlyOnceInOrder`, `EndIsComplete`, `OnePrompt`, `NothingSkipped`, `InterruptionStops`, `StreamEnds` | both streams, three events, page limits 0 to 2, every form of page, events without cursor or filtered by type; no deadline, one of 2 and one that cannot be represented; cancellation at any time; fairness |
| `stream_empty_cursor` | refutes `UnusableCursorsAreErrors` | three events, a service that writes an empty cursor |
| `api` | `ReachesItsTarget`, `DeletionsAreConfirmed`, `OneBoxPerKey` | all 59 operations, every class of identifier, three base URLs (slashes at the end, a dot segment inside); identifiers and keys with a blank at an end, of blanks, with a control character, an identifier that the service reads in another charset; the second of two calls is one that takes a key or deletes a box |
| `commands` | `OutlastsTheCommand`, `AnswersTellTheTruth` | command times around slack and request timeout, saturation; every set of fields a completed or started command may come with |
| `client_config` | `ClientsCanRun`, `TalksToTheChosenService` | two edits, seven URLs, three tokens, an organization, other timeouts and an unusable user agent, five policies |
| `client_config_loopback` | refutes `LocalhostMayUseHttp` | as `client_config` |

Every module that has state states its type invariant as `TypeOK`. All of them are proved, except
the one of `PollWait`, and `journal_verified` checks the journal's as well; adding
`INVARIANT TypeOK` to a cfg checks the others on its instance.

Why the bounds are enough. A claim is raced by two controllers; a stale receipt
needs one reconciliation and one new claim (revision 3); the two halves of `journal_verified` meet
every phase. `HalvesApart`, an ACTION_CONSTRAINT, keeps the first half from running into the
second. At most one *detached* write is open at a time (`OneAmbiguousWrite`, a CONSTRAINT); the
proofs cover any number, and any number of controllers. In the file store a task is a slot that
takes one operation after another, so two slots give all overlaps of two operations; receipts of
different ids share only the directory, whose sync makes more durable, never less. The
`stuck` pages of `streams`, on which the service repeats itself although there is more, belong to
`stream_events`: `EndIsComplete` rests on the service telling a prompt stream what it has. The log
is bounded, so `StreamEnds` does not cover a log to which others write for ever.
Durations are small numbers chosen to fall on
both sides of every comparison; `MaxDuration` stands for `Duration::MAX` and is reached.
`MaxRevision` stands for `u64::MAX` and is reached.

Two expected violations. `stream_empty_cursor`: where the newest event has no timestamp or id,
`initialize` takes `next_cursor` as it comes, so an empty text becomes the cursor of the stream and
goes into the next query; `next_event` treats an empty one as missing and ends with an error, which
is what `docs/guide.md` says of unusable cursors.

`client_config_loopback`: `validate_base_path` compares `Url::host_str()`
with `::1`, but the url crate returns `[::1]`; so `http://[::1]:8080` is refused although the
error text and the list of loopback hosts say that localhost may use http.

## Fairness

* `HttpCall`: the runtime fires timers and runs the call; nothing is assumed of the server.
  That the call ends, a part of `ApiCall`, then follows from the request timeout, which reqwest
  applies to headers and body.
* `PollWait`: the runtime runs the wait, time passes, and a fetch ends, as `ApiCall` promises.
* `EventStream`: the consumer keeps polling, a call ends, and a prompt on its way arrives.
* `FileReceiptStore`: the blocking pool runs its tasks. A task that was started is not cancelled
  by dropping its future, which is what tokio promises of `spawn_blocking`.
* `HandoffJournal` has no fairness: nothing in the library makes an application go on.
* `HandoffRecovery` assumes an application that goes on (weak fairness of every controller), a
  store that answers, and actions that end. What the store does when it does not refuse
  (commit, load, report a conflict) is strongly fair. That is a hypothesis, not something the code
  gives: the lock is tried, not queued for, so nothing keeps a receipt from being `Busy` at every
  single try, and one that is `TooLarge` is so each time. What `HandoffCompletes` then shows is that
  no phase is a dead end and that every lost race is recovered from, not that the lock is fair.
  No fairness of late commits, and none of faults.

## What is proved

Each theorem holds for every value of the constants that satisfies the named assumptions: any
number of controllers and tasks, any receipts, policies, logs, identifiers and bounds.

| Module | Theorem | Property |
|---|---|---|
| `HandoffJournalProofs` | `TypeCorrect` | `TypeOK` |
| | `IntentIsDurable` | `ActedAfterCommit` |
| | `HeldReceiptsAreCommitted` | `HeldIsCommitted` |
| | `ClaimsAreExclusive` | `ActedAtMostOnce` |
| | `HistoryIsLegal` | `LegalHistory` |
| | `CheckpointsAreKept` | `CheckpointIsKept` |
| | `ConfirmationsAreHonest` | `ConfirmsItsOwnClaim` |
| | `ActionsAreExclusive` | `ActionsDoNotOverlap`, if `VerifiedReconcile` |
| | `StepsAreAppliedOnce` | `EachStepAppliedOnce`, if `VerifiedReconcile` |
| | `CreationKeepsThePlan` | `CreateKeepsThePlan` |
| `FileReceiptStoreProofs` | `StoreTypeCorrect` | `TypeOK` |
| | `AcknowledgedIsDurable` | `ToldIsDurable` |
| | `AcceptedIsReadable` | `NeverUnreadable` |
| | `DurableHistoryIsLegal` | `DurableHistory` |
| | `OneWriterIsAcknowledged` | `OneWriterWins` |
| | `ImplementsTheContract` | `KeepsTheContract`, the refinement of `ReceiptStore` |
| `HttpCallProofs` | `CallTypeCorrect` | `TypeOK` |
| | `BufferIsBounded` | `BufferWithinLimit` |
| | `SuccessIsWhole` | `WholeBody` |
| | `CallEndsInTime` | `CallIsBounded` |
| | `RetryAfterIsHonoured` | `RetryAfterHonoured` |
| | `BackoffFollowsThePolicy` | `BackoffIsExponential` |
| | `RetriesWhatIsTransient` | `RetriesExactlyTransient` |
| | `KeepsTheCallSafely` | the safety part of `KeepsTheCallContract`, the refinement of `ApiCall` |
| `EventStreamProofs` | `StreamTypeCorrect` | `TypeOK` |
| | `OnePromptIsQueued` | `OnePrompt` |
| | `InterruptionIsHonoured` | `InterruptionStops` |
| | `EventsComeOnceInOrder` | `ExactlyOnceInOrder`, while cursors are usable |
| | `NoEventIsSkipped` | `NothingSkipped`, while cursors are usable |
| | `AnEndedStreamIsComplete` | `EndIsComplete`, while cursors are usable and if `TellsPromptsAll` |
| | `CursorsAreUsable` | `UnusableCursorsAreErrors`, if `WritesNoEmptyCursor` |
| `BoxApiProofs` | `ApiTypeCorrect` | `TypeOK` |
| | `RequestsReachTheirTarget` | `ReachesItsTarget` |
| | `DeletionsCarryTheirConfirmation` | `DeletionsAreConfirmed` |
| | `AKeyMakesOneBox` | `OneBoxPerKey` |
| `ClientConfigProofs` | `ConfigTypeCorrect` | `TypeOK` |
| | `EveryClientCanRun` | `ClientsCanRun` |
| | `ClientsTalkToTheChosenService` | `TalksToTheChosenService` |
| `CommandCallProofs` | `CommandTypeCorrect` | `TypeOK` |
| | `TheClientOutlastsTheCommand` | `OutlastsTheCommand` |
| | `AnswersAreTrue` | `AnswersTellTheTruth` |

`HandoffReceiptsProofs` has the lemmas about `PhaseAfter` and `NextReceipt`, and the theorem that a
transition a valid receipt accepts gives a valid receipt (`NextReceiptValid`).

**Assumptions.** `ReceiptAssumption`, `StoreAssumption`, `JournalAssumption`,
`FileStoreAssumption`, `DurationAssumption`, `CallAssumption`, `StreamAssumption`,
`CommandAssumption`, `ApiAssumption` and `ConfigAssumption` say that `Blank` and `None` are not
values of the other sets and that bounds and durations are numbers; `ApiAssumption` also that a
header can carry the identifier of a box and that the service reads it as it is. TLC evaluates each on the
instances of the runs. `RoutesAssumption` has no constants: it says of the table in `Operations`
that no request fits the routes of two operations and that deleting a box names a box, and TLC
decides it for the whole table.

**The journal.** `TypeOK` alone is not inductive, since the request a controller makes depends on
where it is; `Typed` adds `PointsMatch`. For the rest the invariant is `ClaimsInv`. A receipt
somebody knows is *genuine*: not ahead of the store and, if of the committed revision, the
committed receipt itself. Every write, awaited or ambiguous, is *derived* from a genuine receipt.
The store compares revisions only; but a derived write it lets through has the committed revision
as its base, so that base is the committed receipt, and the write is a legal successor of it with
a revision never used before. Hence what was genuine stays so (`CommitStep`), the controllers that
were or will be told of success hold different revisions (`WinnersDiffer`), and nothing was done
yet under the revision of an acknowledged begin, which is what `ActedAtMostOnce` needs when the
callback is launched. A worker's confirmation expects the revision of the claim it was launched
with (`PointMatches`); when it commits, that claim is the committed receipt
(`ConfirmsItsOwnClaim`). With verified reconciliation a claim is given back only when its action has
ended without effect, so that at most one action of a step is in progress or applied.

**The file store.** `StoreInv` says that every receipt file is whole and readable, that what tasks
see is at most one receipt ahead of what the disk holds (`FilesInv`), that who works on a file
holds its lock and knows what is in it (`HolderInv`), that a write past its check is ahead of all
that callers were told (`AheadInv`), and that what they were told is durable (`ToldIsDurable`
itself). The refinement adds no invariant: under `StoreInv` each step of a task is looked at for
one receipt, and is a step of the contract or none.

**A call.** `CallInv` joins what is on the wire with what the client counts (`WireInv`), the bytes
in the buffer with the response they come from (`BodyInv`), the result with what the server has
executed (`ResultInv`), and the time used with the attempts made (`ClockInv`): elapsed time and
what the timer has left stay within one request timeout per attempt and the sleeps between. The
backoff, a recursive function in the code's loop, is shown to be the capped exponential by
induction on the attempt.

**Streams.** The invariant is `Base` (types, what call is under way, the prompt's place) and
`StreamInv`: what was yielded and what is buffered, put together, is the log between the start and
the cursor, filtered (`BufferInv`); an answer
is a page of the log as it was when the service made it, or the page before once more
(`AnswerInv`); and the page on which a prompt stream ends was made after its run was seen to be
over (`EndInv`). The theorems on events assume that the stream never goes on from an empty
cursor, since that is what the code does not guarantee (`stream_empty_cursor`); `CursorsAreUsable`
proves the condition for every service that writes no empty cursor. `TellsPromptsAll` excludes a
service that ends a page of a prompt's events early and says there is no more.

**Operations.** The arguments of a call that is not refused have no dot segment and no empty piece,
so normalising base and route gives what normalising the base gives, followed by the route with
its slots filled (`ResolvedSplit`, `RequestForm`). Such a path fits the route of the operation
called and, by `RoutesAssumption`, no other (`OnlyHandler`). That a request keeps the form it left
with is the invariant, and it is what makes a late request of an earlier call harmless. Nothing is
assumed of how the service reads header values except for identifiers of boxes; so a deletion of a
box is never turned down for want of its confirmation, and one of a snapshot only if the service
does not read that identifier in a header as it is. HTTP says it does for visible ASCII. For other
identifiers the run `api` reaches deletions that are turned down: the client neither escapes nor
refuses such an identifier in the header.

**Commands and configurations.** `TimerInv`: as long as the network has slack left, the client's
timer has what the box's timer has and the unused slack. `AskedInv`: a configuration is what was
last asked for, up to slashes at the end of its URL.

Recursive functions are reasoned about in first order: the function is shown to exist by induction
over its length, and the definition chooses it. Induction over the natural numbers is the lemma
`Induction`, derived from the least element of a set (`WFMin`).

## Only model-checked

* Liveness under fairness, which the prover cannot do: `HandoffCompletes`, `LockIsFreed`,
  `WaitEnds`, `StreamEnds`, and that a call ends, the liveness part of `KeepsTheCallContract`.
* `DeadlineDecides` and `NoLatePoll` of `waits`: each speaks of single steps of a small state
  machine, and TLC sees all combinations of deadline, sleep, reply and state for its timeouts.
* `UnusableCursorsAreErrors` and `LocalhostMayUseHttp`, which the code violates.

## Not modelled

* Wire types other than `CommandResult` and `BoxState`, their serde code and redacting output, tracing, texts of errors: no control.
* Query parameters, JSON bodies, the organization header and base URLs with a query: requests carry
  them unchanged, nothing in the client depends on them.
* File names (an injective hex form of the id) and file modes; a store whose size limit was lowered
  since a receipt was written, which its documentation says cannot read it.
* Timestamps in cursors: that the service's order of events agrees with (timestamp, id) is the
  service's promise; the log is append-only here.
* Loopback addresses other than the two of 127.0.0.0/8 that `Loopback127` lists.
* HTTP redirects, connection pooling, and the connect timeout as distinct from the request timeout.
* Examples, scripts and tests.

## Plan

1. Done: handoff (receipts, contract, journal, file store) first, as its errors cost most; then
   transport, waits, streams, operations, commands, configuration. First theorems.
2. Done: the application that recovers, with liveness; the contract of an API call and its
   refinement; the size limit of receipts; the decoding of command results; every form of page and
   cursor.
3. Done: the safety properties of journal, file store, call, streams, operations, commands and
   configuration proved, with both refinements.
4. Next: `DeadlineDecides` and `NoLatePoll` for all timeouts and intervals; that
   `HandoffRecovery` implements `HandoffJournal`, so that the journal's theorems hold of it.
