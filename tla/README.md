# Verification of the Orka gateway for Telegram

TLA+ models of the adapter in `src/`, the TLC configurations that check them
on small instances, and TLAPS proofs of what holds on every instance.

The adapter stands between Telegram and Orka. Inbound, Telegram posts updates
to a webhook and the adapter admits them to Orka's event ingress. Outbound,
Orka posts deliveries and the adapter sends each as one Telegram message.
Telegram offers no idempotency key, so whether a message may be sent again is
decided by what a SQLite database remembers. That decision, under retries,
concurrent requests, ambiguous answers and crashes, is the centre of this
project.

## Inventory

| Part | State | Operations | Modelled in |
|---|---|---|---|
| Delivery store, `internal/store/deliveries.go` | tables `deliveries`, `delivery_idempotency`, `delivery_aliases`, `provider_cooldowns` | Begin, Inspect, updateDelivery (Mark...), lookups | `DeliveryStore` |
| Schema and recovery, `internal/store/store.go` | the same, `schema_migrations` | migrate, recoverInterruptedDeliveries | `SchemaMigration`; `DeliveryHandler` (Migrate, Recover) |
| Delivery handler, `internal/adapter/server.go`, `delivery_idempotency.go` | one goroutine per request; `providerGate`, a channel of capacity 1 | handleDelivery, executeTelegramDelivery, persistSendResult, replayDelivery | `DeliveryHandler`, promise in `AtMostOnceDelivery` |
| Telegram client, `internal/telegram/client.go` | of one call: `wroteRequest`, the connection | SendMessage, do, transportError, responseError | `TelegramClient`; its outcomes in `DeliveryHandler` |
| Update store, `internal/store/updates.go` | table `telegram_updates` | CreateUpdate, SaveUpdateResponse | `UpdateStore` |
| Webhook handler, `internal/adapter/server.go` | one goroutine per update; `chatLocks`, 64 mutexes | handleTelegramWebhook, admitEvent | `WebhookHandler`, promise in `Admission` |
| Update mapping, `internal/telegram/mapping.go` | none | MapUpdate | `MessageText` (texts), `ReplyRoute` (routes), `WebhookHandler` (its three outcomes) |
| Reply targets and route check, `reply_target.go`, `server.go` | none | Format/ParseReplyTarget, validDeliveryRoute | `ReplyRoute`; the decision in `DeliveryHandler` (constant `Routable`) |
| Process start, `cmd/orka-gateway-telegram/main.go`, `client.go` | files, registration at Telegram | Load, Open, getMe, setWebhook, serve | `ProcessStart` |
| Process stop, `cmd/orka-gateway-telegram/main.go` | handlers under way | SIGTERM, Shutdown, Close | `GracefulStop` |
| Protocol validation, `internal/protocol/validate.go` | none | checks of identities and texts | partly, `MessageText` |
| Configuration, `internal/config/config.go` | files | Load | partly, `ProcessStart` |
| Health and capability endpoints, deployment | none that changes | | not modelled |

How they interact. A request to `/v1/deliveries` is one goroutine that calls
the store several times, waits for the provider gate, and calls Telegram
between two store transactions. An update is one goroutine that holds its
chat's lock over two store transactions and a call to Orka. The two halves
share the process and the SQLite file but no table; they are modelled apart.
SQLite transactions are `BEGIN IMMEDIATE` on one file, so writes are serial;
reads of `InspectDeliveryWithIdempotency` are single statements outside any
transaction. A crash loses goroutines, locks and the gate, and keeps the
database and whatever is on the wire.

Hard behaviours, and so the hazards of `PROJECT.json`: a Telegram call whose
outcome is not known; a retry by Orka while the first attempt runs, under the
same or another delivery ID; a delivery ID of one delivery that is the
idempotency ID of another; an inspection that is stale when it is acted on; a
lease that expires under its holder; a result that cannot be recorded; a
crash anywhere; a `retry_after` that must hold for the whole bot; the same
update offered twice; an update ID with two contents; one failed update at
the head of Telegram's queue; a negative chat ID.

What makes each component correct. The store: one record per logical
delivery, aliases that never hide a record, final records that never change.
The delivery handler: at most one message per logical delivery, answers that
are true and agree, the claim of a sender untouched, the cooldown respected,
the gate and every claim let go in the end. The webhook: one event per update
ID, none forgotten before Orka has it, order kept, the queue moving. The
client: the classification never says that a message was not sent when it was
or may still be; over HTTP/2 it can (Findings). Mapping and reply targets: a reply goes where its event came
from or nowhere; no check is stricter than the one before it. Start: a
database that opens after any crash, updates that find the process. Stop: at
most one delivery without an outcome, within the grace period.

## Modules

    AtMostOnceDelivery  <-INSTANCE- DeliveryHandler, TelegramClient
    Admission           <-INSTANCE- WebhookHandler

    DeliveryStore   <- DeliveryHandler <- MCDelivery                     (TLC)
                                       <- DeliveryProofs <- AnswerProofs (TLAPS)
    TelegramClient  <- MCClient        (TLC)    <- ClientProofs  (TLAPS)
    UpdateStore     <- WebhookHandler  <- MCWebhook (TLC), WebhookProofs (TLAPS)
    ReplyRoute, MessageText <- MCMessages (TLC), MessageProofs   (TLAPS)
    SchemaMigration <- ProcessStart    <- MCStart   (TLC), StartProofs   (TLAPS)
    GracefulStop    (TLC, MCStop.cfg)           <- StopProofs    (TLAPS)

**DeliveryStore**: the four tables as functions from identity to row. An
operation that is one immediate transaction is one operator; a rolled back
transaction leaves the tables alone. A request is `[d, i, c]`: delivery ID,
idempotency ID, and everything else. Both IDs come from one set because
`delivery_aliases` has one namespace. `getDelivery` is the joined row with
its `COALESCE` defaults (a version 1 row is its own idempotency record);
`Read(r, n)` is the n-th SELECT of `resolveDelivery`, `Disagree` and
`FirstFound` what it makes of them. `BeginConflict`, `BeginRow` and
`BeginDelivery` are `createOrBeginDelivery` with claim = true and
claimRetryable = true, the only way the adapter calls it;
`updateDelivery` is the function behind all Mark functions. Times are stored
as differences to the present (`age`, `wait`, `cooldown`), which is all that
the code computes from them.

**DeliveryHandler**: a worker is one execution of `handleDelivery`; its `pc`
is where it is in the function, and `req`, `canon`, `result`, `reply` are the
function's variables. Each SELECT of the inspection is a step of its own;
each transaction is one step; a failure of the store, a cancellation of the
wait and a failure to record the result are steps beside them. A call to
Telegram is on the `wire` until Telegram posts it, refuses it, or loses it,
which can be long after the worker has given up (`ReceiveNothing`). `Crash`
is possible everywhere, also between `Migrate` and `Recover`. `answers`,
`asked` and `unrecorded` are history variables: nothing reads them but
properties.

**AtMostOnceDelivery** (with its own theorem, TLAPS): what `DeliveryHandler`
promises, without store, concurrency or crash: per logical delivery the tries that may yet become a
message (`flying`), the messages (`posted`), one `verdict`, and what Orka was
told. A delivery is tried again only while nothing flies, nothing is posted
and nothing is decided. `DeliveryHandler` implements it with the records as
verdicts, the wire and the chat as flying and posted, and the answers as what
was told; `TelegramClient` implements it with one delivery and one try.
Initially a delivery may have been tried once, landed or not, and decided: what
an earlier adapter leaves. *Promise* is what Orka may rely on: at most one
message (OneMessage), one verdict however often it asks (ToldOnce), and
verdicts that stay true, so that nothing lands after a refusal (ToldTrue).

**TelegramClient**: one `sendMessage` call. The caller (`at`) goes through
`SendMessage` and `do`; the transport's writer is a goroutine of `net/http`
that also runs the trace hook `WroteRequest`; Telegram and intermediaries
answer when they like; the request context and the client's timeout end the
call at any point (`over`); a closed pooled connection is dialed again, and so
is a stream that an HTTP/2 server turns away. The client of `main.go` has the
default transport, which agrees on HTTP/2 with an https server that offers it
(`proto`, chosen at every `Dial`). Over HTTP/1.1 the hook may run before or
after the last byte leaves, and `Do` returns no error before the writer has
stopped. Over HTTP/2 the hook is the last thing the writer does, is skipped
when writing fails, and a call that is over returns at once: the writer may go
on, with the hook still to run. `left` is a history variable for just that. `ClassifyTelegramFailure`, `retryAfterDuration`
and `Marked` are the code's functions over status, error code and
`retry_after`, the last with the width of a `time.Duration`. `net/http` is
external and modelled from how `do` uses it.

**UpdateStore**, **WebhookHandler**: the same for `telegram_updates` and
`handleTelegramWebhook`. `lock[w]` is the index of the chat lock a worker
holds. `Stream` is what Telegram has for the bot and `head` the update it
offers; `open` is the worker it waits for (one at a time: the webhook is
registered with `max_connections` 1). `Abandon` is Telegram's timeout; the
handler goes on, or is canceled (`StoreFails`, `AdmitFails`). `Direct` are
updates others post with the secret, which the handler's comment names as the
reason for the locks. Events on their way to Orka that nobody waits for any
more are `stray` and may arrive at any later time. Orka tells events apart by
their ID and acknowledges a known one as such.

**Admission**: the abstract promise. One by one, in Telegram's order, each
once; Telegram moves on only when Orka has the update or nobody wants it. Two
variables, two actions. `WebhookHandler` is shown to implement it with `head`
and `log` as they are.

**ReplyRoute**: `MapUpdate` writes a route into an event, Orka hands routes
back in deliveries, `ParseReplyTarget` and `validDeliveryRoute` judge them,
`SendMessage` compares the answer. A text is a decimal numeral (sign, leading
zeros, magnitude) or another word, which is all that `parseCanonicalInt64`
tells apart. Orka may mix the fields of different events and other texts as it
likes, and the process may restart with another bot's token while Orka still
has the events of the former one.

**MessageText**: texts as sequences of ten classes of runes with their UTF-8
widths. The checks of mapping, decoder, client and store, the loop that folds
display names, the truncation to 4096 characters at a grapheme cluster, the
cut of stored messages at a rune. A loop of the code is a function of the
number of runes it has seen: what has been written (`FoldRun`), used (`Used`),
encoded (`Encoding`). Its only variable is a text that grows, so that every
text within the bounds is a state. `MCMessages` extends it together with
ReplyRoute, with which it shares nothing: a behaviour there is of one of them.

**SchemaMigration**: `migrate` statement by statement in its one transaction,
with a crash or a failing statement anywhere, by releases that know one to
three migrations, on one file.

**ProcessStart** (extends it): `config.Load` reads the token file and then the
others, `store.Open`, getMe, setWebhook, serving; the operator replaces the
files at any time; a `setWebhook` call whose process died is late and Telegram
may act on it whenever it likes; `Accept` is the secret check of the webhook.
Its steps are steps of `SchemaMigration` or leave the database alone.

**GracefulStop**: `signal.NotifyContext`, `Shutdown` with its timeout, the
deferred `Close` and the exit, against deliveries that wait for the gate, send
and record, in ticks of time. The next process recovers what it finds.

Operators called "Fault" in a comment are deliberate mistakes (a dropped
guard, a missing reset). No action uses them; each is what some property is
there to catch, and `PROJECT.json` pairs them.

## What is checked

| Run | Instance | Shows |
|---|---|---|
| retried | `MCRetried.cfg`: one delivery under two delivery IDs, and other content under the first, 2 workers, lease 2, retry_after up to 1, 2 calls | TypeOK, AtMostOnce, TruthfulAnswers, FinalRecordsStay |
| pair | `MCPair.cfg`: two unrelated deliveries, 2 calls, retry_after up to 1 | PersistAccepted, CooldownRespected |
| legacy | `MCLegacy.cfg`: no row or any row the version 1 adapter can leave; one delivery under two IDs, and another, not routable, under the same IDs crossed | AnswersAgree, OneRecordPerDelivery, AliasesSound, InspectedConflictsAreReal; ReplayNeverClaims, DeliversAtMostOnce (refinement of AtMostOnceDelivery) |
| live | `MCLive.cfg`: one request, 2 workers, with fairness | GateIsServed, ClaimsEnd |
| cooldown | `MCCooldown.cfg` | a counterexample to CooldownExact, see Findings |
| stream | `MCStream.cfg`: 4 updates, 2 workers, 2 locks, only Telegram posts, with fairness | AdmittedInOrder (refinement of Admission), QueueMoves |
| rivals | `MCRivals.cfg`: 3 workers, 2 updates, 3 rival updates, 2 locks | TypeOK, OneEventPerId, ForgottenMeansAdmitted, SaveIsFirst, NeverAdmittedAgain |
| send | `MCSend.cfg`: one call over HTTP/1.1 or HTTP/2, 12 error codes, 4 statuses, 5 values of retry_after, with fairness | RetryAfterMarked, CallIsOneTry (refinement of AtMostOnceDelivery), SendReturns |
| unsafe | `MCUnsafe.cfg`: the same call | a counterexample to RetryableIsSafe, see Findings |
| messages | `MCMessages.cfg`: two events, two bots; texts of five runes | EchoReaches, NoMisdelivery, DeliveredThere; OnlyUnsafeRefused, NamesFolded, AcceptedPasses, SentWhole, CutBetweenRunes |
| start | `MCStart.cfg`: releases 1 to 3, two secrets, with fairness | VersionIsTrue, AlwaysOpens, AllAliased, Reachable, UpdatesFlow |
| stop | `MCStop.cfg`: three deliveries, the deployed timeouts | OneInterrupted, StopSpares, EndsInGrace |

What they mean, beyond the comments at the properties:

- AtMostOnce counts calls that *are or may become* a message, so it also rules
  out a second call while the first may still be acted on.
- TruthfulAnswers compares what Orka was told with the chat for ever after,
  not only at the moment of the answer.
- AnswersAgree is why the terminal replay exists: another delivery ID of the
  same logical delivery gets the same final answer. The exception in it is
  real: a delivery ID already taken by another delivery is a conflict.
- PersistAccepted says that the lease can never take a claim from its holder.
  The lease is reset only by `BeginDelivery`, in the gate, and the holder
  has the gate until its result is recorded or lost.
- InspectedConflictsAreReal compares an inspection of four unlocked reads
  with a transaction at the same moment.
- AdmittedInOrder holds although attempts are abandoned, repeated and overlap,
  and although strays arrive late: an update that is not the head of the queue
  is at Orka already.
- DeliversAtMostOnce says all of AtMostOnce, TruthfulAnswers and "decided
  once" as one refinement, and that nothing else is possible: a step of the
  handler is a try, a landing, a loss, a decision, a telling, or nothing.
- CallIsOneTry is what `DeliveryHandler` assumes of `SendMessage`: whatever
  the writer, Telegram and intermediaries still do after it has returned, a
  result that means "not sent" stays true. It ties the two models together.
  A call that is `left` has a result here but no decision, so the property says
  nothing of it; `DeliveryHandler` has no such calls, and RetryableIsSafe is
  what they break.
- NoMisdelivery lets Orka put any fields of any events together: of fields that
  disagree nothing is sent, so no mix of them moves a message to another chat,
  thread or bot.
- AcceptedPasses relates four checks in four packages: none of them is
  stricter than the one before it, so no delivery is claimed and then refused
  by the client for its text, and no identity changes on its way to the store.
- AlwaysOpens is about crash loops: a start killed at any statement never
  leaves a database on which a later start fails.
- Reachable and UpdatesFlow are why setWebhook is called at every start. The
  exception, a late call of a dead process, is real; see Observations.
- StopSpares rests on `REQUEST_TIMEOUT < SHUTDOWN_TIMEOUT`; see Observations.

**Bounds.** `MaxCalls` bounds sendMessage calls (call 1 is the one a version 1
adapter may have made): 2 adds a call to that one, 3 lets a refused or
ambiguous call be followed by another. `Lease` is 1 or 2 ticks: only "expired or not"
matters, and 2 makes a row that is neither new nor expired. `MaxRetryAfter`
of 1 makes a cooldown that holds and one that has passed. Two workers suffice
for every pairwise race of the delivery handler because the third would have
to wait for the gate; the webhook's locks get three, so that two can hold
different locks while a third waits. Two locks and chats -5, 3 and 4 make two
chats share a lock, one of them negative.

Of a call: `Codes` and `Statuses` have a value on each side of every comparison
of the classification; `Modulus` 256 and `Second` 100 make a `retry_after` of
1 representable and 2 and 3 not, one of which wraps to a negative and one to a
short wait. Of routes: int64 is -8..7, chats are both of its ends and an ID
that is also a thread, a message and a bot; two events (`TwoEvents`) can be
mixed, with spellings that FormatInt does not produce. Of texts: every text of
up to `MaxLength` 5 runes of the ten classes, with limits of 9, 4 and 5 bytes
and 4 characters, so that each limit falls inside a text, and inside a rune.
Of a start: three releases are all there are, two deliveries make one that is
aliased and one that is not, and three configurations rotate the secret, drop
updates and take the URL away; one bot, because registrations of different bots
do not meet (the proofs have any number). Of a stop: ticks of five seconds, so
that 15, 20 and 30 seconds are 3, 4 and 6; three deliveries are one that
sends, one that waits, and one that arrives late. Everything is unbounded in
the proofs but the releases, which are the three that exist.

**Fairness.** Of a delivery handler: weak fairness of every step that cannot
block (transactions have a busy timeout, the HTTP client has a timeout), and
strong fairness of taking the gate, because Go serves goroutines blocked on a
channel first come, first served. `ClaimsEnd` also needs Orka to retry and
time to pass, or a restart, and a process that does not die between migration
and recovery for ever (strong fairness of `Recover`), and a store that works
from some time on. The last is not simply "no step of `StoreFails`": a
transaction that finds the delivery in progress changes nothing and answers
"retry", which is the same step, and forbidding it would make `ClaimsEnd`
true for no reason. Of the webhook: the same for a handler's steps; strong
fairness of a chat lock (Go's mutex starves nobody); Telegram offers what was
not answered 200; and from some time on neither the store, nor Orka, nor
Telegram's patience, nor the process fails: otherwise an update can be
refused for ever, and should be.

Of a sendMessage call: the caller goes on when it can, `http.Client` has a
timeout (`Expire`), a call that is over fails (over HTTP/1.1 once its writer
has stopped), and a writer whose connection is closed stops; nothing is assumed of Telegram. Of a
start: its steps go on, with Telegram acting on the call the process waits
for, or it ends (a call that gets no answer fails by timeout, which is `Die`);
a failed start exits; Telegram offers what it has. The premise `Settled` says
that from some time on no process ends and no late call comes through.

## Findings

The comment at `internal/store/store.go:217` says that retries "cannot contact
Telegram before retry_after has elapsed". The cooldown becomes durable only
when `persistSendResult` commits. If that transaction fails, or the process
dies between Telegram's answer and the commit, the `retry_after` is lost. Run
`cooldown` has the trace; CooldownRespected, with exactly this exception,
holds. At-most-once is not affected.

The comment at `internal/telegram/types.go:106` says that the class of a result
tells whether a send "is safe to retry". `transportError` (`client.go:398`) says
"retryable" whenever the trace hook has not run when `Do` returns. Over HTTP/2
that proves nothing: `Do` returns as soon as the context is done (Orka hangs up,
or the timeout runs out), while the stream's own goroutine may be flushing the
last DATA frame, or be about to run the hook. The delivery is then recorded as
retryable, Telegram posts the message, and Orka's retry posts another. Run
`unsafe` has the trace. OnlyLeftIsUnsafe proves that this is the only way, and
SafeOverHTTP1 that there is none where HTTP/2 is not spoken: with a Bot API
server at an http URL, or with a transport that leaves HTTP/2 out. AtMostOnce,
TruthfulAnswers and the refinement of `DeliveryHandler` are about deliveries
none of whose calls was left so.

**Observations**, which contradict no doc and so are no runs:

- An update that `MapUpdate` finds invalid, or whose ID is known with other
  content, is answered 400 or 409, and Telegram, with one connection, offers
  nothing else until it gives up. `QueueMoves` leaves invalid updates out and
  the instance keeps one at the head. OnlyUnsafeRefused says which texts can.
- A `retry_after` above 9223372036 seconds overflows `retryAfterDuration`
  (`client.go:460`); the wait is then negative, and ignored, or too short.
  RetryAfterMarked excludes it by `Representable`; the instance has such values.
  It is also about answers that are read: one that comes after `Do` has left the
  call is lost, its `retry_after` with it.
- A `setWebhook` call whose process was killed may reach Telegram after the
  next process has registered another secret. Updates are then answered 401
  until the next start. Reachable names the case and no other.
- `StopSpares` needs the request timeout below the shutdown timeout
  (`TimeAssumption`). The deployed values, 15 s and 20 s, satisfy it; the
  defaults of the code, 15 s for both, leave no time to record an outcome.
- `DROP_PENDING_UPDATES` left on drops what is pending at every start, not
  only at the first; UpdatesFlow counts that as gone from the queue.
- An update that carries another bot's message but this process's secret (two
  bots registered with one secret and URL) is mapped under this bot's ID.
- A release that adds a field to what the delivery digest is made of would turn
  retries of stored deliveries into conflicts.

## What is proved

All proofs are for any sets of identities, contents, workers, requests, chats
and updates, any lease, any number of locks, any width of integers, texts of any
length with any limits, and any timeouts that satisfy the named assumptions.

**DeliveryProofs.** `Inv` is type correctness and seven parts, each needed by
another. *IdentityInv*: an alias names a record, every upgraded record is
reachable under its ID and its key, so a logical delivery has one record.
*EffectInv*: a retryable or permanent record has no effect in the chat or on
the wire, a delivered one has exactly its message, and an effect has a record.
*GateInv*: a worker between Begin and Persist has the gate. *ClaimInv*: the
record such a worker claimed is still sending, is its own, and what the
worker knows of the chat is so. *SeenInv*: a record read by the inspection is
still there, and final if it was final. *AnswerInv*: an answer is what a final
record says. *WaitInv*: only retryable records wait. AtMostOnce alone is not
inductive: a second call is excluded because a claim needs an absent or
retryable record (EffectInv), because the record is found under every ID of
the delivery (IdentityInv), and because nobody else claims meanwhile (GateInv,
ClaimInv). Theorems: AtMostOneMessage, AnswersTrue, ClaimsAreKept,
RecordsUnique, AliasesNameRecords, FinalRecordsAreImmutable,
ReplaysChangeNothing, CooldownIsLongest, TypeCorrect.

**AtMostOnceDelivery.** *Sound*: nothing flies of what is posted, "refused" is
decided only of what is free, "delivered n" only of what is posted as n. A try
needs a delivery that is free and undecided, so neither can be upset later.
Theorem: PromiseKept.

**AnswerProofs.** *AgreeInv* adds to `Inv` that a conflict is told only of a
request of which some ID names a record of another delivery (`Clash`), and any
other final answer only of a request all of whose IDs name its own record
(`Owned`). Aliases are never removed, so each holds for ever and the two
exclude each other. *Faithful* says that what an inspection has read of its
own delivery matches it. *CooldownInv*: the longest `retry_after` is in the
store, or with the worker about to record it, or was lost. Theorems:
NeverChangesItsMind, ConflictsAreReal, NoCallTooEarly. Its second part proves
`Implements`: every step of `DeliveryHandler` is a step of AtMostOnceDelivery
or changes none of its variables. The hard steps are BeginDelivery (a claim of
a retryable record is no decision and no try), the call itself (a `Try`,
allowed by EffectInv), Persist (a `Decide`, possible by ClaimInv) and Recover (a
`GiveUp` of all that were sending at once). PromiseKept carries the
promise of the abstract specification over to the detailed one.

**WebhookProofs.** *LockInv*: two workers past their locks have different
locks. *ClaimInv*: the row a worker read is unchanged until it saves. It needs
LockInv only for rows of the worker's own update, since equal updates have
equal chats, and the digest check of CreateUpdate for updates of other chats.
*SentInv*: what is at Orka or stray is what the row of its ID names.
*AckInv*, *CodeInv*, *RowInv*: an acknowledgement, a 200 or a stored response
means that Orka has the event. *OpenInv*: the worker Telegram waits for has
the head of the queue. Theorems: OneEvent, NothingForgotten, SaveFirst,
NotAgain, TypesHold. With nobody but Telegram posting (`Direct = {}`),
*StreamInv* adds that what is under way is not behind the head, and InOrder
proves the refinement of Admission step by step.

**ClientProofs.** *PhaseInv* relates the caller's and the writer's progress;
*WireInv*: a writer that has stopped without the hook has sent nothing, and an
envelope of Telegram's says what became of the request; *ResultInv*: a result
that means "not sent" is of a refused request, or of an unsent one whose
writer no longer writes, unless the call is `left`, for which PhaseInv says that
it was ended, over HTTP/2. Theorem Implements: CallIsOneTry; with it
RecordStaysTrue, the promise of AtMostOnceDelivery for one call that is not
left. Theorems OnlyLeftIsUnsafe and SafeOverHTTP1 say how far the finding goes.
*WaitInv* follows a `retry_after` from the envelope to the result and the
record; a wait that fits the positive half of the width is what it was before
the wrap (WrapFits). Theorem: WaitIsKept.

**MessageProofs**, texts. The only invariant is that a text consists of runes; the proofs
are about loops, by induction over their runes. Least (a set of naturals has a
least element) is WFMin of the library for `<`, which takes no operator
parameter; UpTo is the induction rule it gives, with a set in the place of a
predicate. A recursive function is a CHOOSE, so RunExists first shows that there
is a function with that recursion, and CollectIs, OffsetIs, EncodingIs, UsedIs and
FoldRunIs that the functions of MessageText have theirs. *UsedWell*: what the
truncation has used ends with a cluster, and no whole cluster that fits is left
out. ValidCuts: a prefix of an encoding is valid where a rune ends and nowhere
else, so moving the cut back stops at the last rune that fits. *Well*: what the
loop over a name has written is what Folded keeps of the runes seen so far, up
to a pending space, and once it has been left it is as much of the folded name as
fits. A pending space is dropped or written exactly as Folded drops or keeps the
last space between two words (PendingDropped, PendingWritten), and spaces around
a name add nothing (KeptSkips). Theorems: UnsafeRefused, AcceptedIsPassed,
FoldedAreNames, CutIsWhole, CutIsBetweenRunes.

**MessageProofs**, routes. *RoundTrip* (a formatted target is parsed back) and the lemmas
that equal texts are of equal numbers; *EventInv*: an event's route is that of
its message; *LastInv*: what was refused or sent is as the route check had it.
Theorems: RepliesArrive, NeverElsewhere, DeliveredIsThere.

**StartProofs.** *TxInv* and *DiskInv*: the transaction is at a `Position`,
where version, next statement and objects fit together; the disk is whole, and aliased if
its version is 2 or more. Theorems: SchemaIsWhole, NeverLockedOut,
NoneUnaliased. Every step of a start is one of SchemaMigration
(StartRefines), so StartMigrates carries them over. *StageInv*, *CallInv* and
*HookInv*: a call that is not late is the one the process waits for, and once it
is gone Telegram's registration is the process's. Theorem: ServesRegistered.

**StopProofs.** *GateInv*: only the holder of the gate has a record that is
sending while the database is open; *TimeInv*: the deadlines; *SpareInv*: where
the delivery that held the gate at the signal can be, and how much of the
shutdown timeout is left to it. Theorems: StopCostsOne, SendSurvivesStop,
StopEnds.

**Only model-checked**: GateIsServed, ClaimsEnd, QueueMoves, SendReturns and
UpdatesFlow, because liveness under fairness is beyond the prover. Every
invariant, action property and refinement that a passing run checks is a
theorem. No module has RECURSIVE operators.

## Assumptions

- One process at a time on one database (one replica, `Recreate` rollout).
- SQLite transactions are atomic, serial and durable; nobody restores an older
  copy of the file.
- SHA-256 of different JSON differs: a digest is what it was made of.
- The wall clock does not go backwards, and a call ends within the lease or
  its holder keeps the gate anyway (no property needs the former bound).
- Telegram did not and will not post a message it answered with `ok: false`,
  and never acts on a request it has not got to its last byte. Only Telegram
  writes valid envelopes; intermediaries send broken or unusable ones.
- Over HTTP/1.1 `httpClient.Do` returns no error before the transport's writer
  has stopped; over HTTP/2 only a call whose context or timeout is over fails
  while the stream is being written. A server that turns a stream away has not
  acted on it.
- For `DeliveryHandler`, and for nothing else: no call is left to an HTTP/2
  writer (see Findings).
- Thread IDs of Telegram are not negative.
- Orka deduplicates events by their external ID, as the protocol says.
- `DROP_PENDING_UPDATES` is not set where order and completeness of admission
  are concerned (`WebhookHandler`); `ProcessStart` has it.
- Adapters of schema version 2 leave states that are reachable here with no
  cooldown; version 1 leaves what `LegacyInit` enumerates, and no aliases.
- `encoding/json` yields valid UTF-8.
- The limit of a name is at least the bytes of one rune, and that of a message at
  least the characters of the truncation suffix (`IdentityAssumption`,
  `CharactersAssumption`; 256 and 4096 in the code).
- The token file and the secret file are read one after the other.
- Closing the database takes at most `CloseTime`, and the timeouts are ordered
  as `TimeAssumption` says.

## Not modelled, and the plan

Left out for good: health, readiness and capability endpoints (read-only);
deployment manifests and scripts; the parsing of configuration values and the
checks of secret files, which end the process before it has done anything; the
JSON shape, versions, kinds and bearer tokens of the protocol, checked before
any state is touched; the metadata keys of replies; logging and redaction.
`CreateDelivery`, `BeginDelivery` and `CreateDeliveryWithIdempotency` are
called by tests only.

What could come next: the stop composed with the webhook handlers and with the
retries of `DeliveryHandler`; a change of the bot on one database,
where updates are filed under `update_id` alone (`store.go:175`, the hazard
without a property; the repository's README tells operators to keep a database
with its bot).

## Running

    tlc -config MCRetried.cfg MCDelivery    # MCPair, MCLegacy, MCLive, MCCooldown
    tlc -config MCStream.cfg MCWebhook      # MCRivals
    tlc -config MCSend.cfg MCClient         # MCUnsafe
    tlc -config MCMessages.cfg MCMessages
    tlc -config MCStart.cfg MCStart
    tlc -config MCStop.cfg GracefulStop
    tlapm DeliveryProofs.tla                # AnswerProofs
    tlapm WebhookProofs.tla
    tlapm ClientProofs.tla                  # MessageProofs, StartProofs, StopProofs
    tlapm AtMostOnceDelivery.tla
