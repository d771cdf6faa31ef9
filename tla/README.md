# A TLA+ model of the email server

This directory specifies the parts of the email server in which several
goroutines, two stores that share no transaction, or a failure in the middle of
an operation decide whether mail is lost. TLC checks the specifications on small
instances; TLAPS proves all safety properties and both refinements for every
instance. `PROJECT.json` maps every definition to the lines it models,
and lists the hazards, the runs, the mutants and the findings.

Paths below are relative to `src/`.

## 1. The system

One Go process (`cmd/mailserver/main.go`) runs an SMTP server, an IMAP server, a
CalDAV/CardDAV server and an administration server on one SQLite database, one
tree of Maildir directories, one queue directory and one Redis server.

```
 client --SMTP--> smtp.Session --local--> sieve --> maildir.Store --> Maildir + SQLite
                      |                                  ^                 |
                      | external                         | IMAP commands   v
                      v                             imap.Session <-- mailbox trackers
                  queue file + RedisQueue <-- admin pages (retry, delete)
                      ^    |
           recovery --+    +--> delivery workers --> CircuitBreaker --> remote MX
                                   |  bounce
                                   +--------> RedisQueue, queue file
```

| Component | State | Operations | Talks to |
|---|---|---|---|
| Outbound queue `internal/queue/redis.go` | four Redis collections of ids, one JSON record per id | Enqueue, Dequeue, Complete, Retry, Fail, RecoverStale | Redis |
| Delivery engine `internal/smtp/delivery` | worker goroutines, recovery worker, context, queue directory | deliverMessage, sendBounce, cleanupMessageFile, Enqueue, Start, Stop | queue, breaker, MX resolver, remote servers |
| Circuit breaker `internal/resilience` | state, three counters, last failure time, a mutex | Execute, State, Reset | its callers |
| Mailbox store `internal/storage/maildir` | rows of mailboxes and messages, directories and files, one mutex | append, flags, copy, expunge, create, rename, delete | SQLite, file system |
| IMAP server `internal/imap` | sessions, one tracker per mailbox | the commands, notifications, IDLE | mailbox store |
| SMTP server `internal/smtp` | session (sender, recipients, user), submission files | AUTH, MAIL, RCPT, DATA, RSET | auth, greylist, sieve, store, engine |
| Greylist, Sieve | tables of triplets, scripts, vacation responses | Check, Execute, Cleanup | SQLite |
| Accounts `internal/auth` | users, aliases, used bytes | Authenticate, ValidateAddress, ResolveAlias, CreateUser | SQLite |
| Administration `internal/admin` | login attempts, sessions, CSRF tokens | login, pages, queue buttons | auth, queue |
| MX resolver `delivery/mx.go` | a cache with expiry | Lookup, ClearCache | DNS |
| CalDAV, CardDAV `internal/dav` | calendars, address books, ETags | PUT, GET, DELETE, REPORT | SQLite |
| Process and schema `cmd/mailserver`, `storage/metadata` | what is open, goroutines, schema version | serve, migrate, cleanup | everything above |

What is hard in it, and what makes each part correct:

* **Outbound mail.** Every worker reads and writes the same Redis collections; a
  record is read with one command and written back with another; a lost answer
  leaves it open whether a transaction was executed; the process may die or be
  stopped in the middle of an attempt; the recovery worker requeues what it
  believes abandoned. Correct means: no id and no file is lost, a message is
  `sent` only if a server took it and `failed` only for a reason, and every
  message comes to one of the two.
* **The breaker.** It mixes lock-free counters with a mutex. Correct means: a
  half-open breaker never runs out of slots, no transition is lost, it recovers when the remote side
  does and opens when it is down.
* **The mailbox store.** A message is a file *and* a row. Correct means: a
  message in the database can be read, an expunged one is gone, and UIDs ascend,
  whichever step fails and wherever the server dies.
* **IMAP sessions.** Notifications race with the commands that cause them and
  with each other. Correct means: a session that watches a mailbox hears of every
  message stored in it.
* **Inbound mail.** A message has several recipients, and the delivery to each is
  a chain of calls that fail one by one; quota and vacation answers are checked
  in one statement and counted in another. Correct means: what is acknowledged is
  kept, what is refused has left no copy, and parallel deliveries overrun a limit
  by a known amount only.
* **Sieve.** A parser that steps over what it does not know. Correct means: it
  does nothing to a message that its script does not say.
* **Greylist.** Correct means: nobody passes before the delay, and a server that
  keeps trying passes.
* **Administration.** Failed logins are counted under concurrent attempts; a
  session outlives the rights of its user.
* **DAV.** A PUT looks and writes in two statements, the ctag is a third.
* **MX cache.** Lookups delete, overwrite and read the same entry.
* **The process.** Any step of the start may fail, panic or be interrupted, and
  cleanup has to know what is open; two processes may migrate one database.

## 2. Modules

| Module | Models |
|---|---|
| `RedisQueue` | what lies in Redis, one operator per transaction |
| `DeliveryEngine` | workers, recovery, administrator and submissions over `RedisQueue` and the queue directory; failures, stop, crash, time |
| `ReliableQueue` | the abstract contract that `DeliveryEngine` implements |
| `CircuitBreaker` | one breaker, one step per atomic operation |
| `EngineBreaker` | the breaker as `deliverMessage` uses it |
| `MailStore` | one user's mailboxes: database and directories |
| `Mailbox` | the abstract mailboxes that `MailStore` implements |
| `Sieve` | parser, conditions, actions and executor, beside an interpreter of RFC 5228 |
| `Inbound` | deliveries to one account: envelope, alias, script, quota, append, answer; uses `Sieve` |
| `Greylist` | the row of one triplet and the sessions that check it |
| `ImapView` | what the sessions on one mailbox are told |
| `DavStore` | one calendar or address book, requests and a client in step with it |
| `AdminLogin` | rate limiter, sessions and rights of the administration server |
| `MxCache` | the cached records of one domain |
| `Lifecycle` | start, cleanup and schema migrations |
| `MCDelivery`, `MCEngineBreaker`, `MCMailStore`, `MCRecovery`, `MCServices` | instances for TLC |
| `*_proofs` | theorems, see section 6 |

Some operators are no part of the specifications: each stands before the
definition it is a plausible mistake in (a forgotten command, a dropped guard, an
off-by-one), under a comment that says what the mistake is ("Fault:" in the older
modules). `PROJECT.json` pairs every property of a passing run with one, and TLC
finds that property violated when the mistake takes the definition's place.

### RedisQueue and DeliveryEngine

`pending`, `processing`, `sent` and `failed` are the members of the Redis keys of
those names; `status` and `record` together are the JSON value of a message. A
MULTI/EXEC transaction or a single command is one step, and so the methods
that issue several commands are several steps: Dequeue is `DequeueQuery`,
`DequeueMove`, `DequeueGet`, `DequeueUpdate` and, on an error,
`DequeueRollback`; Retry, Complete and Fail are a read and a transaction each.
`copy[p]` is the record a process has read and will write back, possibly over
somebody else's write.

A command that fails (`RedisError`) may or may not have been executed. After
`Stop` the engine's context is cancelled, so that every command of an engine
goroutine fails *without* being executed while the goroutines go on to their
ends; that is how an attempt that ends during a stop leaves its id in
`processing`. `Crash` empties the processes at any point. Submissions
(`handleOutbound`, `Engine.Enqueue`) write one file and queue one message per
domain with it: `FileOf` need not be injective, and the code's
`cleanupMessageFile` does not know about it.

The remote server is its outcome: accepted, accepted after `ExecutionTimeout`
(the worker sees an error), temporary failure, permanent failure. What the
breaker does to an attempt is part of the temporary failures; the breaker itself
is a module of its own.

Time is abstract. `due` holds the pending ids whose score has been reached;
`record[m].recent` says that LastAttempt lies within the stale threshold. An
attempt is cut off after 2 minutes, a retry comes at the earliest after 5, and the
recovery worker waits for 10, so a score is reached and a LastAttempt grows old
only while no process handles the message (`Quiet`). One thing these times
do not exclude: a message that has just been moved to `processing` still
carries the LastAttempt of its previous attempt, and the recovery worker
may take it for abandoned. That overlap is an event of its own in the model.

Left out: the TTLs of sent and failed records (7 and 30 days), the statistics
hash, the order of scores among due messages (any due message may be next), the
health monitor, `Cleanup` (never called) and Redis persistence: Redis keeps what
it acknowledged.

### ReliableQueue

The contract: a message that was taken is active until it is recorded as sent or
failed; only a delivered message is recorded as sent; delivery is at least once,
so a delivered message may become active again. The mapping is `taken <- ` the
stored messages, `active <- pending \union processing`, the rest by name.

### CircuitBreaker and EngineBreaker

A step is one atomic load, add or store of `beforeRequest`, `afterRequest` or
`transitionTo`. `transitionTo` takes the mutex, resets three counters in turn and
stores the state; nobody else's adds respect that mutex. `elapsed` says that
Timeout has passed since lastFailureTime; `since` holds the callers that were
between two instructions at that moment, and the timeout of 5 minutes does not
pass before they have gone on. A refused caller calls again later (`CallAgain`),
not within the few instructions in which another caller takes its increment back:
callers that are refused by each other's increments in lockstep for ever are
excluded, which the back-off of at least 5 minutes justifies. `remote` is up,
down or flaky, and may change at any time.

`EngineBreaker` puts the check of `State()` before `Execute`, as
`deliverMessage` does. There is one breaker per domain; the registry is left out.

### MailStore

A message is named by the base of its file name, which is unique. `row[k]` has the
mailbox, UID, flags and the file name as the database knows it; `file[k]` has the
directory, `new` or `cur`, and the name as the disk knows it. An operation is one
step per statement or system call; the ones that write hold `Store.mu` from the
first to the last, but `UpdateFlags` and `CopyMessage` read before they take it.
`db` and `fs` events make a statement or a system call fail, `crash` empties the
clients and keeps database and disk. `torn` and `astray` remember the mailboxes
and messages for which an error or a crash separated database and disk, so that
the properties can say exactly which damage is possible and exclude any other.

`Dir.Unseen` is go-maildir's (v0.6.0): it renames every file of `new` to
`cur/<key>:2,` without telling the database. It is modelled from that behaviour,
as an effect of `AppendMessage`.

Left out: temporary files in `tmp` (nothing reads them), the order of flag
letters in a name, quota, search, statistics, the MIME parser, `MoveMessage` and
`DeleteMessage` (they have no caller) and the removal of a user. `PathOf` is
assumed injective; the code maps "a/b" and "a.b" to one directory (listed as a
hazard). Ids of mailboxes are not reused, as AUTOINCREMENT guarantees. The fast
path of `GetMessageBody` is one step.

### Mailbox

What IMAP clients may rely on: a message appears whole, with a UID above every one
its mailbox has given out; it keeps mailbox and UID, only its flags change; it goes in
an expunge, which takes all marked messages of a mailbox at once and no other, or
with its mailbox; INBOX stays. Files, rows, locks, errors and crashes are no part of
it. The mapping is `message <- ` the rows without the name of the file, the rest by
name: most steps of `MailStore` are invisible, an append is two steps (`TakeUid`, `Add`),
and the rollback of a failed create is a `Delete` of a mailbox that never had a message.

### Sieve

A token is a record; a test with its modifiers and lists, or an action with its
arguments, is one token, and `BadArg` marks arguments that their own parser
refuses. `ParseToken` is `parse`, `parseRule`, `parseCondition`,
`parseSingleCondition` and `parseAction` as an automaton: `mode` is the function
that would take the next token, `nots` and `count` are its counters, with the
limits `maxConditionDepth` and `maxArraySize`. `Evaluate...`, `Apply` and
`ExecuteScript` are the conditions, the actions and the executor. Whether a value
matches a pattern is a constant relation.

`StartRfc`, `RfcTokens`, `RfcToken` and `Write` are the reference, not code: an
interpreter of RFC 5228 that reads the same tokens, for scripts without nested
blocks and nested lists of tests. Every script the grammar allows, up to
`MaxScriptTokens`, is written token by token, and the two are compared wherever
it may end.

### Inbound

One account, its addresses, an alias that forwards outside; sessions on port 25
and on the submission port, with one message each. A step is one call of
database, store or queue in `deliverToLocalRecipient`, `handleInbound` or
`handleOutbound`. `acct` holds the rows of the account (script, mailboxes,
used_bytes, the record of vacation answers), `sess` what a session keeps of its
message, `local` the variables of `deliverToLocalRecipient` for the recipient at
hand. `Fault` lets a call fail, an
administrator deletes the user or changes the script at any moment. Every message
has size 1, and used_bytes is in messages: `AppendMessage` counts a message, and
`UpdateUsedBytes` counts it again, in the code as in the model. `fates`, `stored` and
`outbound` say what became of each recipient; `redirectLost` remembers a redirect
whose Enqueue failed, which the code logs and then acknowledges.

### Greylist

The row of one triplet with the ages of first_seen and last_seen; `Check` is its
SELECT, and the INSERT OR IGNORE and the UPDATEs are steps of their own, with the
hourly clean-up between them. An error lets the recipient pass ("unchecked").
`cmd/mailserver` calls neither `SetGreylister` nor `StartCleanupRoutine`, so the
greylisting that `README.md:484` describes is never active; the module models the
package as `Session.Rcpt` would use it.

### ImapView

`Select` reads the count, then finds or makes the tracker, then joins it; an
append stores the message, then finds the tracker, reads the count and queues
it. Each is a step. A count carries the number of messages ever appended when it
was read, so that the properties can say which messages it includes. The tracker is
go-imap's, modelled from its use: it queues a count for the sessions that have
joined, and refuses one lower than the last. A message stored between Select's
count and the join is announced with the next one only; `joined` leaves it out
of the properties.

### DavStore

Calendars with events and address books with contacts have the same handlers,
so one collection stands for both. PUT is four steps: read the row (an error
counts as absence), write it, write the ctag, read the ETag for the answer. DELETE
is two. ETags and ctags are drawn from one counter; the ETag stands for the data.
The client does what the ctag is for: PROPFIND, and a REPORT when it has changed.

### AdminLogin

`limit` is the rate limiter's entry for one address, with ages in place of times.
`handleLogin` is IsBlocked, Authenticate, and RecordFailure or a session; `withAuth`
is validateSession, the look at is_admin, and the handler, which may be the
edit or the removal of a user. A request's user may lose its rights between any
two of these.

### MxCache

`Load`, `DeleteExpired`, `Query`, `LookupAFallback` and `StoreRecords` are the
accesses of `Lookup` to the sync.Map and the DNS between them; records carry the
ticks since the DNS gave them. `MaxAnswer` is how long a lookup takes at most.

### Lifecycle

`Startup` lists the steps of serveCmd in its order and `Cleanup` the resources in
the order cleanup closes them; `tracked` is resourceTracker, `open` what the
process really holds. Every step may fail where the code has an error path, a
panic or signal may come at any of them, and the process may be killed
anywhere. `Migrate` reads the version once and then applies one migration per
transaction, in the server and in `mailserver migrate` at the same time.
Autodiscover is started and never shut down, and a DAV or admin server
whose goroutine has not yet made its http.Server is missed by Shutdown; the
property names both.

## 3. Runs that pass

| Run | Instance | States | What it shows |
|---|---|---|---|
| `races` | 2 workers, recovery, 1 message, 2 attempts, 1 event of fault, crash or overlap | 2.7 M | no id, file or attempt is lost in any interleaving |
| `domains` | 1 worker, 2 domains with one file, 1 bounce, 1 attempt each, 1 stop or crash | 1.4 M | no file is lost with shared files and bounces either, and `ContractSpec` |
| `liveness` | 1 worker, 1 message, 2 attempts, 1 event of any kind, fair | 119 k | every message settles, the queue drains |
| `recovery` | breaker: 2 callers, thresholds 2 and 2, one half-open slot; greylist: 2 sessions, delay 3, row age 5, a retry every 2; fair | 200 k | a slot is always left, no transition is lost, the breaker recovers and opens; nobody passes the greylist early, who keeps trying passes |
| `mail` | 2 clients, 2 messages; either 1 mailbox and 2 failures or crashes, or 2 mailbox ids, 3 names and 1 failure or crash | 2.7 M | messages readable through append, flags, copy, expunge, create, rename and delete; expunged files gone; UIDs ascend; `ClientSpec` |
| `services` | the services around queue and store, below | 1.8 M | the properties of `Sieve`, `Inbound`, `DavStore`, `AdminLogin`, `ImapView`, `MxCache`, `Lifecycle` |

`recovery` and `services` hold components that share no state, so each behaviour
is about one of them (`part` says which) and the others stay in their initial
states; interleaving them would multiply the states and show nothing more. `mail`
chooses between its two scopes in the same way.

The properties:

* `NeverDropped`, `StatusAgrees`: an id that is neither sent nor failed is where
  workers or recovery will find it, and the record does not contradict the
  collections. The read-modify-write of records is the danger.
* `SentIsDelivered`, `GivenUpForAReason`: what sent and failed mean.
* `FileUntilOutcome`: no file of untried mail is removed.
* `ContractSpec`: the refinement of `ReliableQueue`.
* `EverySettled`, `EventuallyDrained`: liveness of the whole path.
* `SlotLeft`, `NoLostTransition`, `RecoversWhenUp`, `OpensWhenDown`: the breaker.
  With two callers no slot leaks at all, with four they do: the property is what
  holds for any number, that one is always left.
* `MessageReadable`, `ExpungedIsGone`, `AscendingUids`: the mailbox store.
* `ClientSpec`: the refinement of `Mailbox`.
* `AllowedAfterDelay`, `RetryingIsAllowed`: the greylist, safety and liveness.
* `ActsAsWritten`: every action that Sieve applies is one the script executes by
  RFC 5228, as long as no stop was executed. The converse does not hold: `else`,
  `elsif` and actions outside a block are stepped over.
* `RefusedLeavesNoCopy`, `AcknowledgedIsSafe`, `SubmittedIsQueued`: what the answer
  to DATA means, with the exceptions the code makes (a redirect beside a keep, a
  redirect whose Enqueue failed).
* `QuotaOverrunBounded`, `VacationBounded`: how far parallel deliveries overrun.
* `CreateNeverReplaces`, `SyncSound`: a PUT that saw no row replaces none; a client
  with the collection's ctag has its items once no request is under way.
* `AttemptsBounded`, `ServedToAdmins`: the limit on logins, and that a request is
  served only to somebody who was an administrator during it.
* `WatchesTheTracker`, `WatcherIsTold`: no notification goes astray.
* `RecordsFresh`: no race of lookups keeps old MX records alive.
* `ReturnsWithNothingOpen`, `StoresOutliveUsers`, `MigratedOnce`: the process.

### Bounds

`EventKinds` and `MaxEvents` say which disturbances an instance has and how many.
One event is enough to reach each error path at each place, since it may happen
at any step; the single mailbox of `mail` has two, because a failure followed by a
crash in the clean-up is where file and row could part. Two workers meet in every pair of
steps; what a third could do to the same message is again a read or a write of the
same record. Two attempts give a retry after a retry; one attempt suffices where
the sharing of a file is the question. Two messages in a mailbox let an expunge
select one and leave the other, and let a copy or an append race with either.
Three names for two mailboxes let a name be reused while another mailbox takes
it. `FailureThreshold = SuccessThreshold = 2` lets two callers count
concurrently below and at the threshold. `Bounces` bounds how many bounces are
ever sent; a bounce is never bounced.

In `services`: nine tokens are enough for a rule with `allof` and two tests, one
with `not`, and for an `if` with an `elsif` or a bare action after it; blocks and
lists may have 3 members, and the depth of 4 leaves room for one `not`, so scripts
reach both limits. Two sessions deliver to one
account with a quota of 2, up to two recipients each, and one failure or
change by the administrator. Two DAV requests on one item with one failing
statement, 5 tags drawn. Two users and two requests at the administration server,
2 attempts, a window of 1 tick and a block of 2, sessions of 1, one edit. Two IMAP
sessions, two appends, one count that cannot be read. Two lookups with a ttl of 3
and answers within 2. Three migrations, as the repository has, two workers, two
starts. In the greylist, a delay of 3 with a retry every 2 lets attempts come before,
at and after the delay, and the row age of 5 is the least that lets the clean-up and
a retry meet. The theorems of section 6 have none of
these bounds, apart from there being some number of events.

Workers are interchangeable in `races` (no property names one), and so are
clients and keys in `mail`. Symmetry is not used where liveness is
checked.

Deadlock is checked in `recovery`. The other systems may rest: an empty queue
with every submission done, all keys used, a script at its bound, all messages
delivered.

### Fairness

* `DeliveryEngine`: weak fairness of every worker, the recovery worker, an
  administrator's request that has begun, every submission and the restart after a
  stop: the Go scheduler runs goroutines, and calls to Redis and to remote
  servers have timeouts. Weak fairness of time (`TimePasses`, `Expire`). Nothing
  forces a fault, a stop, a crash or an administrator's click.
* `CircuitBreaker`: weak fairness of a caller inside `Execute` and of the timeout;
  strong fairness of `BeforeRequest`, which says that there are always more calls to
  make. That is an assumption on the load: a breaker nobody calls stays open,
  in the code as in the model. Nothing forces `Reset` or the remote side.
* `Greylist`: weak fairness of the attempts (`Check`), of the statements of a check
  under way and of time. That the sending server tries again is what greylisting
  rests on; `RetryEvery` says how often, and `GreyAssumption` that a retry comes
  before the row is too old (5 minutes and 35 days in the code).

## 4. Runs that show a disagreement with the source's own words

| Run | Property | What the source says | What the code does |
|---|---|---|---|
| `double_dequeue` | `OneWorkerPerMessage` | `redis.go:281` "Atomically move to processing queue" | two workers that read the same head both move it, and both deliver it: the result of ZREM is not looked at |
| `admin_delete` | `DeletedLeavesQueues` | `handlers.go:855` "removes from active queues" | `Fail` removes the id from `processing` only; a pending message is delivered later |
| `shared_file` | `WaitingKeepsFile` | `delivery.go:342` "safely removes a message file" | the first domain's outcome removes the file the other domains' messages need |
| `engine_breaker` | `HalfOpensAgain` | `README.md:535` "5 minutes → circuit half-opens (try one)" | `deliverMessage` never calls `Execute` on an open breaker, and only `Execute` looks at the timeout |
| `sieve_stop` | `StopStops` | `actions.go:75` "StopAction stops processing more rules" | `Apply` of a stop does nothing and nobody sets `Rule.Stop`: the rules after it are applied |
| `expunge` | `PermanentlyRemoved` | `maildir.go:733` "permanently removes messages marked \Deleted" | a message stored without flags is renamed by `Unseen`, and `ExpungeMailbox` removes a name that does not exist |

`double_dequeue`, `shared_file`, `sieve_stop` and `expunge` need no failure at all.
`engine_breaker` is a temporal counterexample under weak fairness of every
worker and of the timeout; `OpenForGood` (section 6) proves for every instance that such
a breaker stays open. The properties of section 3 are stated so that they
hold in spite of these: `FileUntilOutcome` allows the removal after *any*
outcome of the file's messages, `ExpungedIsGone` names `Unseen` as a cause,
`ActsAsWritten` is about scripts in which no stop was executed.

## 5. Hazards without a property

`PROJECT.json` lists three: of two concurrent STOREs one is lost; a rename between
the two directory scans of `GetMessageBody` hides a message from one FETCH; and the
EXPUNGE responses, which are built after the rows are gone. The models of the
store have the first two as behaviours, and no property forbids them.

Met while modelling, and not stated as properties because no line of the source
promises otherwise:

* the half-open calls of the breaker exceed HalfOpenMaxCalls, because the caller
  that makes the transition is not counted;
* `isPermanentError` looks for digits anywhere in a text;
* "a/b" and "a.b" have one directory, and UIDVALIDITY is the time in seconds;
* UIDNEXT is raised before the row is inserted, and `GetMailboxStats` reads without the
  lock: a client may be told a UIDNEXT above the UID of a message that it has yet to see
  (`TakeUid` of `Mailbox` allows it);
* used_bytes counts a delivered message twice, in `AppendMessage` and again in
  `UpdateUsedBytes`;
* `backend.go:317` leaves failed recipients to a DSN "if needed"; none is sent, so
  a recipient that failed beside one that did not gets nothing;
* a PUT with If-Match looks at the ETag in one statement and writes in another, so
  an update between the two is lost, and the ETag it answers with may be another's;
* autodiscover is not shut down, and neither is an http server that cleanup
  reaches before its goroutine has made it;
* a message stored while a session selects its mailbox is announced late.

## 6. Proofs

Each theorem is for every value of the constants under the named assumptions of
the modules: `MaxAttemptsAssumption` (attempt limits are positive),
`EngineAssumption` (the processes are distinct, a bounce has a file of its own),
`BreakerAssumption` (thresholds are positive, the null caller is none),
`StoreAssumption` (INBOX exists, names have directories of their own),
`NullAssumption` (the null row and file are none), `MxAssumption` (a positive ttl),
`ViewAssumption` (the null tracker is no session), `GreyAssumption` (positive
periods, a retry before the row is too old), `LoginAssumption` (positive limits, at
least two attempts, a block longer than the window, as the constants of
`ratelimit.go` are), `InboundAssumption` (finitely many sessions, envelopes of known
addresses), `ScriptAssumption` and `SieveAssumption` (the null test is no test, sizes
are numbers, action tokens are actions), `DavAssumption` and `LifeAssumption` (bounds are numbers). TLC evaluates
all of them.

| Module | Theorems |
|---|---|
| `DeliveryEngine_proofs` | `TypeCorrect`, `NothingDropped`, `StatusConsistent`, `SentWasDelivered`, `FailedForAReason`, `FileKept`, `ImplementsContract` |
| `CircuitBreaker_proofs` | `BreakerTypeCorrect`, `TransitionsNotLost`, `SlotsLast`; of `EngineBreaker`: `EngineBreakerSound`, `OpenForGood`, `PromiseNeedsRestart` |
| `MailStore_proofs` | `StoreTypeCorrect` |
| `MailStoreSafety_proofs` | `MessagesReadable`, `UidsAscend`, `ExpungedGo`, `ImplementsMailbox` |
| `Inbound_proofs` | `RefusalsLeaveNothing`, `AcknowledgedAreSafe`, `SubmissionsQueued`, `QuotaHolds`, `VacationsLimited` |
| `Sieve_proofs` | `ScriptsAsWritten` |
| `Server_proofs` | of `MxCache`: `LookupsFresh`; of `Greylist`: `GreylistTypes`, `GreylistDelays`; of `AdminLogin`: `LoginsLimited`, `AdminsServed`; of `Lifecycle`: `MigrationsOnce`, `CleanupComplete`, `StoresOutlive`; of `ImapView`: `AllWatchOneTracker`, `NoAppendUntold`; of `DavStore`: `CreatesNeverReplace`, `ClientInStep` |
| `Services_proofs` | `ServicesTyped` |

**Delivery.** `Typed` adds to the type invariant that a process past `idle` holds
a message. `Safe` is the inductive invariant of all six safety results. The
properties alone are not inductive, because a process will write back what it has
read and act on what it has seen: `Progress` says, for each place in the code,
what the holder of a copy is entitled to write (a worker at `completeTx` has a
delivered message, one at `giveUpTx` has a reason); `Counts` bounds the attempts
in every record by those begun; `Known` says that ids in the collections have
records; `QueueingHasFile` that a submission under way still has its file, unless one of
its messages has had its outcome. The argument runs through one lemma: every step
is a guarded Redis transaction or
leaves Redis alone (`NextIsRedisStep`), so each invariant is checked once per
transaction, not once per action. Guards stay true because the histories grow
(`GrowingStep`). The refinement uses the same lemma: each transaction is one step
of `ReliableQueue` or none.

**Breaker.** `Inductive` adds to the types that the mutex is held exactly at the
locked places (`MutexHeld`), and that whenever a counter is at its threshold in
a state that should be left, some caller is on its way to leave it
(`FailuresSeen`, `SuccessesSeen`). That caller is what makes `NoLostTransition`
inductive: the counters may well be at the threshold while somebody is under way.

That every slot is given back, which TLC shows for two callers, is not true of more:
a call that took its slot before a transition gives it back to a counter that was
reset, and a call that read the half-open state takes one of a state that has
passed. `SlotsCounted` is what remains: beyond HalfOpenMaxCalls there are only
calls that will be refused, and in the half-open state at most HalfOpenMaxCalls - 1
slots are taken by nobody who is under way. The transition to half-open stores 0
first, and a caller is let in only below the maximum; so leaks never add up to all
slots, and `SlotsLast` follows at rest.

In the engine's use every step but the deferral of a message is a step of the breaker,
so `Accounted`, the invariant of all three, holds there as well (`EngineBreakerSound`).
`LeftOpen` is an open breaker with no worker between its look at State() and the end of
beforeRequest. Every step of the engine leaves it so (`LeftOpenStep`): the workers that
come see "open" and defer, those inside calls only stamp the time of a failure, and the
timeout changes nothing that State() looks at. Hence `OpenForGood`, and
`PromiseNeedsRestart`: what the repository's README says of half-opening is true only
of behaviours without such a state.

**Mailbox store.** `Typed` adds that `Store.mu` has one holder, which is at a
locked place (`MutexHeld`), that locals are set where they are used, and that a
row under change exists (`RowHeld`). `Sound` adds what is true of the stored state
at every moment (`Stored`: UIDs below uidnext, unique names, rows whose UID was
issued, files in directories that exist), that keys in use by an append are
nobody else's (`Fresh`), and for each client what it relies on at its place
(`Holds`). The holder of the lock relies on the stored state; nobody else
changes it (`LockedStep`, `UnlockedStep`), and a crash is the one step that
takes a client from the middle of an operation (`CrashSound`).

An expunge removes the file its row names, so `ExpungedGo` needs that rows and files
agree before there is an expunge: `Clean` says that they have one name and one
directory (`KeysAgree`, `PathsAgree`), outside the exceptions the property names
and the rename or SetFlags that is under way, and what the client under way knows
of both (`Knows`), so that it can restore the agreement or has to be recorded in
`astray` or `torn`. Only the holder of the lock knows anything (`Uninformed`),
and what it knows nobody else changes.

`ImplementsMailbox` goes step by step: one lemma for each command says which step of
`Mailbox` a statement on the database is, and all others leave what clients see alone
(`DbKept`, `OnlyFileName`). From `Sound` come the guards: a UID above all issued ones, a mailbox
that is still there, no message in a mailbox whose create is taken back. That INBOX is
never that mailbox needs an invariant of its own (`InboxSafe`): it keeps its name, so
delete and rename refuse it, and it has an id that create does not give out again.

**IMAP views.** `ViewInv` adds to the types that there is one tracker once there is
any, and everybody who has looked it up has this one (`OneTracker`), and that a
count about to be queued was read after its append (`CountIncludes`). The first is
what makes a notification reach those who watch, the second what makes it include
the message; a notification that finds no tracker is sound because then nobody
watches.

**DAV.** `DavInv` says that a ctag drawn and not yet written is nobody else's
(`CtagsFresh`), and that a client whose ctag is current and whose items are not has
a request under way whose ctag will tell it (`SyncSoon`). Without the first, the ctag
that is written last could be one the client already has.

**Inbound mail.** `InTyped` leaves the result of a script opaque: no theorem here
depends on what a script computes. `SettledInv` relates the loop over the recipients to
the copies: a fate that was noted has its copy (`Noted`), a copy has its fate, or is the
one just stored (`StoredFor`, `QueuedFor`), and the answer follows from the fates
(`Replied`). `QuotaInv` counts the sessions in flight, those whose reading of
used_bytes lets them pass: what is stored together with what is in flight
exceeds the quota by at most one per other session and one per mishap (an update of
used_bytes that failed). It is in-flight messages that make it inductive: an append moves
one from the second count to the first. `VacationInv` counts in the same way the answers
that are sent, handed to a goroutine, owed, and about to be recorded.

**Sieve.** `InStep` relates the parser and the interpreter of RFC 5228 after every token:
they are at the same place of the script (`SamePlace`), an odd number of `not`s is a
negation (`SameSign`), the conditions read so far match exactly where the test has its
value (`SameValue`), and what the rules and the open block do, the script does
(`SameDeeds`). The executor folds over rules and actions, so every step needs what
FoldLeft makes of one element more. `FoldSteps` proves it for the two folds of the model:
the recursive function behind FoldLeft exists and is unique for every sequence
(`OneFold`), and goes on by one step (`FoldAppend`). The induction over the length goes
through a least counterexample (`LeastNat`), for the library's theorem about least
elements has no operator parameter. After a parse error only
the last of these goes on: the rules already read stay within what the script has done.

**Greylist.** `GreyHistory` carries the age of the first deferral to the row, the
passed flag, and the sessions between SELECT and UPDATE. A row is never older than its
first deferral, whatever the clean-up and a second insert do, which is why the delay
has really gone by.

**Administration.** `LimitInv` counts the requests that were let in and have not yet
failed together with the failures of the window; and an entry at its limit was blocked
after its window began, so that a block that is over never leaves an open window at
the limit. `ServedInv` follows a request from the look at is_admin to its handler.

**Process.** `MigrationInv`: the schema is a prefix of the migrations, each committed
once, and what a Migrate has left to do begins at most one past the prefix it has
seen. `ResourceInv` says what is open at each step of the start (`OpenedSoFar`) and of
cleanup (`ClosedSoFar`), that cleanup knows the owner of whatever is open (`Owned`), and
that stores are there for their users (`StoresThere`). `Owned` is what makes the jump
from any step of the start to cleanup sound.

**MX cache.** `Fresh` bounds the age of records by that of their entry and the time
of a lookup (`EntryFresh`), and on the way to the cache by the time of their own
lookup (`LookupFresh`); the order of Delete and Store then does not matter.

**The services together.** A step of `MCServices` is a step of one component and leaves
the variables of the others alone (`ServicesProject`), so its behaviours are behaviours
of each (`ServicesAreComponents`) and the theorems above are about what the run checks.
`ServicesTyped` collects the types. Four components needed more than their inductive
invariants say: the counters of the Sieve parser stay within its limits (`Limited`), an
ETag is one that was drawn (`DavDrawn`), places, workers and http servers of the process
are within their lists (`LifeBounds`), and no IMAP session has more counts queued than
messages were ever appended. The last is a counting argument (`QueueRoom`): the counts in
a session's queue and the appends under way together are at most the appends made, since
an append that queues its count is under way no longer.

All these inductive invariants were checked by TLC on instances of section 3 before
they were proved.

Only model-checked: the liveness properties `EverySettled`, `EventuallyDrained`,
`RecoversWhenUp`, `OpensWhenDown` and `RetryingIsAllowed`. Fairness is beyond the prover.

## 7. Not modelled

* The tokenizer of Sieve and the arguments inside a test or an action, MIME
  parsing, configuration, setup, DNS tools, autodiscover's documents, logging and
  metrics: parsing and formatting without concurrent state.
* DKIM, TLS, password hashing: cryptography. The audit log only appends.
* The commands for domains and users and most pages of the administration server:
  single statements on the database. CSRF tokens and headers.
* FETCH, SEARCH, LIST and STATUS, which read only, and the responses to EXPUNGE.
* UpdateCalendar, DeleteCalendar, ClearCache, CleanupOldResponses, MoveMessage and
  DeleteMessage: they have no caller.

## 8. Plan

1. `DeliveryEngine` with a breaker per domain in place of the abstract temporary
   failure.
2. The responses to EXPUNGE over `ImapView`, with sequence numbers.
