# TrustedCourier in TLA+

TrustedCourier is a server that gives Agents access to Secrets without handing
the Secrets' Backends to them. An Agent presents an Agent Token; the server
decides by Policy; the Secret is fetched from a Backend through a Backend
Plugin, and is either returned (Reveal Delivery) or injected into a request to
an Upstream whose response is masked (Proxy Delivery). Every attempt leaves one
Audit Record in a hash chain with signed checkpoints.

This directory holds TLA+ models of the parts whose correctness depends on
order, failure and time, the TLC runs that check them, and TLAPS proofs.

    tlc -workers 2 -config AuditLog.cfg MCAuditLog            # one run
    tlapm AuditLogProofs.tla                                  # the proofs about one module

and likewise for the other modules whose name ends in `Proofs`.

`PROJECT.json` lists the runs, the source lines behind every definition, the
hazards the properties are for, and the findings.

## Inventory

| Part (source) | State | Operations | Hard because | Correct when |
|---|---|---|---|---|
| Audit log (`internal/audit`) | two SQLite tables; `seq`, `head`, `cpSeq`, backlog, key, two atomics | Open, Start, Append, flush/store, retryStore, checkpoint, Ready, Close, Verify | inserts fail and are retried by a goroutine; the key arrives late; crashes; Verify runs beside appends | the chain never breaks, each record is stored once, none is lost silently, Verify neither misses nor invents a break |
| Secret Resolver (`internal/resolver`) | cache entries with timers, locked buffers | Resolve/get, prune, expire, close | fetches and fired timers outlive reloads and Close | what is cached is what the config caches, fresh, and wiped in time |
| Running config (`internal/config/running.go`) | the snapshot in effect | Reload, Snapshot, OnReload | readers keep old snapshots | one config per Delivery |
| Certificate manager (`internal/certmanager`) | certificate served, pair pending, earliest order; the Backend's two values | StartACME, loadStored, obtain, store, serve, Close | two writes per pair, lost answers, restarts, backdated certificates | what is served is stored; the CA is not flooded; a certificate is obtained in the end |
| Access (`internal/access`) | tokens and the Operator Credential in SQLite | Issue, Revoke, Authenticate, Authorize, AuthorizeProxy, EnsureOperatorCredential | revocation races use; entries interact | exactly the Policies' Deliveries are allowed |
| Agent API (`internal/agentapi`, `internal/httpserve`) | routes of a snapshot, in-flight handlers, `stopping` | reveal, proxy, record, Serve | handlers outlive connections; panics, timeouts, shutdown and departing Agents meet | one truthful record per attempt; nothing used after it is closed |
| Redaction (`internal/redact`) | held bytes and their marks | Write, Close, String | matches split over writes, overlapping | the output is the whole response masked |
| Server (`internal/server`) | start-up and shutdown order | Run | deferred order | services outlive their users |
| Plugin host, SDK client (`internal/pluginhost`, `sdk/plugin`) | one supervised process per Backend Plugin | launch, handshake, refuse, exit, relaunch, Get, WriteCourierKey, Kill, Wait | restarts and shutdown race calls and launches | calls fail cleanly, a dead plugin is replaced, none is left behind |
| OpenBao plugin (`plugins/openbao`) | a cache of mounts; the record is OpenBao's | Get, WriteCourierKey, List | answers are lost or late, others write the same record, three kinds of 404, limits | what a caller is told is true, no other field is lost, a list is complete or refused |
| tc-exec (`cmd/tc-exec`) | prepared jobs, workers, mailboxes of FIFOs | submit, dispatch (socket, mailbox), expire, close | two transports for one job; dispatchers disappear; crashes | at most one execution per job, limits hold, nothing runs on for nobody |
| tc init, database (`internal/cli`, `internal/bootstrap`, `internal/store`) | seal key file, token file, OpenBao, schema, Operator Credential | a resumable sequence of steps | interrupted anywhere, run twice, beside the server | nothing that counts is lost; a run that ends well left everything |
| ACME orders, DNS (`internal/acmecert`, `internal/dnsprovider`) | account key, challenges, record sets, zone cache | Obtain, Present, CleanUp, propagation | changes carried out although they failed, slow name servers, other writers | a validation can succeed, records are removed, one account |
| Config (`internal/config`) | none | Load, validate | the parts of a config constrain each other | what is accepted can be served |
| Admin API, CLI, unixsocket, secret, harden, pemkey, tc-claude-hook | little or none of their own | | I/O, parsing, system calls | |

The parts meet as follows. `server.Run` builds them and ends them in the
opposite order. A request of the Agent API reads the audit log's `Ready`,
authenticates against SQLite, takes one config snapshot, asks the Resolver,
which asks a Backend Plugin, and calls `audit.Append` when it ends. A reload
stores a new snapshot and then calls the cache's `prune`. The certificate
manager reads and writes Courier Keys through the same plugins, and gets its
certificates from ACME orders. `tc init` prepares OpenBao, the plugin's token, the
signing key and the database that the server then opens. `tc-exec` is a program
of its own, which runs an Agent's commands outside its sandbox.

## Modules

| Module | Models |
|---|---|
| `AuditTrail` | what the audit log promises: an in-order, append-only, signed trail |
| `AuditLog` | the audit log; instantiates `AuditTrail` under a refinement mapping |
| `AuditVerify` | `Verify` beside `AuditLog`, and a file that is edited |
| `AuditLogProofs` | proofs about the audit log and about `AuditVerify` |
| `SecretCacheProofs`, `CertManagerProofs`, `ExecBrokerProofs`, `AcmeOrderProofs`, `FirstBootProofs` | proofs about the module each is named for |
| `DeliveryProofs` | proofs about `Delivery`, `Redact` and the operators that `MCRequests` asks about, in a section each |
| `SecretCache` | Resolver, cache, reloads and rotating Backends |
| `CertManager` | `runACME` over a Backend that stores two values, and a CA |
| `PolicyRules`, `PathRules` | `Authorize` and `AuthorizeProxy`; forwarded paths and path prefixes, as operators |
| `Delivery` | the Agent API's handlers with reloads, revocations and shutdown; uses `PolicyRules` |
| `Redact` | the redacting writer |
| `ProxyRequest`, `ProxyResponse` | credential slots and the request an Upstream is sent; headers, trailers and encodings of its response, as operators |
| `PluginHost` | the supervisor of one Backend Plugin and its processes |
| `OpenBaoKV` | a Backend call through `PluginHost`, the SDK and the OpenBao plugin; extends `PluginHost` |
| `OpenBaoKVProofs` | proofs about the plugin host and the calls through it, under every step of `OpenBaoKV` |
| `OpenBaoList` | the plugin's List, as operators |
| `ExecBroker` | the broker of tc-exec, its mailboxes and their dispatchers |
| `AcmeOrder` | Obtain with the four DNS providers, the CA and the name servers |
| `FirstBoot` | runs of tc init and of the server on a fresh machine |
| `ConfigRules` | the rules of config validation that relate parts of a config |
| `MCRequests` | the operator modules together: one input, and what each algorithm makes of it |
| other `MC...` | a module for TLC: symmetry sets and small configs |

Operators named `Bad...` are faulty variants of the definition that follows
them, each the kind of slip the code could have. No specification uses them;
`PROJECT.json` ("mutants") says which property rejects which.

### AuditLog

The durable state is the two tables, as functions from sequence number to row.
Hashes and signatures are symbolic tuples, so they are equal exactly when they
cover the same content. `mu` names the lock's holder and `step` where it
stands, so that `store` is three steps (the row and the memory of it, the
stream, the checkpoint) and `Crash`, `Ready` and Verify's queries fall between
them. The atomics `keyLoaded` and `backlogged` are variables of their own.
`loader` is the goroutine of `Start`, `retriers` counts `retryStore`
goroutines. `made`, `logged` and `dropped` are history. A failed load of the
key and a failed checkpoint INSERT change nothing that is modelled, except
that the step was taken. Not modelled: an INSERT whose answer is lost although
the row is committed (SQLite is in the process), delays of the backoff, and
the wording of records.

`ReadyMeansStored` is the precise form of what the Agent API relies on: when
Ready says yes, no record is unstored but the one an Append is storing at that
moment. A Delivery let through in that moment is what the code accepts. The
same property says that a closed log is not ready: a key that arrives while
Close waits does not reopen it.

In `AuditTrail` a record is accepted, joins the trail in the order of
acceptance, is streamed at most once and signed later; only the end of a process
loses what still queues. The mapping takes the trail from the record table,
`signed` from the last checkpoint, the queue from `pending` and `up` from
`Running`.

### AuditVerify

Pages of both tables are read without the lock and then, from where that walk
stopped, under it. `wrote` is the two tables as this process found them when it opened
the log, with the rows it inserted since, and `sound` is whether it found them intact;
`IntactMeansUntouched` compares the tables with `wrote`. A process that opens a file
which was edited while none ran takes what it finds for the log: Verify reports the
break, unless somebody puts the rows back first, which leaves `wrote` wrong and the
chain intact. That is why the property asks for `sound`.
`Edit` is any single change of a row that leaves the signature key unknown:
removing, altering (with and without a recomputed hash) or adding a record,
removing a checkpoint or changing what it covers.

### SecretCache

Critical sections of the cache neither block nor call out, so each is a step.
Between them are: the Backend's fetch, a fired timer's wait for the lock, and
the interval between a reload's taking effect and its `prune`. A buffer of
locked memory is owned by the request that made it; `live` is the set not yet
released. `rotations` dates every new version of a Secret in its Backend, so
`HitIsFresh` can say how old a value served from the cache may be. That entries
are wiped with no help from requests is stated as safety: `TimerPending`, a part
of `BuffersOwned`, says that every entry has a timer set for its expiry or fired
and waiting.

### CertManager

A certificate is its serial number and its key has the same one. Every write
may be refused, written, or written with the answer lost; `Stop` (Close or a
crash) may happen anywhere. Lifetimes are equal; `third` is a third of one.
`by`, `at` and `taken` are history: which process got a certificate, when, and
whether it kept it. The CA may date a certificate so that `parsePEM` refuses it on
arrival (`ObtainUnusable`): it counts at the CA, and the process orders again after
the backoff. Not modelled: the Operator-supplied pair and Status.

### PolicyRules and Delivery

`PolicyRules` folds over the entries as the loops do. `Delivery` gives each
request a handler that goes through the gate, authentication, snapshot,
decision, resolution, delivery and record in the order its mode takes them.
The audit log is here what Ready answers and what Append is given. `cut` and
`left` say who closed the connection, `unwritten` that a write to the Agent failed,
because of either or because it stopped reading for `proxyWriteStall`, and `gone` that
the request's context is done. On HTTP/2 net/http fails writes to a closed connection
before it cancels the context, on HTTP/1.1 the failed write itself cancels it, which
is why they are separate. `since`, `revoked`, `complete` and
`out` are history. The phases after "locking" are Run's deferred calls.

### Redact

Every response up to the bound, over an alphabet with the mask byte in it, cut
into writes in every way, with a failed write at any point. `written` is what the
Upstream's body was so far, `output` what the Agent was sent of it. The names of the
specification begin with `Redact`, as `DeliveryProofs` extends `Delivery` beside it.

### PluginHost and OpenBaoKV

`sup` is where the supervisor's `run` stands; processes are numbered in the order
they were launched, and `alive` may lose one at any moment. A call of the server
takes the client that is published, crosses to the plugin, which makes its HTTP
requests to OpenBao one at a time, and comes back with one of the SDK's errors or
an answer; the death of the process ends it wherever it is. A POST that was sent
stays in `flight` until OpenBao carries it out, drops it or refuses it, also
after the caller was told that it failed. `saw` is history: the values the field
had while the call ran, which `AnswersAreTrue` compares the answer with. On KV
version 1 there is no check-and-set, and `NoLostUpdate` says nothing about it.

### ExecBroker

What `b.mu` protects, and one system call, is one step. A mailbox is its
goroutine (`box`), the bytes in its request FIFO, and what is in its response
FIFO. A `call` is a dispatch that the broker carries out, over either transport;
a command may run for ever, and then ends by its timeout, by the poll that finds
the dispatcher gone, or by the broker's close. A restarted broker has a new
session directory and no jobs; the directories of a crashed one stay. Replies are
told apart by what the dispatcher can see: an error, a status, or nothing. A `bwrap`
that cannot be started answers with status 1 and no error ("not run"), which a
dispatcher cannot tell from a command that ended so; `AtMostOnce` says that such a job
was not started and never is, and that any other reply with a status is a command's.

### AcmeOrder

All authorizations share a TXT name, as those of a domain and its wildcard do,
so that providers which write whole record sets must merge. A change is in
`flight` from the moment it is sent. `late` is history: in this order a change was
carried out after its clean-up had been answered, which no order of requests can
prevent; the two properties about records are about the orders in which none was.
`asked` is whom `waitPropagated` asked: the configured resolvers, which may be any of
the name servers or others (`resolver`, whose answers are left open), or without them
the name servers whose addresses are found. The CA asks the name servers.
`ValidationCanSucceed` is about those that were asked. Route 53's UPSERT
and Azure's PUT and DELETE carry no precondition, so `OthersKept` demands of them
only that they keep what they read; Google's and Cloudflare's changes keep
everything. A record set in a zone that is not delegated propagates nowhere, which
the property's `found = Public` sets aside.

### FirstBoot

A run of tc init or of the server is a process that goes through its steps once;
a rerun is another one. Any step may fail or be cut short by a crash, files and
OpenBao's state stay. `before` is history: the runs that had ended when a run
began, which separates what reruns promise from what overlapping runs can do to
each other. `keyed` are the runs whose config keeps the signing key in this Backend;
the others end without one (`runPlugin`). The model shows, and the properties except, that:

- a seal key file whose Sync fails is removed although OpenBao may have read the
  key already (`bootstrap/openbao.go`; see Findings), and a second tc init can read a
  key that is not synced yet;
- two tc inits that overlap can replace each other's signing key and share the
  token file's `.new` name;
- a lost answer of sys/init loses the root token, as nobody else has it, and the
  run fails; a plugin token that was issued and not written to its file stays
  valid until it expires.

### The operators of MCRequests

`MCRequests` has two variables: which question is asked, and the input, which
grows step by step up to the bounds. Each property compares an algorithm with a
definition of what it is for: `OneEntryAllows` with the existence of one entry
that allows everything, `StaysInside` with the path that a lenient server would
make of the forwarded one, `CredentialsInPlace` with what the Upstream finds in
every slot, `NothingSlipsThrough` with what the Agent sees of every header map,
`ListsExactly` with the set of locations that start with the prefix, whichever of the
calls to OpenBao fail (`Calls`; the lookup of a mount, the list of the mounts, the
listing or reading of records),
`AcceptedIsSound` with what the server needs of a config. What is asked of one input
is an operator of its own (`SecretPlaced`, `Clean`, `Listed`, `Sound`, `ReadPath`), so
that a theorem can state it of every input; the specification is `Questions`. Strings are short
sequences of the characters, or records of the parts, that the code tells apart.
Whether one config value is well formed (a URL, a duration, a domain) is "ok" or
not.

What the checks set aside, as it is how the code works: a Secret in a header
called Range, If-Range or Accept-Encoding is lost, as Rewrite sets or removes
these after the injection and `reservedHeaders` does not name them; a List whose
lookup of the prefix's mount fails goes on as if no mount held the prefix (see
Findings); a prefix that is a mount's path without its slash lists only that mount, although another
mount's path may begin with it; a value of a header is masked case-sensitively,
unlike its name; an Upstream that decodes a path twice is outside what
`forwardedPath` can know. Hop-by-hop headers are net/http's.

## Runs

| Run | Shows | States |
|---|---|---|
| `AuditLog` | 3 records, 2 processes, a checkpoint every 2 records. Safety: chain, checkpoints and memory (`TablesIntact`), no silent loss, what Ready means. Refinement: the log implements `AuditTrail`. Liveness (`LogProgresses`): the backlog drains, records get signed, Close returns | 6 x 10^4 |
| `AuditVerify` | 2 records, a checkpoint for each, 2 processes, pages of one row: no false alarm beside appends, retries and a restart, and one edit made before the call is always noticed (two edits checked once: 10^7 states) | 7 x 10^5 |
| `SecretCache` | two requests, two places, two reloads, TTLs 0 to 2, one rotation: the cache follows the config, hits are fresh, and every buffer has the holder that will release it | 10^6 |
| `CertManager` | two domains, three certificates, two processes: certificates that are valid, expired or not yet valid on arrival: what is served is stored, usable issuances are spaced; pending pairs settle, and a process without a certificate orders one | 4 x 10^5 |
| `CertManager_stuck` | the finding below | |
| `Delivery` | one Proxy and one Reveal request, a reload, a revocation, failed writes, shutdown: one truthful record, decisions and revocations, services that outlive handlers; shutdown completes, with no deadlock before it | 10^6 |
| `Redact` | responses up to 7 bytes, needles that overlap themselves and each other, or none | 2 x 10^5 |
| `ExecBroker` | two jobs, limits of one, a socket client and a mailbox dispatcher, two sessions, commands that cannot be started: at most one start and replies that fit it, limits, and commands that end with those they run for | 8 x 10^5 |
| `OpenBaoKV` | one caller and another writer, two calls, two processes, one retry, both KV versions: no process left, true answers, no lost update, a supervisor that acts | 7 x 10^5 |
| `AcmeOrder` | two authorizations, two zones, two name servers, two orders, every provider and both challenges, no resolvers configured or some: validations can succeed where the record was looked for, nothing left, one account, others' values kept | 7 x 10^6 |
| `FirstBoot` | two runs of tc init, with the signing key in this Backend or not, and one server, two migrations: the seal key, the Operator Credential and the signing key, and what a run that ended well left | 6 x 10^6 |
| `Requests` | up to 2 Policy entries, paths of 6 characters, 2 headers or parameters, 3 records at OpenBao, each a set of inputs of its own | 5 x 10^5 |

A property that is a conjunction of named parts (`TablesIntact`, `LogProgresses`,
`BuffersOwned`, `CertificateComes`, `LeavesByRight`, `CommandsEnd`,
`SupervisorActs`, `CredentialsInPlace`) has a faulty variant for more than one of
them in `PROJECT.json`. The type invariants (`TypeOK`, `HostTypeOK`) document the
variables; those of the audit log, the cache, the first boot and the ACME
orders are proved.

The bounds are the smallest at which every action happens and the interesting
combinations meet. Two processes put a crash or a clean close, at every step,
before an Open that must resume from the tables; three records give a
checkpoint, a record not yet covered by one, and a backlog behind either; a page
of one row makes Verify take several pages. Two requests suffice for a conflict
over one cache entry, timer or snapshot, since each such conflict is between two
parties. Two reloads let a fetch meet a config that was changed and changed
back. Two jobs with room for one make every limit bite; two sessions put a crash
before a start. Two calls with one retry let a late write meet a newer one, and
two launches a call the death of its process. Two orders let the second find
records, an account and a pending authorization of the first; two authorizations
of one name make every merge of a record set matter, two zones, one added during or
after the first order, a cached miss. Two
overlapping runs of tc init and a server contain every pair that can meet. A
third header or parameter changes nothing in `Requests` (checked once with
3: 10^7 states). Symmetry is used in `AuditVerify`, `SecretCache`, `AcmeOrder`
and `FirstBoot`, which check no liveness.

## Fairness

Goroutines that can run do (WF). Taking `sync.Mutex` is strongly fair, because
a starving waiter is handed the lock. Databases, Backends and the CA may fail
any number of times but not for ever (SF on the success). A handler's calls end
by an answer or a timeout; an Upstream may keep a response open for ever, so
only cancelled Proxy Deliveries are sure to end: net/http ends the context of a
closed connection, while that of one with a failed write need not end. In `ExecBroker` a command need
not end, and neither its timeout nor a dispatcher is fair: that a command stops
is owed to the poll and the close alone. In `OpenBaoKV` only the supervisor is
fair; a plugin need neither answer nor exit. Nothing is assumed of Agents or
Operators.

## Proofs

Each theorem holds for every value of the constants that satisfies the module's
named assumption: bounds are natural numbers, markers such as `None` are not
members of the sets they are used beside, and what the code itself guarantees of its
configuration. No theorem bounds the number of records, requests, calls, jobs, runs
or restarts. Each safety property is proved from an inductive invariant with a part
for every fact that the property rests on and does not state; those invariants were
model-checked before they were proved. In every module the proof that a step
preserves the invariant has a case for each action, and the lemmas before it say what
an action, or a group of them, leaves alone.

Algorithms on sequences are proved by the least counterexample: `LeastMember` (a set of
numbers has a least one) gives `Climb` (what holds at m and is handed on up to n holds
there), and this `FoldExists`, which says what a fold over a sequence has computed when
its accumulator is a function of what was seen. `walk`, the one recursive function that
is proved about, needs besides that its recursion is well founded.

### The audit log (`AuditLogProofs`)

- `TypeCorrect`: `Spec => []TypeOK`
- `TablesNeverBreak`: `Spec => []TablesIntact`, put together from `ChainNeverBreaks`,
  `CheckpointsNeverBreak` and `MemoryAgrees`
- `NoRecordVanishes`: `Spec => []NoSilentLoss`
- `ReadyIsHonest`: `Spec => []ReadyMeansStored`
- `ImplementsTrail`: `Spec => TrailSpec`, the refinement of `AuditTrail`

None of the parts of `TablesIntact` is inductive alone. A new row chains to `head`, so
the chain needs the memory to agree with the table; the memory agrees after a crash
because Open reads the last row, which needs the chain to be gapless; and a
checkpoint names `cpSeq`, which must be the last checkpoint. The invariant
`ChainInv` adds the types, `Control` (where the lock's holder and the goroutines can
stand: a step is under way only in a running process, so that the memory is
meaningful) and `TablesHaveLast` (`LastSeq` is a CHOOSE, and its value is known only
when a last key exists). `LastSeqIsLast` and `InsertLast` say what LastSeq returns;
`StoreRecordStep` and `CheckpointStep` are the two steps that change a table, and
every other action falls under `TablesUnchanged`. The refinement uses the same
invariant: that the log's new row is the trail's next entry is that the table's
last key is `seq`.

### Verify (`AuditLogProofs`)

- `NoFalseAlarms`: `VerifySpec => []NoFalseAlarm`
- `EditsAreNoticed`: `VerifySpec => []IntactMeansUntouched`

for any page size and any number of records, processes, calls and edits. `VerifyInv`
does not say that the tables are intact, as they need not be. It says what
is left after any edits: rows have their columns (`ShapeInv`); the tables this process
would have are a covered chain that ends at `seq`, `head` and `cpSeq` if it found one
(`WroteInv`); and whatever checkpoint is there has a signature of this process's tables,
as nobody else can sign (`SignedInv`). `WalkInv` is about a walk during which nobody
edits: the rows it has passed are a chain from the first row (`Chained`), the checkpoints
it has passed cover rows of it (`Covered`), appends between two pages disturb neither,
and under the lock a walk past a table has seen all of it. `LogSteps` reduces the steps
of the log to the five things they can do to the tables.

`EndIsWritten` is the core. Two chains of one length and one last hash are the same row
by row (`SameHeadSameChain`): in the greatest row that differs the hashes agree, by the
`prev` of the next row, and a hash has one preimage. A checkpoint that is missing is
named by the next one (`NoCheckpointMissing`), and the last one is where `cpSeq` says.
The converse, that an intact chain passes every comparison page by page (`IntactPages`,
`IntactEnds`), gives `NoFalseAlarms`. The lemmas about pages (`PageIs`, `NoGap`) rest on
`LeastMember`, well-foundedness of the natural numbers.

### The cache (`SecretCacheProofs`)

`TypeCorrect`, `CacheObeysConfig` (`CacheFollowsConfig`), `EveryBufferOwned`
(`BuffersOwned`) and `HitsAreFresh` (`HitIsFresh`), each as `Spec => []...`.
`TypeInv` says with the types which buffer a request holds at each of its steps.
Ownership needs `FromFills`: a cached entry and a timer, stopped in time or not, are
of a request that is past its only Fill, so that no request's second buffer can take
over an id that a timer still names; and `OneName`, by which an id stands for one
Secret Name. Freshness needs `FreshInv`: what is fetched was current when its fetch
began or later.

### The certificate manager (`CertManagerProofs`)

`ServesWhatIsStored` (`ServedIsStored`) and `OrdersAreSpaced` (`OrdersSpaced`), for
any lifetime and any dates of the CA's. `StoreInv` says how far `store` has come with
the pending pair. `Held` says what keeps a process from its next order at every moment
after an issuance that it kept: the pair is pending, or it is served and `earliest`
lies a third of a lifetime after the issuance. An issuance it dropped holds nothing, and
the property says nothing of what follows it.

### Deliveries (`DeliveryProofs`)

`HandlersAreOutlived` (`ServicesOutliveHandlers`), `AttemptsAreRecorded`
(`EveryAttemptRecorded`) and `SecretsLeaveByRight` (`LeavesByRight`), for any requests,
tokens, Policies and reloads. The invariant `DeliveryInv` has a part about the shared
state (`SharedOK`), one about the snapshot cache's mutex (`MutexOK`) and, for each
handler, `HandlerOK`: by its program counter it has decided (`Decided`), recorded
(`Recorded`), taken its snapshot (`Snapped`) and authenticated (`Revoked`), and its
context ended only for an Agent that left, a write to it that failed or a server that
stops (`Blamed`). That a
Secret which left has its record by the time the audit log is closed needs
`ServicesOutliveHandlers`, as a handler that has let a Secret out and is not done could
still be on its way to the log.

### Redaction (`DeliveryProofs`)

`CutsDoNotMatter` (`MaskedAsAWhole`) and `NoFormOfTheSecret` (`NoNeedleGetsOut`), for
every set of non-empty needles, every body and every sequence of Writes, failed ones
included. Neither property mentions the bytes held back, so `RedactInv` does: what was
sent is masked as the whole body up to now would be (`SentIsMasked`); what is held is
the rest of the body, it is marked as the whole body would be marked, it is shorter than
some needle, and no needle that a later Write could complete begins before it (`Caught`).
The last part is why `partialMatch` must find the longest beginning of any needle
(`PartialMatchIs`), and why marks are kept across Writes: a match may have been completed
in bytes whose own neighbours are still open. That no needle is in the output follows
from the first property for a mask byte outside every needle: an occurrence in the
output is one in the body, whose bytes would be masked. When every mask byte is in some
needle `maskFor` has no such byte, and the property says nothing.

### Policies and paths (`DeliveryProofs`)

`EntriesDecide`: for every config, list of Policy names and request, `AuthorizeProxy`'s
loop with its running "best reason" computes a function of the *set* of entries that the
named Policies have (`Decision`): allowed when one entry allows all of it, and otherwise
the reason of the entry that came furthest. `OrderOfPolicies` follows, and
`OneEntryIsEnough` (`OneEntryAllows`) for the run's questions.

`PathsStayInside`: what `forwardedPath` lets through, of any length, is read by no server
as a path outside the Upstream's base or outside a Policy prefix that matches, whichever
of `%2F` and `%5C` the server takes for separators and whether or not it cuts
`;parameters`. The proof follows the segments: none of an accepted path is a dot segment
under any of these readings, so nothing is popped, and the first segments of the reading
are those the prefix was compared with, since a prefix holds only segments of ordinary
characters (`AcceptedPrefix`). `StaysInsideAlways` (`StaysInside`) is the same of the run.

### Requests, responses and files (`DeliveryProofs`)

- `TokensStay`: if one Agent Token was found in the request, what `Rewrite` makes of it
  presents none in any slot of any template.
- `SecretIsAlone`: the Secret is in its template's slot and nowhere else in the request,
  in a form that Redaction has among its needles.
- `CredentialsStayInPlace` (`CredentialsInPlace`): both, of the run's requests.
- `ResponsesAreClean`, `NothingSlips` (`NothingSlipsThrough`): for any number of early
  header maps, fields, trailers and codings.
- `LoadedIsSound`, `AcceptedFilesAreSound` (`AcceptedIsSound`): for any Secret Names,
  Policies, locations and listeners that `validate` accepts.

They assume that Agent Tokens have a shape of their own: neither the injected Secret nor one of
the fixed words the model uses is one (`TokensAssumption`, `AgentAssumption`; the code
tells tokens by their prefix and checks them against a hash), and the literal field of a
basic_auth template is not shaped like one (`GoodTemplate`). `SecretIsAlone` is about a
request that does not hold the Secret already (`WithoutSecret`), as an Agent that knows
it can send it anywhere. `None`, the absent value of a config, is none of the words for
a present one (`NoneAssumption`).

### Lists (`DeliveryProofs`)

`ListIsExact`: for any mounts, records and folders, any prefix of a location and any
of its calls failing, List returns exactly the locations that begin with the prefix, or
only those on mounts whose paths begin with it when the lookup of the prefix's mount is
what failed, and refuses only when another call failed or beyond its limits;
`ListsStayExact` (`ListsExactly`) for any number of records in the run. Mounts
are not nested, their paths are relative and end in a slash (`MountsOK`: OpenBao refuses
other mounts), and a record's path is not empty and does not end in a slash (`StoreOK`).
The argument has three parts. `WalkIs`: what is to be read below each folder is a
solution of walk's recursion (`BelowInTurn`), and the only one, as the folders it enters
are longer and no longer than a record's path (`LongestPath`); a folder is skipped only
if nothing below it can begin with the prefix. `MountChosen`: the mounts that List looks
at are those that hold a location with the prefix, but for the prefix that is a mount's
path without the slash (`BeneathRecord` for a lookup that fails). `PartsBegin`: cutting the prefix at its first "#" loses nothing,
as no path that a location can name holds one.

### The broker of tc-exec (`ExecBrokerProofs`)

`CommandsStartOnce` (`AtMostOnce`), `LimitsAlwaysHold` (`LimitsHold`) and
`CleanShutdownLeavesNothing` (`CloseLeavesNothing`, the part of `CommandsEnd` that is
not about liveness). At most one start needs `Spent`: a job is in the table, held by
exactly one dispatch, or spent, and these exclude each other, over both transports and
across restarts. That a dispatcher's output is a command's needs `Output`, which
follows it from the command through the mailbox goroutine and the response FIFO, and
that a job whose `bwrap` did not start is never started needs `NotRunInv`, which follows
that reply on the same way (`ToldNotRun`) for a job that nobody can dispatch any more
(`Discarded`). The
limits need that the counter equals the number of mailboxes that count, and that every
prepared job has one of them.

### The plugin host and Backend calls (`OpenBaoKVProofs`)

- `NoProcessIsLeft`: `FairSpec => []NoProcessLeft`. `HostInv` says more than the
  property: only the process launched last can run, and the place of the supervisor
  (`sup`) settles whether it can, whether calls can find its client and what the
  Operator is told. That Kill leaves nothing behind needs the process it kills to be
  the only one. `CallsLeaveHost` shows that calls and OpenBao change nothing of this.
- `CallersAreToldTheTruth`: `FairSpec => []AnswersAreTrue`. `CallsInv` follows a call:
  what it has read was the field's value while it ran (`ReadOK`), a conflict means that
  someone else wrote since (`RetryOK`), and the version it read is not in the future
  (`Below`).
- `NoUpdateIsLost`: the action property `NoLostUpdate`. A POST is carried out at any
  later moment, so `FlightInv` says what was true when it was sent: the version it
  names had the fields it carries (`SentOK`, `CasOK`), and a call has one POST under way
  at most. With check-and-set, a POST that is carried out finds the version it read.

### ACME orders (`AcmeOrderProofs`)

`AccountIsOne` (`OneAccount`), `ValidationsHaveAnswers` (`ValidationCanSucceed`),
`RecordsAreRemoved` (`NothingLeft`) and the action property `OtherValuesStay`
(`OthersKept`), for any authorizations, zones, name servers, providers and orders. The
parts of `OrderInv`: the key is stored before the CA knows it (`AccountInv`); where
Obtain stands says what it has tried (`PlaceInv`); the challenge served over http-01 is
the one being validated (`TableInv`); the zone is that of the first lookup until
everything was tried, so that a record is removed where it was set, although zones
appear meanwhile (`ZoneInv`); as long as no change is late, a record that was removed
stays away (`GoneInv`) and one that was set stays until it is removed (`ShownInv`),
which needs the same of the set that a change under way was computed from; and what the
CA was asked to validate is on every name server that was asked (`AnsweredInv`).

### The first boot (`FirstBootProofs`)

`TypeCorrect`, `OperatorHoldsCredential` (`CredentialReachable`), `SealKeyNotLost`
(`SealKeyReachable`), `DoneLeavesAll` (`DoneIsComplete`) and the action property
`SigningKeyStays` (`SigningKeyKept`), for any number of runs of tc init and of the
server that overlap in any way and any number of migrations. `BaseInv` is about the
holder of the database's write lock, who is alone with the version it read; the types
rest on it, as a migration that ran twice would leave the schema longer than it can
be. `SealInv` says that the seal key file is one run's, which alone takes it away.
`KeyInv` says that runs which had ended stay ended, with no write under way, and that a
run which has read that there is no signing key meets only keys of runs beside it.
`SetUpInv` says what a run has done by where it stands, the signing key included for a
run in `keyed`, and that a run with nobody
beside it fills the token file it renames.

### Only model-checked

- Liveness, since TLAPS reasons neither with ENABLED nor with fairness:
  `LogProgresses`, `CertificateComes`, `ShutdownCompletes`, `SupervisorActs`,
  `UnusableIsReplaced`, and `AbandonedStops` and `CloseEnds` of `CommandsEnd`.

Every safety property that a run checks is stated by a theorem; of `CommandsEnd`, which
has safety and liveness parts, the safety part is. The theorems about `Questions` hold
for every bound on the inputs' size, and the ones they rest on for inputs outside the
run's alphabets too.

## Findings

**An expired pending pair is never replaced** (`CertManager_stuck`). `store` ends
by parsing the pair, and its failure keeps the pair pending for ever.

More statements of the repository's own do not hold of the code. They are definitions,
most at the end of their modules, under "What the source says" and "What the
documentation says"; adding one as an INVARIANT to the module's cfg makes TLC show
the behaviour.

- `RestartNeverReissues` ("so a restart never re-issues",
  `internal/certmanager/certmanager.go:286`). A renewal writes the key over the
  old key, then the certificate. Interrupted in between, it leaves the new key
  with the old certificate, which the next process discards.
- `CutOffIsRecordedAsShutdown` ("cut off and recorded with the failure `cut off by
  server shutdown`", `README.md:616`). A write can fail before the request's
  context is done, and is then recorded as a response that could not be written.
- `EveryIssuanceSpaced` ("earliest is the soonest the next order may be placed after
  an issuance", `internal/certmanager/certmanager.go:310`). A certificate that
  `parsePEM` refuses on arrival was issued and is dropped, and the next order follows
  after the backoff.
- `EveryServerAnswers` ("waits until every name server answers ... so the CA's
  validation is asked for only once it can succeed",
  `internal/dnsprovider/propagation.go:26`). Configured resolvers are asked instead,
  and a name server whose address is not found is skipped.
- `OnlyLeaversAbandon` ("An Agent that disconnects is logged as abandoning the
  Delivery", `docs/decisions/0015:24`, which gives a write that fails another reason). On
  HTTP/1.1 a failed write, also to an Agent that only stopped reading, ends the
  request's context, which is looked at before the write's error.
- `ListsEvery` ("List returns every location starting with prefix",
  `plugins/openbao/internal/openbao/openbao.go:179`). After any error of the mount's
  lookup List looks at the mounts beneath the prefix; a prefix on a mount has none, and
  the list is empty and no error.
- `NeverOutlivesItsKey` ("the store must never outlive the only key that opens it",
  `internal/bootstrap/openbao.go:73`). OpenBao can start with the key before its Sync
  is reported to have failed; the file is removed, and the next tc init initializes
  that OpenBao.
- `NoFailureMeansComplete` ("Why an allowed Delivery did not complete",
  `README.md:613`). `finish` discards the error of writing the held-back bytes.

## Plan

Modelled: the audit log with Verify, the cache, the ACME life of a certificate and
its orders, authorization, the Agent API with shutdown, requests, responses and
Redaction, the plugin host and the OpenBao plugin, tc-exec's broker, tc init and
the first boot, the rules of a config.

Left, in this order:

1. `CertManager`: the Operator-supplied pair and its reload.
2. `Access`: issuing and expiry of Agent Tokens.

## Not modelled

YAML decoding and presets, the wording of errors and records, TLS, SQLite itself,
the wire formats, signatures and tokens of the DNS providers' APIs, OpenBao's own
token renewal, the generated gRPC code and the SDK's conformance suite, the
sandbox that tc-exec's workers run in, memory locking and process hardening:
input/output, parsing and system calls whose outcomes the models choose freely.
The Admin API and the CLI add formatting to operations that are modelled.
tc-claude-hook rewrites one command line. `tc init --dev` keeps nothing.
