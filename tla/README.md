# NodeVault in TLA+

NodeVault builds tool images, records what was built, has the images validated
by NodeSentinel, certifies them and serves a catalog of them.  It keeps the
record of all this in one index file beside a content-addressed store (CAS), a
SQLite build table and a Harbor registry.  This directory holds TLA+ models of
the parts whose correctness depends on order, failure or concurrency, TLC
configurations for them, and TLAPS proofs.  Paths are relative to the
repository.

    tlc -workers 2 -config ValidationRequest.cfg MCValidationRequest
    tlapm ValidationRequestProofs.tla

`PROJECT.json` maps every definition to the source lines it models and lists
components, runs, mutants, hazards and theorems.

## 1. Inventory

`cmd/controlplane/main.go` opens the build table and the index, marks
interrupted builds, retracts certifications that are no longer provable, and
then serves gRPC and REST while three loops run: enqueue retry, fast reconcile
and slow reconcile.  `cmd/palette` (NodePalette) is a process of its own: it
opens the same index directory, reloads the file before each request and
registers nothing.

| Part | State it keeps | Operations | What makes it correct |
|---|---|---|---|
| Index store, `pkg/index/store.go` | the whole index in memory, one JSON file | about forty append, upsert, transition and list operations; each mutates memory and rewrites the file (temp file, fsync, rename, directory fsync) | what is answered is durable; no rewrite erases a record |
| Writer fence, `pkg/index/toolfunction_writer_fence.go` | lock file, epoch file, cache generation | claim epoch, check generation, repair durability | two processes on one directory never overwrite each other's registrations |
| ToolFunction registration, `pkg/catalog/toolfunction.go` | request ledger and function records | validate, canonicalize, derive, commit or replay | request_id, digest, casHash and envelope each stand for one thing |
| Build path, `pkg/build`, `pkg/buildstate` | row, goroutine and cancel function per build | SubmitToolBuild, WatchToolBuild, CancelToolBuild, restart recovery | statuses only move forward; no build is silently stuck; Succeeded means usable |
| Validation requests, `pkg/build/service.go`, `pkg/reconcile/enqueue.go`, `pkg/catalogrest/server.go` | status, attempts and next attempt per request | create, enqueue, retry with budget and backoff, correlate results | every request is settled; acknowledged work exists; status and results agree |
| Certification, `pkg/certification` | certifications and catalog entries | evaluate after a check or a scan; retract at startup | nothing is certified or served without stored evidence |
| Reconciliation, `pkg/reconcile/reconciler.go` | lifecycle phase and integrity health per entry | FastRun, ReconcileOne (webhook, after a push), SlowRun | health converges to the truth; phases never go back |
| Registry checks, `pkg/registry/checker.go` | none (Harbor's) | existence, pull, and the referrer witness search | an error, a budget or a timeout is never taken for a verdict |
| Spec resolution, `pkg/build/resolve_tool_spec.go`, `pkg/resolve`, `pkg/registry/resolve.go` | resolved specs in the index | ResolveToolSpec, tag lookup, idempotent upsert | what is answered is what was asked; the base existed |
| Smoke validation, `pkg/validate/service.go` | one Kubernetes Job per call | create, get and watch, deadline, delete | reports are true; no Job is left behind |
| Tool and data catalog, `pkg/catalog` | CAS files, index entries | register, retract, delete, list, get | an entry names a readable definition |
| Catalog reads, `pkg/catalogrest/server.go`, `cmd/palette` | none | REST and gRPC lists and lookups | a response shows what was to be shown and misses nothing |
| Observed profiles, `pkg/validation/service.go`, `pkg/oras` | profile referrers of an entry, ranked | submit, push, record, mark for GC, list candidates | the latest are kept; the cleanup removes none that is kept |
| Dockerfile rules, recipes, package cache, hashes, configuration, generated code | none or files of their own | pure functions, file I/O | section 8 |

Interactions:

* The build goroutine writes four stores one after the other: the build table,
  the build and image records in the index, the CAS file, the index entry.
  After a success it pushes the spec referrer, triggers one existence check
  and enqueues validation.
* NodeSentinel answers an enqueue by RPC and delivers results later by REST,
  repeatedly until it gets a 200.  A result is stored together with the status
  of its request in one save; certification follows as further saves.
* The index mutex makes one operation atomic and nothing longer: every handler
  that reads, thinks and writes interleaves with every other in between.
* A save that fails before the rename is rolled back for some record kinds and
  left in memory for the others, from where the next save publishes it.
* NodePalette and a second NodeVault see the file, never the first one's
  memory.

What is hard: late and repeated replies; snapshots used after the state moved
on; saves that fail half-way through a protocol; crashes between two stores;
two processes on one file; a rename that is not durable; cancels that race
every build stage; verdicts about Harbor or a Job that are stale when they are
written; budgets, deadlines and broken watches; startup repair that is itself
interrupted; identities that must not collide.  `PROJECT.json` "hazards" lists
each at its line with the properties that cover it.

## 2. Modules

| Module | Models | TLC instance | Proofs |
|---|---|---|---|
| `ValidationRequest` | a request's life: build path, retry loop, intake, network, crashes | `MCValidationRequest` | `ValidationRequestProofs` |
| `FunctionRegistry` | abstract specification of ToolFunction registration | | |
| `IndexStore` | several processes, caches, fence, file, durability; implements `FunctionRegistry` | `MCIndexStore` | `IndexStoreProofs` |
| `FunctionIdentity` | gates, canonical forms, digests, the request ledger | `MCFunctionIdentity` | `IndexStoreProofs` |
| `BuildLifecycle` | submitted builds and the stores they write | | `BuildLifecycleProofs` |
| `Reconcile` | lifecycle phases and integrity health | | `ReconcileProofs` |
| `Certification` | certification handlers and startup retraction | `MCCertification` | `CertificationProofs` |
| `ReferrerWitness` | one witness search, request by request | `MCReferrerWitness` | `ReferrerWitnessProofs` |
| `SmokeRun` | smoke runs against a cluster | | `SmokeRunProofs` |
| `SpecResolution` | spec resolution and the base of a function | `MCSpecResolution` | `BuildLifecycleProofs` |
| `Exposure` | registration in two writes, and the readers | | `ExposureProofs` |
| `ObservedProfiles` | profile referrers, ranking, GC marks, cleanup | `MCObservedProfiles` | `ReferrerWitnessProofs` |

Every model takes one action per store operation or request, because that is
what the store's mutex, a transaction or a round trip makes atomic.

**ValidationRequest.**  `rec` and `checks` are the index in memory, `diskRec`
and `diskChecks` the file.  `CreateValidationRequest`, `BuildEnqueued` and
`BuildEnqueueFailed` are `enqueueSentinelValidation` around its RPC; `RetryDue`
takes the snapshot (`todo`, `seen`) that `recoverStrandedPending`, `escalate`,
`retryOne`, `onRetrySuccess` and `onRetryFailure` work through on one
goroutine; `Intake` is the correlated append of the REST handlers.  The RPC is
a message that is accepted, accepted with its reply lost, or lost.
`NodeSentinel` (external) runs accepted work at most once per request and
redelivers.  `Legacy` requests are records from before the replay fields.
Timestamps are environment actions (a record ages, a backoff elapses), result
contents are progress or a verdict; conflicting redeliveries (409) are left
out.

**IndexStore and FunctionRegistry.**  `mem`, `generation`, `epoch` and
`uncertain` are the fields of each process's Store; `disk` is what a read of
the directory returns and `stable` what a power loss would leave.  `holder` is
the process inside `RegisterToolFunctionAtomic` and its step.  Entries stand
for appends whose failed save stays in memory, images for those that are
rolled back.  The derivation of a canonical request (basis) is three constant
functions to casHash, digest and envelope, so that TLC can choose requests
that agree or clash in each; what they compute is `FunctionIdentity`.  An
empty index stands for an absent file.  `FunctionRegistry` is what callers are
promised: a ledger of operations in which no two are incompatible, from which
answers are given, and which a power loss shortens only by operations that were
never answered.  `RegistrySpec` is that specification with the ledger read off
the visible file.

**FunctionIdentity.**  A request is a record of the fields the gates and the
canonicalizers treat differently.  `Accepted` is the conjunction of the gates
(unknown fields, names, cardinality, types, references, set-like entries,
presentation, policy), `deriveToolFunction` the canonical form with the
put-if-present rules under both versions, and `RegisterToolFunction` the
receipt, envelope and casHash decisions of one sequential caller.  A canonical
map is the set of its key-value pairs, which is what JSON with sorted keys
keeps of it; SHA-256 is injective: a digest is its preimage.  A set-like list
is sorted by replacing it with one fixed sequence of its elements.  The getters
of an absent protobuf message return zero values (`AbsentIsZero`).  What an
earlier release registered passed the gates it had (`AcceptedEarlier`: those
kept for legacy replays, without the argument references) and is never
validated again.

**BuildLifecycle.**  One build is a row (`row`), a goroutine (`pc`, `outcome`),
an activeBuild entry (`active`, `canceled`), a cancel call (`canceling`,
`cancelOK`), a watcher (`watch`, `seen`, `newer`) and its records in index and
CAS (`record`, `image`, `cas`, `entry`).  Each stage of `runSubmittedBuild`
between two store calls is one action, each store call may fail, a cancel may
fall between any two, and a crash runs `RecoverInterrupted` on restart.
`newer` models the comparison of millisecond timestamps in WatchToolBuild.
The image builder is external: it succeeds, fails, panics or is canceled.
Builds share nothing but tables, so one build is enough for TLC; the proofs
are for any number.

**Reconcile.**  `mem` and `disk` are phase, health and recorded
SpecReferrerDigest of each entry.  An existence check is three steps
(`ImageExists`, `SpecReferrerWitness`, the write of `judgeHealth`), so verdicts
go stale while other checkers, the slow pass, Retract, Delete and rebuilds
write.  The referrer it looks for is the one its snapshot had (`wanted`): each
build pushes one of its own, so an entry whose digest was not saved expects an
older one after a crash.  A search is indeterminate during an outage, and of a
tool in `opaque`, whose referrers cannot all be read for a budget or for what
they are, unless the witness is among those that can.  `SlowRun` takes a
snapshot of Healthy entries, pulls, and writes with
`CompareAndSetIntegrityHealth`.  A Retract or Delete is one step: its first
read only answers calls that have nothing to do, and the transition looks at
the phase again under the lock.  Harbor (external) loses images or referrers,
has outages, and its listings become readable or unreadable.

**Certification.**  A check or scan is submitted to a handler that stores it,
lists what it needs, writes the certification and then the catalog entry, each
a save of its own; handlers interleave, and tools of the same name and image
are registered meanwhile.  A record is reduced to what
`evidenceIneligibility`, `terminalL5B` and the upserts look at.  The startup
pass lists the certifications, retracts what is not proven and then their
entries save by save, with its map of survivors; a failed save ends the
process.  A scan carries the time its client gave it (`at`), by which
`LatestScan` orders; it may arrive in any order.  The certifications an earlier
release left are any list, also one in which a record without a key matches
several others (`Ambiguous`): the upsert writes such lists itself.

**ReferrerWitness.**  Artifacts are numbered in the order Harbor lists them.
Each page, manifest and payload is a request that is challenged, retried with
an anonymous token, served, or fails; the walk keeps `cursor`, `page`, `next`,
the `candidates` of the page, the inspection `budget` and `deferred`.  Link
headers are sequences of fields with their entries and relations, taken apart
as `nextPageURL` does.  A shape says what the listing, the manifest and the
payload of an artifact state.  Harbor adds and deletes referrers during the
call, the pieces of one in any order.  `steady` and `complete` are history: what
was there all along, and what was ever complete.  Listing by position assumes
that a page continues after the last artifact of the page before (a keyed
cursor).

**SmokeRun.**  A call creates the namespace and its Job, then alternates Get
and Watch from the version it saw until the Job ends, disappears or the
deadline passes, reads logs and deletes the Job.  A Job is the sequence of
states it went through; a watch may close, skip or stay silent, and every
request may fail.  `outcome` is the state of the Job at the deadline.  Job
names are distinct.

**SpecResolution.**  Calls of `ResolveToolSpec` route a document to the v1 or
the legacy rules, may ask the registry for the digest of a moving tag, three
media types one after the other, and upsert the spec into an index another
binary writes too.  `RegisterToolFunction` looks its base up before it takes
the writer lock, which may reload the index.  A document is a record of what
the two parsers read of it; its kind is a JSON number in its digits, point and
exponent.  v1 compares it with 2 as `jsonNumberEqualsTwo` does; the legacy
`canonicalSpec` decodes it into `any`, which leaves the double `Float64` makes
of it and nothing of the layout (white space, order and repetition of fields,
escapes).  `Float64` is any function, None for a number out of range, at which
the text is hashed as it is.  Tool name and version are trimmed before they are
hashed.  A document with bytes after its object is legacy text as a whole, or
no v1 document.

**Exposure.**  Registration writes the definition file (in place, so it may be
torn) and then the entry; registrations of the same content overlap, and
`registering` counts the handlers of each artifact before and after their
write.  A crash may be a power loss, which takes any of the files, since none
is synced.  A request takes the entries from NodeVault's memory
or, at NodePalette, from the file it just read again (or could not read), and
then opens the definitions one by one.  `seen` and `unreadable` are history:
what the index of record showed, and which files were unreadable, during the
request.

**ObservedProfiles.**  Submissions of one image store the check, push the
referrer, and record it in the entry, where all are ranked and marked.  The
stable sort is given by the rank of an element: the number of elements that
come before it by time, or that tie with it and stood before it.  An external cleanup reads the marks at one time and deletes at another.

### Composition

`IndexStore` refines `FunctionRegistry`.  The other models are joined at narrow
interfaces, each taken from the same lines: `Reconcile` uses the three outcomes
of the witness search that `ReferrerWitness` justifies; `IndexStore` abstracts
`FunctionIdentity` by functions with the properties proved for every choice of
them; `Exposure` takes the writing of catalog entries from `Certification` as
an environment action; `Certification` leaves the request's status to
`ValidationRequest`, whose save covers both.

## 3. Runs

All twelve pass, and between them fire every action and disjunct.  Every
property has a mutant, a plausible bug in a mapped definition, under which TLC
reports its violation.

| Run | Shows | Bounds, and why they suffice |
|---|---|---|
| `validation` | acknowledged work exists; results and status agree; abandonment costs the whole budget; the file's status moves forward; every request is settled | a new and a legacy request, 3 attempts (a first, an inner and a last one), 2 crashes, 1 failed save.  Requests share only the retry goroutine, whose pass takes them one by one |
| `index_durability` | answers survive power loss; no cache shows what is not in the file; no rewrite erases a commit | two NodeVaults and a NodePalette, one request, entry and image, 2 epochs, 3 faults: a failed fsync, a restart and a power loss in one behaviour |
| `index_identity` | the processes implement `FunctionRegistry`; the index is coherent; the legacy canonicalizer is for replays only | two processes, four requests over five bases that share casHash, digest or envelope in every combination, an earlier index, 1 fault; symmetric in processes and new requests |
| `build` | no silent stall; usable successes; at most one push; forward statuses; every watch ends | one build, a tool and a function spec, 3 failed writes (each store, or the terminal write and its record), 2 crashes |
| `reconcile` | Healthy is earned; no phase comes back; health converges once Harbor is stable, reachable and readable | one tool, a loop and a webhook, 2 builds (so that an older referrer exists), 1 change of Harbor from any state of outage and readability, 1 failed save, 1 crash; entries are independent |
| `certification` | certified and served only on stored evidence and under the right casHash, but for ambiguous certifications of an earlier release; a survivor keeps its entry | two tools and images, two keys, checks that certify, wait for a scan or are placeholders, early and closing scans, the earlier indexes of `retraction_test.go` and one with an ambiguous list, 1 failed save, 1 crash |
| `referrer_witness` | a positive answer has a witness; a negative one is a confirmed absence; the call ends | 3 artifacts in 10 shapes, pages of up to 2, 2 pages, 1 inspection, so that both budgets run out; 5 Link headers, 1 change of Harbor |
| `smoke_run` | reports are true; nothing is left behind; the call ends | one call (calls share only the namespace), 5 changes of its Job |
| `function_identity` | equal digest exactly for equal declarations; an identity answers only who asked for it; every parameter that this release registers matters | requests that vary each field the gates and canonicalizers look at, two ids, pairs of answers, legacy receipts; symmetric in the ids |
| `spec_resolution` | answered as asked; pinned while asked; lineage resolves | two calls, one function, documents of every route, kinds that are and are not 2, or only after decoding, two manifests, 1 move, 1 failed save, 1 restart; symmetric in calls and manifests |
| `exposure` | served was shown and nothing is missed, unless NodePalette's reload failed; what is indexed is readable, unless a later write of it failed or is under way, or a power loss took it | a tool and a data artifact, a reader of each process, 4 changes (registrations, also overlapping ones of one artifact, transitions and certifications together), 1 failure, 1 crash or power loss |
| `observed_profiles` | the retained are the latest; recorded was pushed; the cleanup spares the retained | five checks, 2 retained, 1 failure, 1 crash |

Deadlock is checked except where the system may stop: once the bounded
requests of `exposure`, `function_identity`, `spec_resolution` and
`observed_profiles` are spent, and when the calls of `referrer_witness` and
`smoke_run` have returned.

## 4. Fairness

* `ValidationRequest`: the enqueue RPC has a deadline (`BuildReturns`); clocks
  advance (`PendingAges`, `BackoffElapses`); the retry goroutine has a ticker
  (`Retrier`); NodeSentinel runs what it accepted and redelivers
  (`SentinelRuns`, `Intake`).  Every enqueue may be lost.
* `BuildLifecycle`: goroutines that can take a step take it, the watcher polls
  by a ticker, and the builder returns.
* `Reconcile`: both loops have tickers, a check under way ends, and a build
  that registered a tool finishes its push, successfully or not.  Existence and
  pull checks have no timeout of their own (`pkg/registry/checker.go:142`,
  `:865`): their end rests on the registry or the caller's context.
  Convergence is claimed only once Harbor is stable and reachable and the
  referrers of the tool can be read.
* `ReferrerWitness`: the timer of `witnessTimeout` fires, and a goroutine whose
  context is done goes on.  No answer of Harbor is assumed.
* `SmokeRun`: requests return, the deadline passes, and a `select` that finds
  the deadline ready again and again takes it (strong fairness, as Go chooses
  among ready cases at random).  The watch may stay silent forever.

Crashes, failed saves, cancels and callers are never assumed to happen.

## 5. Proofs

TLAPS proves the following for every number of processes, requests, readers,
crashes and failures, from the named ASSUMEs of the modules (bounds are
naturals, null values lie outside the sets they extend, initial contents are
well formed).  Each module proves `TypeCorrect` as well, and each theorem rests
on an invariant `IInv` with one lemma per action.

Three proof modules extend two models each and hold a second part about the
other one, which belongs to the same subject: `FunctionIdentity` beside
`IndexStore`, `SpecResolution` beside `BuildLifecycle`, `ObservedProfiles`
beside `ReferrerWitness`.  So that two models can be extended together, these
three give their specification, type and inductive invariant names of their
own (`IdentitySpec`, `ResolutionSpec`, `ProfilesSpec` and so on).  What is
assumed of their constants: requests are messages of their protobuf type
(`RequestsAreMessages`) or documents as the parsers see them, where a text that
is not JSON names no schema version (`RequestsAreDocuments`); the spec of a
newer binary is one this build cannot interpret (`ForeignIsNewer`); checks have
ids of their own and at least one referrer is kept.  Each is an ASSUME that the
runs evaluate.

| Proofs | Theorems | The strengthening, and why it is needed |
|---|---|---|
| `ValidationRequestProofs` | `AcknowledgedWork`, `CorrelationAtomic`, `AbandonedBudget`, `LegacyUntouched`, `DurableForward` | a late reply acts on what was true when the call was made: NodeSentinel reports only what it ran (`ReportsInv`), an uncreated request left no trace (`FreshInv`), status and attempts fit (`ShapeInv`), the pass remembers the true attempt count of what is still Unavailable (`SnapshotInv`), memory is never behind the file (`AheadInv`), a legacy record is in no work list (`LegacyInv`) |
| `IndexStoreProofs` | `AckedDurable`, `Coherent`, `NoPhantoms`, `LegacyIsReplayOnly`, `CommitsAreKept`, `ImplementsRegistry` | a cache is an earlier content of the file plus unsaved entries (`CacheInv`), an epoch has one holder (`EpochInv`), inside the critical section the writer is current and its cache is the file's (`HolderInv`), if a power loss would undo a visible registration the only process that may answer knows it has to write again (`DurabilityInv`), a legacy version past selection has a receipt (`SelectionInv`).  The refinement follows: other writes keep the functions and stutter, a commit is `Register`, a replay is `Answer`, and a power loss goes back to a file that holds all that was answered |
| `BuildLifecycleProofs` | `NeverSilentlyStuck`, `CancelIsFinal`, `SuccessIsUsable`, `OnePush`, `StatusForward` | the position of the goroutine determines the row's status up to a cancel (`Place`) and what was pushed (`Pushed`); answered cancels stand (`Answered`), open rows are explained (`Explained`), success delivers (`Delivers`) |
| `ReconcileProofs` | `Earned`, `PhasesForward`, `SlowYields` | any referrer a check can have seen was attached (`HarborOK`); a verdict under way rests on what was attached (`VerdictInv`); the file's phase is never ahead of memory's (`AheadInv`) |
| `CertificationProofs` | `Certifications`, `Catalog`, `Survivor` | every stored certification binds the records and casHash of one image (`Sound`), a handler about to write holds what it needs (`Handled`), the startup pass has dealt with all it has passed (`Dealt`).  Nothing is assumed of the keys an earlier release left: a certification that is to be retracted and whose key no other matches keeps its place in the list through every other upsert (`Lone`), so its own retraction replaces it and nothing else; the rest is what `CertificationsAreProven` exempts |
| `ReferrerWitnessProofs` | `Witness`, `Absence` | what was there all along and would make an absence wrong lies ahead of the cursor, is still a candidate, or has left a doubt, and nothing lies ahead of the last page (`CoverInv`); where the walk is (`WalkInv`); pieces are left only of what was complete (`HarborInv`) |
| `SmokeRunProofs` | `TrueReport`, `CleanedUp` | per call: no Job before its creation (`Fresh`), one while it waits (`Waits`), an unfinished Job was unfinished at the deadline (`Unfinished`, `Asks`), what was reported (`True`, `Clean`) |
| `ExposureProofs` | `OnlyShown`, `Readable`, `NothingMissed` | an entry, and a handler past its write, has a file that was written, and one that is torn is being written or was damaged (`Stored`); what a request took was shown since it began (`Served`); what is due is loaded or still to be loaded (`Complete`) |
| `IndexStoreProofs`, `FunctionIdentity` | `RequestsLogged`, `DigestIsIdentity`, `IdentityIsNotShared`, `ParametersMatter` | every `put` can be read back from the map it was put into, so each canonical form is injective field by field up to what a declaration leaves open, as long as set-like lists have no duplicates and ports no common name, which the gates of either release ensure (`AllAccepted`); behind every answer there is a created record of the same basis (`Founded`), so answers of one digest share an envelope (`SharedEnvelope`) and answers of one casHash their whole basis (`OneBasis`) |
| `BuildLifecycleProofs`, `SpecResolution` | `SpecsTyped`, `AnswersMatchRequests`, `PinIsNotStale`, `BasesAreRecorded` | a digest has one record in memory and in the file (`RecordInv`), an answer has the digest of its request and comes from this build's rules (`CallInv`), equal digests mean equal requests up to what `canonicalSpec` drops, for whatever function `Float64` is; the kind passes the lexical test only if its one significant digit is a 2 at the units (`KindIsTwo`), and without a failed save memory holds nothing that the file does not, so that a reload loses no base that was looked up (`FileInv`) |
| `ReferrerWitnessProofs`, `ObservedProfiles` | `ProfilesTyped`, `LatestRetained`, `RecordsPushed`, `CleanupSafe` | ranking is a permutation in which nobody stands behind a less recent one (the rank is a bijection, by counting predecessors); it holds of both copies of the index (`RankInv`), a check under way is stored and not yet recorded (`HandlerInv`), and the cleanup's list names only what was marked and stays marked, since a newcomer pushes others back and never forward (`CleanupInv`) |

Proved and not run: the `TypeOK` of each module, `LegacyInert`,
`CanceledStaysCanceled` and `SlowNeverHidesFast`.  Only model-checked: liveness
(`EventuallySettled`, `WatchEnds`, `HealthConverges`, `WitnessEnds`,
`CallEnds`), since the prover has no fairness reasoning.  Every safety
invariant and action property of the runs is the subject of a theorem.  No
proof uses induction over data: sorting is described by ranks, sorted sets by a
fixed enumeration, and a decimal number by the place of each digit.

## 6. Disagreements between code and documentation

The modules state these under "statements the code does not keep"; each is
violated when added to the cfg of its module as INVARIANT, or as PROPERTY where
marked *.

| Definition | What is said, and what the code does |
|---|---|
| `AckedResultIsDurable` | `pkg/index/store.go:1662` forbids in-memory traces of failed saves; a check whose save failed stays in memory, its redelivery is answered 200 (`pkg/catalogrest/server.go:568`), and a crash loses it |
| `AbandonedNeverQueued` | `pkg/index/schema.go:458`; an enqueue that arrives and whose every reply is lost is abandoned too |
| `QueuedCountsAnAttempt` | `pkg/index/schema.go:512` counts the build path's attempt; a first-time success leaves EnqueueAttempts 0 (`pkg/build/service.go:405`) |
| `OnlyFaultsAbandon` | `pkg/buildstate/store.go:57` calls ErrAlreadyTerminal benign; a cancel that wins against a mid-build transition makes the goroutine abandon the build (`pkg/build/submit_tool_build.go:277`) |
| `AbandonmentIsRecorded` | `pkg/build/submit_tool_build.go:456` promises a failure record; after recordBuildSuccess it is a duplicate id and refused (`pkg/index/store.go:633`) |
| `SucceededToolIsListed` | `pkg/build/submit_tool_build.go:356`; RegisterTool answers success when the index append fails (`pkg/catalog/catalog.go:267`) |
| `OutageShowsUnreachable` * | `docs/HARBOR_WEBHOOK_EVENTS.md:52`; an error of the pull check writes nothing (`pkg/reconcile/reconciler.go:162`) |
| `ReferrerPushIsRetried` * | `pkg/oras/referrer.go:51` expects the reconcile loop to retry; the loops only check |
| `BlockedIsWithdrawn` | `pkg/certification/service.go:123`; a check handler that listed the scans earlier overwrites the retraction (`:96`); with `EarlierIndexes = {EmptyIndex}` and no faults this race is the shortest trace |
| `EntryRetractedWithCertification` | `pkg/certification/service.go:178`; a startup that ends between its loops leaves an entry active that the next one does not look at (`:224`) |
| `UnprovenIsRetracted` | `pkg/certification/service.go:178`; the retraction is an upsert that replaces the first record with a matching key (`pkg/index/store.go:1113`), so of two matching unproven certifications one stays active |
| `CertifiedIsActive` * | `pkg/certification/service.go:71`; a check of an image with a blocked scan is answered "certified" (`pkg/catalogrest/server.go:599`) |
| `OneCertificationPerKey` | `pkg/index/schema.go:383`; a keyless record replaces the first certification of its image, and the next record of the other key replaces that (`pkg/index/store.go:1113`) |
| `NoDanglingBase` | `pkg/catalog/toolfunction.go:137`: a base found in memory after a failed save may be gone when the registration reloads the index |
| `ResolvesToManifest` | `pkg/registry/resolve.go`: without a digest header the config digest of the body is taken for the manifest's |
| `TimedOutIsGenuine` | `pkg/validate/service.go` on deadlineResult: an uninterrupted watch may not have delivered the final event when the deadline is chosen |
| `ImmediatelyVisible` | `cmd/palette/main.go`; a registration whose save failed is in NodeVault's memory only |
| `ActiveIsReadable` | a registration of the same content truncates the file in place; a failure, a crash or a power loss leaves an Active entry unreadable |
| `PushedIsRecorded` | `pkg/validation/service.go`: a retry of a stored check is refused as a duplicate, so a push that was not recorded stays so |
| `MostRecentlyMarkedFirst` | `pkg/index/store.go`: candidates are listed by rank |

Seen while modelling, without a definition: a Delete whose save failed is
answered with success when repeated, and a restart brings the tool back
(`pkg/index/store.go:378`); a check whose process crashed before it was
evaluated is "already_recorded" on redelivery and never evaluated; a cancel
during registration leaves the build Interrupted and its tool registered; a
retried ResolveToolSpec is answered from memory after its save failed; two
smoke runs that create the namespace at once may fail one of them
(`pkg/validate/service.go:205`); gRPC GetTool and GetData return the phase the
definition file was written with; NodePalette serves the old index when a
reload fails; numbers in raw specs pass through float64
(`pkg/resolve/digest.go:152`), so two legacy documents that differ beyond its
precision share a digest and one record, which `AnsweredAsAsked` allows for.

## 7. Plan

Written: the modules of section 2, in that order, and the proofs of section 5.
What could follow, by value:

1. a composition of `Certification` with the correlation of
   `ValidationRequest`, for the redelivery that is never evaluated;
2. a proof that the bases of `IndexStore` can be taken from the derivations of
   `FunctionIdentity`, which would join the two;
3. eviction by watermark in the package cache, and the resolution of recipes;
4. two smoke runs that share a Job name.

## 8. Not modelled

Text validation of Dockerfiles and request fields (`pkg/build/validate.go`,
`pkg/policy`), recipe and package resolution (`pkg/build/recipe_resolve.go`),
the profile classifier and its hashes, the bytes of encodings and manifests:
pure functions of their input.  The package cache GC (`pkg/cachegc`), on whose
files no state of NodeVault depends.  Webhook payloads and authentication,
metrics, ping, the Sentinel client, configuration, the gates under
`cmd/coveragegate` and `cmd/govulncheckgate`, protocol code generated from
`.proto` files, and vendored code.  Of the index: files that do not parse and a
downgrade to a binary that does not know the fence.  Of earlier releases: gates
that differ in more than the argument references.
