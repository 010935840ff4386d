# A TLA+ verification of nix-R2-CloudFlare-Flake

The repository is a Nix flake around Cloudflare R2: an API Worker (TypeScript,
`src/r2-explorer/src`), a web UI (`src/r2-explorer/web`), NixOS and
home-manager modules (`src/modules`) and a command-line wrapper
(`src/packages/r2-cli.nix`). This directory models the parts of it that keep
state and meet concurrency, failure or time, checks them with TLC and proves
every safety and action property it checks with TLAPS.

Contents: [the system](#the-system) - [modules](#the-modules-and-the-code) -
[runs](#what-the-runs-check) - [proofs](#what-is-proved) -
[findings](#where-the-code-and-its-comments-disagree) -
[limits](#what-is-not-modelled) - [running](#running).

## The system

### Inventory

**Upload sessions** (`upload-sessions.ts`). A Durable Object for each owner.
State: one record for each upload session (status `init`/`active`/`completed`/
`aborted`/`expired`, target key, staging key, expiry), the records of signed
parts, one alarm slot. Operations: `/create`, `/get`, `/record-signed-part`,
`/complete`, `/abort`, `/gc-expired`, `alarm()`. `/create` and the alarm run a
pruning pass that aborts the R2 uploads of expired sessions, deletes what they
staged, marks them expired, and deletes expired records a day later. Correct
when: one writer for a key, a limit on concurrent uploads, statuses that only
move forward, an alarm that always covers the next thing to do, and nothing
left in R2 by a session that is over.

**Upload routes** (`routes/upload.ts`, promotion in `r2.ts`). `init` creates the
R2 multipart upload at a random staging key and then the record; `sign-part`
hands out presigned part URLs; `complete` assembles, validates size and magic
bytes, *promotes* (get staged, put target, delete staged) and marks the record;
`abort` aborts in R2 and marks the record. Each is a sequence of awaits on R2
and on the Durable Object. Correct when: what is marked completed was stored,
what was rejected or aborted never is, promotions to one key do not race.

**Share links** (`share/service.ts`, `routes/share.ts`, `kv.ts`). State: a record
for each token and an index entry for each token and object, both in Workers KV with a time to live.
Operations: create, revoke, list, and the public `GET /share/:token`, which
loads the record, takes a slot from the counter (or counts in KV, for an
unlimited share), writes the record back with the new count and serves the
object. Correct when: a capped share never exceeds its cap, a created share can
be listed and revoked, and a revoked one is served no more.

**Share counter** (`share/counter.ts`). A Durable Object for each token: the
authoritative count and a cleanup alarm. Operations: `/consume`, `alarm()`.
Correct when: the count is what was spent whenever it can still be asked, and
its storage is wiped in the end.

**R2 object routes** (`routes/objects.ts`, `r2.ts`). No state of their own;
move and soft delete are get, put, delete without a transaction. Correct when:
no content is lost to a crash between two calls, and nothing a client names reaches
what another session has staged.

**Authentication and authorisation** (`auth.ts`, `security/*.ts`).
State: a cache of the signing keys for each isolate. Operations: the guards every
request of `/api/v2` passes on its way to a handler. Correct when: a key that has been
rotated in is found by a refresh, one that was rotated out is not used for ever, no
mutating handler runs without its guards, and no token is taken after it expired.

**Policy, signing, MIME checks** (`upload/policy.ts`, `upload-signing.ts`,
`upload/magic-mime.ts`), **HTTP surface** (`app.ts`, `schemas.ts`, `http.ts`,
`object-response.ts`, `buckets.ts`, `config.ts` ...). Pure functions; the arithmetic of the
policy is shared with the browser, and both sides must agree on it.

**Web upload engine** (`web/src/lib/upload.ts`, `useUploadQueue.ts`). A pool of
part uploads with retries and re-signing, an abort when a part fails, a gate of two
uploads at a time. Correct when: no slot is lost, a failed upload is aborted,
and what is reported as stored is stored.

**Web object browser** (`useObjectBrowser.ts`). Listings with a sequence
number, an abort controller and a page cursor. Correct when: the rows, the
prefix and the cursor shown belong together.

**NixOS sync unit** (`modules/nixos/r2-sync.nix`). A bisync script that
resynchronises on a first run, clears a stale lock and retries once; lock and listings
belong to rclone.

**Other Nix modules, CLI, release scripts.** Configuration and linear scripts
around external programs; nothing that interleaves.

### How the parts interact, and what is hard

The Worker is stateless: every request is a sequence of calls to R2, KV and
Durable Objects, and any number of requests run at once. A Durable Object runs
one event at a time *while it awaits its storage*, and lets others in while it
awaits R2, which is what a pruning pass does: code that reads as a critical
section is not one. KV is eventually consistent. A call may fail or its
answer be lost at every await; an isolate may be evicted; a Durable Object may
restart; alarms are retried. The web client drives uploads with its own
concurrency, retries and timeouts. `PROJECT.json` lists the hazards one by one,
at the line where each bites, with the property that would catch it.

## The modules and the code

| module | what it is |
|---|---|
| `UploadSessions` | upload sessions, upload routes and the R2 state they share |
| `UploadLifecycle` | what the API promises of a session; `UploadSessions` and `WebUpload` implement it |
| `ShareLinks` | a share link: KV record, index entry, counter, routes |
| `ShareQuota` | what the cap of a share promises; `ShareLinks` implements it |
| `ObjectStore` | move, soft delete and promotion, call by call |
| `ApiAccess` | a request's way to its handler: credentials, signing keys, claims, scopes, guards |
| `UploadPolicy` | what the upload routes accept, and how both sides cut a file; operators only |
| `WebUpload` | the browser's queue and upload engine and the answers they get; extends `UploadPolicy` |
| `ObjectBrowser` | the object browser: lists, pages, selection, shares, mutations |
| `UploadSessionsProofs`, `UploadLifecycleProofs`, `ShareLinksProofs`, `ObjectStoreProofs`, `ApiAccessProofs`, `UploadPolicyProofs`, `WebUploadProofs`, `ObjectBrowserProofs` | the theorems about each |
| `MCUploadSessions`, `MCShareLinks`, `MCObjectStore`, `MCApiAccess`, `MCWebUpload`, `MCObjectBrowser` | instances for TLC |

`PROJECT.json` maps every definition to the lines it stands for. Definitions
commented *Mutant* are plausible bugs of the code beside them; with one put
in its place, TLC finds the property it belongs to violated.

### UploadSessions

*Grain.* A request (a slot in `Requests`) is at a label `pc[h]`, which names the
await it is at; each action is what runs up to the next one. Inside the Durable
Object storage calls are covered by the input gate, so a handler is one step,
except that a pass with uploads to release stops at a `*.prune` (or
`load.expire`) label with its listing in `job[a]`; other events run meanwhile,
and the end of the pass (`Pruned`) writes what the *listing* said, not what is stored then.
The model puts the record and the alarm of one handler in storage in one step.

*State.* `status`, `expiresAt`, `alarm` are the Durable Object's storage;
`upload`, `staged`, `target` are R2 (state of the multipart upload, object at the
staging key, whose bytes are at the target key); `verdict` is what validation
finds in the bytes a session assembles; `written` (how often the bytes of a session were
written at their target; `stored` are the sessions whose bytes were) and `aborted` are history.

*Actions.* `InitBegin` - `CreateCall`/`CreatePruned` - `InitReply` or
`InitCleanup` are `upload/init` with `/create`; `SignPart`, `SignGet`,
`SignRecord` are `sign-part`; `Complete`, `CompleteGet`, `Assemble`, `Validate`,
`RejectDelete`, `PromoteRead`, `PromotePut`, `PromoteClean`, `MarkCompleted` are
`complete`; `Abort`, `AbortGet`, `AbortUpload`, `MarkAborted` are `abort`.
`LoadExpired`, `LoadReleased`, `LoadRefused` are `loadSession` and the status
check of every call. `AlarmFires`, `GcExpired`, `ReleaseOne`, `PruneDone` are
pruning (`/gc-expired` is a route of the object that only tests call today).

*Failures.* `RequestDies`: a request ends at any await of the Worker (a check
that refuses and changes nothing, an R2 error, a lost answer, an eviction).
`CreateCallLost`: the call to `/create` fails before or after the object ran it,
which `init` cannot tell apart. `FaultAt`: an R2 call fails and the code goes on
(the best-effort calls; `FaultSites`, `MaxFaults`). `Reset`: the Durable Object
restarts within a pass and the platform runs its alarm again (`MaxResets`).

*R2.* A multipart upload can be completed or aborted once; a later attempt fails. The
repository takes it so (`tests/helpers/memory.ts`, and `upload-sessions-do.spec.ts`,
where the failed abort is expected and logged). The
release of an expired upload is two calls that the model takes in one step: only
an assembly of the same upload could come in between, and it acts as one before the
abort or one after the deletion.

*Abstractions.* Bytes are a `verdict`; parts, URLs and the signed-part records
nobody reads back are left out; sessions are drawn by `InitBegin` from a finite set and
never drawn twice (the id is random). A multipart upload whose `init` dies
before `/create` has no record; the code leaves it to the bucket's lifecycle
rules (`upload-sessions.ts:406-407`), and so does the model. Records of the old
layout, staged at the target key itself, are left out.

*Time.* One clock. `Prompt` holds it back while an invocation of the object or a due
alarm is more than `Slack` old, and while a record that should be marked is
about to outlive `Retention` (a day): a pass that takes a day is not considered.

### UploadLifecycle

The contract of a session, of which two modules are implementations: `UploadSessions`, with its requests,
passes, R2 and restarts, and `WebUpload`, where the Worker is what the page sees of it. `state` is what
the record says (a session that was refused, or whose record was deleted, is `gone`), `written` counts how often the
bytes of a session were written at their target, `discarded` are the sessions whose bytes never will be.
`Record` moves records on, several at once, because a pass writes all of them;
`Write` and `Discard` decide the bytes. A write may come after the record has expired or gone,
since a promotion under way does not ask again, but never twice and never after an abort.

`UploadSessions` refines it with `state` = `SessionState` (a create under way is still `none`),
`written` the number of `PromotePut`s so far, so that a second one would be a step the contract has not, and
`discarded` = `aborted`. `WebUpload` refines it with `session` and what `bytes` is of each upload; there it is seen
whether bytes are stored and not how often they were written, so that order, finality and exclusion are
what its refinement says. In both it is the property `LifecycleSpec`. So a page that trusts the contract is checked against
the Worker that keeps it, without composing the two state spaces.

### ShareLinks

Tokens share no state, so one share is modelled. `kv` is the last record put;
`stale` are the superseded records some reader may still be given until
`KvConverges`; `expiresAt` is in every copy and never changes. Every request
holds its own copy `rec[h]`, and `DownloadPut` writes it back as the code does.

`CreateBegin` ... `CreateReply` and `RevokeGet` ... `RevokeReply` are the two POST routes,
`Load` is `loadServableShare` with the choice of `recordShareDownload`,
`Consume`, `ConsumeRefused`, `ConsumeCrash` are `/consume` (the last one fails
between the write of the count and that of the alarm), `DownloadPut`,
`DownloadIndex` the two KV puts, `Serve` the answer. In readonly mode
(`Modes`, a property of each request, since a deployment can be switched)
a download is served without accounting, and does not count as `served`. `Init` also allows a share that the earlier, KV-only
accounting left behind, `Seed` downloads spent and no counter.

*Time.* `now` is true time and every clock reading lies within `Skew` of it
(`Readings`). `KvLapses` lets KV drop an entry from `expiresAt - Skew` on: the time to
live is computed by the writer's clock. `RetentionAssumption` (Retention >= Skew)
is what `counter.ts` claims of its hour. The alarm is set only when there is none.

*Bounds.* A share is created only if its whole life fits in `MaxTime`; the count
of an unlimited share stops at `MaxCount`; failures between the counter's writes
at `MaxCrashes`.

### ShareQuota

`left` slots, `paid` downloads that hold one, `served` downloads. `Take`,
`Waste` (the slot is gone with its answer), `Deliver`, `Lose`. `ShareLinks`
refines it with `left = MaxDownloads - spent`, `paid` = the requests between
`/consume` and the answer.

### ObjectStore

*State.* `bucket` maps a place to its content. A place is a key of the files, a key of
`.trash/` with its time stamps, or the staging key of a session. `request` are the moves and
deletes under way, `promotion` the promotion of each session, `givenUp` the sessions whose staged
object is to be deleted.

*Actions.* `Move` and `SoftDelete` check their keys and read; `Copy` writes,
`DeleteSource` deletes; `RequestDies` ends a request at any of these awaits, with nothing undone.
`PromoteHead` chooses between one put and a copy in parts, `PromoteRead` is a ranged read,
`PromoteWrite` the put or the completion of the multipart copy, `PromoteClean` the
delete whose failure is only logged, `PromotionDies` a failure before the target is written.
`Expire` (a pass takes an expired session, also in the middle of its promotion) and `Reject` (validation
refuses what is staged) give a session up; `Release` is the delete of its staged object that follows at
any time, between two ranged reads too, and `MarkCompleted` takes the session out of their reach. Promotion is the
same code as in `UploadSessions`; there it is a step among those of a session, here each of
its calls runs between those of other requests.

*Trash.* The routes accept keys of `.trash/` like any other: such an object can be moved, and deleted
again, which puts a second stamp before its key (`Trashed`). The stamp is the clock of the Worker that handles the
delete, taken after its read, so any of `Times`; two deletions may draw the same one.

*History.* `overwritten`: contents a write replaced by others. `raced`: contents
removed by a delete whose key had been written anew since its request read it. `NothingLost`
says these, and the release of an upload that was given up before its promotion, are the only ways
out of the bucket; that the code takes them is how R2
is used here (no conditional deletes), and no document of the repository claims otherwise.

*Bounds.* `MaxBegun` moves and deletes begin; `MaxNest` bounds how often what is in the trash is deleted
again, `Times` are the stamps.

### ApiAccess

*Grain.* One isolate. A request gives way where it awaits its body, a fetch of the
signing keys, or a signature check. A fetch takes two steps, since the endpoint answers with what it
serves *then* and the answer is stored and dated when it *arrives*: an older answer
may be stored over a newer one.

*State.* `env` is the deployment the isolate runs; `served` the JWKS document of the endpoint;
`cache` is `authSigningKeyCache`; `found`, `answer`, `begun` are a request's locals. `since`,
`lastServed` and `steady` are history: when the request began, when each key was
last served, whether the endpoint served the token's key all the time.

*Actions.* `Arrive` (the readonly guard), `Admit` (the body has been read: the
credential, then a cached key or a fetch), `Answered`, `FetchFailed`, `Apply` (the answer is stored
and used), `Verify` and `Reverify` (the signature, and once more with refetched keys; then claims,
scopes, principal and the Origin/CSRF guard of cookie credentials), `Done`; `Rotate` is the owner of the
endpoint, `Recycle` the platform.

*Abstractions.* A token names the key that signed it, so a signature check is an equality;
scopes, audiences and issuers are sets and model values; JWT syntax is `Malformed` or not.
A deployment is a record of its variables. `MaxDelay` bounds how long a fetch of the keys
takes, which the code leaves to the platform: without it nothing bounds the use of a withdrawn key,
since an answer of any age would be stored as fresh.

### UploadPolicy

`SliceIntoChunks` is the browser's cutting of a file, `ExpectedPartCount`,
`SignPartAccepts` and `CompletePartsAccepted` are the Worker's view of the same;
`InitAccepts` and `StagedAccepted` are the checks of init and of complete. A prefix is a
sequence of segments, where `".."` stands for any segment with dots or backslashes that is refused. A
file without recognised first bytes has the magic `Unknown`. The last conjunct of
`MagicAllowed` is `routes/upload.ts:465-480`; in `StagedAccepted` the checks at 417 and 453 imply it, so that
branch of the code can never refuse. Faulty configuration (answered
with 500), SigV4 and the recognition of signatures are left out.

### WebUpload

*Grain.* The page is one thread: what runs between two awaits is one step. A call
that changes the session is *sent*, *served* and *answered* by different steps; one
that was sent may be served after the page stopped waiting for it.

*State.* `active` and `waiters` are the gate of `useUploadQueue.ts`; `item` what the user
sees; `pc` where `multipartUpload` is, `cursor`, `worker`, `etags` its pool; `session`, `call` and
`bytes` (the file at R2: its parts, assembled, stored at its key or dropped) the Worker's
side; `lost` is history, the calls whose answer was not seen.

*Actions.* `Enqueue`, `Cancel`, `ClearFinished` are the user's. `Start`, `InitAnswered`,
`InitLost`, `InitRetry`, `InitCancelled` run init with its retries; `SignAnswered` ...
`PartCancelled` are a worker's (two nested retry loops: signing within a part);
`CompleteAnswered`, `CompleteLost`, `AbortEnds` the end. `ServeInit`, `ServeAbort`,
`Expire` and, for a complete, `Assemble`, `Promote`, `MarkCompleted`, `CompleteFails` are what the Worker does, with
what `UploadPolicy` accepts and otherwise any failure: a complete that fails may have stored the file, and an abort may be
served between its calls. An expired record is not deleted
here: calls refuse one that is gone as they refuse one that is expired. That this is
the Worker of `UploadSessions` is stated by the contract both keep. A worker that is still busy when another
one fails goes on, as in the code, and can show a failed file as uploading again;
`FinishedStays` therefore speaks of done and cancelled files only.

### ObjectBrowser

*Grain.* As in `WebUpload`. A request is *sent*, its answer *arrives*, it *ends*
when its continuation runs. A new request supersedes the one before: it is aborted if its
answer has not arrived, and what follows an abort runs before any other event; if it has
arrived, its continuation runs later and must find itself stale. The effect on a changed
selection (`SelectionEffect`) runs after the render and is a step.

*State.* Named as in `useObjectBrowser.ts`, with a `...Ref` and its state as one variable;
`listed` and `shareListed` are the requests made, so that a sequence number is a length.
`detached` is history: the user went on from something else than the page shown, namely before it was
there, after it failed, or after the prefix was retyped.

*Actions.* One for each operation of the hook (`SetPrefix`, `Refresh`, `NavigateTo`,
`GoUp`, `GoNext`, `GoBack`, `Select`, `PerformMove`, `PerformDelete`,
`PerformShareCreate`, `PerformShareRevoke`), and one for each continuation (`ListArrives`,
`ListEnds`, `SharesArrive`, `SharesEnd`, `Moved`, `ShareCreated`, `ShareRevoked`,
`MutationFailed`, `MutationEnds`). What the Worker answers is arbitrary.

*Bounds.* `MaxRequests` requests of both kinds together, `LastPage` pages,
`Mutations` slots. The run uses one slot: with two, one mutation's end clears the flag
`mutating` of the other (a hazard in the list; nothing says what the flag promises).

## What the runs check

| run | question | bounds |
|---|---|---|
| `UploadLife` | do record, R2 and target keep the contract of a session, is only valid content stored, is everything reclaimed, does an expired record hold nothing? `TypeOK`, `OnlyValidStored`, `ExpiredReleased`, refinement `LifecycleSpec`, `RecordsReclaimed`, `ResourcesReleased` | 1 upload, 2 requests and the alarm, one failing R2 call at any of 5 sites, 1 restart, fairness |
| `UploadKey` | is there one writer for a key, do promotions not race, does what was replaced at a key not come back? `OneWriterPerKey`, `PromotionsDoNotRace`, `ReplacedStaysReplaced` | 2 uploads to one key, 2 requests, no restart |
| `UploadLimit` | is the limit kept by creates that overlap, and does the alarm cover what is due? `CapRespected`, `AlarmCovers` | 2 uploads to 2 keys, limit 1, 2 requests |
| `ShareCapped` | is a cap a cap, and is the counter wiped in the end? `TypeOK`, `FastPathSound`, `CounterIsSpent`, `WipeArmed`, refinement `QuotaSpec`, `CounterReclaimed` | cap 1, possibly spent before, 2 requests, stale reads, skew 1, 1 crash, fairness |
| `ShareUnlimited` | can a share be listed until a clock may show it expired, does a settled revocation hold? `CreatedIsListed`, `RevocationSticks` | 2 requests, both modes, stale reads, skew 1 |
| `ObjectStore` | is no content lost, is what was validated what is promoted, also when its session expires or is rejected on the way? `NothingLost`, `StagedIsPromoted` | 2 files, an upload promoted over one of them, 3 moves or deletes of any keys, 2 of them at once, trash keys deleted once more, one time stamp, a copy in 2 parts |
| `ApiAccess` | how long does a withdrawn key live, is a served one always found, which guards does a handler have behind it? `TypeOK`, `WithdrawnKeyExpires`, `ServedKeyNotRefused`, `MutationsGuarded`, `HandledInTime` | 2 requests across a rotation that uses a key id again; single requests against 8 other deployments, 4 keys, cache life 1, skew 1, fetch 1 |
| `WebUpload` | are slots and parts accounted for, do both sides agree, is the user told the truth, does the Worker met keep the order of the contract, does the queue drain? `TypeOK`, `SlotsBounded`, `EveryPartOnce`, `PartsAgree`, `StoredIsAllowed`, `OutcomeHonest`, `NoSessionLeft`, `FinishedStays`, `LifecycleSpec`, `QueueDrains` | a file of 1 to 3 parts with 2 workers, or one file for each check of the policy, or 3 files for 2 slots; 1 retry, fairness |
| `ObjectBrowser` | is the view that of the last request, does Back go back for who goes on from the page shown? `TypeOK`, `ViewIsLatest`, `BackIsPrevious`, `StaleIsSilent` | 2 folders, 2 keys, 3 pages, 3 requests, 1 mutation at a time |
| `UploadStaged`, `ShareRevoked`, `ObjectShares` | three statements of comments that do not hold | see findings |

What a checked specification implies is not checked beside it: `CapNeverExceeded` follows from `QuotaSpec`;
`AbortedNeverStored`, `CompletedWasStored` and the order of statuses in `StatusForward` from `LifecycleSpec`, whose
mutants include theirs. They are proved, and the proofs of the refinements rest on them.

*Why the bounds are enough.* In the upload runs the session lives one tick, a
record is retained for two and an invocation may last one, the least values for which
expiry, marking and deletion are distinct events; with `MaxTime` 5 uploads begin
at 0 and at 1, so that one expires while another is created, which is the case
a pass gets wrong. Two requests and the alarm give every pair of
overlapping handlers, and the properties relate two sessions at most. `UploadKey` leaves
restarts out (`UploadLife` has one): its three properties are proved with them. In the share runs two requests
suffice for two takers of the last slot, for a write-back that
overtakes another, and for a revoke against a download; in the capped run the life and the retention of
a share are as long as the skew, which is the tightest case of `RetentionAssumption`.
Two moves at a time swap two keys, and the third begins after a first has ended or died, also on what it left in
the trash; one time stamp makes two deletions of a key collide, which is the harder case: with distinct ones each
has a place of its own. Proofs cover any number of requests at once. Further, `UploadStaged` shows that
one failed delete is enough. Two requests of an isolate overlap their fetches in every
order, and three ticks outlast an entry of the cache and the fetch that stored it. Three parts
for two workers make one worker come back for another part while the other is busy; three
files make one wait. Three requests are one that is shown, one superseded and one that
supersedes, or two lists around a mutation. The proofs then cover every value of these constants.
Symmetry is used in safety runs only, on requests, and on sessions where they are alike.

*Deadlock.* The upload session runs, `ApiAccess` and `ObjectBrowser` check it. A share ends when it has
expired and its counter is wiped, a page is at rest when its files are over, and a bucket when
the moves of the run are: there deadlock is not checked.

*Fairness.* Upload sessions: weak fairness of the clock, of the alarm and of each step of a
request or of a pass that has been accepted: the platform runs what it accepted and
delivers alarms. Clients owe nothing, and `RequestDies` is always possible, so
nothing follows from a request finishing. Shares: weak fairness of the clock and the
alarm alone. Web uploads: weak fairness of what the page does for each file, because every
fetch ends in an answer or an error; none of the user and none of the Worker.
`ResourcesReleased` allows for an R2 call that failed (a release
that failed is not tried again) and `CounterReclaimed` for a failure between the
counter's two writes (after which there is no alarm until the next download).

## What is proved

For every value of the constants that meets the named assumptions. `PROJECT.json` lists
the theorems; each has the name of a run's property in its statement unless noted.

`UploadSessionsProofs` (`ConstantsAssumption`): for any finite set of sessions, any keys, requests, limit,
times, restarts and failing R2 calls.
`TypeCorrect`, `CompletedHolds`, `OnlyValidHolds`, `AbortedHolds`, `OneWriterHolds`,
`LimitHolds`, `PromotionsHold`, `ForwardHolds`, `AlarmHolds`, `ReleasedHolds`,
`WritesInductive`, `ReplacedHolds`, `SessionsImplementLifecycle`.

*The argument, for how an upload ends.* None of the three is inductive: a request
about to store or to mark could have got there with anything. The
invariant `IInv` says what each label has settled (`Progress`: past the assembly
the multipart upload is completed, past the validation the bytes are valid,
past the promotion they are stored, at the mark of an abort R2 has aborted) and what each
end rests on (`Ends`). R2 completes or aborts an upload once, so no step of another
request unsettles it (`Settles`). Bytes that are stored then belong to an upload that
was completed with valid bytes, a session marked aborted to one that was aborted or
found invalid, and the two exclude each other. That is the whole reason an abort may
race a completion, and it is in R2, not in the session record.

*The argument, for who may write.* `/create` judges expiry by the clock as it was
before its pass gave way. That reading is in the past (`JobsPast`), so what
it counts as active includes whatever is active when it commits; a refusal may be stale, an
acceptance is not. `Known` (records, requests and passes name drawn
sessions only) keeps a new draw from touching the expiry of an active session.

*For promotions that race.* Two would be of two sessions of one key, since a session is assembled
once (`Sole`). Each is active until it expires (`Lasting`), as a pass marks only what
had expired when it was listed (`Overdue`) and an abort finds the upload completed; so
`OneWriterPerKey` forbids the second while both have time. This is the invariant `PInv`.

*For the passes.* What a pass writes back is older than the pass. `MInv` adds
that what it will mark is still stored (`Alive`) and what it will delete is past its
retention (`Outlived`), and this rests on `Fresh`: nothing unmarked outlives its retention. `Fresh`
is kept by the guard `Prompt` of the clock, the one place where a proof uses it; a pass as long as a day could
indeed bring back a deleted record. `StatusForward` and `AlarmCovers` follow.

*For what expired records hold.* While no R2 call has failed, whoever is about to mark a session has cleaned
up, a record that is over holds nothing, and a pass has released what it is done with
(`RInv`, with `Cleaned`, `Emptied`, `Freed`).

*For the contract.* Every invariant so far says what a state may be; the contract also says that bytes are written once
and that nothing written or replaced comes back. A retried completion gets past the active check
after the first one has promoted, so it is not the record that forbids the second write: only the one
that assembled is on its way to it. `LInv` adds that what a request is about to write has not
been written (`Unwritten`), which is what forbids a second write, and that no request completes what another is still creating
(`Apart`), without which a record could be stored after its bytes. `SessionsImplementLifecycle` then
goes through the steps: each is a move of records (`RecordMoves`), a write or nothing; a pass that
writes back its listing is a move of each record by the invariant of `StatusForward`.

`UploadLifecycleProofs` (no assumption), for any implementation of the contract, no run's property: `ContractExclusive`
(nothing is written twice, completed means written, aborted means given up and not written).

`ShareLinksProofs` (the three named assumptions of `ShareLinks`): for any finite set of requests, any cap, seed, lifetime,
retention, skew, modes and bounds. `TypeCorrect`, `CapHolds`, `FastPathHolds`, `CounterHolds`,
`WipeHolds`, `ListedHolds`, `RevocationHolds`; `CappedImplementsQuota`, that a capped share implements `ShareQuota`;
`DownloadsWithinCap`, that served downloads and those about to be served are
together never more than the cap (no run's property).

*The argument for the cap.* It cannot be shown by itself: `/consume` goes by the stored
count, and before there is one by the count of the request's copy of the record,
which may be stale. `CounterIsSpent` says why that is harmless: as long as no
download has been counted every copy shows the seed, and afterwards the counter is there
until it is wiped. A wipe would start the count again, so the invariant also
records *when* it happens (`WipeTime`: the alarm, if set, is at
`expiresAt + Retention`), and since `Retention >= Skew` no clock can then still
show a time before the expiry: nothing consumes after the wipe. `FastPathSound` bounds
every copy by `spent`, which the step of `/consume` needs when it seeds.
`IInv` is the conjunction of these with `TypeOK` and `NothingYet` (before the
share is created nothing of it exists). `Inductive` proves it from one lemma
for each action. `QuotaStep` and `PaidForStep` then follow the cardinality of `Paid`.

*For the wipe.* `WipeArmed` is what is left of `CounterReclaimed` without fairness. It is not inductive: after the wipe
there is no alarm either, and a failure between the two writes would then leave a count
without a failure before it. `Armed` tells the two apart: without an alarm either nothing has been let
through, or the retention is over and (`NotGrantedLate`) nothing consumes any more.

*For listing and revocation.* `LInv` adds that from its creator's writes on the record
and the entry are there until the first clock may show the share as expired (`Listed`: KV drops an entry by the
writer's clock, which is within the skew). For up to twice the skew after that a slow clock may still serve a share whose
entry is gone, and `CreatedIsListed` claims nothing of it; nor of a create that failed between its two puts, whose token
nobody was told. `LInv` adds too that a download under way goes by an unrevoked copy (`Downloading`).
Once no such copy is held or readable, no step can make one.

`ObjectStoreProofs` (`StoreAssumption`): `StagedHolds`, `NothingLostHolds`. No move or delete
reads or writes a staging key and no two sessions share one, so a staged object is what it was or gone, and it goes only by the
promotion, expiry or rejection of its own session; a read that finds it gone ends the promotion. For `NothingLost`: it is not inductive, because a content may be down to one copy that
somebody is about to delete. `Safe` says every content that was not given up keeps a copy that is not `Doomed`: who dooms
one has just written another elsewhere (`Slot`: a request never writes where it read), and who read a place before that write is stale, so
that deleting it counts as raced (`Honest`).

`ApiAccessProofs` (`ConstantsAssumption`): `TypeCorrect`, `WithdrawnKeyHolds`, `ServedKeyHolds`,
`MutationsHold`, `HandledInTimeHolds`. `Timely` bounds a fetch, `Dated` says that every key in the cache, in an answer
or in a request's hand was served then; a fresh entry was stored less than `Ttl` ago and read less than `MaxDelay` before.
A token whose key was served all along is at worst met by a stale key, and the refetch finds the right one.

`UploadPolicyProofs` (`LimitsAssumption`), for files of any size, no run's property: `ChunksAreExpected` (the
browser's chunks are as many as the Worker expects), `ChunksAccepted` (each is accepted by sign-part), `NumbersAccepted`
(complete accepts their numbers).

`WebUploadProofs` (`WebAssumption`, `LimitsAssumption`): `TypeCorrect`, `SlotsHold`, `EveryPartHolds`, `PartsAgreeHolds`,
`StoredHolds`, `OutcomeHolds`, `NoSessionLeftHolds`, `FinishedHolds`, `PageKeepsLifecycle`. The invariant is `Shape` and
`Gate` (the waiting uploads are those of the queue, each in it once) and `Parts` (every part up to the
cursor was taken by one worker and, while the upload goes on, is uploaded or still with it, and one worker is busy) and `Outcome` (what each label of an upload says of its session and
of its calls). `Kept` in it relates the session to the bytes: those of a completed session are
stored, those of an aborted one dropped, and what is assembled or stored has passed the checks of a complete that
was sent. `OutcomeHonest` needs it because a complete may fail with the file stored, and it is
all that the refinement `PageKeepsLifecycle` needs. For `SlotsHold`, `Queued` adds that
who waits is in the queue; with a busy worker for each upload in its parts (`EveryPartOnce`) it is
what `QueueDrains` rests on.
`PartsAgreeHolds` cites the theorems of `UploadPolicyProofs`.

`ObjectBrowserProofs` (`BrowserAssumption`): `TypeCorrect`, `ViewHolds`, `BackHolds`, `StaleHolds`. The invariant
adds to `ViewIsLatest` that the next cursor of a settled page is none or that of the page after it
(`View`), and that the stack holds the pages before the current one also while a page is awaited
(`BackIsPrevious` itself).

*Only model-checked*: liveness (`RecordsReclaimed`, `ResourcesReleased`, `CounterReclaimed`, `QueueDrains`),
which is out of the prover's reach. Of each the safety it rests on is proved: `AlarmCovers`, `ExpiredReleased`,
`WipeArmed`, `SlotsBounded` with `EveryPartOnce`.

## Where the code and its comments disagree

- `UploadStaged`. `routes/upload.ts:114-116` says a staged object whose delete
  failed in a rejection is reclaimed when the session expires, and `r2.ts:100-102` says of a staged copy
  left by a promotion that session pruning removes it. The session is marked aborted, or completed, right
  after, and pruning releases R2 state of `init` and `active` records only.
- `ShareRevoked`. `loadServableShare` is said to reject revoked tokens. A download
  that loaded the record before a revoke writes it back, `revoked: false` and all
  (`recordShareDownload`, `service.ts:121-127`), after the revoke was answered; the token is
  served again. `RevocationSticks` shows what does hold: once no unrevoked copy is
  held or readable, revocation is final.
- `ObjectShares`. The browser's hook promises that a slow answer never overwrites a newer view
  (`useObjectBrowser.ts:61-64`). `performShareCreate` lists the shares of the key it read *before* its
  request (line 358): if the selection has moved on, the panel of the new selection keeps the shares of the old one.
- Beside the runs: the same hook says that "Paging keeps a cursor stack so Back is lossless" (line 65). `goNext` pushes
  the cursor of the page asked for *last*, shown or not. After a Next that failed, Next again pushes the cursor
  of the page that never came, and Back leads to it instead of the page before; Next twice at once does the same, and
  Next after Back drops a page. `BackIsPrevious` excludes these by `detached`, and says how far the claim does hold.

## What is not modelled

- *Formats and encodings*: SigV4, the recognition of MIME magic, JWT syntax, HTTP ranges, schemas, request
  and configuration parsing, the grammar of a share's ttl, rendering. They keep no state; where an
  outcome matters to a property (malformed token, wrong type) it is a case of the model.
- *Parts of modelled components*: the records of signed parts, which nobody reads back; sessions of the old layout, staged at
  their target key; the single request and reload of `useSessionBootstrap` (the first listing is a `Refresh`).
- *Multipart uploads of an init that dies before `/create`*: left to the bucket's lifecycle rules
  (`upload-sessions.ts:406-407`), which are configured outside this code.
- *Nix modules, CLI, release scripts*: the sync unit is a linear script whose lock and listings are rclone's, and what a
  crash leaves is rclone's doing; the others are declarative, or one request per call.
- `src/.agents/skills` is vendored.

## Running

`tlc -config MCShareCapped.cfg MCShareLinks`, and likewise for the others (`MCObjectShares.cfg` runs
`MCObjectBrowser`, `MCUpload*.cfg` run `MCUploadSessions`); `tlapm UploadSessionsProofs.tla`, and likewise for the other
`*Proofs` modules.
