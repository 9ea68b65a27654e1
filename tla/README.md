# A verification project for the AGICO knowledge store

The knowledge store (`src/src/agico_kb/`, below just file names) keeps a company's
files: people upload and submit them, a worker parses them into searchable text, has their
pictures read by vision models and proposes names for them, approvers publish, withdraw
and restore versions, and readers search what is published. Everything is kept in one
PostgreSQL schema and one folder of files, and is changed by two kinds of process, the API
server (`main.py`) and any number of worker processes (`worker.py`), which never talk to each
other except through the database and the folder. That is where the difficulty lies and what
these modules are about: every handler is a few short transactions, files obey no
transaction, and between two steps anything may happen.

## 1. Inventory

| Component | State it keeps | Operations | Hard behaviour | What makes it correct |
|---|---|---|---|---|
| Parsing worker, `worker.py` | `jobs` (state, generation, attempts, lease_until, next_attempt_at), `chunks`, `versions.active_generation`, `processing_status`; checkpoint files of long PDFs; in memory the claims of each pool | `claim`, `renew_lease`, `run_claim` (commit, defer, fail), `release_interrupted`, `retry`, `WorkerPool.tick`, `--recover-interrupted-job` | several processes, expiring leases, crashes, overtaken executors, a claim made of several transactions | one text per version, only by a current claim, never an older one; limits on running jobs and attempts; every job settles; a retry reads the original again |
| Publication lifecycle, `lifecycle.py` | `documents.revision`, `active_version_id`, `versions.state`, `base_revision`, `published_at`, `publication_mode` | `publish`, `review_name`, `rename_pending`, `rename_published`, `withdraw`, `restore`, `withdraw_submission`, `set_grants`, `delete_document` | stale pages, two approvers, a parse in progress | one published version, no lost update, gates before publication |
| Uploads and submissions, `files.py` | `uploads` (pending, complete, submitted), the originals | `prepare`, `upload_content`, `submit`, `retry_processing`, `link_file` | duplicates, lost answers, a crash between rename and commit | no upload without its original, one live copy of each content |
| Automatic naming, `naming.py` | `versions.capabilities.naming_review` (pending, running, review, done; token, lease), titles | `process_pending`, `_finalize_row`, `suggest`; `review_name` | late answers of the model, overtaken batches, a person deciding first, locks taken in two orders | a person's name is kept; every draft is named or shown |
| Project registry, `project_registry.py` | `projects` with aliases, temporary code, official number | `resolve`, promotion | concurrent registration and promotion | one record per name; its number is the prefix of its documents |
| Search, `search.py`, `tokenizer.py` | reads `chunks` | `search`, `read`, `review_chunks`, `edit_chunk` | generations and publications change between two statements of a request | only current, published text; a saved correction is shown |
| Query queue, `embeddings.py` | a line of callers, one model thread, a cache | `query`, `close` | a call that never ends, deadlines, wakeups | no backlog, nobody waits for ever |
| Catalog, `catalog.py` | none | `get_version`, `list_documents`, `can_read_document` | | |
| Backup and restore, `operations.py`, the gate in `db.py` | an archive; advisory lock `:backup` | `pause_writes`, backup, reconcile, restore | writers during the backup, the gate lost in the middle, an archive that decays | an archive is whole, a report true, a restored library intact |
| Library maintenance, `library_maintenance.py` | a journal in the archive | `clear_library` | changes between snapshot, backup and clearing; failure half-way | nothing is cleared that the archive lacks |
| Accounts, `accounts.py`, `account_security.py` | accounts, sessions, invitations | login, invite, activate, update, change password, resend | an account changes between the middleware and the handler; two administrators removing each other | nothing that was revoked works; one superadministrator remains |
| OAuth, `account_oauth.py`, `auth.py` | codes, grants, token families | consent, exchange, refresh, revoke | a code or token presented twice | one grant per code, one line of tokens; replay ends the family |
| DingTalk, `dingtalk_*.py` | identities with the time of their evidence; the cached department tree of each process | login, `ensure_fresh`, `synchronize` | answers stored in another order than they were given | nobody is served on old evidence |
| API keys, `api_keys.py`, `credential_crypto.py` | one encrypted file per profile, shared material | `replace_key`, `select_model`, `migrate_legacy` | concurrent changes; a kill between two files | a replaced key stays gone, a key is never lost |
| Providers, `provider_*.py` | rests and the switched-off period in SQLite | failover | failures of requests of before the switch | one fixed period |
| Visual reading, `vision.py` | `pdf_regions` and other caches, output budgets, the day's share | `enrich_pdf`, `enrich_word`, `enrich_excel`, `enrich_ppt`, `enrich_image` | answers cut off, shares spent, routes away, crashes between pictures | what is called ready is read; a file waits, and ends |
| Previews, `previews.py`, `thumbnails.py` | files, jobs of a pool, child processes | render on demand | children that survive a restart | a client gets a whole file |
| Parsers, `ingestion.py`, `cad.py`, `convert.py`, `drawing_index.py`, `pdf_*.py`, `excel_visuals.py`, `fallback_parse.py`, `chunking.py`, `quality.py`, `parse_notices.py`, `model_preview_blender.py` | none | pure functions of bytes, in subprocesses | | |
| Access codes, `access_management.py`, `admin.py`; `feedback.py` | rows | single transactions | | |
| Server setup, `server_setup.py`, `provider_config.py` | `deployment.json`, `maintenance.json`, `runtime.json`, the cluster and its role | `initialize` | an installation cut off anywhere and repeated, by two people at once | the passwords in the files are those in the database; it comes to its end |
| Front ends, `main.py`, `mcp_server.py`, `contracts.py`, `config.py`, `portal/` | settings; what a page shows | routes | a page that is out of date | |
| Operator tools, `scripts/`, `deploy/`, `client/`, `skills/` | none | | | |

## 2. The modules

    Store ----+--> Lifecycle --+
              |                +--> KnowledgeStore --> MCKnowledgeStore (TLC)
              +--> Worker -----+          |    ^
                                          |    +------ KnowledgeStore_proofs, Jobs_proofs,
                                          |            Documents_proofs (TLAPS)
    VersionIndex <--- implemented by -----+
         ^
         +---- used by Search

    Storage --> Archive --> Recovery --> Originals --> MCOriginals
    Accounts --> Tokens, Directory --> Access --> MCAccess
    Providers --> Vision --> Reading --> MCReading
    Projects --> Naming --> MCNaming, MCBackground (with KnowledgeStore)
    QueryQueue --> Search --+
    Previews, Native, ApiKeys, Setup --> Services --> MCServices

    Originals, Access, Reading, Naming and Services each have a module of proofs, M_proofs.

The jobs and publications (the first group) are the core. The other groups meet it in few
places, and those are abstracted on both sides: `Submit`, the reviews and the purge are in
Lifecycle and in Storage, each with the columns its properties need; `ReviewName` of
Lifecycle is the outcome of Naming; a deferral (`Defer` of Worker) is the end of a pass of
Reading; Search uses of the index only what `VersionIndex` promises, which KnowledgeStore is
proved to implement.

* **Store** declares the columns (one variable each, a function on `Documents` or
  `Versions`), what the executors and the managers' pages remember, their types, the empty
  library, and the predicates that several handlers' SQL share.
* **Lifecycle** has one action per handler that changes publication state: `Submit`,
  `Publish`, `ReviewName`, `RenamePublished`, `Withdraw`, `Restore`,
  `WithdrawSubmission`, `SetGrants`, `DeleteDocument`, `Retry`; and `Look`, a manager
  loading a page. A request carries the revision the page showed (`view`), which may be
  old; a request the code refuses changes nothing, so refusals are guards.
* **Worker** has one action per transaction of `worker.py`. `pc[e]` says which
  transaction executor `e` runs next: `ReadExhausted`, `FailExhausted`, `PickJob` or
  `ClaimNothing`, `ReadClaim` and `MarkProcessing` (the parts of `claim`; its last statement is
  two of them, see below), `StartRun`, then `Commit`,
  `Defer`, `Fail` or `Abandon` (the parts of `run_claim`), `Break` and `Release` (an
  exception that reaches the pool), `Renew` (the heartbeat), `RecoverInterrupted` (the
  operator), `Crash`. `Tick` and `BecomeDue` are the database's clock.
* **KnowledgeStore** composes the two and states the properties, the inductive
  invariants, the fairness and the refinement.
* **VersionIndex** is the abstract promise to a reader: each version has one text at a
  time, replaced in one step and only by that of a later parse, until it is removed.
* **MCKnowledgeStore** gives TLC the documents of versions and the symmetry. **MCBackground** puts
  KnowledgeStore and Naming into one run, the two things every worker process does.
* **KnowledgeStore_proofs, Jobs_proofs, Documents_proofs** hold the proofs.

* **Storage** is about the original files, which no transaction protects: rows change at a
  commit, files at once. `Prepare`, then `Rename` and `CommitUpload` or `LoseUpload` (a
  transfer that ends, in `upload_content`), `Submit`; `Publish`, `Reject`, `Withdraw` and
  `Restore` with only what they mean for an original; `BeginDelete`, `MoveAway` file by
  file, `CommitDelete` or `LoseDelete` (`delete_document`); `PurgeQuarantine`.
* **Archive** adds the backup (`BeginBackup` closes the gate of `pause_writes`,
  `ListOriginals`, `CopyOriginal`, `Dump`, `Finish` or `FailBackup`; `LoseGuard` is the loss of
  the connection that holds the gate) and `clear_library` (`BeginClear`, `MoveLibrary`,
  `CommitClear` or `AbandonClear`).
* **Recovery** adds what an operator does with both: `reconcile` (the list, original by
  original, then the folder, then the report) and `restore` (check of the archive, copy and
  check of each original) while the archive's files may be damaged. **Originals** composes
  them and states the properties.
* **Accounts** has a request as the two transactions it consists of: `Begin` is the
  middleware, which lets the session through, and the handlers (`Invite`, `Resend`,
  `Update`, `ChangePassword`, `Logout`) look again, or do not, under their locks. **Tokens** is the OAuth
  flow: consent, `ExchangeCode` and `ExchangeRefresh` with the loading that precedes them, replay
  and revocation. **Directory** is the login through DingTalk and the renewal of evidence by
  several processes, each with a cached department tree. **Access** composes them.
  `epoch[p]` counts the revocations of an account's secrets and is history, like the epoch
  every session, code and grant was made in.
* **Providers** walks the models of a route, switches to the backup route for a period and
  back. **Vision** is one picture: draft, review, repair, an answer cut off, the larger output
  budget, the two halves, the cache. **Reading** is the passes over a file: `StartPass`, the
  pictures in parallel, `EndPass` (ready, partial or deferred), `Crash`. `mode` is the managed
  configuration with two routes or the older direct one.
* **Projects** holds the decisions of the registry as operators on its rows. **Naming** is the
  batch of the background thread (claim with token and lease, answer or none, the
  transaction that writes) and the person's review, split where they take their two locks, so
  that they can block each other (`Abort`) and one may read what the other is about to write.
* **QueryQueue** is `QueryEmbedding` at the grain of its condition variable and of the
  future of the one native call. **Search** puts a search (two recalls, the wait for a vector,
  the check before the answer), a reader's page and an approver's correction on top of a
  library that goes on changing.
* **Previews** is the request that a client repeats, the jobs and the child processes with
  their temporary files (`Open` empties the file, also one another child has open; `Write`,
  `Rename`), for previews (`Request`) and for thumbnails (`Get`), which remember no failure. **Native** is the
  checkpoint files of a long PDF, written and read by overtaken executors and
  removed by a retry in two steps (`RemoveWhole`, `RemoveRanges`), between which another executor
  may claim the job. **ApiKeys** is the keys' files, changed step by step by developers and by
  the operator's migration, with a kill at every step. **Setup** is `initialize` with one action
  for each thing it makes and looks for, and `Interrupt` between any two.
* **Services** puts these parts, which share no state, side by side: each behaviour is about
  one of them (`topic`).

How the state of the core corresponds to the code: a version and its only job share one identity
(`jobs.version_id` is unique). Fencing generations are random UUIDs in the code; the model
numbers them in the order of the claims, which lets it say "later", and nothing else
uses the numbers. `lease[v]` is the number of ticks left until `lease_until`, so `0` is
"expired or NULL"; `due[v]` is `next_attempt_at <= now()`. `chunks[v]` is the set of
generations of which `v` has rows. "none" and "deleted" stand for the absence of a row,
before submission and after the purge. An executor keeps the claim it holds
(`claimed`, `token`, `tries`: the dictionary `claim` returns), and `stale[e]` is what it
read in the first transaction of `claim`.

In the other modules a variable is a table's column, a file, the local variables of a
running handler (`at`, `thread`, `call`, `child`, `editing`, `pc`), or history that only
properties read (`epoch`, `sealed`, `replayed`, `overtaken`, `overwritten`, `torn`, the field `overlap` of
`files`), and
its comment says which.

Definitions named `F_Mistake` are `F` with a plausible bug. No action uses them; they show
that a property would notice.

### What is abstracted

* A transaction is one step. The handlers take their row locks before they look at the
  rows (`managed_document`, `FOR UPDATE`, the `:worker-slots` advisory lock), which is what
  makes this sound for the columns modelled. What is read before the lock is a step of its
  own. The last statement of `claim` (`worker.py:107-111`) asks for the job in a subquery and then may wait for the
  version's row; it is two steps, `ReadClaim` (its snapshot of both rows) and `MarkProcessing`
  (the version is checked again when the row is free, the job is not). The first statement of
  `claim` is a step of its own too (`ReadExhausted`), and so are the two halves of `edit_chunk`
  (`CheckDraft`, `LockVersion`). The statement that picks a job (`worker.py:86-94`) locks the job
  and rechecks it, but reads the version in its snapshot: of the columns it uses
  `needs_review` is the only one that changes, and it only ever becomes false, so an older
  value makes the statement pass over a job, never take one it should not. Two consequences of
  PostgreSQL's rules remain outside: `now()` is the start of the transaction, so a heartbeat that waited for a lock
  judges the lease by a slightly older clock; and lock order (deadlocks) is invisible. Both
  are in the list of hazards.
* The instant at which `lease_until = now()`, neither live nor expired for the SQL, is
  left out.
* Titles and the gate on vague titles, categories, the contents of grants, permissions,
  warnings, audit rows and `_progress` notes are left out.
  `rename_pending` changes only a title and is therefore no action.
* Parsing is a choice of its outcome: `ready`, `partial`, `stored_only`, a retriable or
  a terminal failure, a deferral, an exception outside. Which files are OCR-heavy (`Heavy`) or
  drawings (`Cad`) is a constant.
* The pool claims serially and each of its threads runs one claim; the model lets every
  executor claim for itself, which includes the pool's behaviours and those of several
  worker processes.
* `PickJob` may take any eligible job. The SQL orders by age, but `SKIP LOCKED` passes over
  rows that another transaction holds at the moment.

* Storage is separate from Store because the two meet only in `submit`, the reviews and the
  purge, which are in both, each with the columns its properties need. An upload has at
  most one version, so versions are told apart by their uploads. `version[u]` is "rejected"
  when the draft was withdrawn, "withdrawn" or "restored" after that happened to a
  publication; a superseded version stays "published", which is all the same to
  `duplicate_version`. Contents stand for bytes and for their hash. Reception is one step with
  `finalize`, because nothing it reads ever changes. `torn` (documents whose interrupted
  deletion moved files) and `audited` are history, for the properties.
* Sharing of the advisory lock is `Writing`: uploads and deletions in the middle of their
  transactions hold it; all other handlers are one step. One backup runs at a time. An archive is
  forgotten when the library changes, unless a clearing waits for it; whether its snapshot is
  still true is one bit, since every change adds an audit row that the real comparison sees.
* Recovery: the operator runs one of backup, `clear_library` and `reconcile` at a time; missing
  and corrupt originals are one set (`broken`); its time limit is `FailReconcile`. restore is
  followed only while nothing else is going on and from an archive that passed its validation;
  the requeue of running jobs, the migrations and the grants in it belong to one step. The archive
  is damaged only while it is restored from, which is when it matters.
* Access: an account belongs to one organization. Expiry of sessions, codes and invitations,
  rate limits, the extra organizations of an employee, `bind` and the locks inside one
  process are left out. The directory answers at once; what takes time is between
  the answer and the transaction that stores it. A process runs one such request at a time.
* Reading: blank pictures, and the errors of drawing one, are left out; a batch is all regions of
  the file; a deferred file is taken up again at any time after it; the other model that a
  deployment without a second profile may ask after cut-off answers (`vision.py:1206-1229`) is left out; the text a range of pages has
  by itself is Native's. naming requests walk the same routes and may switch the primary one off
  (`naming.py:506-507`); they are not composed with reading, where this would be one more failure.
* Naming: a batch is one draft (`NAMING_BATCH_SIZE`); the rules for file names, private
  projects, drafts of an older rules version and backoff times are left out. `Reconcile` decides
  and writes at one instant, where the code's statement reads in its snapshot.
* Services: a vector is forgotten at any time (the cache's age and size); a model that
  cannot be loaded is one that fails; ranking, filters and paging of results, and
  `review_chunks`, are left out; two children that write one file write the same bytes. The PDF
  an Office file is converted to on the way (`document.part`, `document.pdf`, `previews.py:32-35`) is left
  out: it is written and renamed like the files that are modelled, and read by the next child. Previews has
  the file system of POSIX, where a file another process has open can be renamed. Native leaves
  out that a commit removes the file of the whole (`worker.py:479`), after which a claim parses
  again as if there had been none. In ApiKeys the advisory lock is never lost with its connection, and the operator migrates only
  while the services are stopped, as the documentation demands. Setup leaves out downloads, paths and
  ports; a cluster that `initdb` left unfinished is refused, or does not start, which is the same.

## 3. Properties and runs

`CHECK_DEADLOCK FALSE` is set because the bounds on revisions, refunds, troubles and so on end the
behaviours, and because an idle system is a legal end.

| Run | Instance | Question | Properties | States |
|---|---|---|---|---|
| `ks_worker` | 2 files, 2 executors, 1 slot, 2 attempts, 1 refund | Do lease and fence keep index, jobs and limits right? | `IndexInv`, `ExclusiveClaim`, `SlotsRespected`, `AttemptsCount` | 1.8 M |
| `ks_worker_mark` | 1 file, 2 executors, 1 attempt | Finding 5 | `FailureIsFinal` (violated) | |
| `ks_documents` | 2 versions of 1 document, one a drawing, 1 executor, 1 manager's page, 3 revisions, 1 retry | Do revisions prevent lost updates, are the gates between naming, parsing and publishing kept, does the index implement the abstract one? | `OnePublication`, `RevisionTellsChange`, `GatesHold`, `WithdrawnDraftIsFrozen`, `ImplementsIndex` | 2.3 M |
| `originals` | 2 uploads to 1 document, 2 contents, 2 blobs, 2 transfers | Do rows and files agree through crashes, is a report true, does an archive hold what it claims, is anything cleared that it lacks, is what was restored whole? | `FilesAgree`, `OneLiveCopy`, `ArchiveIsWhole`, `ReportIsTrue`, `RestoredIsWhole`, `SavedOriginalIsFinal`, `MaintenanceIsSafe` | 1.9 M |
| `originals_trace` | 1 upload | Finding 1 | `DeletionLeavesTrace` (violated) | |
| `access` | 2 accounts, 1 code, 2 token requests, 2 grants, 2 processes, both modes | Does anything work that was taken away? | `NoOldSecrets`, `OldRequestsChangeNothing`, `SuperadminRemains`, `OneLine`, `ReplayEndsFamily`, `ServedIsEmployed` | 0.9 M |
| `access_login` | the same, directory mode | Finding 2 | `NewestEvidenceWins` (violated) | |
| `reading` | files of up to 2 regions or a region and a field, 4 kinds, both modes, 2 troubles, 1 crash, `FairSpec` | Is what is called ready read, does a PDF wait for recovery, does every file end? | `ReadyIsRead`, `PdfWaitsForRecovery`, `HalvedWhenCutOff`, `FailoverWindowFixed`, `EveryFileEnds` | 0.8 M |
| `reading_office` | a Word file of 2 pictures | Finding 3 | `WaitsForRecovery` (violated) | |
| `background` | 2 drafts, 2 batches, 1 reviewer, 1 project name, 2 numbers, 1 trouble; or 2 files, 2 executors, 1 attempt, 1 refund; `SpecOfBoth` | Is a person's name kept, a project registered once, every draft named or shown? Does every job settle? | `OneProjectPerName`, `ApprovedNameStays`, `EveryDraftIsNamed`, `EveryJobSettles` | 0.6 M |
| `naming_prefix` | 2 names, 1 number | Finding 4 | `PrefixIsOfficial` (violated) | |
| `services` | nine topics, see below | Is the line for vectors safe and live, are answers current, previews whole, long PDFs read again, keys kept, interrupted installations finished? | `LineMoves`, `EveryQueryReturns`, `EveryAnswerIsCurrent`, `SavedEditIsShown`, `WholeUnlessOverlap`, `PagesAreTheDocument`, `KeysAreKept`, `CredentialsFit`, `SetupContinues` | 0.5 M |

What each property says is written above it, in `KnowledgeStore`, `Originals`, `Access`,
`Reading`, `Naming`, `QueryQueue`, `Search`, `Previews`, `Native`, `ApiKeys` and `Setup`. Every property of a
passing run has a mutant in `PROJECT.json`: a plausible mistake in one definition with which TLC
finds it violated.

### The bounds

* `MaxAttempts` 2 (3 in production) distinguishes a first from a last attempt; `LeaseTicks`
  1 lets a lease run out at any moment, and a heartbeat is worth as much as a longer one.
* Two executors are an overtaken and an overtaking one. The limit of two OCR-heavy jobs
  below the general one takes three executors and slots, more than `ks_worker` has; it is
  proved (`SlotsAreRespected`).
* One manager's page in `ks_documents`: a request passes only with the current revision,
  so whatever several managers do one does who reloads the page in between, and stale pages are
  all refused alike. All its properties are also proved, for any number of managers.
* `MaxRevision` and `MaxRefunds` are guards of the actions that count, so a run explores
  every order of that many changes. A refund is an event that hands an attempt back, a retry or
  an exception of the database; the code does not bound them.
* `originals`: two uploads are what duplicates and races need, and one document with both makes
  a deletion of two files that can stop between them. Two blobs are enough for both, or for
  one and the orphan of a lost transfer; when they are used up no transfer ends any more.
  Only `u1` may declare its hash in advance (`Declaring`).
* `access`: an administrator and an employee; a code needs two requests to be presented twice,
  and two grants to become two. `MaxRevocations` and `Connecting` depend on the mode: the
  directory adds the processes and takes the AI clients away. `MaxInFlight` 1 is a
  request caught in the middle, beside others that run through at once. Three pairs of tokens
  let a spent one be replayed after its successor was spent.
* `reading`: two models on the primary route and one on the backup; a region that can be
  halved once. `MaxTrouble` bounds the answers that are cut off or missing, `DailyLimit` is the
  day's share where the mode has one, `RestTicks` and `MaxNow` the clock.
* `background`: either the drafts or the jobs move, chosen at the start (`work`), as in `services`; what one
  does to the other is a flag, which `ks_documents` sets and clears (`needs_review`). Two drafts race for
  one name, and two numbers can be promoted one after the other. `MaxTrouble` is a crash or an
  absent model. Two jobs of one attempt and two executors are a claim overtaken, given back or interrupted
  in the sweep. Submissions and refunds are bounded, so that every job settles is said as "from some
  time on none is open", and no behaviour can evade it by submitting for ever.
* `services`: three callers and two places in the line; two versions, one of which is found by
  its words; a manifest and two pages, or two thumbnails, three children and one restart; two executors, two
  ranges and two parser releases of which one reads the other's files; two developers, two
  profiles, two models, three keys and two materials; two people who install, three interruptions.
* Symmetry is used only where no liveness is checked, over values that no action distinguishes.

### Fairness

`SpecOfBoth` of `background` is the `FairSpec` of KnowledgeStore for behaviours about jobs and
that of Naming for those about drafts.

* Core: `FairSpec` assumes that the pools tick while a worker process runs (`main` loops for ever
  and survives every exception), that the parse of a claim ends (the parsers run in
  subprocesses with timeouts), that a broken claim is released on a later tick, and that
  time passes: weak fairness of each of these. Picking a job also needs strong
  fairness: a process may crash at any time and be started again by the service
  manager, which interrupts the sweep over and over, but not for ever before it picks.
  People are not assumed to do anything, so a job waits for its name review without a time
  limit, and `EveryJobSettles` excludes it. Heartbeats (`Renew`) are not assumed either.
* Reading: a thread goes on and its request is answered or times out, the clock runs, a new
  day comes, and the worker takes a deferred file up again. Crashes and troubles are bounded,
  because a provider that never answers lets a file wait for ever, as documented.
* Naming: the thread in each worker is started again and again, a transaction
  that can go on does, leases lapse. No person is assumed to review.
* Services: a waiting caller goes on when it is woken, and its deadline comes; who installs a
  server goes on, and repeats the command after an interruption, of which there are finitely many.
  Nothing is assumed of the native call, which may never end.

### Findings

1. `originals_trace`: `delete_document` writes the audit row of a deletion inside its test that the
   file exists (`lifecycle.py:431-451`) and renames files before the commit. When the
   transaction fails after a rename, the rows come back without their originals, and the deletion that
   is then repeated finds no file and writes no audit row, although the docstring calls the rows
   "the only trace of who removed what" (`lifecycle.py:382-383`). `references`
   (`operations.py:115-131`) excuses a missing original only by that row, so every
   later backup fails. `OriginalIsKept` and `QuarantineIsRemoved` name the same window: they except the
   documents in `torn`.
2. `access_login`: the login through DingTalk stores what it learnt without comparing it with
   what the row holds (`dingtalk_identity.py:62-111`), so an answer of before an employee left
   replaces the newer one another process stored; `docs/design/dingtalk-identity.md:50` and
   `docs/design/account-login-and-invitations.md:31` say that older answers are dropped. It lets
   the employee in for the rest of the refresh interval, counted from the older answer:
   `ServedIsEmployed` holds all the same.
3. `reading_office`: the readers of Office files and single images catch `VisionDeferred` with
   every other exception (`vision.py:385`, `829`, `1457`): while no route can answer their pictures are
   skipped and the file ends partial, where `docs/server-setup.md:93` promises to keep the
   progress and wait. For PDF files the promise holds (`PdfWaitsForRecovery`).
4. `naming_prefix`: the advisory lock that orders two writers of a project is on the name they use, not
   on the project (`naming.py:634-637`, `lifecycle.py:139`). A document linked under one name while the
   project is promoted under another (`project_registry.py:26-48`) keeps the temporary code as its
   prefix for good. Updates of aliases and of the official number can be lost the same way.
5. `ks_worker_mark`: the last statement of `claim` (`worker.py:107-111`) locks nothing before it asks, in a
   subquery, whether the job is still claimed. When it begins while another executor's sweep
   (`worker.py:59-71`) holds the version and fails the job, which needs a lease that ran out on its last
   attempt, it waits and then checks the version again, but not the job: "processing" is written over the
   failure, and stays. `README.md:116` of the repository says that "an old process cannot overwrite
   newer results", and `tests/integration/test_worker_recovery.py:167` expects such a file to show
   "failed". With the job checked again at the write, TLC finds no violation. The job itself
   is failed, so `EveryJobSettles` holds all the same, and a retry clears it.

Seen while modelling, below the grain of a run, each in the list of hazards:

* A thumbnail or preview has one temporary name (`thumbnails.py:415-417`, `previews.py:42-44`, `49-70`), also
  for a child left from before a restart and for the one the new service starts. When the new one has just
  emptied the file, the old one renames it, and the new one is killed or fails before it has written,
  half a file has the final name, although the code means to "publish only a complete valid preview"
  (`thumbnails.py:412`); nobody makes it again, because only its existence is asked for. That is the
  only way (`WholeUnlessOverlap`, proved): a file that was not opened during such an overlap is whole.
  TLC finds such a behaviour when the exception is left out of that property.
* A file published early as `file_only`, withdrawn while it is parsed and restored after the
  parse stays `file_only` although its text is ready: `run_claim` sets
  `publication_mode` only while the version is published (`worker.py:450-452`) and `restore` never
  (`lifecycle.py:246-252`). The other direction, `ContentIsParsed`, is proved.
* In managed mode the count of cut-off answers is stored under one key (`vision.py:573-575`, `596`) and
  looked up under another (`1190-1205`), so halves are never read; `HalvedWhenCutOff` is
  therefore about the direct mode.
* An installation that is cut off inside `initdb` is refused afterwards (`server_setup.py:236-238`),
  and one that is cut off while `import_providers` writes `runtime.json` over in place
  (`provider_config.py:86`) leaves a file that cannot be read, perhaps with the application's only
  password lost, although `docs/server-setup.md:11` says that the same command continues.
  `SetupContinues` excepts these two points, by name (`Spoiled`).
* A client that repeats `prepare` with the declared hash after its submission is told that the file is a
  duplicate, of its own (`files.py:89-91`), and gets no `upload_url`, which
  `client/file_transfer.py:94` needs.
* `edit_chunk` checks that the version is a draft before it takes the lock (`search.py:305-310`).
* A save of an API key that is killed between creating the encryption material and writing it leaves
  an empty file with which no key can be saved any more (`credential_crypto.py:26-36`).
* `clear_library` moves the files back when only its unlock fails, after the rows are gone
  (`library_maintenance.py:94-99`).

## 4. What is proved

Every safety property and every action property that a passing run checks is also proved by
TLAPS: for any sets of documents, accounts, regions, callers and so on, any number of actors and
any bounds, where a run takes the few of its instance. The only assumptions are those named in the
modules (`ASSUME`), and TLC evaluates them in the runs:

* each version and upload belongs to a document; the values that stand for "none"
  (`NoVersion`, `Nobody`, `Nothing`, `Absent`) are none of the things they stand beside;
* limits whose zero would mean that nothing works are at least one (attempts, the lease, the
  line, the jobs of the pool, requests of a pass, the rest of a model), other bounds are natural
  numbers;
* what the configuration must name is there: a model on each route and for the keys, a range of
  pages, one of the listed modes, kinds and topics; a special set (`Short`, `Declaring`, `Employees`) is a
  part of the set it is taken from;
* actors of two kinds are different (the operator is no developer, no reviewer is a batch), a
  maintainer is no employee of the directory, the two routes share no model, no field counts as a
  drawing.

### The core

* **KnowledgeStore_proofs.** `TypeCorrect`. `IndexInvariant`: by itself `IndexIsWhole` is
  not inductive; it needs that two executors never hold the same fence and that fences
  are below the next one (`ClaimsInv`), and that the fence of a running job is newer than the
  text the version has (`FencesAdvance`). The proof shows first that each step does one of
  five things to a version (it leaves it, stops its job, claims it, switches its text or
  purges it), and then that each of the five keeps the invariant. `IndexCorrect`
  and `NoRegression` follow.
* **Jobs_proofs.** `SlotsAreRespected` counts: only a claim adds a live job, and it looked
  at the count under the lock. `AttemptsAreCounted` needs what an executor remembers of its claim
  (`FenceRemembers`): while its fence is the row's, so is the number of the attempt, because whatever
  hands an attempt back ends the claim. `LeasesEnd` goes action by action.
* **Documents_proofs.** `DocumentInvariant`: the active pointer and the states agree, the
  purge takes all versions of a document, and a published version's base is behind the
  revision. The last part is what makes `NoLostUpdate` go through: the next
  publication needs a base equal to the revision, so its base differs from all
  earlier ones. `OnePublicationHolds` joins the two. `RevisionsIdentify` uses an invariant on pages
  (`ViewInv`). Its second half is about rows: `RowsInvariant` ties the columns of one version
  together; `ReviewedFirst`, `WithdrawnDraftsFrozen` and `IndexImplemented` (the refinement of
  `VersionIndex`) follow from it and the two invariants above.

### The other groups

* **Originals_proofs.** The invariant (`LibraryInvariant`) says of every upload which combinations
  of row, version and file there are (`RowsFit`), which blob a transfer in progress owns and that
  nobody else has it (`TransferInv`), what a deletion or a clearing has moved so far
  (`DeletionInv`, `ClearInv`), and what holds of an unfinished archive, report or restore *while
  the gate was not lost* (`GateInv`, `BackupInv`, `ReportInv`, `RestoreInv`). `RowsAndFilesAgree`,
  `OneCopyIsLive`, `BackupsAreWhole`, `ReportsAreTrue` and `RestoresAreWhole` are parts of it;
  `SavedOriginalsAreFinal` and `MaintenanceLosesNothing` are facts about its steps.
* **Access_proofs.** `SecretsInv`: what works was made in the present epoch of its account, by
  which `OldSecretsAreDead`. `FamiliesInv`: what a call has loaded was minted before, one grant
  points to each code, a replayed family is revoked: `FamiliesAreLines`, `ReplayIsTheEnd`.
  `OldRequestsAreHarmless` shows of each handler that it asks again under its lock.
  `ASuperadminRemains` needs that active accounts have passwords (`AdminInv`), and
  `OldEvidenceServesNobody` that no answer, cached tree or row claims more than the directory said
  at its time (`EvidenceInv`): the late answers of finding 2 are old, never false.
* **Reading_proofs.** `ReadingInvariant` says of each thread that its piece belongs to its own
  region, is not settled and is below the level of halving, and of each thread that has ended what
  it leaves behind. That the next piece exists (`NextPiece`: going down into unsettled halves comes
  to an end) is the one argument by induction; it takes the longest piece, which exists
  because the natural numbers are well-founded. `ReadyFilesAreRead`, `PdfsWait` and
  `CutOffRegionsAreHalved` follow; `TheWindowIsFixed` is a fact about steps.
* **Naming_proofs.** `NamingInv` says what each open transaction may rely on: the draft a batch
  writes is still being named (`Owned`), what is planned fits the registry (`Planned`); and of two transactions (`Separate`) that they do not plan to
  register the same name, because they hold its lock. `OneProjectForAName` is part of it,
  `ApprovedNamesStay` follows.
* **Services_proofs.** One invariant for each topic, and `Apart`: a topic's steps leave the
  others alone. `TheLineMoves`: every waiting caller has one ticket, and who waits at the head
  beside a free pool is awake (`QueueInv`). `AnswersAreCurrent` and `SavedEditsAreShown`: what a search has
  collected so far is complete but for what was touched since, and the generation an approver
  works on is the one shown once the lock is his (`SearchInv`). `PagesAlwaysTheDocument`: what
  is on disk was made since the last explicit retry, unless an overtaken executor was there
  (`NativeInv`; `RetryIsFresh` says so: a retry that met one, at work or claiming between its two
  removals, is excepted). `WholeButForOverlaps`: the children of one service write to different files, so a child
  is the last to have opened its file when it renames it, unless one from before a restart had the file
  in hand when it was opened (`PreviewInv`). `KeysAreAlwaysKept`: who is at the files holds the lock and
  has the current key in its hands, and what is encrypted is so under the last material
  (`KeysInv`). `CredentialsAlwaysFit`: one attempt is at work, and the password it read is still
  the one in the file (`SetupInv`).

### Only model-checked

* Liveness: `EveryJobSettles`, `EveryFileEnds`, `EveryDraftIsNamed`, `EveryQueryReturns`,
  `SetupContinues`. The prover has no rules for fairness and ENABLED.
* The five findings are counterexamples, which TLC finds.
* What the operators of the community modules do on data (`SelectSeq` in the walk of a route)
  is not needed by any proof: the theorems hold for whatever models a walk returns.

## 5. What is left, and the plan

Every safety property is proved. What can still be said with a proof:

1. Abstract specifications of two more groups, refined like `VersionIndex`: one line of tokens per
   grant (Access), one registry of names written in single steps (Naming).
2. That `Search` and `Storage` assume of the core no more than it does, as step lemmas of
   KnowledgeStore: a purge ends the text, a submission has one version.

### Not modelled

* Parsers and format adapters: large pure functions of bytes, tested by examples; of their
  subprocesses the models keep the outcome and the time limit.
* The HTTP layer, validation, the MCP server and the portal: no state of their own but the
  settings and what a page shows (`view`).
* Access codes, feedback, `link_file`, `set-admin` and the listing pages: single transactions.
* Scripts, client, deployment, migrations: operators run them by hand, outside the running system.
  `import-company-data.py`, which moves another instance in once, is one of them.
* Deadlocks of row locks inside the transactions of the core (`lifecycle.py:400`): a transaction
  is one step there. In Naming, where the order of locks matters, it is modelled.
* The journal of `clear_library` and a failure after its commit; the requeue inside `restore`.
