# DataCheck: TLA+ models and proofs

DataCheck is a FastAPI backend over PostgreSQL and a local directory. A user
registers, uploads a CSV into a dataset, attaches validation rules to its
columns, and runs analyses whose results and quality score are kept as history.
This directory models the backend (`src/backend/datacheck`), checks the models
with TLC on small instances, and proves with TLAPS, for every instance, all their
safety properties that hold, and that the dataset and analysis services implement
an atomic abstract specification.

## The system

| Part | State it keeps | Operations | What is hard | What makes it correct |
|---|---|---|---|---|
| Dataset service (`datasets/service.py`, `repositories.py`, `models.py`) | tables `datasets`, `validation_rules`; row locks | `create_dataset`, `upload_csv`, `create_rule`, `delete_rule`; lists and gets only read | a row and its file cannot change atomically; requests race on one dataset; any step may fail, and so may the handling of the failure | the active row's file is intact; rules fit its header; no file, lock or update is lost |
| Storage (`datasets/storage.py`) | `.candidate-*` files, installed files | `write_candidate`, `install`, `discard_candidate`, `remove`, `open_binary` | rename and chmod fail separately; a crash leaves files | every file has an owner or a recorded cause |
| CSV scan and policies (`datasets/csv.py`, `policies.py`, `schemas.py`) | none | accept or refuse a body, a filename, a rule | agreement with Polars and with the engine | what is stored can be analysed |
| Analysis service (`analysis/service.py`, `adapters.py`, `repositories.py`) | tables `analyses`, `validation_results` | `create_analysis`; list and get only read | row, rules and file are read in three steps while uploads delete files; two transactions with the evaluation between them | an analysis sees one instant, is recorded whole or not at all, and fails its integrity check only for a real cause |
| Validation engine and score (`validation/*`, `analysis/score.py`) | loop counters, samples | `validate`, `calculate_quality_score` | boundaries: sample limit, missing cells, nothing evaluated, rounding | counts are those of the rules' meaning |
| Identity service (`identity/service.py`, `repositories.py`, `models.py`) | tables `users`, `sessions` | `register`, `login`, `authenticate`, `logout`, cleanup | each call uses a clock value read earlier; login verifies a password outside any transaction | revoked sessions stay out, timestamps never regress, constraints never fire |
| API, dependencies, middleware (`api/*`, `main.create_app`) | per-request flags; the browser's cookie and tokens | fourteen routes; origin, content type, session and csrf checks; upload size limit, trace id, sanitised errors | a failure anywhere between arrival and answer, also while answering; authenticate-then-act; tabs that share a cookie; late or lost answers | one declared answer per request; no work before its checks; a tab acts for its own account |
| Lists and details (`list_*`, `get_analysis`) | none; timestamps of the rows | pages by limit and offset; an analysis in two statements | rows commit in another order than their timestamps while a client pages | nothing is missed that was there; details are whole |
| Settings, Celery, health, migrations, frontend | none that changes | start-up, probes, schema | | not modelled |

The services do not call each other's methods. They interact through the
database: `AnalysisService` takes the same `FOR UPDATE` lock on a dataset row as
`upload_csv` and `create_rule`, reads the rule table, and opens files that
`upload_csv` removes. It calls the validation engine, which is pure. The
API calls `IdentityService.authenticate` before every dataset or analysis call,
compares the csrf token of mutations, and passes the account on as `owner_id`;
the session is not looked at again.

## Modules

`DatasetService` models the dataset service, its storage and its repositories.
Every HTTP request runs in its own thread, so it is a process: `pc[r]` says where
it is, `req[r]` its parameters, `old_key[r]` the local variable of `upload_csv`.
`datasets`, `validation_rules` and `row_lock` are the database under READ
COMMITTED with row locks; `storage` and `candidate` are the directory. Keys and
rule ids are uuid4 values, so the key, the candidate and the rule a request makes
are named by the request. A row's hash, size, row count and columns are assigned
together from one file and are one field, `content`. Each database statement or
file operation after which another request may run, or which may fail by itself,
is an action: `LockForUpload`, `CheckRules`, `Install`, `Commit`, then
`RemoveOld`; `DiscardCandidate` and `RemoveInstalled` are the exception handler.
Failures are actions too: of a write, of the rename or the chmod after it
(`InstallFails`), of a statement or a commit (`TransactionFails`), of the answer
to a commit that succeeded (`CommitAckLost`), of the connection while the request
does not look (`ConnectionLost`, noticed later by `LostTransactionRaises`), of the
handler's own steps, and of the whole process (`Crash`). `MaxFaults` bounds them.
`in_doubt` and `leaked` are history variables: keys whose commit succeeded
unacknowledged, and files a recorded fault kept from being removed.

`AnalysisService` extends it with `create_analysis`: `CaptureRow`, `CaptureRules`
and `CaptureFile` under the lock, `Evaluate` with no transaction, and
`PersistAnalysis`, which waits for the row once more because the foreign key
takes it `FOR KEY SHARE`. `Catalog` is the abstract specification of both
services: one current upload per dataset, rules that fit it, captures at one
instant, records that are whole. It has no files, locks, transactions or crashes.

`ValidationEngine` is the engine and what the analysis service does with its
result: `ValidateInputs`, one action per row for each of the four loops,
`FinishRule`, `PersistResults`. A cell's text is a value with the attributes the
rules look at (`Lexis`). The property side has a loop-free definition, `Violates`.

`IdentityService` has one process per call. `now[c]` is the clock value the call
has read; its statement runs later. `Touchable`, `Inactive` and
`ClassifySession` are the three places that decide whether a session is active.
A hash is named by who computed it; accounts in `Veterans` have a hash of old
parameters, so login rehashes it.

`HttpPipeline` follows one request through the stack `create_app` builds:
`ServerErrorMiddleware`, trace ids, CORS, sanitised exceptions, the size limit,
the exception handlers, the router. `at` is the layer control is in, `started`
the layers whose `response_started` is set, `raised` the exception on its way
out. A route is a record: its dependencies in the order FastAPI solves them, its
kind of body, the status of each refusal its handler catches, the statuses it
declares. Headers, cookies and chunks are chosen when the code reads them. Every
`Respond` may fail in the server's `send`. Requests share no variable of this
module, so one is enough. The layers of Starlette and FastAPI are external.

`WebSession` extends `IdentityService` with a browser: one cookie jar, one token
per tab, overlapping requests, answers delivered in any order or never.
`context[c]` is the copy `authenticate` returns; `Commit` is the transaction of
any route behind `require_authenticated_mutation`. Time passes meanwhile, so sessions
expire and a request may act with a clock value that is old.

`Listings` has the timestamps that `DatasetService` leaves out. A writer reads
the clock, then commits a row; a client walks through pages of datasets, rules or
analyses, or reads an analysis and then its results. The walk records which rows
were there from its start (`steady`) and what was committed and deleted under it.

`MC*` modules hold the values of constants that a cfg cannot write.
The `*Proofs` modules hold the theorems. Operators whose comment begins with
"Mutant" are the deliberately wrong forms listed in `PROJECT.json`; no
specification uses them. Each shows that the property it belongs to would notice
that mistake.

## Runs

| Run | What it shows |
|---|---|
| `dataset_races` | Four requests of two users on one dataset and one fault anywhere. Rules always fit the active header although `create_rule` and `upload_csv` each check only what they see; locks belong to open transactions; an upload replaces the file it read; only the owner changes anything. |
| `dataset_faults` | Three requests and two faults, so that a fault can hit the handling of another. The active file is intact, and every file on disk is active, owned, or explained by a fault. |
| `dataset_ack_lost` | A violation. Without the exception for commits in doubt, the active file is not safe: the commit succeeds, its answer is lost, `committed` is still False, and the handler removes the file the committed row names. |
| `analysis_races` | One analysis among three requests, one fault, two users. Integrity errors only come from a commit in doubt, a lost connection, a read that the operating system refused (`ReadFails`), or a file the two CSV parsers read differently; the composition implements `Catalog`. |
| `service_live` | Two analyses and two requests on one row, with valid, malformed and oversize uploads and one fault: every request and every analysis that started ends. |
| `validation` | All columns of up to three cells over eight kinds of cell, under all sequences of up to two rules out of twelve. Counts, samples and score agree with their meaning; the service's cross-checks never fire; the engine accepts every rule the API stores. |
| `identity` | Three calls, two addresses, an old account, clock up to six. |
| `identity_reactivation` | A violation. A request that read the clock before the idle limit touches a session after another request was refused for it, and the session is active again, which the comment in `authenticate_and_touch` rules out. |
| `http_pipeline` | All routes, all headers and cookies, bodies in chunks around both limits, every refusal, database failures, unexpected exceptions, disconnects and a `send` that raises. One answer starts per request; it has a trace id, may be read by a trusted origin, and is a status the route declares; a 413 is given only when body or file is too large, and a body that was counted above the limit gets nothing else (one that a dependency refused before it was read is not counted); register, login and logout have shown a trusted origin before they work; no upload byte is read and no service is called before origin, session and token were checked; every request ends. |
| `http_envelope` | A violation. A JSON body that FastAPI cannot decode is answered by the framework's own handler with a 400 that has no error envelope, which `ARCHITECTURE.md` promises for product API failures. |
| `web_session` | Two tabs, three requests, one account that exists and one that may register, and a clock up to three, so that sessions expire idle and absolutely under requests in flight. A tab never writes into the account another tab has signed in to; a request sent after its session was revoked commits nothing although the browser still had the cookie. A session is revoked only by a logout with its own cookie and token. A 204 to a logout with a cookie means that the session is not active from the clock value of the logout on, with one exception, which is reached (`Overtook`): the logout found the session idle-expired and revoked nothing, and an authentication that had read the clock before it touched the row afterwards. |
| `listings` | Two writers, up to four rows, pages of one row. A walk misses no more rows than were deleted under it and repeats no more than were committed, so datasets and analyses are never missed; the timestamp constraints of `datasets` never fire although a later upload may store the earlier time; an analysis is read with all its results. |

What these runs do not promise: a session may be live after the 204 of a logout that
found it idle-expired (`Overtook`, the same stale clock value as in
`identity_reactivation`); a mutation authenticated before a logout may
commit after it; a late answer to a logout also removes the cookie of a newer
login, whose session then lives until it expires; a rule deleted during a walk can
hide another; a row can appear on two pages; the later of two uploads may store the
earlier `uploaded_at`. A 400 for a JSON body that cannot be decoded (`http_envelope`)
and a 404 or 405 of the router come from the framework's own `HTTPException`, for
which no handler is registered, and carry no error envelope.

### Bounds

One dataset is enough for races: datasets share nothing but the clock. Three
requests are needed to create a rule, upload twice and lose a file; four add a
second rule or a deletion between two uploads. Headers `{a}`, `{a, b}` and rules
on `a` and `b` give compatible and incompatible uploads; one body is malformed and
one too large. Two faults reach every handler that can fail while it handles a
failure. The sample limit is 2 and a column has 3 cells, so the limit is passed;
scores are checked for all counts up to 40, where 1/32 is the first exact tie.
With idle timeout 4, absolute timeout 5 and clock 6, three calls can create a
session, touch it near a limit and look at it on either side of both limits; the
cleanup batch of 1 is smaller than what there is to delete. For the pipeline a
file may have 3 bytes, a request 5 and a message 3, so both limits are met
exactly and passed, in one message or across two. Three requests let one tab sign
in, another sign in over it and the first act, or a tab sign in, log out and be
overtaken by a request of the other; idle timeout 2, absolute timeout 3 and clock 3
bring a logout to either side of both limits. Four rows let a list of
three rules change under a walk, or one dataset with a rule have two analyses. A
client that has finished is not followed further (`ClientActive`): nothing can
change what it has seen. Requests and calls
are symmetric in the safety runs. `service_live` and `http_pipeline` use no
symmetry.

### Fairness

`FairAnalysisSpec` assumes weak fairness of each request's and each analysis's own
steps: a thread that can run does, and PostgreSQL grants a free row lock. Starts
and faults get no fairness. Weak fairness is enough for the locks because only
finitely many requests can overtake one that waits. `HttpPipeline` assumes weak
fairness of the steps after the arrival: the server runs, and the client sends its
next message or its connection ends; the code sets no timeout of its own on a
client that does neither.

## Proofs

Eight modules hold theorems, each for every value of the constants that the named
assumption of its component admits. Every one has the same shape: an inductive
invariant, a lemma per action with a step for each conjunct the action can
disturb, and theorems that read the properties of the runs off the invariant. TLC
checked each invariant on the instance of a run before it was proved.

`DatasetServiceProofs` (from `DatasetAssumption`): `DatasetTypes`,
`DatasetFilesIntact`, `DatasetRulesFit`, `DatasetNoStrayFiles`, `DatasetLocks`,
`DatasetReplaces` and `DatasetOwners`. None of the properties is inductive by
itself. `RulesTargetActiveHeader` survives a commit only because what the upload
checked under the lock still holds (`ChecksStillHold`), and that survives other
requests only because a lock belongs to one transaction
(`LocksBelongToTransactions`). `ActiveFileIntact` needs that the file a request
removes is not the active one: for the old file that `old_key` is the locked
row's key and afterwards names an upload that will not commit again
(`OldKeysSuperseded`), for the file of a failed upload that its key is in no row
unless the commit is in doubt (`RowsDescribeUploads`). That an installed file has
the right content comes from `FilesHoldBodies`. `OwnerIsolation` has an invariant
of its own, `OwnerInv`: a request that found a row is its owner's, and a rule is
what the request of its id asked for, which is over, so a deletion that was
authorized by one rule cannot hit another. `RequestsOnlyAdvance` is the safety half
of `RequestsEnd`: each step of a handler, of its exception handler and of its
cleanup brings the request nearer to its end (`StepsLeft`), so a request that never
ended would have to wait at one place.

`AnalysisServiceProofs` (also from `AnalysisAssumption`): `AnalysisTypes`,
`AnalysisSnapshots`, `AnalysisErrorsReal` (four causes: in doubt, disconnected, unread,
not parseable); `DatasetsStaySafe` and
`DatasetsStayOwned`, the properties of the dataset service again, now among analyses
that compete for its row locks; `AnalysesOnlyAdvance`, the safety half of
`AnalysesEnd`; and `AnalysisRefinesCatalog`, the refinement of `Catalog`. `AnalysisInv` contains `DatasetInv` and `OwnerInv`: a
request takes only free rows and frees only its own (`RequestsKeepLocks`), so it
changes no row an analysis holds (`RequestsSpareHeldRows`), while a lock that was
lost is on record (`LostLocksAreRecorded`). With `ActiveFileIntact` the file read
under the lock is then the row's, and with `RulesTargetActiveHeader` the rules
read under it fit (`SnapshotsFit`). In the refinement a commit is `Replace` (its
guard is `ChecksStillHold`), an insertion `AddRule` (the id is fresh because
`RulesHaveMakers`), a deletion `DropRule` or nothing, the read of the rules
`Capture` (upload and rules belong together because of
`LockedSnapshotIsCurrent`), `PersistAnalysis` is `Record`, a failed analysis and a
crash are `Abandon`, and every other step is invisible. The last conjunct of
`AnalysisAssumption`, that `Null` is no snapshot, is what lets the Catalog tell an
analysis under way from none.

`ValidationEngineProofs` (from `EngineAssumption`): `EngineInv` is the loop
invariant: after n rows, counters and samples are the violations and the skipped
cells of the first n rows by the loop-free `Violates` (`LoopAt`), the rank of a
violation is the place of its sample (`FirstSampled`), `seen` is the set of the
texts so far (`SeenSoFar`), and nothing is carried from one rule to the next
(`AtRest`). Hence `CountsAreExact`, `SamplesAreExact`, `ResultsFit`,
`EngineTypesHold` for tables of any height, and `StoredRulesHold`.
`QuantizeRoundsHalfUp` is the rounding of the score for counts of any size, and
`ScoreIsRounded` the property of the run: `ScoreRecorded` keeps the score tied to
the sums over the results, and evaluated cells are passed ones and violations in
the sums as in each result (`TotalAdds`). That is an induction on the number of
results, stated with a set of numbers instead of a predicate (`NatSetInduction`),
so that the provers can instantiate it. It uses the conjunct of
`EngineAssumption` that `Null` is no number.

`IdentityServiceProofs` (from `IdentityAssumption`): `IdentityTypes`,
`SessionConstraints`, `SessionPredicates`, `RevocationHolds`,
`RegistrationAtomic`, `SeenIsMonotonic`, `CleanupIsSafe`, `RehashIsOnce`.
`IdentityInv` adds that every clock value in use is in the past (`ClocksInPast`)
and that a session is presented only after the call that issued it has answered
(`TokensAreAnswered`), so that call does not write the row again and a revocation
is not undone (`LateFindsRevoked`).

`WebSessionProofs` extends it: `TabsActAsThemselves`, `LogoutEndsWork`,
`LogoutRevokes`. `WebInv` adds that the token of a context names the session of the
cookie it came with (`ContextsAreSessions`) and that a session's row belongs to
the account that signed in (`SessionsHaveAccounts`). `LogoutIsExact` speaks of the clock
value of the logout (`SignedOut`), so time itself changes nothing; the step that could
break it is a touch of the same session (`TouchAfterLogout`): a touch that succeeds
after the logout has read an older clock value, and either so old that the session stays
idle at the logout, or the call counts as one that overtook it. `SessionsStaySound` and
`SessionsStepSoundly` are the properties of the identity service again, of the
composition with the browser, where time passes as it does there.

`HttpPipelineProofs` (from the assumptions on the limits and on `None`, which is no
cookie and no token): `PipelineTypes`, `OneAnswer`, `AnswersAreDecorated`,
`SizeLimitHolds`, `WorkAlwaysAuthorized`, `AnswersDeclared`. `PipelineInv` says
where control may be (`WhereControlIs`), that an exception on its way out meets
layers that know whether a response has begun (`OneAnswerBegins`), which kinds may
be raised and that the route declares their status (`RaisedAsDeclared`), that
counted and spooled bytes agree up to the limit (`BytesAreCounted`), and that the
dependencies passed were met (`GuardsMet`).

`ListingsProofs` (from `ListingsAssumption`): `TimestampsAlwaysAgree` and
`DetailsAlwaysWhole`, from ids that are given out once (`IdsAreFresh`), stamps in the
order of the events, and results that are stored with their analysis.

`ListingPagesProofs` extends it: `PagesInvariance` and `PagesAlwaysCover`. The place
of a row is the number of rows before it in the list. A commit puts a row anywhere in
the list, so it moves every other row at most one place back and pushes at most one
row that was listed from before the offset of the walk to behind it; a deletion pulls
at most one row that was not listed from behind the offset to before it; an upload
changes rows but not their keys. `WalkSound` counts these rows against `inserted` and
`deleted`, and is not inductive without `IdsInOrder`: an id that is still to be
stored is in no list and was seen by no client. `OldestFirst` states the sorted list
by such counts (the row at place i has i - 1 rows before it), so no induction over a
sorted sequence is needed; that every place is taken by exactly one row is
`PlacesTaken`.

Only model-checked: the liveness properties `RequestsEnd`, `AnalysesEnd` and
`EveryRequestEnds`, because fairness is out of the prover's reach; of the first two
it is proved that nobody loops and that whoever holds a row lock is inside a
transaction on that row, so not waiting for another. The three violation runs state
what does not hold.

## Not modelled

Argon2, SHA-256, token encodings and uuid4 are taken as what they promise.
The character-level grammars of CSV, numbers, dates and regular expressions are
abstracted to what they accept; whether the csv module and Polars agree on a file
is the constant `Parseable`. Durability after a power loss (the code does not
fsync), several backend hosts with different clocks, a wall clock that goes back,
and an exhausted connection pool are left out. The configuration is validated
and the services are built once, before the first request. The Celery application
registers no task, the health routes only probe, and the frontend is a placeholder
page that calls no route. Payloads of answers, and the texts of errors, are not
part of any state.

## Plan

1. Done: the eight component modules and `Catalog` with their runs; the proofs of
   all safety properties of the passing runs; the refinement of `Catalog`; the
   properties of the dataset and identity services carried over to their
   compositions.
2. Left: a model of the agreement of the csv module and Polars on one file, in
   place of the constant `Parseable`.
