# TLA+ models of the done.rest hub: history, auth, web sessions, provisioning, directory and launcher

This directory holds TLA+ models of the history service
(`src/done_mod/mod_hist/hist_srv`): its ingest path, retention rules, latest-value
cache, and its query engine (history cursors). It also models the plugin lifecycle
that runs the service
(`src/done_tool/plugin/StartPlugin.go`), the auth service's password store and
profile capability (`src/done_mod/mod_auth`), and the web service's browser
sessions (`src/done_mod/mod_web/web_session`), the provisioning service
(`src/done_mod/mod_prov/prov_srv`) and the Thing directory
(`src/done_mod/mod_dir`), and the launcher's plugin inventory
(`src/done_mod/mod_run`). It also holds the TLC
configurations that check them. `PROJECT.json` lists every component, run,
mutant, finding and hazard, and maps each definition to the source lines it
translates.

## The system

The history service is one process, and four parts of it share one bucket
store.

- **Ingest (`AddHistory.go`).** The event subscription installed by
  `HistoryService.Start` calls `AddMessage` for every event on the bus.
  `AddMessage` does four things in order:
  1. it validates the value (`validateValue`);
  2. it asks the retention manager whether to keep the value;
  3. it writes the value to the Thing's bucket under the key
     `CreatedMSec/name/e/sender`;
  4. it calls `onAddedValue`, which is `LatestPropertiesStore.HandleAddValue`.

  `AddMessages` is the bulk path. It validates each value and calls
  `onAddedValue` inside one loop. It then writes one `SetMultiple` per Thing
  and ignores the errors.
- **Retention (`ManageHistory.go`).** The rule set maps a name (`""` means
  any name) to an ordered list of rules.
  - `_FindFirstRule` tries the rules for the exact name first, then the
    rules for any name. Within a list, the first match wins.
  - `_IsRetained` keeps everything while the map is empty.
  - `SetRetentionRules`, an RPC, replaces the rule set.
- **Latest values (`LatestPropertiesStore.go`).** This is a cache
  per Thing of the newest value for each name. `LoadProps` loads it lazily
  from the `properties` bucket.
  - `HandleAddValue` merges a value only when it is strictly newer. It expands
    a bulk `$properties` event into one value per entry, and sets the
    Thing's changed flag.
  - `GetProperties`, the backend of the `GetLatest` RPC, returns either
    a copy of the requested names or, when no names are given, the cached map
    itself.
  - `SaveChanges` works in three phases: collect the changed Things under the
    read lock; for each one, marshal its map and clear its flag under the
    write lock; then write the blob with no lock held.
- **Lifecycle (`HistoryService.go`, `StartPlugin.go`).** `StartPlugin` runs
  three steps:
  1. `Start` creates new retention rules (always empty) and a new cache, and
     subscribes to events;
  2. it waits for a signal;
  3. it calls `Stop`, which calls `SaveChanges` while the subscription is
     still live, and then calls `os.Exit`.

  A restart starts a new process over the same bucket store.
- **Query engine (`ReadHistoryService.go`, `HistoryCursor.go`).** These are RPC
  handlers, each in its own goroutine.
  - `GetCursor` opens a bucket cursor carrying the name filter in its context.
    It leases the cursor to the calling client in the cursor cache, for one
    minute of idle time.
  - `First`, `Last`, `Next`, `Prev` and `Seek` each look the lease up, move
    the bucket cursor, and return the entry they land on when its name
    passes the filter. Otherwise they scan:
    - `findNextName` scans forward. It stops at a key dated after `now` and
      steps back once (the "undo").
    - `findPrevName` scans backward. Its bound is the zero time, so it never
      stops early.
  - `NextN` and `PrevN` call `Next`/`Prev` up to `Limit` times.
  - `Release` ends the lease. The cache's sweep expires idle leases.
  - `Stop` ends the sweep.

The concurrency is real. Event handlers, RPC handlers and the stopping main
goroutine all run at once, and they share only `cacheMux` and the buckets'
own locks.

### Auth

- **Password store (`AuthnFileStore.go`).** An in-memory map from client ID
  to profile and password hash. Every method holds the store's mutex for its
  whole body. A change is written by `save`, which writes a temporary file and
  renames it over the password file. A failed save returns an error but
  leaves memory changed. `Open` runs `Reload` and starts a file watcher. The
  watcher calls `Reload` after every change to the file. `Reload` treats the
  file in four ways:
  - a missing file is created from memory;
  - an empty file changes nothing;
  - a corrupt file is an error;
  - a readable file replaces the whole map.
- **Profile capability (`AuthManageProfile.go`).** One RPC goroutine per
  request, and each store call is a separate critical section.
  - `UpdateName` reads the profile, sets the name, and calls `Update`.
  - `UpdatePubKey` reads the profile, sets the key, calls `Update`, and
    starts `onChange` in a goroutine.
  - `UpdatePassword` checks the profile, calls `SetPassword` (which rejects
    a password under five characters), and calls `onChange` itself.
  - `SetServicePermissions` applies only for a client of type service.
  - `onChange` snapshots `GetAuthClientList` and hands the snapshot to the
    message server's `ApplyAuth` in yet another goroutine.
- **Lifecycle (`AuthService.go`).** `Start` opens the store;
  `StartAuthService` panics on an error. `Stop` closes the watcher.

### Web sessions

- **`SessionManager.go`** maps the cookie's session ID to a `ClientSession`
  under `sm.mux`. `ActivateNewSession` (a login) runs in three steps, each
  under its own lock: it looks the old session up, closes it with `Close`,
  and stores a new one.
- **`ClientSession.go`** keeps the session's SSE channels in a slice under
  an `RWMutex`:
  - `AddSSEClient` and `RemoveSSEClient` change the slice while holding
    only the read lock; `AddSSEClient` also starts a goroutine that calls
    `SendSSE`;
  - `SendSSE` sends on each (unbuffered) channel while holding the read
    lock;
  - `onEvent`, the hub client's event callback, holds the read lock across
    its `SendSSE` calls;
  - `Close` takes the write lock, closes every channel, disconnects the hub
    client, and clears the slice.
- The SSE HTTP handler that owns a channel is not in the repository. The
  model gives it the least behaviour a caller of the two methods must have:
  it adds its channel, receives until the channel is closed or the browser
  leaves, then removes its channel.

### Provisioning

- **`ManageIdProvService.go`** keeps one `ProvisionStatus` per client ID in
  a map. Every method holds `svc.mux` for its whole body.
  - `SubmitRequest` comes from a device over HTTPS (`IdProvHttpServer`).
    A new device gets a pending request.
    - An approved request is checked against the approval's key and MAC.
      The device is then registered with the auth service (`AddDevice` or
      `AddService`, which may fail) and gets a token.
    - A rejected request is told to retry in an hour.
    - Any other repeat stays pending, and its retry delay grows by 30 s up
      to ten minutes.
  - `ApproveRequest`, `RejectRequest` and `PreApproveClients` are
    administrator RPCs.
  - `GetRequests` only reads.

### Directory

- **`DirectoryService.go`** `Start`:
  - subscribes to TD events;
  - sets the permissions of the read and update capabilities;
  - publishes the directory's own two TDs.

  `handleTDEvent` stores every TD event it receives, through `UpdateTD`.
  `StartPlugin` exits when `Start` returns an error.
- **`UpdateDirectoryService.go`**: `UpdateTD` and `RemoveTD` set and
  delete a TD, keyed by thing address.
- **`ReadDirectoryService.go`**:
  - `GetCursor` adds a bucket cursor to the cursor cache, under a key the
    caller owns;
  - `GetTD` reads one TD;
  - `GetTDs` opens a bucket cursor of its own for one page.
- **`DirectoryCursor.go`**: `First`, `Next`, `NextN` and `Release` work
  through the cache.
- **`DirectoryCursorClient.go`**: the client copies the cursor key of every
  response, including the zero response of a failed or empty call.

### Launcher

`run_cmd/main.go` calls `LauncherService.Start`, which runs these steps in
order:
1. It sets `isRunning`.
2. `addCore` lists the configured core binary, and fails if that binary is
   missing.
3. `WatchPlugins` adds an fsnotify watch and starts a goroutine. The
   goroutine rescans the folder on every event while `isRunning` holds.
   `Start` ignores any error from this step.
4. `ScanPlugins` (under `svc.mux`) lists every regular, executable,
   non-empty file of the plugin folder.
5. It starts the core, connects to the hub, and registers the RPC
   capability.

When `Start` fails, `main` calls `Stop` and exits. Otherwise it waits for a
signal, then calls `Stop`. `_startPlugin`, `StopAllPlugins` and
`updateStatus` are called, but they are not in the repository.

## Modules

| Module | Models | State |
|---|---|---|
| `HistoryTypes` | ThingValue, addresses, ThingValueMap, bucket keys | constants only |
| `Retention` | `ManageHistory`: rule matching, `_IsRetained`, `SetRetentionRules` | `rules` |
| `LatestProps` | `LatestPropertiesStore`: `LoadProps`, `HandleAddValue`, the three `SaveChanges` phases | `cache`, `changed`, `propsStore`, `saveList`, `pending` |
| `AddHistory` | `AddMessage` and `AddMessages` over Thing buckets that may fail | `history`, `wpc`, `wval`, `wbatch`, `wkv` |
| `HistoryService` | the composition: workers, readers, rule changes, `Stop`, exit, restart | `svc`, `rd`, `msgs`, `restarts`, `ruleChanges` |
| `HistoryKeys` | the key string of `encodeValue`, Seek's search key, the byte order of the bucket (RECURSIVE `Digits`, `StrLess`) | constants only |
| `CursorIterator` | the abstract query engine of spec §4.2: a leased iterator over the filtered sequence of keys | `keys`, `lease`, `cfilter`, `apos`, `out`, `aop` |
| `HistoryCursor` | `GetCursor`, `First`, `Last`, `Next`, `Prev`, `Seek`, `NextN`, `PrevN`, `Release`, `Stop`, lease expiry | `keys`, `lease`, `cfilter`, `pos`, `batch`, `out`, `res`, `calls`, `sweeping` |
| `AuthnStore` | `AuthnFileStore`: `Add`, `Remove`, `Update`, `SetPasswordHash`, `save`, `Reload`, `Open`, `Close`, the watcher callback | `entries`, `file`, `watching`, `reloadDue` |
| `AuthProfile` | `AuthService.Start`/`Stop`, the four `AuthManageProfile` handlers, `onChange`, `ApplyAuth`, administrator edits and adds | `svc`, `req`, `applied`, `perms`, `edits`, `adminOps` |
| `WebSession` | `ClientSession` (`AddSSEClient`, `RemoveSSEClient`, `SendSSE`, `onEvent`, `Close`), `SessionManager` (`GetSession`, `Close`, `ActivateNewSession` steps 1-2), Go's `RWMutex` | `sessions`, `smLock`, `connected`, `sse`, `closedCh`, `rd`, `wr`, `tab`, `snd`, `evs`, `act` |
| `ProvService` | `ManageIdProvService`: `SubmitRequest`, `ApproveRequest`, `RejectRequest`, `PreApproveClients` (a `FoldLeft` over the approvals) | `requests`, `registered`, `issued` |
| `DirService` | `DirectoryService.Start`/`Stop`/`handleTDEvent`, `UpdateTD`, `RemoveTD`, `GetCursor`, `First`, `Next`, `NextN`, `Release`, cursor expiry, `GetTDs` | `dsvc`, `subscribed`, `tds`, `inbox`, `lease`, `cpos`, `ckey`, `walk`, `got`, `stable`, `leaked` |
| `Launcher` | `LauncherService.Start` (four steps), `Stop`, `addCore`, `ScanPlugins`/`addPlugins`, the watcher goroutine, plugin files changing | `lpc`, `isRunning`, `hasCore`, `coreFound`, `coreListed`, `dirExists`, `folder`, `plugins`, `watcher`, `events`, `changes` |
| `MCServices` | `ProvService`, `DirService` and `Launcher` checked side by side | `part` |
| `MCHistory`, `MCHistoryCursor`, `MCAuth`, `MCWeb` | model values and bounds for TLC | none |
| `MCHistoryKeys` | the key encoding checked against numeric order | `k1`, `k2` (the pair under test) |

The modules compose by `EXTENDS`, in this order:
`HistoryTypes` ← `Retention`, `LatestProps` ← `AddHistory` ← `HistoryService`.
Each action is one critical section of `cacheMux` or one bucket call.

- `AddMessage` is two steps: `AddMessageStore` (validate, retain, `Set`) and
  `AddMessageHandle` (the callback). A worker's program counter `wpc` holds
  the callback that is still due.
- `AddMessages` is one `AddMessagesValidate` step per value, then one
  `AddMessagesWrite` per address, then `AddMessagesDone`.
- `LoadProps` is folded into `HandleAddValue`. The cache never drops an
  entry, so a step between the two lock sections cannot change the outcome.
- `GetLatest` is two steps, `GetLatest` and `GetLatestReply`. The reader
  holds the map it was handed until the RPC layer has serialised it.

### The query engine and its refinement

`HistoryCursor` works on one Thing's bucket. The cursor runs inside a bbolt
read transaction, which is a snapshot. So `keys` (the bucket in byte order,
`BucketOrder`) is fixed for the run. The only state the goroutines share is
the lease table.

- A single-value call is one step. Its pure part is an operator:
  - `FirstResult`, `LastResult`, `NextResult`, `PrevResult`, `SeekResult`;
  - the scans, RECURSIVE `findNextName` and `findPrevName`.
- `NextN`/`PrevN` are one `StartBatch` step, then one `BatchStep` per inner
  call. Each inner call looks the lease up again.

The bucket cursor and the cursor cache live outside `src/`, so they follow
the spec (§2, §6) and bbolt's cursor:

- `pos = 0`: a new cursor is unpositioned. Next/Prev there are invalid.
- `Next` on the last key and `Prev` on the first report invalid and stay.
- A `Seek` past every key leaves the cursor past the end (`pos = N+1`). From
  there `Prev` returns the last key.
- A call whose client does not hold the lease gets an error.

`CursorIterator` states what a client may observe:

- `apos` is the position over the filtered sequence F:
  - 0 means unpositioned;
  - `2i` means on the i-th match;
  - `2i+1` means in the gap after the i-th match.
- Each call either returns the neighbouring match or stays at an edge.
- A forward call on a filtered cursor may instead stall in the gap before
  the next match, when a value dated after `now` lies in that window.
- `aop` records which call a goroutine made last. A step of one operation
  therefore cannot pass for a step of another.

`HistoryCursor` instantiates it with `apos <- APos(ck)` (the number of
matches up to `pos`, and whether `pos` is on one) and `aop <- res[g].op`.
`IterSpec` is that instance's `ASpec`.

### Auth and web modules

`AuthProfile` extends `AuthnStore`. A request goroutine's state is
`req[r]`. Its `pc` runs `idle → read → write → (notify) → done`, and it
carries the profile it read (`prof`), a pending `onChange` goroutine
(`onchange`), and a pending `ApplyAuth` goroutine with its snapshot
(`snap`). `applied` is the client list the message server enforces.
`file` is the password file: a client map, `Missing`, `EmptyFile` or
`Corrupt`. `reloadDue` records a change the watcher has seen and not yet
reloaded. The store methods are operators with an `err` argument, and the
caller enumerates the outcomes the code can produce. The message server
and the client manager are outside the repository. The client manager's
adds and removes appear as `AdminChange`, and `Start` assumes the server
begins with the store's list.

In `WebSession`, a channel is named by its tab. Each of the following is a
separate step: the read and the write of the slice in `AddSSEClient` and
`RemoveSSEClient`, each send of `SendSSE`, `Lock` marking a writer pending,
and `Close` once the readers have left. `rd[g]` counts the read locks
goroutine `g` holds. `RLock` waits while `wr` is `"pending"`. This is Go's
writer preference, and it is what makes the recursive read lock of
`onEvent` unsafe. Only the first session `S0` has SSE tabs and events. A
session made by a login has none, so its `Close` is one step.

### Provisioning and directory modules

`ProvService` keeps a `ProvisionStatus` as a record:
- keys, MACs and client types are model values, and `NoKey`, `NoMAC` and
  `NoType` stand for `""`;
- `ApprovedMSE # 0` and `RejectedMSE # 0` become the flags `approved` and
  `rejected`;
- `RetrySec` keeps its value.

`registered` is what the auth service was told, and `issued` is the last
token with what was checked to issue it. Both are history variables that
the properties read.

`DirService` reduces a TD to its thing address. `AddrOrder` is the
bucket's key order, and a bucket cursor steps in the key order of the
bucket at each step: spec §5 gives no snapshot isolation. `cpos` is a
cursor's position, and `ckey` is the client's copy of its key. `walk`,
`got` and `stable` record a client's walk since its `First`:
- `got` is what the walk returned;
- `stable` is what stayed in the bucket throughout.

In `Launcher`, a file's mode, size and modification time are one record
of `FileStates`. A missing plugin folder fails both the watch and `Start`'s
scan. Starting the core and connecting to the hub are one step that may
fail.

`MCServices` composes the three modules as a sum. The initial state picks
`part`, and only that service moves. The two services share no state, and
each property is about one of them. So each behaviour of the product
projects onto a behaviour of one factor, and checking the factors is
enough.

### Abstractions

- Identifiers are model values, and `""` is the model value `Empty`.
- The value kind is always "event" and there is a single sender, so a
  bucket key is `<<CreatedMSec, name>>`. Payloads are model values.
- A bulk payload is either a function from names to payloads or `Garbage`,
  which `json.Unmarshal` rejects.
- A stored properties record is `[props |-> map]`, the model value
  `NoBlob`, or `CorruptBlob`.
- `CreatedMSec = 0` (which is replaced by `time.Now()`) is not modelled:
  the inputs carry timestamps 1 and 2.
- A key string is a sequence of character codes. The name is one code above
  the digits and `/`, and the constant `/e/sender` suffix is dropped.
  Malformed keys (a name containing `/`) are not generated, because
  `AddMessage` validation does not produce them in the model.

## Runs

The `MCHistory` runs use one agent and one Thing, names `n1` and `n2`, and
CreatedMSec values 1 and 2. The cursor runs use timestamps 1, 2 and 10 with
`now = 5`. Key `10/..` sorts between `1/..` and `2/..`, and it is dated after
`now`.

| Run | Expect | Checks | What it shows |
|---|---|---|---|
| covers | pass | `TypeOK`, `LatestCoversHistory` | Setup: two workers, one reader, one rule change, and failing Thing and properties writes. GetLatest never answers with a value older than a stored value whose callback ran. 3.5M states. |
| flush | pass | `FlushedMeansPersisted` | Setup: one worker, both batch kinds, failing Thing writes, one stop and restart. A Thing whose flag is clear has its map in the properties bucket. 1.7M states. |
| cursor_refine | pass | `TypeOK`, `IterSpec` | Two clients race for a cursor key against its release, expiry and `Stop`. Every call is a step of `CursorIterator`. 369k states. |
| keys | pass | `SeekWithinWidth` | For timestamps of one to three digits, Seek's search key compares below exactly the keys dated earlier, whenever the digit counts match. |
| cursor_panic | violation | `RequestsNeverPanic` | `PrevN` on a cursor key that was never leased dereferences the nil answer of `Prev` (HistoryCursor.go:319). `NextN` has the same defect at line 265. |
| auth | pass | `TypeOK`, `StoreMatchesFile` | Two request goroutines with every profile method, one administrator add or remove, one edit of the file (rewritten, emptied, corrupted or deleted), and every start file. Memory equals the file whenever the store runs with no reload pending. 779k states. |
| auth_lostkey | violation | `NameChangeKeepsKey` | `UpdateName` writes back the public key it read, undoing a concurrent `UpdatePubKey` (AuthManageProfile.go:137). |
| web | pass | `TypeOK`, `NoSendOnClosedChannel` | Two tabs that connect and may leave, two hub events of two sends each, and two concurrent logins with the same cookie. No `SendSSE` reaches a closed channel. 3.9M states. |
| services | pass | `ProvTypeOK`, `PendingMeansUndecided`, `RetryCapped`, `IterationComplete`, `PluginsEventuallyCurrent` | Provisioning: one device with every key and MAC, both client types, two pre-approval lists, and auth calls that may fail. A pending request is undecided, and the delay stays at most 600 s. Directory: four addresses, one client, limits 1 and 2, and failing start calls. A walk that ends has returned every TD present throughout. Launcher: two plugin files with three file states and two changes. A launcher whose `Start` succeeded eventually lists every plugin file as it is. 624k states. |
| prov_reject | violation | `NoTokenAfterReject` | A pre-approved or approved request that an administrator rejects is still given a token on the next submit (ManageIdProvService.go:143). |
| dir_subscribe | violation | `OwnTDsListed` | The directory's `SubEvents` fails, `Start` still returns no error, and its own capability TDs are never stored (DirectoryService.go:64/70). |
| web_deadlock | violation | `SendSSEReturns` | `onEvent`'s second `RLock` waits behind the `Lock` of a login's `Close`, which waits for `onEvent`'s first read lock (ClientSession.go:116). |

`PROJECT.json` records each violation as a finding, with its source line.
Each property of a passing run has a mutant, and the run catches it:

- `ExpandKeepName`: the expanded bulk values keep the parent's name;
- `IsNewerAlways`: the out-of-order check is dropped;
- `HandleAddValueBulkUnmarked`: a bulk event does not set the changed flag;
- `SeekResultPastEnd`: a seek past every key puts the cursor one place too
  far (this breaks `TypeOK`);
- `findNextNameNoUndo`: the scan does not step back at the time bound (this
  breaks `IterSpec`, since the cursor then sits on the future match);
- `SearchKeySeconds`: Seek's search key is built from seconds;
- `WithDefaultsNone`: `Add` stores a zero token validity (this breaks
  `TypeOK`);
- `ReloadKeepEntries`: `Reload` does not install a parsed file;
- `SendDoneKeepOuter`: `onEvent` loses its deferred `RUnlock` (this breaks
  `TypeOK`);
- `CsCloseKeepList`: `Close` closes the channels but keeps the slice;
- `PreApproveNoSkip`: an approval without a client ID is stored (this
  breaks `ProvTypeOK`);
- `ApproveKeepPending`: `ApproveRequest` leaves the request pending;
- `NextRetryPastCap`: the ten-minute cap is tested with `<=`;
- `BatchLastOnly`: `NextN` keeps only one value of its batch;
- `ScannedNewOnly`: `addPlugins` updates only plugins it did not list yet.
  `PluginsEventuallyCurrent` also fails when `Start` scans before it
  watches.

The following are stated as properties in the modules, and TLC finds them
violated (under the configuration noted where it differs from the run of its
module), but the project keeps no run for them:

- `LatestCoversHistory` with one worker and one restart: a value handled
  after `Stop`'s `SaveChanges` took its snapshot never reaches the
  properties bucket, and the next process answers `GetLatest` with an older
  value (HistoryService.go:121).
- `NoUnlockedMapRead` (HistoryService): `GetLatest` without names returns
  the cached map itself, and the RPC layer serialises it after `RUnlock`
  while `HandleAddValue` writes it (LatestPropertiesStore.go:85).
- `RegisteredWithPresentedKey` (ProvService): after a pre-approval with a
  MAC and no key, the device is registered with the approval's empty key,
  not the key it presented (ManageIdProvService.go:168).
- `LatestBackedByHistory` (HistoryService): `AddMessages` aborts on an
  invalid value after the callback has already run for earlier values
  (AddHistory.go:153).
- `ChangesEventuallySaved` (HistoryService): nothing flushes while the
  service runs, although the spec asks for a periodic flush
  (HistoryService.go:121).
- `NoRulesRetainAll` (Retention): a rule set whose only list is empty drops
  every value (ManageHistory.go:67).
- `FilteredReadsHonourNow` (HistoryCursor): a filtered `Next` returns a
  value dated after `now` when it lands on it directly
  (HistoryCursor.go:240).
- `ServerAuthCurrent` (AuthProfile): two `UpdatePassword` calls whose
  `ApplyAuth` goroutines run in reverse order leave the message server with
  the older credentials (12 states). The same property catches a file
  edited on disk, which the watcher reloads without telling the server.
- `StoreMatchesFile` with `SaveCanFail = TRUE`: a failed save leaves memory
  changed and the file old (5 states).
- `SendSSEReturns` with `CanDisconnect = TRUE`: a tab that leaves while a
  send to it is pending leaves `SendSSE` blocked forever with its read lock
  held (12 states). This trace depends on the assumed SSE handler.

These known divergences have no property:

- **Lost SSE channel.** `AddSSEClient` and `RemoveSSEClient` write the
  slice under the read lock. Two concurrent adds can lose one, and a remove
  racing an add can bring back a removed channel. The model has the race,
  but no property says that every reading tab is listed.
- **Leaked login session.** Two `ActivateNewSession` calls with the same
  cookie can both find the old session, and both store a new one. The first
  new session is overwritten without `Close`, and keeps its hub connection.

- **Lost cursor key.** `First` on an empty directory answers with no
  response and no error (DirectoryCursor.go:38). The client then copies the
  empty key, so its `Release` frees nothing, and the cursor lives until it
  expires.
- **Unordered batches.** `NextN` ranges over a Go map, so a batch is not in
  the key order its comment promises. The model keeps a batch as a set.
- **Leaked read transactions.** `GetTDs` and `GetTDsRaw` open a bucket
  cursor that is never closed (ReadDirectoryService.go:93). They also call
  `NextN` on a cursor that has not been positioned. The model counts the
  leaks, up to `MaxLeaks`.
- **Rejected requests listed.** The comment of `GetRequests` says rejected
  requests are never returned, but the code returns them when
  `args.Rejected` is set (ManageIdProvService.go:54). `GetRequests` only
  reads, so the model leaves it out.
- **Equal timestamps.** When two values share a timestamp and name, the
  bucket keeps the last value written and the cache keeps the first.
- **Seek across digit counts.** Seek(5) over keys dated 1, 10 and 2 finds
  nothing. Spec §9 already describes this behaviour.

`keys` shows that within one digit count Seek's search key is sound.

### Bounds

- `MaxMsgs = 3` deliveries. This is enough for an out-of-order pair plus one
  more value, or for a batch followed by a single value.
- `MaxRestarts` is 0 or 1. One restart is enough to read back what the
  first process stored.
- `MaxRuleChanges = 1` rule change.
- Two workers, in covers only. They give the interleavings of two handlers
  on the same Thing.

- Cursor runs:
  - three buckets:
    - `1/a 1/b 10/a`: a future match behind a non-match;
    - `1/a 1/b 10/b 2/a`: a future non-match between two matches;
    - empty;
  - one cursor key and two clients, each with one goroutine;
  - g1 makes 4 calls and g2 makes 2;
  - `Limit = 2` and seek times 2 and 5.

  Four calls are enough to cover every path:
  - get, First, a stalled Next, then the retried Next that lands on the
    future entry;
  - Seek past the end, then Prev;
  - a lease lost between the inner calls of `NextN`.

  g2's two calls race g1's lease: an error call, or taking the key first.

- Auth runs:
  - clients `u1` (user) and `s1` (service);
  - two request goroutines;
  - one name, key and password change value each, plus a short password;
  - `MaxEdits = 1` and `MaxAdminOps = 1`.

  `auth_lostkey` needs only the name and key methods, with no edits.
- Web runs:
  - two tabs, two logins, and two events of two sends each
    (`SendsPerEvent = 2` is a property-value event);
  - `web_deadlock` uses no tabs, one login and one event, so the only hang
    left is the recursive read lock.

- Services run:
  - one device, keys `k1` and `k2`, MACs `m1` and `m2`;
  - two pre-approval lists: a MAC-only device approval, and a list whose
    first entry has no client ID;
  - the delay saturates at 600 s, so the request states are finite without
    a counter;
  - the directory addresses `thA capRead capUpdate thB`, in that key
    order, with the two capability TDs between two Things;
  - one client, one cursor key and limits 1 and 2. This is enough for a
    batch to end both inside and past the bucket;
  - launcher: plugins `p1` and `p2`, each absent, not executable, or of
    one of two versions, and `MaxChanges = 2`. Two changes are enough for
    a change before the watch, and a second one during a rescan.

Every hazard listed in `PROJECT.json` that has a property is within these
bounds. A run stops in `Terminated` once the bounded restarts are used up,
so deadlock checking stays on. The cursor, auth and web runs turn deadlock
checking off.
They stop when the clients have made their bounded calls. An idle service
with no requests is a state the real service may stay in.

### Fairness

In the directory part of `MCServices`, only `handleTDEvent` is weakly fair,
because the hub client's callback handles every event that is delivered.
The directory's `Start` and `Stop`, RPC callers and publishers are not
fair. `OwnTDsListed` therefore allows a
service that is never started, and one that stops before it stores its
TDs; `dir_subscribe` finds it violated only through the lost
subscription. The provisioning part has no fairness and no liveness property.

The launcher's `main` goroutine is weakly fair: it runs `Start` to its
end, and calls `Stop` after a failure. The watcher goroutine is also
weakly fair: it takes every queued event and finishes its scan. A signal,
and therefore a `Stop` of a running launcher, is not fair.

The goroutines the process runs finish what they have started, so these
steps are weakly fair: the callback step, the batch steps, the reply of
`GetLatest`, and `SaveChanges` with the exit after it. The following steps
are not fair, because nothing in the code forces them: publishers sending
events, RPC callers, administrators changing rules, and the stop signal.
In `HistoryCursor`, only `BatchStep` is weakly fair, because the `NextN`
goroutine runs its loop to the end. Client calls, lease expiry and `Stop`
are not fair.

In `AuthProfile`, the watcher's reload, the `onChange` goroutine and the
`ApplyAuth` goroutine are weakly fair. Once started, each goroutine runs
to completion, and the watcher reports every change. Client requests,
administrators and file edits are not fair. In `WebSession`, every step of a
sender, of a login, and of a tab's add and remove is weakly fair. A tab's
return from its receive loop on a closed channel is also weakly fair. A
browser connecting or leaving, and a hub event arriving, are not fair.

## Not modelled

1. **Directory client side:** `ReadDirectoryClient` and
   `UpdateDirectoryClient` only forward RPCs. `GetTD` and `GetRequests`
   only read.
2. **State service.** Each method of `StateService` is a single Get, Set or
   Delete on the caller's own bucket, and the service keeps no state
   besides the store. A model would restate the bucket store, which is
   outside `src/`.
3. **Launcher, still to do.** `_startPlugin`, `StopPlugin`,
   `StopAllPlugins` and `updateStatus` are missing from `src/`. So the
   plugin processes, their `Running` flags and the start/stop RPCs cannot
   be modelled. `List` only reads. `addPlugins` never removes an entry, and
   the comments do not say that it should. If `WatchPlugins` fails on the
   bin folder while the plugin folder exists, changes go undetected; the
   model does not include that case.
4. **Auth, still to do:** `AuthManageClients` and `AuthManageRoles`. Their
   callers are not in the repository. Tokens are created and verified by
   the message server, which is also outside the repository.
5. **Web sessions, still to do:**
   - the token refresh of `ActivateNewSession` step 3, an RPC to the auth
     service that could compose `WebSession` with `AuthProfile`. When the
     refresh fails, the login reads the profile with `GetProfile`. If the
     key is empty, it calls `UpdatePubKey` with the web service's key, in
     a separate request. An `UpdatePubKey` the user makes in between is
     overwritten (SessionManager.go:90). This is the same check-then-act
     pattern that the `auth_lostkey` run shows for `UpdateName`;
   - `SaveState` (the state service);
   - `onConnectChange` (called by the hub client, outside the repository);
   - the data race on `lastActivity` in `GetSession`, which nothing reads.
6. **Not planned:** certificates, keys, configuration, API vocabulary, the
   code generator and the web views. These are pure I/O, cryptography or
   generated code.

The following are left out of the query engine:

- A call racing another call on the same cursor, or the expiry sweep closing
  a cursor that a call is still using. Both are data races on the bbolt
  cursor, and the cursor cache that decides them is outside `src/`.
- Malformed keys (`decodeValue` on fewer than four parts).

The retention rule swap (`ManageHistory.go:114`) is an unsynchronised map
write. The model makes it atomic, so its torn reads are not checked.
