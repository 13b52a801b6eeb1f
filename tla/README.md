# Verification of YeetFile

YeetFile is a service for sending and storing encrypted files: a Go server
(`src/backend`), a command line client (`src/cli`) and a web client
(`src/web`). This directory holds TLA+ models of the parts of it whose
correctness depends on the order of things: concurrent requests, background
tasks, retries, crashes between two statements, webhooks delivered twice. The
models are checked with TLC, and the most important safety properties are
proved with TLAPS for every value of the constants.

The modules are translations of the code: an action stands for a statement, a
remote call or a step of a client, its guard for the code's conditions. Line
references in `PROJECT.json` ("map") lead from every definition to the code it
stands for.

1. [The system](#1-the-system)
2. [The modules](#2-the-modules)
3. [The runs](#3-the-runs)
4. [What the runs found](#4-what-the-runs-found)
5. [Fairness](#5-fairness)
6. [What is proved](#6-what-is-proved)
7. [What is only model-checked, and what is not modelled](#7-what-is-only-model-checked-and-what-is-not-modelled)
8. [Plan](#8-plan)

## 1. The system

The server is a set of HTTP handlers over a PostgreSQL database, a storage
service (Backblaze B2, S3, or a local directory driven by the B2 code) and a cache directory. Go runs
each request in its own goroutine. **The code opens no database transaction**:
every SQL statement stands alone, and between two statements of a handler any
other handler, a background task, another server or a crash may come. That is
where nearly all hard behaviour comes from.

Throughout, "removes" means: deletes the stored object, then rows one after
another.

### Chunked upload (server side)
`backend/storage/{b2,s3}.go`, `backend/db/uploads.go`, `backend/server/transfer/upload.go`,
`UploadDataHandler` of Send and of the vault.

- *State*: the file's row (`metadata` or `vault`: length, remote id), the
  `uploads` row (remote upload id, `checksums` array), the multipart upload at
  the storage service, the user's meter (`send_used` or `storage_used`).
- *Operations*: look up the file, charge the meter, find the upload, upload the
  part, record its checksum, and, for the chunk that completes the array,
  finish the remote file and store its id and length; abort.
- *Hard*: chunk handlers run side by side and only the array tells who is last;
  B2 records before it uploads and S3 the other way round; B2 calls are
  retried; aborts race with other chunks; the clients send chunks in parallel,
  and the two behave differently after an error.
- *Correct if*: exactly one handler finishes; the file is finished only when
  every part is there; a client that is told of success can download; what an
  abort refunds is what was charged; every request is answered.

### Life of a Send file
`backend/server/transfer/send`, `backend/db/{metadata,expiry}.go`, `backend/storage/storage.go`.

- *State*: a `metadata`, an `uploads` and an `expiry` row, an object.
- *Operations*: create (three inserts), upload, look up, read a chunk, count a
  download, remove after the last one, remove after the expiry date
  (background task).
- *Hard*: the count is taken down after the data was read; the removal is a
  remote call and three deletes, entered by a download, by a failed upload
  or by the task; creation may stop half way.
- *Correct if*: the limit holds; no file escapes the expiry task; removal
  leaves nothing behind; expired and used-up files do go away.

### Background tasks
`backend/cron/cron.go`, `backend/db/cron.go`.

- *State*: a row per task (`locked_until`), an advisory lock that belongs to a
  database session, a timer per task and server.
- *Operations*: fire, look at the row, try the lock, run, stamp the row, release.
- *Hard*: lock and release may use different connections of the pool; the
  same session is granted its lock again; the row's time is set a second short
  of the next firing; servers crash.
- *Correct if*: two servers do not run a task at once; a single server never
  skips; the task goes on being run whoever dies; tasks meant for every server run
  on every server.

### Cache of downloaded files
`backend/cache/cache.go`, `backend/server/transfer/download.go`.

- *State*: files in a directory (content by appending), a map of writable
  files, a list of read locks - both maps without a mutex.
- *Operations*: hit test by size, read with lock and unlock, prepare (evict
  until there is room), write, remove.
- *Hard*: chunks are appended in the order they were fetched; eviction picks a
  file and removes it later; the directory outlives the process.
- *Correct if*: a request gets the bytes of the chunk it names; a file that is
  being read stays; the limit holds; waiting for room ends.

### Billing and upgrades
`backend/server/payments`, `backend/db/{invoices,users}.go`, `backend/server/upgrades`.

- *State*: the user's row (payment ID; send available and used; storage,
  plan, month of the last renewal, expiry), the recorded invoices.
- *Operations*: webhooks of Stripe and BTCPay (look for the invoice, credit
  each item, record the invoice), the daily task (query all due users, then
  update them), overrides by an administrator, a new payment ID.
- *Hard*: webhooks are delivered at least once and at the same time; credit
  and record are separate; the task updates rows it read earlier; months
  have different lengths.
- *Correct if*: an acknowledged invoice was credited, once; purchases do not
  lose what is left; a plan holds until its date, is renewed in every month and
  taken back after its date.

### Vault
Folders, files and shares: `backend/db/{folders,vault,sharing}.go`,
`backend/server/transfer/vault`, `backend/server/transfer/share.go`.

- *State*: trees of folders and files; a share is a folder or file of another
  user that refers to the original, and an entry in the owner's list; each
  owner's storage meter; what the storage service holds.
- *Operations*: make a folder, upload, share, change a share, revoke it, leave
  it, delete a file or, by recursion, a folder, or the account's whole tree;
  delete a file as administrator.
- *Hard*: rights are found by climbing the tree, by a query that may match more
  than one row; who is charged and who refunded in a shared folder; deletion is
  a recursion over single statements, between which the other user shares or
  uploads.
- *Correct if*: nobody gets at what was not shared; who gets in is given the keys to
  open it; meters equal what is stored; deletion leaves nothing.

### Vault downloads and bandwidth
`backend/db/downloads.go`, `UpdateBandwidth`, the vault's `DownloadHandler`,
`cli/transfer/{download,upload}.go`.

- *State*: one `downloads` row per file and user that counts chunks, the
  weekly bandwidth, the copy in the cache named after the row; in the client a
  channel, workers, a cancellation and the file written by offsets.
- *Operations*: begin (check the bandwidth, make or reset the row), ask for a chunk
  (look at the row, cache or storage, count, charge), clean up old rows, a new week;
  produce, take, fail, cancel, leave, last chunk.
- *Hard*: two devices of one user share a row, which counts requests and not chunks;
  bandwidth is checked and charged in different requests; a pool whose workers have all
  gone blocks its producer.
- *Correct if*: a download that reports success has every chunk in its place; a download
  is not refused half way; the bandwidth is exceeded only by what overlaps; the last chunk comes last;
  a transfer returns.

### Accounts
`backend/server/auth`, `backend/server/session`, `backend/db/{users,verify,change_email}.go`,
`backend/crypto`'s recovery codes as used there.

- *State*: the user's row (e-mail, login key hash, wrapped private key, session
  key, secret and recovery codes of the second factor), the root folder and the
  index of passwords, the `verify` and `change_email` rows, the cookies.
- *Operations*: sign up with and without an e-mail, verify, log in and out, change the
  password, change the e-mail in three steps, set up, use and drop the second
  factor, delete.
- *Hard*: an account is made by a list of statements spread over requests that
  may be interleaved with others of the same user; a code waits in a row while the
  account it will overwrite changes; a login writes a session that it derived from a row
  read earlier.
- *Correct if*: an account that was made can be logged in to with the password last
  chosen, and its vault is there; limits and uniqueness hold; old sessions end; a
  recovery code counts once.

### The clients
`cli/transfer`: a pool of workers fed over a channel, the last chunk alone. `web/ts/transfer.ts`:
batches of requests, which goes on after an error. `web/ts/vault.ts`: the vault
page.

- *State* of the web page: folder id, folder key, a cache of folders, a flag that
  pauses navigation, tables of what is shown; chains of callbacks and awaits.
- *Operations*: open a folder (from the cache or the server), upload a
  selection, download, delete, add an entry or a folder.
- *Hard*: each chain reads the page's fields whenever it runs; id and key are not set together.
- *Correct if*: what is put in a folder opens with its key; a selection goes
  to one folder; the cache shows what is there.

`cli/commands/vault`: the same pages in a terminal.

- *State*, in global variables: the items and the rows of the folder, the path, the contents of every
  folder fetched so far, the filter; the dialog that is open; goroutines.
- *Operations*: enter a folder, go back, filter, and in dialogs make, upload, rename, change, delete, share.
- *Hard*: what takes long runs in a goroutine that outlives the page and sets items and rows when it ends;
  the items share an array with a folder's content, and sorting one sorts the other; rows and items are matched by
  number; no folder is fetched twice.
- *Correct if*: a key acts on the item that the cursor shows; the page and the kept folders are what the server has.

### The rest
Migrations (`backend/db/client.go`), rate limiter (`backend/server/middleware.go`),
mail, invites, forgotten-password hints, configuration, pages, cryptography and
the rest of the terminal interface keep little or no state that steps of others meet;
`PROJECT.json` lists each with the reason why it is not modelled.

### How they interact
Clients call the handlers; handlers share the database, the storage service and
the cache, never each other's memory except for the cache's maps. The
background tasks are fired by a timer on every server and call the same
removals (expiry), renewals (upgrades) and cleanups as the handlers. Payment
providers call the webhooks.

## 2. The modules

| Module | Models | Lines |
|---|---|---|
| `AtomicUpload` | the abstract promise of an upload | 38 |
| `ChunkedUpload` | upload of a file of two chunks or more; implements `AtomicUpload` | 483 |
| `ChunkedUploadProofs` | its theorems | |
| `SendFile`, `MCSendFile` | life of one sent file or text | 468 |
| `CronLock` | one background task on several servers | 304 |
| `ExpiryProofs` | the theorems of `SendFile` and `CronLock` | |
| `FileCache`, `MCFileCache` | the cache and the downloads that use it | 398 |
| `FileCacheProofs` | its theorems | |
| `Calendar` | dates and months, as a library | 47 |
| `Billing`, `MCBilling` | paid upgrades of one user | 346 |
| `BillingProofs` | its theorems | |
| `VaultTree`, `MCVaultTree` | folders, files, shares and storage of several users | 836 |
| `VaultTreeProofs` | its theorems | |
| `TransferPool` | the command line's pool of workers, as a library of operators | 88 |
| `VaultDownload`, `MCVaultDownload` | downloads of a vault file by several processes; each has a `TransferPool` | 365 |
| `VaultDownloadProofs` | its theorems | |
| `Accounts`, `MCAccounts` | accounts, sessions and the second factor | 756 |
| `AccountsProofs` | its theorems | |
| `WebVault` | the vault page of the web client | 448 |
| `CliVault` | the vault pages of the command line | 606 |
| `MCVaultPages` | `WebVault` and `CliVault`, for TLC | 24 |
| `VaultPagesProofs` | the theorems of `WebVault` and `CliVault` | |

Conventions they share:

- `pc` says where each handler stands (`stage` in `CronLock`); `Goto` (`Enter`) moves it, and its
  label names the *next* statement. Each SQL statement and each remote call is an action.
- What can fail has an action `...Fails` (or `...Refused`, `...Unconfirmed`
  where the remote side did or did not act), bounded by `MaxFaults`
  (`MaxMishaps`). A crash is an action `Crash`, `Restart` or `ServerDies`: it ends all handlers and keeps the rows.
- History variables (what happened, for the properties) stand last in the list
  of variables and no guard reads them, but for the bounds on
  faults, requests and downloads.
- `TypeOK` (`CronTypeOK`) is each module's type invariant. It is proved for `ChunkedUpload`,
  `CronLock`, `FileCache`, `Accounts` and `VaultTree`; no run spends time on it.
- A definition marked *Mutant* is the plausible bug that shows that a property
  can fail: the definition after it, replaced by it, violates the property.

### ChunkedUpload
One upload, from the answer to its metadata request to the answer to its last
chunk. `Send(c)` is the client: it keeps `MaxTransferThreads` requests in
flight, sends chunk N alone when all others have been answered
(`MayDispatchLast`, `cli/transfer/upload.go` and `web/ts/transfer.ts`), and
stops after an error if it is the command line. A handler goes through `Lookup`
(read the metadata), `ReadBodyFails`, `Charge` (the meter's limit; in `ChargeFails` the vault takes a database error for a full vault,
and Send goes on), `Prepare`
(find the `uploads` row), then the backend: B2 `Record`, `Part`, `Finish`,
`Stamp`; S3 `Part`, `Record`, `Finish`, `Stamp`. `Record` is the single
`UPDATE ... RETURNING` that makes the choice of a finisher atomic; `full[c]` is what
it returned. The abort of each service follows its code: remote file, rows
(one or two statements), refund - with the vault's loop as it is written,
which hangs (`hung`). `attempt` counts the B2 retries, compared *after* the loop as
in the code. Sizes are in chunks; the vault is modelled for a folder of the
user's own.

*Mapping to `AtomicUpload`*: `file` is "gone" when the row is deleted, "stored" when it
has its length and else "pending"; `parts` is what the service received.

### SendFile
One file: a text (no upload), a file of one chunk, or a large file, which
enters stored or abandoned, as `ChunkedUpload` leaves it. The sender's
handler is `InsertMetadata`, `CreateNewUpload`, `SetFileExpiry`, `InitUpload`,
then `SenderLookup` ... `Stamp`. A downloader's is `Lookup`, `Fetch`, and for the
last chunk `Use` (the `UPDATE` of the count, which happens when the chunk has
been read), `Count` (its result) and the removal, then `Serve`. `FindExpired`
starts the task. The removal `RemoveRemote`, `DeleteMetadata`,
`DeleteUploads`, `DeleteExpiry` is shared, with the actor as its parameter.

### CronLock
`Start` and `Fire` begin a run, `CheckLock` reads `locked_until`, `Acquire`
tries the advisory lock in *any* connection of the pool, `Finish` ends the
task, `StampRow` writes the row, `Release` unlocks in any connection. Time is counted in
seconds and kept relative to now (`until`, `timer`, `mine`), so that the state
space is finite without a bound on time; `Tick` lowers them all. A run may
take as long as it likes: ticks and firings happen meanwhile.

### FileCache
A request is `CheckCache` (HasFile), on a hit `AddLock`, `BeginRead`,
`ReadChunk`, `RemoveLock`, and else `PrepCache`, `PickVictim` and
`Evict` in a loop, then `Fetch` with the append. The content of a file is the
sequence of its chunks in the order they were appended; a read is right
(`Holds`) if the bytes at the offset are those of the chunk. Updates of the lock
list that overlap (`tainted`) may lose one. Each file has a last chunk of its own size (`LastSize`): a read of it unlocks the file (`Unlocks`)
only if it is no longer than `ChunkSize` and not the first. `filled` and `raced` record whether
a file was filled by whole downloads one after another, and whether two
handlers met in a window without synchronisation; `missed` the clients of
whose requests one had to fetch. What is stored (`Stored`, `Bytes`) and what the code
has added up (`TotalSize`) are written without recursion, so that they can be reasoned about.

### Calendar and Billing
`Calendar` numbers the days of a year whose months may have any length
(`MonthStarts` has the first day of each), so that a year of three days has short months, long months
and a year's end; `AddDate` and `ExpDateRollover` are the code's functions.
`Billing` is one user. `Checkout(i)` addresses an order to the payment ID the
user has; `current` holds the orders whose ID is still the user's, and `Recycle` empties it. `Deliver(h)` begins one of two handlers of an invoice: `Check`, one
`Credit` per item, `Record`. An order that was sent to BTCPay without a positive quantity (`void`, chosen at its checkout) is acknowledged by `Ignore` and
nothing else. `UseSend` charges an upload and `AbortSend(n)` gives `n` uses back, never below zero. A payment ID that was recycled makes the `UPDATE` hit no
row, which the code does not notice. The task is `Query` and `Update`; what
the task has read is in `task`, so that a purchase in between is overwritten, as in
the code (`stale` records it). `account.left` counts the days to the expiry date
and `early` says whether its time of day is before that of the task. A new
user's row, with no plan, has `left = Past`, longer ago than a month.

### VaultTree
Each user has at most one request under way; `todo[u]` is the list of
statements it has still to execute, and an action executes the head. A statement
that reads puts more statements in front (`Then`), which is how the recursion of
`DeleteFolder` and `DeleteItems` is written. What a handler reads before its
first write is one step with the beginning (`Request`), because nothing there is
held against later writes. Queries without an order answer a *set* of rows of which any
may be taken: `CheckFolderOwnership` climbs the tree to the nearest folder for
which the user has a row, `RetrieveVaultMetadata` looks at the file's own rows
first. `ParentHierarchy` numbers the folders from the root to one, `GetKeySequence` answers a key for each of them
that has one for the user, and `DeriveVaultCryptoContext` is what the client does with them. `Charge` and `Refund` go to the owner of the folder, the uploader or the
deleter, as the code has it in each place (`PayerOf`, `UpdateFolderOwnerStorage`); `blurred`
records whose meter a step has left too high (`over`) or too low (`under`) - the comment at `Blur` lists all of these steps - and `crossed`
whose request has met another. `gone` has the items whose deletion came to its last statement, but not rows that a user had only received.

### TransferPool and VaultDownload
A pool is a record: the caller (`at`), chunks on the channel (`produced` less
`taken`), chunks in the workers' hands (`busy`), workers that have returned (`gone`),
`cancelled`. `MayProduce`, `MayTake`, `MayGoOn`, `MayLeave` are its guards.
`VaultDownload` runs one for every process, and between them stands the
server: `DownloadHandler` begins (with `InitDownload` or `resetDownload` as a
statement of its own), and each chunk that a worker asks for is `GetDownload`, `CheckCache`,
`DownloadFile`, `UpdateDownload`, `UpdateBandwidth`. `HourPasses` and `CleanUpDownloads` are
the cleanup, `CheckBandwidth` the week. `written` is the file on the client's
disk, `cached` that of the server: both by the offset at which a chunk was put.

### Accounts
A device (a browser or the command line) has a cookie and one request at a
time: `req[d]` holds where it stands and what it has read, as a record of one type for all kinds
(`Asked`; `StepsOf` has the statements of each). `Request(d)` begins
one; `agenda` says which kinds of request a behaviour mixes. The statement actions
are grouped by handler, and those that handlers share (`CountUsers`,
`UserExists`, `NewVerification`, `updateUser`, `AuthMiddleware`) are written once. A hash is the
pair of identifier and password it is derived from, so that `CanLogIn` can compare what the login
compares. `Chooses` records the password that was chosen and whether an e-mail waited to be verified (`behind`). `CodeAges` makes a code older than the five minutes in which it is not sent again.
`met` records which kinds of request overlapped.

### WebVault
`tasks` holds a task for every chain of callbacks: opening a folder, an upload,
a download, a deletion, a dialog. An action is what runs between two awaits, e.g.
`FetchServed`, `FetchAnswered`, `KeysUnwound`, `RowDecrypted` for opening a
folder. `folderID` is set at the click, `folderKey` when keys are unwound. `where`
is the server's tree and `under[id]` the key that an item's key was encrypted
with. `rows`, `current` and `status` are what the user can click on. What is in a folder, however deep, is
`Below(id)`: the least set that has `id` and what was put into one of its folders.

### CliVault
A key that is pressed at a row is an action with `Pick(item)`, which takes what the code takes by the number of the
row, from `items` or from what the filter found. Most keys end the page and open a `dialog`; `Confirm` starts a
goroutine with it and runs the page again, as `Cancel` does. A goroutine is `Answered` (or `Unconfirmed`, `Refused`), `Apply`
(the change of the content of its folder), `SetItems`, `SetRows`. `held` names the folder whose array the items
share: `Writes` changes the items when an element of that array is written, `CreateItemRows` changes the content when it sorts the items,
and `InsertItem` may copy an array that is full and leave the items with the old one. `fetched` is what a folder was listed with when it was fetched,
which is parsed again when its content is empty. A panic ends the program and `Fresh` is the next one. `odd` records
what `PageIsTrue` excepts. Names and times are numbers from `clock`, so that the order of the items, which the code
sorts by time, is part of the model. `Sorted` says which item comes k-th by counting those that precede each (`PlaceOf`),
`parent` and `changed` are the server's rows, `table` the rows on the screen.

`MCVaultPages` has both clients' pages, whose modules have no name in common: a behaviour is of one of them.

## 3. The runs

All are run with two workers; sizes are distinct states.

| Run | Question | Size |
|---|---|---|
| `upload` | Do chunk handlers, in any order and with two faults, finish exactly once, whole, with true answers? | 314,881 |
| `sendfile` | Do limit, expiry and removal hold with two downloaders, the task, and a failure or crash? | 479,741 |
| `cron` | Do two servers exclude each other without ever starving the task? | 208,846 |
| `cache` | Do hits stay hits, are the bytes right, is the limit kept, do downloads end? | 335,278 |
| `billing` | Is every purchase credited once, and storage that of the plan? | 2,475,925 |
| `vault` | Do rights, keys, meters and deletion hold with two users in one tree? | 281,572 |
| `download` | Do downloads of one file by two devices end whole or with an error, within the bandwidth? | 311,620 |
| `accounts` | Do accounts, passwords, sessions and codes survive overlapping requests of two devices? | 1,157,853 |
| `vault_pages` | Do the pages of the browser and of the command line put things where and as the user meant, and show what is there? | 2,334,056 |
| `upload_vault_abort`, `cache_parallel`, `vault_content` | see section 4 | small |

### Properties
**upload.** `OneFinisher`: the atomic update makes exactly one handler the
finisher. `FinishIsWhole`: it asks for the assembly only when all parts are
there; with B2, which counts parts before it sends them, this needs the client's
habit of sending the last chunk alone, and fails for a web client that has
given up on a request and gone on (`Disciplined` names the exception).
`AckedIsStored`: what a client reports as success can be downloaded. `ImplementsAtomicUpload`:
refinement. `CleanUploadCompletes`: an upload that fits, with fewer failed B2
calls than are retried, completes.

**sendfile.** `LimitHolds`: downloads that do not overlap are no more than the
limit, plus one per failure. `CleanRemoval`: removal leaves neither
rows nor an object. `ExpiredIsRemoved`, `SpentIsRemoved`: removal happens.

**cron.** `TaskExclusive`, unless a connection that holds the lock is closed under a run.
`SoloNeverSkips`: a lone server never finds its own lock time. `RunsAgain`: with a server up for
good and no release in a wrong session, the task is run for ever.

**cache.** `HitStaysHit`: a client whose first chunk came from the cache, and of whose requests
none has missed, finds the whole file there until its download ends (the comment
at the definition has the cases in which it does not). `CacheNearlyBounded`: the limit may be exceeded only by chunks in hand.
`ServesRight`: a file filled by whole downloads one at a time is served right.
`DownloadsEnd`: waiting for room ends, unless a lock was left by a partial
download or lost by a race, or a file is locked that no read unlocks (`NeverUnlocked`): one of a single chunk, or with a last chunk longer than
`ChunkSize`. The run has such a file, and without the exception TLC finds the handler that looks for room for ever.

**billing.** `CreditedOnce`: every item once, and once more for each failure or
overlapping delivery. `AckedIsCredited`: what is acknowledged has been credited,
if the payment ID is still valid, and unless BTCPay was sent no quantity with the order: that is acknowledged for nothing (`Ignore`).
`StorageAsGranted`: the storage is the one last bought
until the plan expires, or set by hand. `ReclaimedInTime`: an expired plan is
taken back within a month. `RenewedEveryMonth`: a plan is renewed in every month, also one
that lacks its day. The last three leave out a user whom the task read before and
updated after a purchase or an override: the code overwrites it. That available less used
is what was given less what was sent, and at most what aborted uploads asked back on top (`SendsConserved`), is proved.

**vault.** `AccessIsGranted`: whoever gets in owns it or has been granted it, and not had it
taken back; whoever may change it was granted that. `KeysOpen`: the keys the server answers open the folder; left out are somebody
else's folders below a folder that is shared with anybody, where it answers one key too many or a key made for another user. `MeterExact`: with no request
under way, a meter is no less than what is stored in that user's folders, but for those in `blurred.under`, and no more, but for those in
`blurred.over`; section 7 lists the steps that put somebody there.
`DeletedIsGone`: what was deleted with nobody else at work is gone, and so is what was in it, with the rows of recipients and the entries of shares.
Excepted are the rows of folders that a deleted account had received, and their entries: the code leaves them. Nothing is said of a deletion by
the id of a received row (`ReceivedRow`), which section 7 tells of.

**download.** `WholeOrError`: a download without an error has every chunk in place, unless the
disk refused one, or the entry was another's too and the cache mixed both.
`ServedAlone`: a download that has its entry to itself is never refused. `OverdraftBounded`: beyond the
bandwidth one gets at most what all but one of the downloads at once amount to. `LastIsLast`: the last chunk
follows all others: this is the client's habit that `ChunkedUpload` builds on (`MayDispatchLast`).
`TransfersReturn`: every transfer returns, except one that fails with more chunks left than channel
and workers take.

**accounts.** `CanLogIn`: an account whose making was answered has its root folder and index, the hash is for the
identifier it has, and the private key unwraps with the same password, unless a deletion overlapped
the verification. `PasswordHolds`: the
password is the one last chosen. `SignupsHold`: e-mails are unique and the limit of users holds, except for
verifications that overlap. `OldSessionsEnd`: after a change of e-mail no session lives that was got by the
old one. `CodeOnce`: a recovery code is let pass once, unless another is compared meanwhile.

**vault_pages.** `UploadsOpen`: what a patient user puts in a folder is encrypted with that folder's key.
`FilesGoTogether`: a selection ends up in one folder, unless another transfer or deletion ran beside it or a chunk of it failed. `CacheIsCurrent`: the cached copy of a folder is of
that folder and has what was put there, less what was deleted. `ActsOnWhatIsShown`: in the terminal, a key acts on the item
of the row that the cursor is on, but under a filter that was left with Esc or under which a goroutine ended. `PageIsTrue`: at rest the page shows the
folder that the path ends in, and every folder that was ever fetched is kept as the server has it - the items, their names, with how
many they are shared - unless something in `odd` happened, which the property's comment lists.

Where a property excepts a case, the exception is a case in which it really fails in
the model: dropping it gives a counterexample. Section 7 tells them in words.

### Bounds, and why they are enough
- `upload`: 4 chunks with 2 in flight: the least with two parallel handlers
  that are both neither first nor last, and a last one alone. 2 faults: a fault during
  the handling of another. `MaxUploadAttempts` 2: a retry that succeeds and one too late.
  `Quotas` {4, 5} with `Used0` 1: an upload that does not fit by one chunk, and one that fits exactly.
- `sendfile`: limits -2, 0, 1, 2 against a maximum of 2: unlimited, refused, the last,
  one before the last. 3 downloads by 2 downloaders exceed every limit. One fault.
- `cron`: two servers with two connections each are the least for a release
  in the wrong session; two runs of a server overlap; an interval of 2 ticks is the least
  that differs from the slack of one.
- `cache`: files of two chunks, 3 and 4 bytes long, in a cache of 6: the second must evict the first,
  and a third download comes back to it. With chunks of two bytes and a `ChunkSize` of one, the last chunk of the first file unlocks it and that of the
  second does not (as a file of one chunk would, which the run has not: all files have the same number of chunks).
- `billing`: months of one and two days: a day that one month lacks; two
  invoices, one with two items of both kinds, one with a plan over a year's end;
  one fault: a crash, a failed statement, an overlapping delivery, or a day without a run.
  IDs are recycled without a bound. `MaxUses` 1: an upload that is counted, and one that is given back, before or after a purchase.
- `vault`: two users, five folders and files, four requests, one failed statement. A behaviour begins with two new accounts, or
  where one has shared a folder with the other that holds a folder that holds a file (`SharedInit`): so revoking,
  deleting and uploading at depth two meet within two more requests. Storage for two files: a third is refused. Users are symmetric.
- `download`: files of 2 chunks (one and the last), of 5 (as many as channel and two workers take, and the last), of 6 (one more:
  the producer may block). Short files are downloaded by two processes, with bandwidth for one and a half; long ones by one,
  with two failures: both workers gone.
- `accounts`: two devices, two e-mails, two passwords, three account ids, a limit of two users, two recovery codes,
  one failed statement. A behaviour mixes the kinds of request of one of four agendas (`MCAgendas`): who gets an e-mail
  (4 requests), accounts made and deleted (3), changes of e-mail and password against logins (4), the second factor (4).
  Kinds of different agendas write different columns or wait for the same rows as one that is in both. Devices, e-mails and passwords are symmetric.
- `vault_pages`, the browser: the root with one folder and one item in it at first, two more ids, a selection of up to two files, and three
  things the user does after opening the page: enough for an upload that two clicks overtake.
- `vault_pages`, the command line: the root with a folder and a file, and a file in that folder; another folder and another file can be made. Two goroutines at once, the least that can
  overtake each other; two things done, navigation and filter keys not counted, and one failed request; one recipient; one string for the filter, which finds a folder and a file and leaves the rest.
  An item is changed, and then changed again or reached through the folder kept.

`CHECK_DEADLOCK FALSE` stands where a behaviour ends: one upload, the bounded
downloads of a file, tasks when the servers are down for good, the bounded requests of `VaultTree` and `Accounts`,
the bounded deeds of the users of `vault_pages`. Whether a *transfer* comes to a stop in between is the question of
`TransfersReturn`, not of this flag. Billing has no end and
is left with TLC's check on (an override is always possible, so it says little).

## 4. What the runs found

Each is a disagreement between the code and what the repository says of it; the run
named finds it with the fewest steps.

- **`upload_vault_abort`**: the vault's `abortUpload` loops while `chunkNum > 1` and never
  changes it (`vault.go:196`): the handler of any chunk but the first hangs in its abort
  and the user is not refunded. Send's twin decrements the counter.
- **`cache_parallel`**: chunks fetched in parallel are appended in the order of their arrival,
  sizes are all that is compared, and the next download is served wrong bytes (`cache.go:82`).
- **`vault_content`**: `deleteVaultFile` removes the content from the storage service (`vault.go:161`) before the
  statement that asks whether the user may change the file (`vault.go:175`): a recipient with the right to read only, who
  deletes a file in a folder shared with them, is answered an error, and the owner's row stays without its content.

Three more were seen and have no run of their own: `UpdateChecksums` logs a failed
update as "can ignore" (`backend/db/uploads.go:77-81`), but the array then stays
incomplete and no handler finishes; two overlapping downloads of a file with a limit of one are
both served (`send/handlers.go:314`); files in progress are not counted by the cache's limit, although
`cache.go:21` says so.

## 5. Fairness

Weak fairness only, and only for what a server that is up keeps doing:

- `ChunkedUpload`: each handler (`Handler(c)`) goes on, and the client sends what it may (`Send(c)`).
  Go schedules every goroutine that can run; the clients loop until all is sent. Faults and disconnects are not fair.
- `SendFile`: the sender's handler, each download's handler, and the expiry task, which a ticker
  starts for ever (`CronLock` shows that it is run). No client has to ask for anything.
- `CronLock`: time passes (`Tick`), timers fire, runs go on. Servers need not start,
  and nothing has to fail. There is no fairness on `Start`.
- `FileCache`: a client that has begun and its handlers go on (`GoOn(c)`); a
  handler without room polls in a loop, which is why `DownloadsEnd` is a property of interest.
- `VaultDownload`: a process that has begun and the handlers of its requests go on (`Process(t)`, `Handler(t)`):
  goroutines run and the server answers. Nobody has to begin, fail, or clean up, and a process may be ended by its user.
- `Billing`, `VaultTree`, `Accounts`, `WebVault` and `CliVault` have safety properties only: their requests
  are finite lists of statements, and what must *eventually* happen there is up to users.

## 6. What is proved

TLAPS checks the theorems that `PROJECT.json` lists, for all values of the constants that satisfy the
modules' named assumptions.

**ChunkedUpload** (assumptions `NAssumption`, `LimitsAssumption`, `SetupAssumption`: at least two chunks,
positive limits).
- `TypeCorrect`: `TypeOK` is inductive.
- `ExactlyOneFinisher`: `OneFinisher` is not inductive alone. `CountInv` adds
  that a chunk is counted only by its own handler, once, and that who found the array complete
  holds the last chunk counted: the array was all of `Chunks` after its own update, so no update can follow.
- `UploadIsAtomic`: the refinement of `AtomicUpload`. `StampInv` (a handler about to store the length
  finds all parts there) is all that `Commit` needs; every other step maps to `Deliver`, `Discard` or a stutter.
- `FinishedIsWhole`: the most delicate. `LastInv` says who may still run when the last
  chunk does, `PartsInv` where the part of a counted chunk is, by backend, and
  `FullInv` that for B2 every *other* part is there when the array is found complete.
- `AcknowledgedIsStored`: `AckedIsStored`, on top of the invariant of `FinishedIsWhole`. `DamageInv`: rows are deleted only by a
  handler whose own request fails. `AloneInv`: under the discipline the handler that is to finalize the upload is the last one
  running, so that nobody deletes what it finalizes. `CountedInv`: without a lost update a chunk answered without error was counted,
  so that the command line's last chunk finds the array complete.

**SendFile** (in `ExpiryProofs`; `SetupAssumption`, `BoundsAssumption`, `ActorsAssumption`; the downloaders are any set, the limits any integers).
- `LimitIsKept`: `LimitHolds`. `LimitInv` keeps books: downloads served, the one that has used the count and is not served yet (`Spends`), what the row
  still has (`Left`) and one that may be served although the count is used up (`Free`) add up to no more than the limit and the
  failures. A statement of the handler moves one unit from one account to another; `Free` is paid for by a
  failure, or by what was left when the row was deleted.
- `RemovalIsClean`: `CleanRemoval`. A download deletes a row only when the object is gone (`ObjectFirst`), and gets as far
  as the count only with an object it can name (`NamedByDownloads`); without its metadata a file's other rows are being deleted by
  somebody (`RowsFollow`). The task runs after the date only (`TaskAfterDate`), so that it finds a file stored in time with the name of
  its object.

**CronLock** (in `ExpiryProofs`; `IntervalAssumption`, `MishapsAssumption`, `FiniteAssumption`: servers and slots are finite).
- `TaskTypeCorrect`: `CronTypeOK`, with the addition that servers that are down have no timer.
- `NoFiringIsLost`: `SoloNeverSkips`. While one server alone has been up and nothing has failed, neither the time in the row nor one that
  a run is about to write there is later than the next firing (`Armed`): a run looks at its row within a second of its firing and
  takes a second off.
- `ServersTakeTurns`: `TaskExclusive`. `LockInv` counts: the runs that rely on the lock are no
  more than the times its session holds it, and all belong to that session's server. A release
  in the wrong session only leaves it held; a session closed under a run is the exception the property names.

**Billing** (`OrderAssumption`: an order is a non-empty sequence of items; `AdminAssumption`; `NamesAssumption`: no plan is
called like a size that is not sold or a state of the task; `MonthsAssumption` of `Calendar`: a year has several months, none of them
empty, the last as long as any).
- `SendsAreConserved`: `SendsConserved`, which no run checks as the theorem covers every one of them: from the types of the counters and the positions of the
  handlers alone. It is an inequality, because an aborted upload takes from the used sends what it asks back, and no further than to zero.
- `ItemsAreCreditedOnce`: for the two handlers of an invoice, credits made plus credits they may still
  make are at most the faults, and one more if the invoice is recorded or a handler is at work (`Balanced`).
  A delivery to an invoice nobody works on is free because all before it were ended by a fault.
- `AcknowledgedIsCredited`: a handler has credited all items before the one it stands at, nothing
  happens to an invoice before it is paid, and a new payment ID is one that no order was addressed to. An order without a quantity
  is known as such from the checkout on.
- `StorageIsKept`, `StorageIsReclaimed`, `PlanIsRenewed`: `StorageAsGranted`, `ReclaimedInTime` and `RenewedEveryMonth`, all
  from one invariant (`GrantInv`). Unless the task overtook a purchase, the user holds the plan last paid for (`PlanHolds`): what the
  task has read it may still do. Before the expiry date the plan was renewed in this month or the day for that is yet
  to come (`OnTime`); after it the month of the last renewal goes on or has just ended (`Late`), so that the days since then are
  fewer than the month is long. The lemmas about the calendar say that every day is in one month (`MonthIs`, by the least-number
  principle), that the next day is the next of the month or the first of another (`NextDay`), that a
  term of months ends on a later day (`LaterDate`), and that the day of expiry does not move as time passes (`SameDay`). The rule that the
  last month is the longest is needed: `ExpDateRollover` takes January for no later month than December (`RenewedByTheEnd`).

**FileCache** (`SizeAssumption`: chunks and the limit have a size, a file has chunks; `NamesAssumption`: finitely many
clients, and `None` is no file; `BoundsAssumption`). What an action changes is stated once, as one of some twenty kinds of step
(`Steps`); the invariants are proved for the kinds.
- `TypeCorrect`: `TypeOK`.
- `HitsStay`: `HitStaysHit`, for any number of requests of a client at once. `HitInv` says who may still touch a file that was found whole:
  the locks of those who rest in it (`Resters`) are in the list unless an update was lost, who is about to evict has picked
  a file without a lock (`Evicters`, `Spared`), who is about to lock or unlock is known (`Lockers`, `Unlockers`), and the content changes by a fetch only,
  which nobody who has found the file whole begins (`NoMore`, `Whole`, `Found`).
- `ServedInOrder`: `ServesRight`, where a client has one request under way at a time (`MaxTransferThreads = 1`, as in a browser that downloads). A
  file is then appended to in order by the one client that fills it (`Ordered`, `Filling`, `Writable`). With more it is false: that is
  the run `cache_parallel`.
- `CacheIsBounded`: `CacheNearlyBounded`. Who has looked for room and found it may fetch one chunk. So there is a file such that `TotalSize`, its size and the
  chunks of those who are about to write (`Writers`) are within the limit and what all clients may have in hand (`Room`, `RoomInv`): the file that
  was last made room for. Handlers that fetch are counted by mapping each to a place of a client (`AtWork`, `Fetchers`, `InHand`).

**VaultTree** (`UsersAssumption`: users are finitely many and are not numbers; `BoundsAssumption`). For any number of users, rows and requests.
- `TypeCorrect`: `TypeOK`, from `CoreHolds`. The books say of every id whether it is a folder's or a file's and whose; they only grow, and every row,
  every entry of a share and every statement still to be executed is of the kind its id is booked as (`BooksInv`). `TodoInv` is the shape of
  what is left of a request: statements that neither insert nor share, in any order; one statement; or the two of a share, in theirs. `RoomInv`: each insert still to come has an id.
- `AccessHolds`: `AccessIsGranted`, from `GrantsHold`. Every row of a recipient, and every row about to be inserted or changed, has its
  grant; a grant goes with the request that takes the rows first and the entry after (`RevokeInv`), so that between the two the rows are gone.
  The climb is a least set and needs no induction: the property is about the rows that it ends at.
- `DeletionComplete`: `DeletedIsGone`, from `DeletionHolds`. Whom nobody has met is alone (`CrossInv`). The list of such a request has, before the
  statement that takes a folder, one for everything that is in it (`DropInv`, `Emptied`): for a list of any length, with what the reading
  statements put in front. What was deleted is not named by any statement that inserts (`Untouched`). Rows of received folders in the root of a
  deleted account are not among what is emptied, and the property says so.
- `MetersAreExact`: `MeterExact`, from `MetersHold`. The meter is no less than the number of stored files the user is to
  pay for and of the requests that are to add or to take off one (`MeterInv`, `Due`, with `Stored` and `Pending`), and no more, the first for
  users who are not in `blurred.under`, the second for those not in `blurred.over`; a step adds to one set what it takes from another.
  `UploadInv`: a file is uploaded by one request, whose payer is still the file's.
- `KeysAnswered`: `KeysOpen`, from `TreeHolds`. A folder was made after the one that it is in, which is of the same owner (`TreeInv`). So from a folder
  that hangs from a root there is one way up (`Way`, by the least-number principle, without induction over a recursive definition), no longer than the rows are
  many. That `ParentHierarchy` is the function its recursive definition describes is proved from the same principle (`HierarchyIs`); `GetKeySequence` then
  has at every depth the owner's own row, or down to the shared folder the owner's and there the recipient's.

The last two proofs corrected the model and the properties. A file that is shared while its upload is under way was paid for by nobody in the model
and left the meter wrong after five requests, more than the run makes. And `KeysOpen` had to leave out one case more, which takes three users where
the run has two (*Vault* in section 7); TLC confirms it with three.

**VaultDownload** (`ThreadsAssumption`, `SizesAssumption`: at least one worker and one chunk; `TransfersAssumption`).
- `DownloadsAreWhole`: `WholeOrError`. A process asks only by an id that was answered to it, and an id answered to
  nobody is unused (`OwnInv`). What is kept under an id of its own are the chunks it has asked for, each once, and what a request brings
  back is the chunk it asked for (`FetchInv`, `DataInv`).
- `ServedToTheEnd`: `ServedAlone`. In an entry of its own there is room for every chunk that has still to be
  counted (`Counted`: those counted and those due are no more than the file has).
- `OverdraftIsBounded`: `OverdraftBounded`. `Owing` is the set of chunks that processes under way may still be charged for. Its
  size taken from the bandwidth leaves no less than minus the files of all processes but one that were under way at once (`OwingInv`): who begins
  finds enough for a whole file. For the sum the set of processes is assumed finite (`TransfersAssumption`).
- `LastChunkIsLast`: `LastIsLast`. `PoolInv` speaks of one pool: workers that have returned and chunks in hand are no
  more than the workers; unless the pool is cancelled, a chunk that was taken is in hand or done, and who has returned found the
  channel closed and empty. So when all have returned nothing is in hand and all but the last is done (`WaitedForInv`). `Linked` ties
  a pool to its requests: only a caller that waits for the last chunk has asked for it. The theorem covers the order in which
  `FinishedIsWhole` assumes a client to send (`MayDispatchLast`), which the command line's upload keeps by the same pool.

**Accounts** (`NamesAssumption`: e-mails, ids and `None` differ; `BoundsAssumption`). A request writes nothing that it has not read, so
the proofs begin with what it has read: `Good` says it for every kind and statement, and for every statement that only reads `Follows` says
what was so when it went on; `Wrote` and a lemma for each write say what became of the rows. The invariants stand on these lemmas, never on the actions.
- `TypeCorrect`: `TypeOK`, with `Good` of every request and the keys of cookies and rows, which were all drawn before.
- `PasswordIsKept`: `PasswordHolds`. What is to be verified, as a row of `verify` or a request that has read one or is about to write
  one (`InWait`), has the password of the account that it is for, unless that account is `behind` (`PasswordInv`).
- `AccountsOpen`: `CanLogIn`. Who is about to write a row's index has written the root folder, and who is about to write a password
  has the row's name (`MadeInv`); requests under way at the same time have been met (`OverlapInv`), so that only those that the
  property names can come between.
- `SessionsEnd`: `OldSessionsEnd`. Who is about to log in has credentials of the account's name (`Entering`), and a new key is one
  that no cookie has: an old cookie is no longer valid once the key is written, and before that somebody is about to write it (`SessionsInv`).
- `SignupsAreKept`: `SignupsHold`. Who has counted and looked may still do what it is about to (`LimitInv`, `EmailsInv`: `StillSo`): nobody else
  adds an account or takes an e-mail before the overlap is met. A row of `verify` for another e-mail of an account
  means that nobody else has that e-mail.
- `CodesPassOnce`: `CodeOnce`. The codes of the users, those that were let pass and those that a request holds to write back have nothing in
  common but what that request is about to write, and none is of a factor that is shown and not set yet (`CodesInv`).

**WebVault** (in `VaultPagesProofs`; no assumption needed).
- `SelectionGoesTogether`: `FilesGoTogether`. As long as no two transfers or deletions overlapped, at most one task moves
  something, and an upload of which no chunk has failed holds `paused` and has the folder that the page is in (`Held`): nothing changes `folderID` but a click, which
  `paused` forbids, and nothing sets `paused` back but the end of a task that moves something, which is then the upload's own. The file whose
  chunks are on the way was therefore put in the upload's folder (`PutThere`), and no other id is given for it.
- `PageUsesFolderKey` and `PageCacheIsCurrent`: `UploadsOpen` and `CacheIsCurrent`, from one invariant (`PageInv`). While the user is patient
  and nothing overlapped, a folder is loaded by one task alone (`TasksKept`), and as soon as nothing loads any more the page has the key of the folder
  it is in, and that folder is in the cache. So the key and the folder that an upload or a new folder takes go together until the server has it.
  What the cache has of a folder and the server does not is the item of a task that deletes it just now, or was lost with a request (`DataKept`). That
  a deletion takes everything out of the copies that it takes off the server needs that a folder was there before what is in it, and
  that `Below` is closed.

**CliVault** (in `VaultPagesProofs`; `ItemsAssumption`: ids are numbers, finitely many, and so are recipients; `NamesAssumption`: the folder of an
empty context, and of what was not made, is no folder; `OrdersAssumption`: the bounds are numbers). For any items, strings, recipients, goroutines and orders.
- First what sorting gives, for a list of any length: `Precedes` orders its positions, so that every place is taken once
  (`PlacesAreTaken`, by counting), `Sorted` has the same items as often (`SortedKeeps`), and sorting what is sorted changes nothing.
- `PageTypeCorrect`: `CliTypeOK`, with the addition that a request that is about an item has one. The clock stays in its bound because who
  waits for the server was counted when it began (`ClockInv`).
- `PageActsOnWhatIsShown`: `ActsOnWhatIsShown`, from `ShownInv`. When no goroutine is at its end the items are sorted, and the rows are
  those of what a key acts upon, unless the filter was left. A goroutine that cuts the array or writes to it is at its end until the rows are made
  again; and rows that are made once more of items that are sorted are the same.
- `PageStaysTrue`: `PageIsTrue`, from `PagesInv`, which says in every moment of an ordinary page what `PageIsTrue` says at rest. The items are the
  content of the folder that the path names but while a goroutine that ends has not set them (`AtPlace`). The contents of other folders are what the
  server has (`OthersTrue`): a goroutine's folder is the one shown. That one is, too, but for requests that were served and not yet applied
  (`HereTrue`, with `Awaits`), and for the shares of the item in the dialog. Each goroutine and the dialog has its item as the server has it
  (`RoutineTrue`, `DialogTrue`), and no two have the same one (`Carries`), so that what one writes back undoes nothing. Items whose folder was
  deleted with all that is in it are known to be nowhere (`KnownIn`): of a folder that is gone nothing else is promised. What was never made was
  never shared (`NeverMade`), so that a new item is rightly shared with nobody. The invariant was checked with TLC on a larger
  instance than the run's (three goroutines) before it was proved.


## 7. What is only model-checked, and what is not modelled

Only model-checked: the liveness properties `CleanUploadCompletes`, `ExpiredIsRemoved`, `SpentIsRemoved`, `RunsAgain`, `DownloadsEnd` and
`TransfersReturn`, as fairness (`ENABLED`) is beyond this prover. Every safety property that a passing run checks is a theorem.

Simplifications, each of which keeps the control flow:

- Sizes are counted in chunks (`ChunkedUpload`) or small numbers of bytes
  (`FileCache`); names, keys and contents are left out. Encryption is not modelled.
- A local directory is driven by the same code as B2 (`initLocalStorage`) and not distinguished from it. The storage
  service keeps what it confirmed.
- One file (`ChunkedUpload`, `SendFile`), one task (`CronLock`), one user (`Billing`): the code has no
  state that two files, tasks or users share apart from the meter, which `ChunkedUpload` checks against two limits,
  and the cache, which `FileCache` models with two files.
- `SendFile` starts a large file as `ChunkedUpload` leaves it, stored or abandoned, with its parts at the service.
- `FileCache` leaves access times out: any file without a lock may be the oldest. All its files have the same number of chunks.
- `Billing`: a task or a handler ends on the day it began; prices, checkout links, proration and mail are left
  out; an item's worth is a constant (Stripe multiplies sends by the quantity, BTCPay does not:
  `stripe.go:161-163`, `invoices.go:73-75`); the user is not deleted meanwhile.

- `VaultTree`: files have one chunk (`ChunkedUpload` models more) and size one; password entries, which have no content and
  cost none of the storage, are left out with their own quota, and so are names, renaming, moving and links to shares. Requests are those
  that the clients offer: the server's `NewFolder` does not ask for the right to change the folder (`folders.go:46-50`), a recipient could share a file further
  (`vault.go:251-266`), and `RemoveShare` takes the entry of whatever share it is given the id of (`sharing.go:127`). That a storage service does not
  delete and answers no error (`vault.go:162`) is assumed of neither backend.
- `VaultDownload`: chunks are of one size and the cache has room (`FileCache` models that it has not); the file is
  not deleted meanwhile. The check of the bandwidth (`handlers.go:409`) and the lookup of the entry (`downloads.go:15`) are one step, and the update and
  deletion of an entry (`downloads.go:50-57`) too: in the database a deletion may miss an entry that another request is updating,
  which then stays until it is cleaned up. An upload's pool is the same; it is also cancelled when the file cannot be read.
- `Accounts`: all accounts belong to the people at the devices, who type what is right, verification codes included.
  The server password and invites, hints and payment ids are left out, and so is the key pair, which never changes.
- `WebVault`: one page and no other device; what is shared is in `VaultTree`. Renaming, previews,
  dialogs for shares and reloading are left out. The links back are set with the click.
- `CliVault`: the user has no other device and nothing is shared with the user; the cursor may be on any row; downloads and previews, which
  change nothing on the page, are left out. The program's first request succeeds (`view.go:713` drops its
  error). An upload is one request (`ChunkedUpload` has its chunks).

### Exceptions of the properties, and what else was seen
These hold of the code, are in the models, and contradict nothing that the repository says:

- *Accounts.* The limit is compared with `==`, counted before the insert, and e-mails are not unique in the table, so verifications
  that overlap make too many accounts or two of one e-mail. While an e-mail waits to be verified its row holds the hash that will
  replace the account's: a password changed meanwhile is undone, and one changed during the verification itself leaves hash and identifier of different
  changes, with which nobody can log in. A login that has read its row before another session was ended writes a session after it.
  A recovery code is compared and removed in two statements. An account without its root folder cannot be deleted. One that is deleted while it is
  being made loses its root folder to the deletion, while the verification goes on and logs its user in: this one the attempt to prove `CanLogIn`
  showed, it takes four requests of four kinds, more than the run's agenda for accounts that are made has. The error of
  `InvalidateOtherSessions` is only logged. A row of `change_email` that was left behind is found first by the next change
  (`change_email.go:47`). Where one e-mail is signed up for on two devices the row has the keys of the later, whichever verifies.
- *Downloads.* `resetDownload` does not refresh `updated` (`downloads.go:86`), so that an entry that was just taken over may be
  cleaned up; looking for the entry and inserting it are two statements, which may make two; resetting a row that was deleted
  goes unnoticed. A worker ignores what writing its chunk returned (`download.go:52`). The producer blocks for good when all workers have
  gone and more chunks are left than fit (`upload.go:169`). The cache's file is named after the entry, so that it may hold chunks of two
  downloads. `UpdateBandwidth` takes the bandwidth below zero without an error, whatever its comment says (`users.go:275`); the check when a download begins makes up for it.
- *Billing.* The quantity of a BTCPay order is what the query said (`handlers.go:178`, `196`). If it is no positive number, `FinalizeInvoice` returns without an
  error before it has looked for the invoice (`invoices.go:41-45`): BTCPay gets its 200, the payer nothing, and no row tells of it. A purchase
  sets the used sends to zero, so that an upload under way that is aborted after it gets nothing back for what it had used before; and as
  every failing chunk gives back itself and all chunks before it, two that fail give back some of them twice (`send.go:10-22`).
- *Cache.* The attempt to prove that a hit stays a hit refuted it for three workers (`constants.go:30`) and files of four chunks, which the run
  is too small for: of a download that ended early the file holds chunks 1, 3 and 4; the next one misses with two workers, one stores chunk 2, the size is then that
  of a whole file, its third worker gets chunk 1 as a hit, and the last of the missing handlers appends chunk 3, after which the size is wrong again. TLC
  confirms it with those bounds. Hence `missed`: a client one of whose own requests had to fetch is left out.
  A file is locked when it is read from its start (`cache.go:111`) and unlocked by a short read that does not begin there (`:140`). A file of one chunk,
  or whose last chunk is longer than `ChunkSize`, is therefore never unlocked or evicted, and where its room is needed a handler looks for it for ever (`NeverUnlocked`).
- *Vault.* A file put into somebody else's folder is paid for by whoever uploads it or by the folder's owner, depending on
  the step, and refunded to whoever deletes it (`vault.go:182`). These steps leave a meter above what is stored (`blurred.over`): a chunk over the limit of
  somebody else's folder, whose charge is kept (`handlers.go:349-352`); an upload that fails, or a deletion, whose refund goes to somebody else, fails and is only
  logged, or is never executed because the request was cut off between storing or clearing and refunding; a chunk stored for a file that was deleted meanwhile, or
  that somebody else is to pay for by now; a file whose row goes with a revoked share (of a file shared with whoever uploaded it), by an administrator, or whose
  folder's row is deleted while it is being put there. These leave one below (`blurred.under`): the refund to a user of what another paid, or nobody, as
  for a file that never was stored (`vault.go:181-182`) or a charge that failed and is taken for a full vault (`handlers.go:349`); an administrator's deletion, for
  the owner of the row it names (`file_actions.go:17-33`); a chunk stored for a file in whose folder another was charged than is to pay.
  An account that is deleted leaves the rows of folders that it had received, in a root that is no longer there, and their entries among the shares
  (`auth.go:149`): these rows are deleted by what refers to them (`vault.go:106-107`, `folders.go:632`), and nothing refers to them. Where a folder is shared out of a folder that
  is shared already, the keys answered to its recipient are one too many to be unwound. A user who has the outer folder only may be answered
  the key that was wrapped for the inner one's recipient: where the user has no row of a depth, `ROW_NUMBER` takes any (`folders.go:482-490`). A file that is
  shared again may be copied from the row of its first recipient, as any of its rows may be the answer (`RetrieveVaultMetadata`), and what is deleted
  by the id of that row leaves the second recipient's. An administrator's deletion keeps the content and refunds another amount.
- *Web page.* Key and id are set apart: an upload or entry begun while a folder loads is encrypted with the key of the folder before, and so is one
  after two folders were loaded at once; the comment at `vault.ts:623` speaks only of which kind of key it is. The answer of a folder left behind is
  put in the cache under the id of the folder that the user went to. The first of two transfers to end lifts `paused` for both; an error of a
  download or deletion never lifts it. A chunk that fails lifts it too (`vault.ts:599`), yet the upload goes on with its other chunks
  (`transfer.ts:137-153`): the user may open another folder, in which the page then shows the file and puts the rest of the selection; and if the last chunk does not
  finish the file, `paused` stays set for good. `broken` marks such uploads.
- *Command line.* Esc shows all rows again and leaves `filterStr` set, so that keys act on what the filter had found (`view.go:259-261`, `171`); so it is where a goroutine
  ends under a filter. A key at a filter that finds nothing is an index of -1. A goroutine that ends in a folder that the user has left sets the items of
  the page to those of its own folder. A folder that was just made has no key in its item, so that renaming or sharing it fails until the program is started again. A folder that lost
  all its items is parsed again from what was fetched, and has them back. After a folder could not be fetched the context is empty, and making something in it
  calls a nil function. The form for permissions never looks at whether it was confirmed. Two goroutines that end at the same time sort one array.

### Not modelled
As `PROJECT.json` lists it: the parts of components marked *partly* are named there. Invites and administration are
single statements, or repeat removals modelled elsewhere. The rate limiter is one map with atomic operations; migrations run
before the server is up. Mail, pages, configuration, cryptography and the terminal's forms keep no state that other
steps read.

## 8. Plan

Done, in this order: `AtomicUpload` and `ChunkedUpload` with proofs, `SendFile`, `CronLock` and `FileCache` with proofs,
`Calendar` and `Billing` with proofs; `VaultTree`, `TransferPool` and `VaultDownload` with proofs, `Accounts`, `WebVault` and
`CliVault` with proofs.

What is left: migrations started by two servers at once, and the quota of password entries.
