# Formal model of VRCSM

VRCSM is a Windows tool for VRChat players. A C++ program (`src/src/core`, the services; `src/src/host`, the window and
the bridge) embeds a React page (`src/web`) in WebView2. The page asks the host for everything by messages; the host works
on the user's disk, on VRChat's log and web API, and on a dozen background threads. This directory holds TLA+
specifications of the parts where order, failure and concurrency decide whether the program is right, the TLC
configurations that check them, and TLAPS proofs of what matters most. Paths below are relative to the repository, which
is `src/`; `PROJECT.json` maps each definition to the lines it is taken from.

- [The system](#the-system): its components, their state, how they interact, what is hard
- [Modules](#modules): what each specification models and how it corresponds to the code
- [Runs](#runs): what each configuration checks, its bounds, its fairness
- [What the code does not keep](#what-the-code-does-not-keep): the violation runs, and what is stated without a run
- [Proofs](#proofs)
- [Not modelled](#not-modelled) and [Plan](#plan)

## The system

### Components, state and operations

| Component | State it keeps | Operations | What makes it correct |
|---|---|---|---|
| **Cache migration** `Migrator.cpp`, `JunctionUtil.cpp`, `MigrateBridge.cpp`, `Migrate.tsx` | the file system itself; the page's `migrateBusyRef` | preflight, execute (copy, verify, rename, junction, cleanup), repair | the original cache is never lost; success means the junction serves what was copied; leftovers are reported; the page unlocks |
| **IPC channel** `ipc.ts`, `IpcBridge.cpp`, `WebViewHost.cpp`, `MainWindow.cpp` | the table of pending calls and timers; `m_activeAsyncTasks`, the pool's queue, `*m_alive`; the window's message queue | call, timeout, cancelAll, dispatch (inline or pool), post, deliver, shutdown | one handler and at most one answer per call; every promise settles; events before answers; shutdown ends and nothing runs after it |
| **Session** `AuthStore.cpp`, `VrcApi.cpp`, `AuthBridge.cpp`, `auth-context.tsx` | the cookie pair in memory and in `session.dat`; `status.authed` of the page | status, login, 2FA, logout, any request that may see a 401 | memory and disk agree; the pair is whole; a live session is not lost; the page says what the host holds |
| **Push socket** `Pipeline.cpp`, `PipelineBridge.cpp`, `auth-context.tsx` | `m_running`, `m_worker`, `m_activeSocket`, `m_wakeFlag` | start, stop, connect, receive, reconnect | one worker; stop joins it and returns; each handle closed once |
| **Log tailer** `LogTailer.cpp` | current file, offset, carry-over, two flags | start, stop, pick the newest log, replay its tail, read | each line once, whole and in order; it catches up |
| **Log stream** `LogsBridge.cpp` | a tailer and the number of its subscribers; the instance VRChat is believed to be in | start, stop, parse, classify, factory reset | the tailer lives while somebody subscribes; each event carries the right instance |
| **Radar** `RadarEngine.tsx` | the players shown, a ref beside them, a queue of events, the current instance | scan, hydrate, apply an event, render | a quiet log leads to the room VRChat is in, however the scan and the stream overlap |
| **Preview queue** `TaskQueue.cpp`, `ApiBridge.cpp`, `useAvatarPreview.ts` | a queue, one worker, cancel tokens, shared futures per avatar; the hook's attempt, its timer and what it shows | status, preview, abort, extract, retry | every waiting pool thread is answered; a hook shows its own avatar; every attempt ends |
| **Page caches** `thumbnails.ts`, `assets-cache.ts`, `image-cache.ts`, `cache-ownership.ts` | a bounded map of pending and resolved entries, a lookahead queue, the state of each hook | look up, fetch, batch, invalidate, evict, reset at an account change | a pending entry belongs to a call in flight; nothing of another account is shown; tiles come to rest |
| **OSC Studio** `useOscStudio.ts`, `osc-studio.ts` | profiles of cards, the auto-send loop's run number and timer handle, the last chatbox message | start, stop, edit, send, wait for the limit | a stop is final, no timer gets away, the card shown as being sent is |
| **Rate limits** `RateLimiter.cpp`, `GreyRateLimit.cpp`, `api-throttle.ts` | tokens and the last refill; starts within a window | acquire; enqueue | never more requests per window than the limit; nobody waits for ever |
| **Updater** `core/updater/*`, `UpdateBridge.cpp` | `.part` and `.msi` files, skipped versions | check, download, resume, verify, install | only a verified package is installed, and the app makes way for it |
| **Plugins** `core/plugins/*`, `PluginBridge.cpp` | plugin directories and the registry file | install, replace, enable, uninstall | registry and directories agree, also after a failure |
| **Friends list** `friends-pipeline.ts`, `useFriendsPipelineSync.ts` | the cached list of the page | fetch, apply a push event | no event is taken back by an older list |
| **Workers** `OscBridge.cpp`, `DiscordRpc.cpp`, `ScreenshotWatcher.cpp`, `ProcessGuard.cpp`, `CacheIndex.cpp` | a thread, a flag, a handle each | start, stop, end by itself | one thread each, joined exactly once |
| **Invitations** `InviteAssist.cpp`, `EventWatch.cpp`, `GreySocialBridge.cpp` | one pending invitation, cooldowns | consider, arm, cancel, fire | nothing fires that was cancelled or no longer allowed |
| **Configuration files** `VrcConfig.cpp`, `SteamVrConfig.cpp`, `UpdateState.cpp`, `PluginStore.cpp` | a file, its `.tmp` and `.bak` | save by rename | a whole file survives any crash |
| **Database** `Database*.cpp` | SQLite behind one mutex | a transaction per operation | atomic by construction; its closing is in `IpcChannel` |

The remaining parts (log parsing, cache scanning, Unity decoders, hardware diagnostics, notifications, lyrics, analytics,
pages) are pure functions of their input, output without a reply, or layout. They are listed in `PROJECT.json` with the
reason for leaving each out.

### How they interact

Every page component calls `ipc.call(method)`. `IpcClient` enters a slot in its table, starts a timer for most methods and
posts the message. The UI thread dispatches it: a method of `AsyncMethodSet` is queued for one of the pool's threads, any
other runs at once on the UI thread. The handler may post events, and ends with one answer; both are put in the window's
message queue and handed to WebView2 by the UI thread. So Session, Pipeline, Migrator and all other bridge handlers run on
several pool threads at once, in an order the page does not control, and most of their state is shared singletons or
members of `IpcBridge`. The page's signed-in state starts and stops the push socket; the push socket and the tailer send
events to the page by themselves; the end of the program destroys the bridge on the UI thread while pool threads still run.

### What is hard here

Two calls of one page on two pool threads; state read before a request to VRChat and used after it (session cookies);
a thread joined while another starts it; a socket closed by two sides; a copy of several gigabytes in the middle of which
VRChat starts or the program dies; a log read while it is written, half a line at a time; answers that come after their
timer; a shutdown during all of it; in the page, continuations of runs, effects and accounts that are over, and React's updates
that run later than the next event. `PROJECT.json` lists the hazards at their lines, with the property that covers each or
the reason why none does yet; what the parts not yet modelled add to them is under [Plan](#plan).

## Modules

| Module | Lines of code it follows | Role |
|---|---|---|
| `Migrator`, `MCMigrator`, `MigratorProofs` | `Migrator.cpp`, `JunctionUtil.cpp`, `Migrate.tsx` | migration and repair against VRChat, crashes and each other |
| `CallContract` | — | what `ipc.call` promises, whatever lies underneath |
| `IpcChannel`, `MCIpcChannel`, `IpcChannelProofs` | `ipc.ts`, `IpcBridge.cpp`, `WebViewHost.cpp` | the channel; implements `CallContract` |
| `Session`, `MCSession`, `SessionProofs` | `AuthStore.cpp`, `VrcApi.cpp`, `AuthBridge.cpp`, `ApiBridge.cpp`, `auth-context.tsx` | cookies, calls and the page's status |
| `Pipeline`, `MCPipeline`, `PipelineProofs` | `Pipeline.cpp`, `PipelineBridge.cpp`, `auth-context.tsx` | the push socket's threads |
| `LogTailer`, `MCLogTailer`, `LogProofs` | `LogTailer.cpp` | following VRChat's log |
| `LogStream` | `LogsBridge.cpp` | who shares the tailer, and the events it makes of lines |
| `Radar`, `MCRadar`, `LogProofs` | `RadarEngine.tsx`, `CacheBridge.cpp` | the radar page, composed with `LogStream` |
| `PageStore`, `MCPageStore`, `PageStoreProofs` | `thumbnails.ts`, `assets-cache.ts`, `image-cache.ts`, `cache-ownership.ts`, the hooks and pages that use them | the caches of the page |
| `OscStudio`, `MCOscStudio`, `OscStudioProofs` | `useOscStudio.ts`, `osc-studio.ts`, `OscTools.tsx` | the auto-send loop against its user |
| `PreviewQueue`, `MCPreviewQueue`, `PreviewQueueProofs` | `useAvatarPreview.ts`, `ApiBridge.cpp`, `TaskQueue.cpp` | previews, from the hook to the worker |

Each MC module only gives model values and sets to the constants of its specification. A definition whose comment begins
with "Mutant" is a version of another definition with a plausible bug; it is used by no specification, and shows that the
property named beside it in `PROJECT.json` notices the bug.

**Migrator.** `fs` maps each path (the cache, its `.vrcsm-bak`, the targets) to nothing, a directory with a set of files, or
a junction. A run is one operation of the user and `pc[r]` the next system call it makes. `Preflight`, `ExecutePreflight`,
`ExecuteCheck` are the three looks at the same conditions; `OpenSource`/`CopyFile`/`CopyDone` the copy loop, whose iterator
may or may not see files added behind it; `Verify`, `Swap`, `JunctionMkdir`/`JunctionOpen`/`JunctionWrite`, `ProbeJunction`,
`Restore`, `CleanupFile`/`CleanupDone` the rest of `execute`; `RepairJunction`/`RepairUnlink` the repair, which shares the
junction steps. Every call that changes the file system may fail, and so may the opening of a directory: `Listings` is what an
iterator may list, which with `Unreadable` is any part of what is there, because the code takes an iterator that does not open,
or that skips a directory closed to it, for one that ended. The answers of `exists`, `is_directory` and the tests for a junction
are taken as true. `skipped` is history: the files that were there and that the copy's iterator left out. `report` is what the
last scan of the page said of the cache: the page offers a migration of what it shows as a directory (`MigrateOneClick`) and a repair
of what it shows as a junction, or of what a preflight found to be one; `Rescan` brings it up to date. VRChat, the user who
deletes a leftover backup, the page that is left and opened again (`Remount`) and the death of VRCSM (`Crash`) are the
environment. A cache is a set of files: nested directories, sizes and free space are abstracted, the failures they lead to are kept.

**IpcChannel.** `pending`, `promise`, `shown` are the page; `stage[c]` is where the call is in the host; `outbox` is the
window's message queue, `inbox` WebView2's; `active`, `alive`, `teardown` are the bridge's counter, flag and destructor. One
action per handler, timer and step of the destructor. A message may be dropped while there is a window, by a `PostMessageW` that
fails (`Post`) or by WebView2 (`Deliver`): nobody retries or is told, and `lost` is the history of it. A handler that calls `SendMessageW` (`WaitForUi`) blocks until the UI
thread is free, or the window gone. The refinement maps `ran` of `CallContract` to the calls whose handler has ended.

**Session.** Every method of `AuthStore` holds its mutex and is one step (`ReadHeader`, `LoadFile`, `RereadHeader`,
`MergeCookies`, `SetCookies`, `Save`, `Clear`); a call is a job of a pool thread that makes several of them, with VRChat's
answer (`ServeRequest`, `ServeLogin`, `ServeVerify`, `Refuse`, `LoseRequest`) in between. `server` is what VRChat holds of
each session. `Call`, `Commit`, `Drop`, `Timeout`, `LogoutTimesOut` are `auth-context.tsx`; `Commit` includes the `cancelAll`
that a sign-in or sign-out makes. One account: switching between two is abstracted. `session.dat` is a pair or unreadable.

**Pipeline.** `caller[c]` is a pool thread inside `Start` or `Stop`, one action per access to what is shared: the creation of
`m_pipeline` (`Make`, and `Replace` for the second of two that found it null), the exchange of `m_running`, the new thread
(`Spawn`), which runs before it is moved into `m_worker` (`Assign`, or `Terminate` when that is joinable), the wake flag, the
socket slot (`Grab`), the close and the join. `met` is history: two workers have lived at once. A second `m_pipeline` over one that
was used leaves calls, or a worker, inside an object that is gone; the model stops there (`ReplaceUsed`, process "undefined"). `m_worker`
and the two callbacks are assigned and joined by several threads without a lock, which is a data race: the model has the outcomes
in which each access happens at once. Two `Stop`s that join one thread take three threads of the pool. `worker[w]` walks through `WorkerLoop`, `RunOneConnection` and the destructor of
`ScopedSocketReclaim`. The page's effect (`SignIn`, `SignOut`) decides by the last state it heard (`HearState`).

**LogTailer.** A log is a sequence of chunks, two to a line, the second of which ends it, so that a flush, a buffer and the
start of the replay window can each fall inside a line. `Flush`, `Launch`, `Rewrite` are VRChat; `PickSame`, `FirstAttach`,
`Switch`, `Backfill`, `Measure`, `Read` the parts of a tick; `MeasureFails` and `Hiccup` an open that fails and the catch of
`Run`; `StartTailer` and `StopTailer` are `Start` and `Stop`. `liveFrom`, `base` and `rewritten` are history: where the live
reading began, in the file and in what was delivered, and whether the file was replaced since. (The module shares no name with
`LogStream` and `Radar`, so that `LogProofs` can extend all three.)

**LogStream and Radar.** The log is a sequence of the lines that say something about the room. `Start` and `Begin` are
`logs.stream.start`, which parses what is there and then begins a tailer; `Stop` and `TearDown` are `logs.stream.stop`, which
lets go of the mutex in between; `Attach` and `Emit` are the tailer and its callback. `Radar` EXTENDS it with the page:
`Mount`/`Unmount` the effect and its cleanup, `ScanReads`/`ScanAnswers`/`ScanFails` the scan, `Hear` the listener with the
hydration queue, `Render` React, which runs the functions handed to `setActivePlayers`. `ref` is `activePlayersRef`, which those
functions write too; `Hear` leaves open whether React runs one at once. `cut` is history: a tailer ended under the page.

**PageStore.** The three caches are one design with different reactions to an answer, so `kind` picks the cache and never
changes. `memo` and `order` are the `Map` (`MemoSet` puts at its end and evicts from its front), `reqs` the calls in flight, of
a hook, of a batch or of the walk of `cacheImageUrls`; `page` the account that is shown, and `left` history: whom a login has replaced since
calls were last cancelled; `tiles` the hooks, where `waits` is the promise an effect awaits and
`dirty` that it must run. One action per task of the event loop: an answer (`Answer`, with any subset of its rows missing or
failed), a rejection, an effect (`Render`), the lookahead timer (`Flush`), the walk, and the ways an account changes: `Login` and `Logout`, which the page makes whatever it
shows by then, `LoginAnnounced` by the host, and a status that finds a session (`StatusFinds`) or another one, or none (`StatusChanges`).

**OscStudio.** `runs[r]` is one `runOnce`/`scheduleNext` chain: at its timeout, or in one of its awaits (the hardware
snapshot, the rate limit, the host). `current` is `autoRunIdRef`, `ref` the run whose timeout `autoTimerRef` holds. Time is
relative, in seconds: what is left of a delay, the phase within an interval, the time since the last chatbox message. Every
edit of cards and profiles is an action, with what it does to the loop, and what it leaves running.

**PreviewQueue.** A call goes from the page through the pool's queue (`fifo`, `Take`) to its handler. `RunPreview` joins the
promise of `m_previewShared` or makes one; `Submit`, `RunAbort`, `Pop`, `Begin`, `Extracted`, `ClearActive` are `TaskQueue`, one action per
section under its mutex; `Told` is `onDone`, which wakes every thread that waits for a promise. `Renew` is the hook's effect with the
cleanup of the last one. A promise is named by the call that owns it. The host's map is keyed by avatar, the queue's too.

## Runs

TLC explores each run completely. "Expected violation" runs check one property that a comment or document of the repository
states and that the code does not keep.

| Run | Checks | Bounds |
|---|---|---|
| `migrator_serial` | `TypeOK`, `CacheSurvives`, `BackupExplained`, `TargetsNeverShrink`, `DoneMeansServed`, `PageUnlocks` | 2 operations one after the other, 2 targets, 1 file, 1 file VRChat writes, unreadable directories |
| `migrator_overlap` | `NeverDescends` (violated) | 2 migrations that may overlap, 2 targets, 1 file, 1 file VRChat writes; every directory can be read |
| `migrator_unread` | `VerifyCatchesDropped` (violated) | as `migrator_serial` |
| `ipc_channel` | `SlotsMatchPromises`, `CountIsExact`, `NoHandlerAfterClose`, `ProgressBeforeAnswer`, `ImplementsContract`, `PromisesSettle`, `ShutdownCompletes` | 3 calls: slow and untimed, which posts up to 2 events, slow and in need of the UI thread, inline; 2 workers; any message may be dropped |
| `session_concurrent` | `TypeOK`, `TwoFactorNeedsAuth`, `StoresAgree`, `PageConverges`, `LiveKept` | 2 threads, every call, 1 session, 1 fault, 1 expiry, 1 restart |
| `pipeline_callers` | `TypeOK`, `OneWorker`, `StopJoins`, `ClosedOnce`, `StopReturns` | 2 pool threads, 2 workers, 2 connections, 3 toggles, 2 events on their way |
| `pipeline_terminates` | `NeverTerminates` (violated) | the same, 4 toggles |
| `logtailer` | `LiveIsExact`, `NoLineTwice`, `CatchesUp` | 2 logs, 4 lines, 1 rewrite, 2 starts, 1 fault; buffers and windows of 3 chunks, 1 line kept |
| `page_store` | `PendingIsLive`, `NoForeignAnswer`, `TilesAgree`, `ComesToRest` | each of the 3 caches, 2 keys, 2 tiles, 2 accounts and the guest, 3 calls at once, 3 acts, 1 rejection; room for 1 thumbnail, 2 assets or images |
| `osc_studio` | `TypeOK`, `NoTimerAdrift`, `StopIsHeard`, `AutoGoesOn` | a chatbox card with interval 1 under a limit of 2, a parameter card with interval 2; 2 profiles, 2 runs, 4 acts |
| `radar` | `RadarIsTrue` | the radar and the console dock, 1 player, 3 lines |
| `preview_queue` | `TypeOK`, `SharedIsServed`, `ShowsItsOwn`, `AttemptsEnd` | 2 avatars, 2 hooks, 3 calls, 2 threads, 3 acts, 1 rejected promise |

`migrator_serial`, `ipc_channel`, `session_concurrent`, `pipeline_callers`, `page_store`, `osc_studio`, `radar` and `preview_queue`
have 0.7, 0.2, 2.4, 0.3, 0.6, 0.4, 3.3 and 1.0 million distinct states.

### What the properties say

- *Migration.* One directory other than the backup holds, at every moment, all of the original cache that no iterator of a
  migration left out (`CacheSurvives`), so `execute` loses a file in no other way, and the advice to delete a leftover backup is
  as safe, after a crash too. What an iterator leaves out is lost with the backup: `migrator_unread`. A backup that is left was reported or is the trace of a
  crash (`BackupExplained`). Nothing in a target is ever deleted (`TargetsNeverShrink`). Success means that the cache's path
  is a junction to a target that holds all that was read (`DoneMeansServed`).
- *Channel.* A slot is in the table exactly while its promise is open; the task counter is exact, so its guard against
  underflow hides nothing; no handler runs once the database is closed; an answer never overtakes the progress of its own
  call: when it is heard each event was shown or dropped, and none is to come; the whole implements `CallContract`. Promises
  settle unless the page goes away or the answer of a call without a timer was dropped, and a destroyed window always leads
  to the end of the destructor: the wait for the pool is not a deadlock, even with a worker that waits for the UI thread.
- *Session.* No second-factor cookie without a session, in memory or on disk; memory equals what a restart would load except
  around a save or after a save that failed, across an exit at any step; a session VRChat honours, once memory and disk both hold
  it, is given up only by a logout, by a login or second factor that is stored, by an exit in the middle of a write, or by an
  "expired" that was about another session, or none, or came to a list before the second factor (`LiveKept`; `ClearsWhatExpired` below
  says that last way should not be there, which the code does not keep); and in the end the
  page is signed in exactly when the host holds a live session, in spite of stale answers and of those that were cancelled.
- *Push socket.* However many threads start and stop, a second worker lives only between its creation and the end of the
  process: none is ever kept (`OneWorker`). A `Stop` that reports outlives every worker but one a `Start` has just created
  and not stored. `Stop` returns or the process ends. No handle is closed twice, and none is left open as long as no two workers met.
- *Log.* What was delivered live plus the carry-over is byte for byte what lies between the start of the reading and the
  offset, cut at newlines. No line is delivered twice, except after an exception or when a rewrite falls between the first
  attach and its replay. After the last launch, rewrite and start the tailer reaches the end of the newest log.
- *Page caches.* A pending entry is that of a call in flight which will replace it: `needsFetch` would never ask again for one
  that is not. Nothing asked for before the last logout, expiry or switch of account is kept or shown (`NoForeignAnswer`): each
  of them cancels the calls in flight. A login cancels nothing; what was asked for by whom it replaced may come in
  (`left`, and `OwnAnswersOnly` below). A quiet page shows what its caches hold, and becomes quiet.
- *OSC Studio.* Each pending timeout belongs to the current run and is the one the next stop clears; a run that was stopped
  starts no further message, on any path through its awaits; the card that is shown as being sent comes up again and again.
- *Radar.* Once log, scan, stream and renders are quiet, the radar shows VRChat's instance and who is in it, if no line that
  matters fell between the parses and the attach, and in any case from the next instance on.
- *Previews.* Each entry of the map is that of a task to come, each such task has its entry, and each waiting thread waits for
  one: no thread of the pool is held for ever, which `AttemptsEnd` adds with fairness. A hook that is ready shows its own avatar.

### Bounds

Two operations, threads or callers are enough for every interleaving of two actors, which is what the hazards are about; a
third of the same kind only repeats the roles, but for two `Stop`s that join one thread. Two targets, accounts and logs let the
first meet the second; one session meets calls that found none, and its own second factor (the theorems on `Session` are for any
number). One file and one that VRChat adds let a copy be half done. Three chunks against lines of two make buffers and windows end inside a line and at its end. Faults,
expirations, restarts, toggles, starts, events and acts of the user are counters with a cap (`MaxFaults`, `MaxExpirations`, `MaxRestarts`,
`MaxToggles`, `MaxStarts`, `MaxEvents`, `MaxInbox`, `MaxLogs`, `MaxLines`, `MaxRewrites`,
`MaxActs`, `MaxLog`); each cap lets the bad thing happen
at any moment, and the proofs do without them. `MaxInbox` and Pipeline's `MaxEvents` hold the sender back when the page is
that far behind; they bound the queue of messages, which the code does not, so an answer is at most that old relative to the
ones behind it. Slots bound what is in flight at once: `MaxOpen`
calls of a cache, `MaxRuns` runs of the studio (the current one and one in an await), `Calls` of the preview queue (a request of
either hook and the abort between them). `Workers` of 2 let a `Start` create a second one. With `Threads` of 2 both hooks' requests can hold the whole pool in front of one worker,
with the abort that would free them behind. `MaxEntries` of 1 makes every answer evict, of 2 lets a cache be full with both keys in use; with
less room than hooks, two tiles of the asset or image cache evict and ask for each other's entry for ever, which takes more than 4000 hooks in
the code and is left out. `BatchSize` of 1 makes the lookahead queue take two timers. `MaxProfiles` of 2 lets the loop cross
from one to another. Each page of `LogStream` starts and stops once. Symmetry is used only where no liveness is checked. Deadlock checking is off where the system may really
stop: the closed host, a process that ended, a tailer that was stopped, a pipeline after its last toggle, a
page on which nobody does anything more.

### Fairness

- `Migrator`: weak fairness of a run's steps: a worker thread of the host goes on with its handler; and of `CleanupDone`,
  because the listing of a directory that is being emptied ends. Nothing is assumed of VRChat or the user.
- `IpcChannel`: weak fairness of the page's timers, of its and the UI thread's message loops, the pool and the destructor; strong fairness
  of `PostAnswer`, because a handler that is served by the UI thread again and again still ends. Nobody must quit.
- `Session`: weak fairness of each thread's steps and of the page's handling; strong fairness of the status poll, which a
  visible window makes every 30 s and which the first-in-first-out pool takes in the end. Faults need not happen, VRChat's
  answer or a timeout must.
- `Pipeline`: weak fairness of callers and of workers, except for the receipt of a frame and the end of a wait: `StopReturns`
  must hold when the server is silent.
- `LogTailer`: weak fairness of the poll, once a second. VRChat may stop writing at any moment.
- `PageStore`: weak fairness of effects, timers and continuations, which the event loop runs, and of the end of each call, which
  is `PromisesSettle` of `IpcChannel`. Rejections of asset and image calls come to an end (`MaxFaults`).
- `OscStudio`: weak fairness of time and of each run: timers fire and every call settles. Nothing is assumed of the user.
- `PreviewQueue`: weak fairness of the page's messages and timers, the handlers, the pool and the worker; an extraction ends, with
  a preview or a failure. The pool is first in, first out, so no strong fairness is needed.
- `Radar` states safety only and needs none.

## What the code does not keep

Three runs find what "findings" quotes.

- `migrator_overlap`: `removeTreeNoFollow` opens its top directory through a junction. A second migration of the same cache, which a
  page that was left and opened again lets the user start, renames the first one's junction to the backup name, and its cleanup
  empties the first one's target.
- `migrator_unread`: a source that cannot be opened gives a copy of nothing and no error; the comparison of 0 with 0 lets it pass, and
  what is in the backup is deleted at the end. In `migrator_overlap` directories can be read, so that the two do not mix.
- `pipeline_terminates`: `Stop` clears `m_running` before it joins; a `Start` on another pool thread then creates a worker and assigns
  it over a joinable `std::thread`.

The following are stated in the modules as properties that the code does not keep. No run lists them; adding the name to the
configuration named here shows the trace.

| Property | Configuration | What happens |
|---|---|---|
| `Migrator!WritesSurvive` | `Migrator_serial.cfg` | a file VRChat writes during a migration is deleted with the backup |
| `Migrator!FailedJunctionLeavesNothing` | `Migrator_serial.cfg` | a failed open leaves the empty directory |
| `IpcChannel!PromisesAlwaysSettle` | `IpcChannel.cfg` | the answer of a call without a timer is dropped by `PostMessageW`: its promise stays open |
| `Session!ClearsWhatExpired` | `Session_concurrent.cfg`, `MCTwoSessions` | a check that found no cookie, or whose 401 is for an older session, clears the one a login stored meanwhile |
| `Session!LoginPersists` | the same | a load between `SetCookies` and `Save` empties memory, and the empty pair is saved |
| `Session!TwoFactorMatches` | the same | cookies of two sessions in one pair |
| `Pipeline!WaitsRespected` | `Pipeline_callers.cfg` | a stale wake flag skips the first wait |
| `Pipeline!FollowsAuth` | `Pipeline_callers.cfg` | a start and a stop are taken in the other order |
| `PageStore!OwnAnswersOnly` | `PageStore.cfg` | a status shows one account's session while another one's login is in flight; the login resets the caches and cancels nothing, and the first one's answers fill them (`cache-ownership.ts:68`) |
| `LogTailer!NeverAFragment` | `LogTailer.cfg` | a line half written at the attach is delivered as its second half |
| `Radar!RadarAlwaysTrue` | `Radar.cfg` | a line that falls between the scan and the attach is never told to the page |
| `Radar!NoGhost` | `Radar.cfg`, `MaxLog` 4 | the tailer ended under the page and a join was lost; an avatar switch then meets a `left` that React has not run, and brings the player back without a name (`RadarEngine.tsx:395`) |
| `Radar!EverythingRecorded` | `Radar.cfg` | the events of lines between the parse and the attach, or of all before it if the parse throws, are not in the database (`LogsBridge.cpp:364`) |
| `PreviewQueue!CancelIsTold` | `PreviewQueue.cfg` | an extraction that is cancelled once it runs is answered "preview_failed" (`AvatarPreview.cpp:47` says "cancelled") |

What was seen besides while modelling: a card captured before an await is sent after it was removed (`useOscStudio.ts:544`);
a stop and a start during a send in flight may send twice within two seconds; `addProfile` leaves the loop running on the card of the same
id in the new profile; assets and images are asked for again at once after every rejection; an answer to a thumbnail's own call does
not wake the other tiles of its key; `onDone` answers every failure of an extraction as "preview_failed" (`ApiBridge.cpp:1157`), so the
second attempt that `useAvatarPreview.ts:140` makes after a transient code is never made.

## Proofs

TLAPS checks these for every value of the constants, under the named assumption of each module (`MigratorAssumption`: path
names differ, the file sets are finite and the cache is not empty; `SessionAssumption`: the empty string is no session;
`PipelineAssumption`: nothing is neither a thread nor a socket; `IpcAssumption`: finitely many calls, and only methods of the
pool wait for the UI thread; `PageStoreAssumption`: the guest is no account, and caches hold something; `OscStudioAssumption`:
intervals are positive, the defaults are not empty; `PreviewAssumption`: nobody is neither a call nor an avatar, there are finitely many
calls and at least one thread; `LogTailerAssumption`: the bounds are numbers, the buffers are not empty;
`RadarAssumption`: the radar is one of the pages).

| Theorem | Says |
|---|---|
| `MigratorProofs!TypeCorrect` | `[]TypeOK`, for any number of operations, overlapping or not |
| `MigratorProofs!CacheIsSafe` | `OneAtATime => []CacheSurvives`, whatever directories are unreadable |
| `MigratorProofs!TargetsAreSafe` | `OneAtATime => TargetsNeverShrink` |
| `MigratorProofs!DoneAlwaysServed` | `OneAtATime => DoneMeansServed` |
| `MigratorProofs!BackupAlwaysExplained` | `[]BackupExplained`, for any number of operations, overlapping or not |
| `IpcChannelProofs!ChannelImplementsContract` | `ImplementsContract` |
| `IpcChannelProofs!SlotsAlwaysMatch` | `[]SlotsMatchPromises` |
| `IpcChannelProofs!CountAlwaysExact` | `[]CountIsExact` |
| `IpcChannelProofs!NothingRunsAfterClose` | `[]NoHandlerAfterClose` |
| `IpcChannelProofs!ProgressAlwaysBeforeAnswer` | `[]ProgressBeforeAnswer` |
| `IpcChannelProofs!ChannelTypes` | `[]TypeOK` |
| `PipelineProofs!PipelineTypes` | `[]TypeOK` |
| `PipelineProofs!OneWorkerAlways` | `[]OneWorker` |
| `PipelineProofs!StopJoinsAlways` | `StopJoins` |
| `PipelineProofs!ClosedOnceAlways` | `[]ClosedOnce` |
| `SessionProofs!SessionTypes` | `[]TypeOK` |
| `SessionProofs!PairsStayWhole` | `[]TwoFactorNeedsAuth` |
| `SessionProofs!StoresAlwaysAgree` | `[]StoresAgree` |
| `SessionProofs!LiveSessionsAreKept` | `LiveKept`, for any number of threads |
| `LogProofs!TailerTypes` | `[]TailerTypeOK` |
| `LogProofs!LiveIsAlwaysExact` | `[]LiveIsExact` |
| `LogProofs!NeverALineTwice` | `[]NoLineTwice` |
| `LogProofs!RadarStaysTrue` | `[]RadarIsTrue`, for any number of players, pages and lines |
| `PageStoreProofs!PendingAlwaysLive` | `[]PendingIsLive` |
| `PageStoreProofs!NothingForeign` | `[]NoForeignAnswer` |
| `PageStoreProofs!TilesAlwaysAgree` | `[]TilesAgree` |
| `OscStudioProofs!StudioTypes` | `[]TypeOK` |
| `OscStudioProofs!NoTimerEverAdrift` | `[]NoTimerAdrift` |
| `OscStudioProofs!StopIsAlwaysHeard` | `StopIsHeard` |
| `PreviewQueueProofs!PreviewTypes` | `[]TypeOK` |
| `PreviewQueueProofs!SharedAlwaysServed` | `[]SharedIsServed` |
| `PreviewQueueProofs!ShowsOnlyItsOwn` | `[]ShowsItsOwn` |

*Migrator.* `TypeOK` is not inductive: that `copy` writes into a directory needs more. `TypeInv` adds that every run that was
started has a target, that a target is never a junction, and that it is made before the copy opens the source.
`CacheSurvives` needs the history of the one active run, which `SafeInv` gives step by step: at most one run is active
(`Solo`); the backup is a plain directory, the source is no junction from `execute` to the swap, what the run has seen is
stored in its target, what it will copy covers what is kept of the cache or some target already holds it all, and from the comparison of
`Verify` on some target is whole. The lemmas follow the file: first what each constructor and step does to the tree
(`NodeShape`, `CopyTree`, `RunTree`, ...), then to the control of a run, then the invariant, one lemma per part and one step
per action. `TargetsNeverShrink` follows from the same invariant: the only action that deletes files works on the backup,
which under it is a plain directory. `OneAtATime` is needed: `migrator_overlap` shows what happens without it.
`DoneMeansServed` adds to `SafeInv` what a run keeps to its end: what it copied is in its target (`SeenKept`), and the junction it
made stands (`Linked`). `BackupExplained` needs no such assumption, because it follows from `BackupHeld`, of the tree and not of
one run: while a backup exists, some run is where it may still restore, clean up or report it, or one has reported it, or VRCSM
was killed; that results are final and that a repair visits only its own steps make it inductive.

*Session.* `StoresAgree` and `TwoFactorNeedsAuth` are not inductive because they say nothing of the pairs that calls carry
between their steps. `Settled` adds `WholePairs`: memory, disk and every pair that a call carries have no second-factor
cookie without a session cookie. The types have one lemma per action, the invariant one per kind of step: those that leave
the stores alone, and `LoadFile`, `SetCookies`, `Save`, `Clear` and `Restart`. `LiveKept` needs no assumption on the threads. Its invariant `Truthful`
says what the threads know: every session cookie in memory, on disk or in a call is of a session VRChat once opened, and a status check that
was told "expired" had no session or one that is dead, because what is dead stays dead. So a `Clear` that gives up a live session
was told of another one, or was a list's, which is what `Overtaken` says; `LoadFile` and `Save` change nothing while memory and
file agree.

*Push socket.* `OneWorker` and `StopJoins` follow from `Stored`: a worker that lives is the one in `m_worker` or one that a
`Start` has created and not stored, because `Assign` stores into an empty object only, and `Stop` empties it only after the join; over
a full one the process ends, which `NeverTerminates` says should not happen and these two do not. `ClosedOnce` needs
to know where a handle can be. `Owned` in `SocketInv` holds for any number of workers: a handle in the slot is open, what
a `Stop` took is open, its own, and not in the slot any more, and a worker that has not published its handle yet is the only one to have
it. The rest of `SocketInv` is for the time before two workers met: an open handle that was published is in the slot or taken, and
nobody's handle is open elsewhere; a second worker that connects would push the first one's out of the slot. Most steps touch none of
this (`QuietStep`); those that do have a lemma each.

*Channel.* `Types` is `TypeOK` without the counts of events, and with the fact that the host knows only calls the page made.
`CountIsExact` is inductive with it: the decrement is guarded by a counter that is positive because the task is counted.
`NoHandlerAfterClose` needs `Shutdown`: no inline handler runs once the window is gone, because the UI thread destroyed it.
The refinement needs that the page's table is exact and `AnswersHonest`: an answer in either queue belongs to a handler that
ran. `ContractStep` then maps `Call` to `Issue`, `PostAnswer` to `RunHandler`, `HandleMessage` to `Answer` or a stutter answer that comes too late), `Timeout` and `CancelAll` to `GiveUp`, and everything else to a stutter. `ProgressBeforeAnswer` is
about one moment and needs `InOrder`, about all before it: `Conserved` counts the events of a call in both queues (posted = shown +
lost + on their way, while there is a window), `AnswersLast` says that behind an answer, and in the queue that feeds its queue, there is
no event of its call, and `Settled` that none is left once it was heard. `Conserved` is also what the bound on `shown` in `TypeOK` takes.

*Page caches.* Both theorems come from one invariant. `PendingIsLive` is inductive with the types: whatever deletes the entry of a
newer call, nothing leaves one behind whose call is over. `NoForeignAnswer` needs the whole way of an answer: `CallsOurs` (a call in
flight was made by the account the page shows, or by one that a login has replaced since calls were last cancelled), `EntriesOurs`, `TilesOurs`, and `OffIsBlank` for
hooks that are not mounted. The invariant needs no type of `order`, and `TypeOK` as a whole is not proved because `order` is a `SelectSeq`.
`TilesAgree` speaks of a page at rest; its invariant `Agrees` drops that condition and says of every hook that has run
since the last wake-up that it shows its entry. An entry may unseen stop being an answer (`NoNewAnswer`); it becomes one, or
another one, only in a step that wakes every hook.

*Log tailer.* `Cut` and `FlattenSeq` are folds, so the module begins with induction: `<` is well-founded on `Nat`, hence a set that
contains 0 and the successor of each member contains every number, and one that is closed under `Append` every sequence
(`InductionOnNat`, `InductionOnSeq`; sets, where the library has predicates). From it follow `CutIs`, `CutAppend`, `CutProperties`:
the lines and the carry-over of a buffer, put together, are the buffer; each line ends with its only newline; and what is cut in
two reads is what would be cut in one. `ReadDelivers` and `BackfillDelivers` say the same of the two actions. `LiveIsExact` is then
inductive as `Exact`, with `Typed`: the cursor lies inside a file that was not rewritten, and the history variables inside
what was delivered. `NoLineTwice` speaks of what was delivered and so needs to know what will be. `Ordered` says that VRChat
finishes its lines in one order over all its logs, so that a line lies in one place; `Delivered` that the lines delivered are in that
order and come before all that is still to be read: behind `offset` in the file, in the whole file when it has become shorter than
`offset`, and in every later log. A rewrite may repeat lines of the replay, which is why both say of a replaced file that replay
and live reading are each in order.

*Radar.* `RadarIsTrue` speaks of a page at rest, and is proved, in `LogProofs` beside the tailer, from what is true on the way
there. `HostKnows` is about the host: who parses does so alone, and takes its instance from what it parsed; from the next line that
enters one, or if none was missed, the instance it sends with an event is that of the line. `OnItsWay` is about the page, and
says two things of some line `m` between the attach and what the tailer has read: the events not yet processed, in the
queue of the scan and then in the inbox, end with exactly those of the lines behind `m`, in order (`Backlog`; what is before
them comes from a tailer that ended); and what React will show, once it has run what it was handed (`ComesTo`), is what the
log says, except for whom a later line mentions (`Heads`). So a join that scan and stream both tell does no harm. `NextEvent` is the heart: processing one event
goes from `m` to `m + 1`, and an old event does no harm: the events of the present tailer are then all still to come, among them the line that enters
the instance the property is about, and it empties the room. `HydratedHeads` gives `Heads` when the scan answers; `Answering` goes through its
queue by induction on its length, and `LastDecides` is what links the log to a player. `Render` and `ScanAnswers` are folds, for which `FoldIs`
gives the steps.

*OSC Studio.* The types and `NoTimerAdrift` are inductive together; the types carry that the active profile is one of the
profiles and that a phase stays below its interval, which `%` and the deletion of a profile put at stake. `StopIsHeard`
follows step by step: a run gets to its message only from an action that asked whether it is current.

*Previews.* `SharedIsServed` says nothing of the avatars of the tasks, of which the map is keyed. `Promises` adds that the tasks
that are queued or run are waited for by their own request, each once (`TasksOk`, `WorkerOk`), that an owner has named its
promise (`OwnOk`) and that each entry is about its avatar (`EntriesOk`). From that follows that `Submit` finds no other task for
its avatar, the case in which `TaskQueue` would cancel one. `PromiseEnds` is the common part of every `onDone`; `QuietStep`, `HostStep`
and `HookStep` say what the other steps leave alone. `ShowsItsOwn` needs `LiveOk`: a call that is not cancelled is about the
avatar its hook shows. `FifoOk` and `BusyOk` (each call is in the pool's queue once; no more are busy than there are threads) are for the types.

Only model-checked: every liveness property with the fairness it rests on, which is out of reach of the installed provers
(`PageUnlocks`, `PromisesSettle`, `ShutdownCompletes`, `PageConverges`, `StopReturns`, `CatchesUp`, `ComesToRest`, `AutoGoesOn`,
`AttemptsEnd`). Every safety property that a passing run lists is proved. `LogStream`, `Radar` and
`PageStore` state a `TypeOK` or `HostTypeOK` that documents their state, that no run lists and that is not proved.

## Not modelled

The components with status `not_modelled`, for the reasons given there: pure functions of data, output without an answer,
layout, or planned below. They are by far the larger part of the lines, since most of VRCSM parses, queries and displays.
Within the modelled components:

- *Channel*: the origin checks and the routing of plugin frames; the content of messages.
- *Session*: two accounts (the account switch of `commitStatus`, which is in `PageStore`).
- *Push socket*: three threads of the pool inside one `Pipeline`, and what goes on inside one that was replaced.
- *Migration*: the classification of paths by the preflight; attribute queries that fail.
- *Log*: the 1 MiB cap of the tailer's carry-over; two VRChat clients that write two logs in turn.
- *Log stream and radar*: the timeline, the counters, the history of players who left, names that are not unique; an instance
  that is entered twice under one name (an event of the first visit could then pass for one of the second).
- *Page caches*: hints and forced refreshes, the split of more than 64 images, ids the caches do not support, and React Query,
  which the reset clears as well.
- *OSC Studio*: manual sends, the listener, the order, import and export of cards, what `localStorage` fails to keep, and what a template renders.
- *Previews*: the frame that React renders between a new avatar and its effect; the extraction, its progress, the files' retain and release, and the prefetch, which no page calls. A request that joins a
  promise does not look at the URL it was made for.
- *Database*: the SQL.

## Plan

In this order; each module is written to be proved about (no recursive operators, constants with assumptions).

1. `Workers`: the start/stop/self-end protocol of `OscBridge` (the listener that cannot bind ends by itself, line 438), `DiscordRpc`
   (`Stop` races `Start`, line 165), `ScreenshotWatcher` (two starts, line 79), `ProcessGuard` (the stop flag, line 97), `CacheIndex` (the
   join, line 169) and the factory reset, with an abstract `OneThread` specification that `Pipeline` should implement as well.
2. `Updater`: download, resume, replace, install; two calls at once; crash between steps (`WebViewHost.cpp:674`: `update.install`
   runs on a pool thread, where `DestroyWindow` fails). `AtomicSave` for the `.tmp`/rename protocol of the four stores
   (`VrcConfig.cpp:119`), against an abstract "old or new, never neither"; with it a `session.dat` that cannot be deleted (`AuthStore.cpp:230`).
3. `RateLimiter` (`RateLimiter.cpp:70`: several waiters take one token) and `ApiThrottle` over discrete time: requests in
   any window of 60 s, and progress of every waiter.
4. `FriendsSync` (`useFriendsPipelineSync.ts:189`), composed with the order of `Pipeline` events and `IpcChannel` answers.
   `InviteAssist`. `Plugins`.
5. Proofs: `HostTypeOK` and `Radar!TypeOK`, with the count of pages behind `refs`; the types of `order` in `PageStore`.
