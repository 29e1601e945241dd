# dd_ftp in TLA+

dd_ftp is a two-pane terminal client for SFTP, FTP and FTPS written in Rust. These modules model its core logic. Paths below are relative to the repository's `crates/`.

## Inventory

| Component | Source | State | Operations |
|---|---|---|---|
| Transfer queue | `dd_ftp_transfer/src/queue.rs` | five job lists, progress samples | enqueue, start, mark, retry, remove, clear, progress |
| Transfer workers | `dd_ftp_cli/src/workers.rs`, `main.rs` | worker counter, cancel flags, session pool, tokio tasks, worker channel | spawn, transfer, report, apply report, cancel |
| UI session | `dd_ftp_cli/src/session.rs` | generation, `in_flight`, `handle`, `park`, IO channel, prompt | connect, host-key answer, list, file operation, disconnect |
| Delete queue | `dd_ftp_cli/src/fs_ops.rs`, `session.rs`, `workers.rs` | `pending_delete` | ask, confirm, start next, finish, source of a move |
| Scan and drain | `dd_ftp_cli/src/session.rs` | `pending_scan`, `mkdir_queue`, overwrite policy, drain flags | scan, list destination, resolve conflict, make folders, park, resume |
| Remote edit | `dd_ftp_cli/src/session.rs`, `edit.rs` | `edit_session`, `editor_ready`, `edit_check_remote` | download, edit, recheck, upload, cancel |
| Keys, prompts, mouse | `dd_ftp_cli/src/events.rs`, `mouse.rs` | one prompt slot, dialogs, the regions of the last frame, the last click | find the dialog a key or click belongs to, translate it to the operations above |
| App state | `dd_ftp_app/src/` | entries, filter, sort, marks, selection of each pane, cache of the visible rows, highlight of the queue, forms, text fields | reduce one action |
| SFTP session | `dd_ftp_protocols/src/sftp.rs` | connection, known hosts file | connect and verify host key, list, transfer, file operations |
| FTP session | `dd_ftp_ftp/src/lib.rs` | control connection, working directory | the same over FTP and FTPS, listing parser |
| Storage | `dd_ftp_storage/src/`, `dd_ftp_cli/src/bookmarks.rs` | bookmarks, config, keyring | load, save, make default, remove |
| Painter and theme | `dd_ftp_ui/`, `ldnddev_theme/` | scroll offsets, regions, the palette in use, the desktop theme's stamp | paint, preview, save, follow |

**How they interact.** One thread runs the event loop (`main.rs`, `run`). At its top it starts workers, then it waits, in this order of preference, for a terminal event, a worker message, a session message or a tick, handles every waiting one of that kind, and starts over. Work that blocks runs in tokio tasks: a task per worker, one for the UI session's operation in flight, one per folder scan and per local listing. Tasks answer over two unbounded channels. Shared memory is limited to the cancel flags (`AtomicBool`) and the park slot (`Mutex`), in which a task leaves the UI session's connection behind for the event loop. A generation number, advanced by connects and disconnects, marks every message; messages of older generations are ignored.

**What is hard.** Tasks of an old generation are not waited for: they go on beside the new ones and share the channel, the park slot and the user's server with them. Cancel flags are read at four places of a task. `in_flight`, `pending_delete`, `pending_scan`, the prompt slot and the edit session are each advanced from several handlers, which rely on each other to take up what was left. Rows are numbers while listings, jobs and filters change what is in them; clicks are read against the last frame; forms hold copies of what they edit; files are written in place and read again by the next command; and an FTP control connection remembers where the last job left it. `PROJECT.json` lists the single hazards.

## Modules

| Module | Models | Role |
|---|---|---|
| `TransferQueue` | `queue.rs` | the lists and their operations, and the queue on its own |
| `JobLifecycle` | | abstract: what users may rely on about jobs and servers |
| `WorkerPool` | `workers.rs`, `run`, `apply_worker_message`, connect and disconnect in `session.rs` | extends `TransferQueue`; implements `JobLifecycle` |
| `UiSession` | connect, listing, file operation and disconnect in `session.rs`, host keys in `sftp.rs` | implements `ConnectionLife` |
| `ConnectionLife` | | abstract: which connection the user gets |
| `DeleteQueue` | deletes in `fs_ops.rs`, `session.rs`, `events.rs`; moves in `workers.rs` | extends `UiSession` |
| `OverwriteRules` | `resolve_conflict`, `drain_step`, `uniquify_filename`, `remote_mkdir_chain` | operators |
| `Drain` | scan, drain, overwrite prompt, retry and Ctrl+C in `session.rs`, `events.rs` | extends `UiSession`, `OverwriteRules`; implements `BatchLife` |
| `BatchLife` | | abstract: what becomes of the files asked for |
| `RemoteEdit` | `edit.rs`, the edit's handlers in `session.rs`, `run` | extends `OverwriteRules` |
| `TextField` | `text_field.rs` | one field under every edit |
| `QueuePane` | the queue's rows and keys in `state.rs`, `reducer.rs`, `events.rs` | extends `TransferQueue` |
| `Panes` | a file pane in `state.rs`, `reducer.rs`, its keys and listings | |
| `RowMoves` | steps, pages, wheel, scrollbar and pointer rows | operators for `ListView`, `ConnectForm` |
| `ListView` | frames and clicks of a list in `mouse.rs`, `render.rs` | |
| `Overlays` | the dialog flags in `state.rs`, `reducer.rs` | operators for `Dialogs` |
| `Dialogs` | `handle_key`, and the clicks of `mouse.rs` that open or close something | extends `Overlays` |
| `ConnectForm` | quick-connect form and SSH key picker | |
| `SettingsForm` | settings dialog, `app_config.rs` | |
| `Bookmarks` | `bookmarks.rs`, `site_manager.rs`, keyring | |
| `ThemeDialog` | `theme.rs`, `ldnddev_theme`, F2 | |
| `FtpTransfers` | `dd_ftp_ftp/src/lib.rs` over async_ftp, `run_pooled_job` | |
| `SequenceFacts` | | lemmas on the elements of sequences, which the library does not state |
| `TransferQueueProofs`, `WorkerPoolProofs`, `UiSessionProofs`, `DeleteQueueProofs`, `DrainProofs` | | theorems about the module each is named after |
| `ScreenProofs` | | theorems about `TextField`, `QueuePane`, `Panes`, `ListView` with `RowMoves` |
| `ComponentProofs` | | theorems about `FtpTransfers`, `RemoteEdit`, `Dialogs`, `ConnectForm`, `SettingsForm`, `Bookmarks` and `ThemeDialog`, which share nothing |
| `MCWorkerPool`, `MCUiSession`, `MCDeleteQueue`, `MCDrain`, `MCRemoteEdit`, `MCScreen`, `MCDialogs` | | instances for TLC |

Mutants stand beside the definitions they break, marked as such; no action uses them.

### TransferQueue

`pending` and `failed` are sequences because their order decides what starts and what is retried; `active`, `completed` and `cancelled` are sets. Ids are drawn fresh (`issued`); a retry keeps the id. The two maps of the speed display are their key sets. Bytes, clocks and the arithmetic of speeds are left out.

### WorkerPool

The event loop is the variable `phase`: `top` (starting workers), `select` (waiting), or the kind of message whose batch it is working off. A handler is one step, because it runs to its end on one thread. A worker task is a slot `t` with a program counter; each of its steps reads the shared cancel flag at most once: `connect`, `transfer`, `close` (the copy loop has read the flag for the last time), `failed`, `reconnect`, `settle` (keep the session for the pool or not), `report`, `sent`. A message keeps its fields in the task's record until it is read. `home` is a history variable: the server a job was last queued or retried for.

Sources of jobs (scan, overwrite prompt, edit) are reduced to the jobs they queue: `RequestTransfer`, `DrainEnqueue`, `EditDownload`, `EditUpload`. The last two of these answer a request made since the last connect (`requested`), since a disconnect drops scans and edits.

`JobLifecycle` is what remains when queue, channel, tasks and generations are forgotten: jobs go from pending to active to completed, failed or cancelled; failed ones may wait again; active ones run on the server in use, no more of them than the limit; leaving the server cancels the active and removes the waiting. `ImplementsLifecycle` checks the refinement.

### UiSession

A session is named by the generation that opened it (0 is none), so that `handle` and `park` show whose session they hold. `in_flight` is the code's `InFlight`: what is awaited, from which generation, and for `HostKey` where the answer goes. A task is a slot with a program counter: `work`; for a connect `asked`, `accepted` and `login`; for a listing or file operation `park` (put the session down); then `report` and `sent`. The message keeps its fields in the task's record until it is read.

`connect_off_thread` over a live connection is one step, the disconnect included, as in the code. Of the prompts only the question about the host key is told apart: a challenge takes the place of any other prompt. A connect cannot be abandoned (a disconnect needs a connection, a connect an idle session), so the code's branches for the report or the challenge of an abandoned connect are never taken; `HostKeyChallenge` keeps its branch, `ExpectsConnect` is a guard. Listings of the local pane run in tasks of their own and touch nothing of this.

History variables: `wanted` (the server of the last connect), `approved` (servers whose key was known at the start or accepted), `clean` (at the last connect no listing or file operation was running).

`ConnectionLife` says that a connection is asked for, then made to the server asked for or given up, and lasts until it is dropped; `status` and `server` are read off `connected`, `in_flight`, `active_connection` and `wanted`.

### DeleteQueue

`pending_delete` is filled when the question opens; `y` starts its head; each report starts the next. `MaybeResume`, `StartNextDelete` and `Relists` are the three things a handler does with the session it just got back. A finished move appends its source. `transfers` and `moving` stand for the worker pool: a move ends well, fails and may be retried, or is cut by Ctrl+C or a disconnect. History: `word` (asked, confirmed, declined or move), `home` (the server where the user pointed at the entry), `gone`.

No folder scan or upload drain is under way, since `maybe_resume_drain` and `FsDone` serve them first. Bounds: an entry is deleted or moved, not both at a time; what is gone is not listed again; `MayCancel` says whether Ctrl+C is pressed.

### OverwriteRules and Drain

`OverwriteRules` holds the pure decisions: a name is a sequence (`<<"a", 1>>` for `a-1.txt`), times are numbers or unknown. `Uniquify` is stated as the least free number, which is what the code's loop finds, up to `MaxSuffix` (9999 in the code).

`Drain` follows a file from the request to the queue: a scan task with its generation, `pending_scan`, the listing of an upload's folder (`drain_list`), the folders that are made one by one (`mkdir_queue`, `drain_mkdir`), the overwrite prompt with its answers for one file and for the rest, Ctrl+C, retries and the deletes of moved sources. `maybe_resume_drain` is part of every handler that calls it. `RequestQuit` is Ctrl+Q over the question for a new name, where the question about transfers takes its place. History: `fate` says what became of each file and why (free, allowed, renamed, skipped, parked unlooked-at, queued over a folder that could not be listed, dropped, transferred).

`BatchLife` is what the user is promised when scan, tasks, listings, prompts, policy and cancel flag are forgotten: a batch is asked for when nothing of an earlier one is open; its files are found one by one and stand in one line; they are decided from the front of this line only, each once and for good (clear, overwritten on somebody's word, queued unseen, left); all that is open can be queued unseen or given up at once, but not some of it out of turn; a file found clear has no name that was taken; and only what is queued is transferred, while connected. `Meaning` maps the fates of `Drain` to these; `ImplementsBatch` checks the refinement. The scanned files that are still on their way are `open` and not yet in `line`.

### RemoteEdit

From E to the end of the upload: `edit_session`, `editor_ready`, `edit_check_remote`, the two jobs with their ends (done, failed, cancelled, retried, removed), the four prompts. While the editor runs the event loop does not; its run is one step. Content is told apart as none, partial, downloaded and the user's own. History: `work` (what became of the user's changes), `closed` (the remote time at the end of the editor), `crossed` (an edit began over a job of an earlier one).

### Screen

`Panes` is one pane, local or remote, which share their code up to the way of listing. `cwd` is the folder the pane says, `shown` the one its entries are from. `cache` keeps rows with the key they were computed under; `buffer` stands for the address of the entries that is part of this key. A local listing runs in a task of its own, a remote one waits for the session; either may be late or fail. `Users` bounds which kinds of activity meet in one behaviour.

`QueuePane` keeps the highlight as the code does, a row number, while jobs move. Several changes do not look for the highlighted job again (below); `HighlightFollowsJob` is about the others.

`ListView` separates the frame drawn last (`first_shown`) from the rows there are now, because a burst of events is handled before the next frame. `RowMoves` holds the arithmetic, shared by all lists.

### Dialogs, forms and files

`Dialogs` keeps the flags that are up as a set (`Overlays`), the prompt, and the regions of the last frame. A key goes to the first of the code's tests that holds; tasks put up prompts at any time. `ConnectForm` keeps the edited copy `qc_field` apart from `quick_connect`, and lists folders for the key picker on a disk that changes.

`SettingsForm` and `Bookmarks` separate what is shown, what is in use and what is in the file. A write happens, or fails: then it leaves the file as it was, empty, with some of its lines, with a torn line, or complete but for its mode (`write_private`); the keyring may fail; `Restart` reads back. Of these files only the one with a torn line is an error to the next start; from the others it reads what is there and takes the rest at its default (`Lines`), although the program that saved reported a failure and went on as it was (`unsaved` remembers what it tried).

`ThemeDialog` has the theme painted, the file it is saved in, the desktop's theme with its stamp, and the preview. A theme is its link, the colours it starts from, one colour changed by hand, and whether active labels have a colour of their own (`text_labels_active`). This one a file may set, and a theme that is loaded has it; the palettes of the dialog do not (`palette_from_theme`), and what is painted from a palette has the focus colour in its place (`apply_palette`).

### FtpTransfers

A control connection is its working directory and the replies the server has sent but nobody has read; every command reads the oldest, so that one left behind shifts all that follow. A worker goes through connect, CWD, SIZE/PASV/STOR or RETR, copy, last reply, retry and settling with the pool; the panes' session lists, makes, renames and removes beside it, while others change the tree.

A listing, and the creation of an empty file, is an exchange of CWD, PASV and LIST or STOR with four reads (`Exchange`): each comes to pass only if the reply before it was the awaited one (`Awaited`), whoever's it was. The server answers to LIST what it will, whether the client hears it or not (`Transferred`): that there is no data connection, at once or after the transfer was announced, or that it is done. `request_list` drops a listing after 30 seconds at whichever read it is, and keeps the session (`list_dir`, `Dropped`): up to three replies stay unread, one of them perhaps cut, and more with every listing after it. A data connection that cannot be opened does the same. A listing with replies unread may use the data connection of an earlier LIST, so its entries may be of any folder (`of`); `behind` counts what was unread when it began.

Abstraction: after a broken-off transfer the server sends one final reply; upload and download differ in nothing that matters here.

## Runs

| Run | Instance | Shows |
|---|---|---|
| `worker_pool` | 2 jobs, 2 tasks, 2 servers, limit 2, 3 generations | the books, the pool and the flags agree with the tasks whatever old tasks do; refinement of `JobLifecycle` |
| `worker_pool_liveness` | 2 jobs, 2 tasks, 1 server, limit 1, 2 generations, progress messages | started jobs end, waiting jobs start, old tasks end, a cancel before the report is final; the inductive invariant of the proofs holds, with samples that come late |
| `ui_session` | 3 tasks, an SFTP and an FTP server, 3 generations | what is in flight has exactly one task to answer it, and ends or is a question; questions about keys can be answered and no key is trusted unasked; the session comes back; refinement of `ConnectionLife` |
| `delete_queue` | a remote and a local entry, 2 tasks, 2 generations | no entry is queued twice; what was declined is not deleted; deletes in flight are answered; while nothing is cancelled a confirmed delete leaves the queue |
| `delete_unconfirmed` | 1 local entry | violated: a report that arrives while the question is open starts the delete |
| `delete_other_server` | 1 remote entry, 2 servers | violated: the queue survives a disconnect |
| `drain` | a download (or move), an upload, an upload in a folder; 2 generations | no file is lost on the way; a listing, a folder's report and an answer are taken for the file they are about; nothing is queued over what was there without a word of the user or the policy, apart from what Ctrl+C parked and what goes to a folder that could not be listed; skipped is final; refinement of `BatchLife`; the drain ends unless a question is open or a cancel holds it |
| `drain_unchecked` | the same | violated: what Ctrl+C parks is queued without a look at its destination, and a retry overwrites |
| `remote_edit` | 1 path, 3 jobs, 2 changes by others | the user's changes stay on disk until uploaded; the editor opens what was downloaded; a check answers the edit that asked; a checked upload covers no change; the edit ends or asks |
| `edit_unchecked` | the same, 2 jobs | violated: with a busy session or a failed listing the upload goes unchecked |
| `screen` | a text of 3 characters; a queue of 3 jobs; a pane of 3 names in 2 folders; a list of up to 7 rows in a frame of 5 | one part per behaviour: cursor and edits stay in the text; highlight, selection and marks follow what they were on; rows are those of the present filter, sort and folder; pages and scrollbar cover the list; two clicks, not one or three, open |
| `dialogs` | all dialogs; a form with 4 fields and a disk of 4 folders; settings; 3 accounts with 2 labels; 2 themes; 2 FTP folders | one component per behaviour: Esc leads out of everything, quitting over transfers is asked; texts stay in their field; what is shown, used and saved agree over restarts, and after a failed write as far as it got; one bookmark per account, with its password; previews end; pooled FTP sessions stay in step, a listing is that of its folder unless four replies were unread, files arrive whole, in their folder |

Properties that belong together are checked as one, with their parts named: `IInv` (types, `OneHome`, `NoStaleSpeed`, `ConnectionLimit`, `NoDeafWorker`, `NoLeftovers` and the parts checked by themselves), `UiInv`, `DeleteInv`, `DrainInv`, `EditInv` and `PaneInv` are the invariants of their modules; each part of the screen and each dialog has one property that puts its invariants and its action properties together: `EditsAreSound` (`CursorInText`, `EditIsLocal`), `KeysActOnTheChosenJob` (`OneHome`, `HighlightOnARow`, `HighlightFollowsJob`, `LeavesWhenChosen`, `NoOvertaking`), `StepsKeepTheChoice` (`SelectionFollowsName`, `OnlySeenIsMarked`), `MovesAgreeOnRows`, `DialogsStayInOrder` (`EscAlwaysCloses`, `OneFullScreen`, `PickerHasForm`, `NoSilentQuit`), `FormHoldsWhatIsTyped`, `SettingsTakeEffectOnce`, `BookmarksAreKept`, `PreviewsEndOrAreSaved`, `RepliesFitCommands` and `ReportsAreTrue`. The comment at each part says what it is about.

The violated runs are described, with the lines of code and the sentence each contradicts, under `findings` in `PROJECT.json`.

`MCScreen` and `MCDialogs` check components that do not share state in one run: a variable chosen at the start says which of them is used, the others rest. Nothing is gained or lost by that but the number of runs.

**Bounds.** Two jobs and two tasks are enough for every pair of tasks to meet (old and new, two new, two old); a third job adds order in the queue, which the queue pane of `screen` has. Three generations hold a disconnect and a reconnect, or a connect that replaces a connection (two generations at once), with tasks of the first still alive. `MaxUnread` bounds progress messages only; reports are never held back. A task slot is free again when its report was read. For the UI session two tasks are an old one and a current one, three add a second old one. Two entries are a head of the delete queue and something behind it; one remote and one local tell apart what needs the session. In `drain` a download, an upload and an upload in a folder that may be missing are the three ways to the queue; each can conflict, one can be a move; `MaxSuffix = 2` lets `Uniquify` succeed with a number, take the next one, and run out. In `remote_edit` three jobs are a download, an upload and the next edit's download over them. Text of three characters has words, blanks and both ends; seven rows in a frame of five have a thumb, a scroll offset and a last page that is not full. Three bookmarks let two accounts share a label. Two FTP folders are the job's own and another's; up to five unread replies at the start of a command of the panes (`MaxUnread` there) are one, two and three, where a listing must not succeed, four, where it may, and one more. Two changes to the drafts of the settings at most (`MaxEdits`), counted over all openings of the dialog, are two saves that differ, or a save and another that fails; the settings start from no file and from two that no dialog would write. In `dialogs` the sessions of the workers and that of the panes are two scenes, for they share nothing but the folders, which change at any time in both. The three bounds keep the run at about 1.3 million states.

**Fairness.** Weak fairness of every task's steps: servers answer or time out, and files end. Weak fairness of the event loop's own steps. Strong fairness of reading a worker message: the loop's `select!` is biased towards terminal events, but a user pauses again and again, and then a waiting message is taken. No fairness for the user's keys, connects, or the failures of a server. In `UiSession`, `DeleteQueue` and `Drain`: weak fairness of each task and scan and of reading the session channel, none for keys, so that a question may stay open for ever (`BusyEnds`, `ConfirmedEndsUncancelled` and `DrainEnds` allow for it). In `RemoteEdit` also: a waiting job starts while nothing forbids it, and the user leaves the editor, for the program can do nothing else meanwhile.

## Theorems

`TransferQueueProofs` proves `QueueTypeOK`, `OneHome` and `NoStaleSpeed` for any set of jobs; their conjunction is inductive. Each operation has a lemma (`EnqueueInv`, `RetryAtInv`, ...) which `WorkerPoolProofs` uses again. `NoOvertaking` speaks of `pending` before and after a step: every operation keeps part of it in order and adds at most what was not waiting (`PendingKept`, `PendingGrows`), or takes the front away (`PendingStarted`).

`WorkerPoolProofs` proves `Spec => []IInv` for any jobs, tasks (finitely many), servers, limit and generations, from `ConstantsAssumption`. To what a reader wants to know `IInv` adds three parts: `ReportsInv` (a report in the channel belongs to a task that is waiting for it, and to one report only, without which a second report could decrement the counter again), `OrphansInv` (what an old task carries was cancelled when it was dropped, without which a retry might put it into a second task), and `ServersInv` (no job waits for another server). Most steps change neither which tasks live nor what they carry (`SameTasks`, `Quiet`); a start adds a current task, a report removes one, a drop makes every task old.

From the same invariant come `CancellingIsFinal` (`CancelIsFinal`: whoever was told to stop before it reports has its job no longer among the running ones, so its report finds nothing to complete) and `LifecycleImplemented`: every step of queue, tasks, channel and pool is a step of `JobLifecycle` or leaves it as it is.

`UiSessionProofs` proves `UiInv`, `TrustNeedsYes`, `SessionIsKept` and that `UiSession` implements `ConnectionLife`, for any servers and generations and any tasks, from `UiConstantsAssumption`. The inductive invariant `UiIInv` is `UiCore` and the types of prompt and channel; `UiCore` alone is what the modules that extend `UiSession` keep as well. Its parts: `Books` (what is in flight has exactly one carrier, a task at work or one unread message; what a message in the channel is about fits its task, `Fits`; a connect in flight is of the present generation), `PromptInv` (a question about a host key is open exactly while its task waits for the answer; without it an answer could reach a task that no longer asks), `TrustInv` (a task that was accepted connects to an approved server), and `SessionInv`, which says where the session of a clean connection is at each moment (`HasSession`: with the event loop, with the task, or in the park slot on its way back). `SessionIsKept` speaks of the moment when nothing is in flight; only `HasSession` makes that inductive.

`DeleteQueueProofs` proves `DeleteInv`, `DeclineIsFinal` and, again, `SessionIsKept` and `TrustNeedsYes` in the system with the delete queue, for any finite set of entries. `ItemAssumption` has them finite because a listing is, and the code queues a selection as a list (`SetToSeq`). The invariant `DeleteIInv` adds to `UiCore` that what is queued is queued once, is not being moved, and was not declined since (`Queueable`); from the last part follows that a delete which starts was not declined (`StartsSafely`, an action property of every step). `DeletesKeepConnection` says that the connection still implements `ConnectionLife` under deletes and moves: a handler that resumes the queue ends one task and starts another in its slot (`Serves`), which is no step of the connection unless the report was a connect's (`ServesAside`, `ConnectAnswered`; `UiSession` itself uses the same lemmas).

`DrainProofs` proves `DrainInv`, `NoFileLost`, `OverwritesOnWordOrUnseen`, `SkipIsFinal` and, again, what the session promises, for any finite set of files, any batches, names and answers, from `FileAssumption`. None of them is inductive. `DrainIInv` adds to `UiCore`:

- `FilesFit`: the queue repeats no file and shares none with the scan (`Coming`: what the walk has left and what it has sent), the files in either are exactly those with fate `waiting`, and a file that passed as free or renamed has a name that was not taken at first;
- `WalkInv` and `SentOnce`: a scan that is listened to is of this connection, sends each file once, and its end last, so that an end never overtakes a file;
- `QuietInv`: while a scan is listened to, the drain has no errand and no question, so that neither is about a file that a `ScanItem` pushes away;
- `FrontInv`: the listing, the folder and the question are about the file in front (`about`), and folders are left to make only while one is being made;
- `LooksInv`: what was at a destination first is still there (transfers only add), the one current task is on the errand the flag names, and the names it found, like `listed_dest_names` while a question about an upload is open, contain all that was there (`SawAll`). That makes a rename from these names safe although the listing is old;
- `PolicyInv`: under a cancel request the queue is empty and the policy the default one, and an empty queue has the default policy or `leaked`.

The steps of the drain are functions of a record of the drain's variables (`Now`), so the proof has a lemma per function (`PopGoes`, `ResolvedGoes`, `EndBecomes`, ...: that its result still fits, and that it leaves what is final alone, `Final`), one on the loop over downloads (`DrainedFits`), and per handler one lemma that puts them together with what `UiSessionProofs` says of a task that ends or starts another. `SkipIsFinal` falls out of the same lemmas as `StaysOut`, and so does `BatchImplemented`, the refinement of `BatchLife`: of each function the lemma says also that it is `Onward`, that is, what it leaves of the queue is the queue without some of its front (`SuffixOfSuffix` makes this transitive), the files it took away have got their verdict, and every other file is as it was (`Advances`). A step of the code that resolves several downloads, renames one, puts a question and asks for a listing is one `Decide(n)` of the abstract line; `DrainDecides` is the proof of that, once for all handlers. `Park`, `GiveUp` and `Leave` have the two functions `Parked` and `Cleared`; `Ask` and `Find` the enqueueing and the scan, for which `FilesFit` says that what is found was open. A name is a sequence of strings with the numbers a rename appends, and `Uniquify` gives a name that is not taken or, after `MaxSuffix` tries, one that ends in `copy`, which the code uses unlooked-at and the property excepts (`IsCopy`). `OverwritesOnWordOrUnseen` is about the files queued over what was there when the program started; it excepts those nobody looked at (`Unseen`), which are of two kinds: parked by Ctrl+C, and of a folder that could not be listed and turned out to exist.

`ScreenProofs` proves the five properties of the run `screen`, for any folders, names, listings, texts, jobs and frames, from `PaneAssumption`, `ListAssumption` and the assumptions of the queue.

- *Panes.* `RowsAreSorted` says what `VisibleIndices` computes: the entries that pass, each once, ascending. The model has a row's place as the number of rows that come before it; the proof is that `EntryLess` is a strict order which tells any two entries apart (`NameTransitive`, `EntryTotal`, ...), so that the places are 1 to the number of rows (`EachHasItsPlace`). `PaneIInv` adds to `PaneInv` what makes it inductive. `RowsInv`: no listing repeats a name, and when the cache's key (buffer, length, filter, sort, dot files) matches, so do its rows (`CacheHolds`). `PlaceInv`: the local listing that is awaited, if any, is one of the folder the pane is in. `StepsKeepTheChoice` follows step by step from `RowsInv`.
- *Text.* `InText` is `CursorInText` with the type. `ReplaceTwice`: the selection's removal and the insertion that follows are one replacement of the selected piece.
- *Queue pane.* `HighlightInv` is the queue's invariant and a highlight on a row. For each operation the proof names where the highlighted job is afterwards (`FollowsSelection`) and which jobs left the rows (`WhoLeaves`).
- *Lists.* `ListIInv` has the highlighted row in the list, and that a click which is remembered was counted, so that a third quick click opens nothing. The scrollbar needs three facts of division (`DivBounds`, `DivGrows`, `DivIs`): its row grows with the pointer, and its ends are the list's ends.

The first part of `ComponentProofs` proves `RepliesFitCommands` (`PoolInStep`, `ListsWhatWasAsked`) and `ReportsAreTrue` (`DoneIsWhole`, `StraysOnlyIfRefused`, `NoStaleFailure`) for any folders, from `FtpAssumption`. The inductive invariant `FtpInv` says at which points of a transfer nothing is unread (`WorkerInStep`: everywhere it may go on from, except before the last reply, where exactly this one is and tells whether the file is whole), where its file is (`FileOfJob`), and when a failure is on a new connection (`Attempts`). A session in step is unchanged by a command (`InStepStays`), which makes most of a transfer disappear from the proof. The panes' session may lag by any number of replies, and the only thing that is known of them is that the last is never one which announces another (`Answered`): whoever stops listening stops at a reply, and the server ends what it began. That is enough (`ExchangeHeard`): a listing with one reply unread hears the answer to CWD where PASV's is due, with two it hears CWD's as the third, with three the last unread one as the third, where only an announcement will do; so none of these can succeed, and one that succeeds had nothing unread, or at least four.

The second part proves `EditInv`, `WorkIsKept` and `CheckedMeansUnchanged` for any paths, jobs and changes, from `EditAssumption`. The properties are about the cache file at the end of an edit; the inductive invariant `EditIInv` says who may touch it before: unless a job of an earlier edit was left when this one began (`crossed`), the edit is in one hand (`HandInv`: a prompt, the editor, the check, or one job and no other), a download that is left is the one of this edit and there is no work of the user for it to overwrite (`JobInv`), and from the print taken of the download until the editor ends the cache file is that download (`PrintInv`). `CheckIsItsOwn` and `EditMovesOn` hold also for crossed edits.

The other parts of `ComponentProofs` are about what lies over the panes. No two of these components share state, so each has an invariant of its own.

- *Dialogs.* `DialogsStayInOrder` for every order of keys, clicks on old frames and prompts, the Escape key among them: `EscAlwaysCloses` says with the values that Escape leaves (`EscShown`, `EscPrompts`), not with `ENABLED`, that some test of `handle_key` takes it and that less is open afterwards. `InOrder` is a property of a set of flags, and every handler of the reducer keeps it for every set (`HandlersKeepOrder`, `ThemeKeepsOrder`), so that it does not matter which of them a key, a stale click or a task reaches.
- *Connection form.* `FormHoldsWhatIsTyped` for any folders and saved connections, from `FormAssumption`. `ConnectionInv` says of the editor's text that its field reads it (a port as its number); the picker's part, that a row which is a folder lies below the folder shown, makes going up return to where it came from.
- *Settings.* `SettingsTakeEffectOnce` for any limit of workers, texts and folders, from `SettingsAssumption`. The heart is `WrittenAsMeant`: what the drafts make of the file reads back as what they put in force, although the file leaves out what is at its default. `LinesAsMeant` says the same of the file cut after any of its lines, setting by setting: as it was meant, or as the default. `LiveIsSaved` is about the time until a save fails with the file begun, `FailureInventsNothing` about the file such a save leaves, and `FailureIsNotLive` about the program, which goes on as it was.
- *Bookmarks.* `BookmarksAreKept` for any names, accounts and passwords and any number of sites, from `BookmarksAssumption`. `SoundFile` holds of every file a command or a torn write of one has left: an account once, no passwords, and the default first, or none in an empty list; a save, a removal and a new default keep it (`WithSiteIsListed`, `RemovedIsListed`, `SwappedIsListed`, `PrefixIsListed`). A failed write says nothing of what is shown (`NotWrittenKeeps`), one that succeeds makes list and file the same (`WroteKeeps`).
- *Themes.* `PreviewsEndOrAreSaved` for any desktop themes and colours, from `ThemeAssumption`. `ThemeIInv` adds that the picker, and an editor that was opened without one, remember the palette of the theme there was before the dialog, and that a followed or named theme has the colours of a theme there was (`Grounded`). Of what the code does to `text_labels_active` the property says this much: without the dialog the colours are those last loaded or saved, or these without that one; and a save leaves on the screen what the file loads, unless the desktop that it follows has changed since.

`SequenceFacts` holds what these proofs need of `Append`, `\o`, `Tail`, `SubSeq`, `RemoveAt` and `SetToSeq`: which elements a result has, and that it repeats none; and that a set of numbers has a least one.

**Model-checked only.** Liveness under fairness is beyond the prover: `TransfersEnd`, `PendingStarts`, `OrphansEnd`, `BusyEnds`, `ConfirmedEndsUncancelled`, `DrainEnds` and `EditEnds`. Every other property of the passing runs is proved.

## Plan

Built and proved: all modules above. What is left: the rest of the painter, if it comes to decide anything; and an abstract specification of the remote edit, of which `WorkIsKept` and `CheckedMeansUnchanged` are the parts.

## Known departures

Places where the code does not do what one would expect, met while modelling. The models behave as the code does. Where a property is named it is stated in its module, is not part of a run, and TLC shows a trace when it is added to the configuration named after the module or its scene.

- **Workers and session.** After a reconnect old tasks transfer beside the new ones, more than the limit together (`AtMostMaxWorkers`). A listing of the previous connection that ends late drops or replaces the session in the park slot (`SessionIsParkedOnlyWhileBusy`).
- **Deletes and moves.** The Delete key forgets the sources of moves that are waiting (`MoveSourcesGo`). Confirmed deletes wait behind a drain and stall after Ctrl+C (`ConfirmedEnds`).
- **Drain.** The policy chosen for one batch can leak to the next (`FreshDrainUsesDefault`). Ctrl+C queues what waits unchecked (`NoSilentOverwrite`), and a failed listing of an existing folder does so with its files. Automatic renames within a batch can take the same name. A choice prompt that is open when a drain step arrives leaves the drain waiting; Ctrl+Q over the question for a new name opens one (`RequestQuit`). A scanned move becomes a copy under a cancel request.
- **Remote edit.** An edit that begins while a job of an earlier one for the same path is alive shares its cache file (`crossed`).
- **Panes.** Entering a folder changes `remote_cwd` before the listing arrives, so a delete acts on rows of the folder before (`DeletesWhatIsShown`), and a rename uses the row that is selected when the name is entered, not the prompt's (`RenamesWhatWasAsked`). A range's anchor is kept over a new listing or sort; rows that a filter hides stay marked and are acted on; a refresh while a folder is being entered keeps the old name selected.
- **Queue pane.** Inserts by a drain or an edit, retries of all or the last job and the drop of workers leave the highlight on its row number.
- **Lists and mouse.** The rows may change between the two clicks (`DoubleClickOpensChosen`). The scroll offset is computed anew for each frame. A click on a pane's bottom border selects the row below the view. A scrollbar can be dragged behind the help. A double click on the last segment of the path goes to the parent. The help scrolls on without end.
- **Dialogs.** Keys go to help, filter, settings or theme while a prompt is drawn over them; F3 over help with a prompt opens the settings beneath; fields of the connection form take clicks under a prompt; the theme dialog registers no region and is not counted as a modal. Ctrl+Q asks about running transfers, not about pending deletes, scans or waiting jobs. An empty password that was visited in the form bypasses the keyring.
- **Files.** Files are truncated and written in place, so that a failed save can leave an empty file or one that ends early: the settings that could not be saved, as far as they were written, and the defaults for the rest are in force from the next start on, while the message said that they could not be saved; an unreadable sites file counts as empty and is overwritten by the next save. Removing a bookmark removes the first of its name (`DeletesTheHighlighted`), and its password before the file is saved. The default is swapped by the row number shown, in a file read anew. Accounts that differ in the host's case share a keyring entry.
- **Theme.** A desktop theme that is missing for a moment ends the following; the stamp taken at a save is that of the desktop's theme of then, while the colours are those read when the dialog was opened, so that a change in between is not read again although `refresh_followed_theme` is said to ("Re-read `omarchy: follow` when the desktop theme file changes", `dd_ftp_ui/src/theme.rs:749`) (`FollowedIsReread`); the colour that a file sets for active labels is gone with the first F2, also after Escape, until the next load; a local theme file hides the global one that was saved; saving looks at `XDG_CONFIG_HOME`, loading at `HOME/.config`.
- **FTP.** When the server refuses a job's folder the file goes to the folder of the job before, or the initial one, and is reported complete (what `StraysOnlyIfRefused` excepts). A listing that breaks off leaves the panes' session behind until the next connect, by one to three replies, and by more with the next one: commands take the answers of earlier ones for theirs, and with four or more unread a listing can show another folder's entries (what `ListsWhatWasAsked` excepts).

## Not modelled

- The bytes of a transfer, clocks, speeds and the formatting of sizes and times: nothing modelled depends on them.
- The FTP listing parser, formats of `known_hosts`, sites and config files, modes of files: text, tested by the repository's unit tests.
- TLS, FTP replies of several lines and commands that were written in part when a listing was dropped, SFTP permissions (chmod), comparing folders, the pane splitter, the clipboard, the palette's wheel: they change one value in one step.
- The painter apart from what clicks are read against: it reads the state.
- Inside `third_party/async_ftp` and the SFTP library: external; modelled by what the sessions do with them (reply, succeed, fail, take their time).
- Running out of memory and panics of a task: a panic would leave `in_flight` set for ever, and the code has no place that handles it.
