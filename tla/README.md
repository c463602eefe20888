# Paperwing: specifications and proofs

TLA+ models of Paperwing, a self-hosted service that copies the mail of
several IMAP accounts into SQLite and serves it through one API. Every
definition is translated from the code; `PROJECT.json` maps each one to its
lines, and lists the runs, the mutants, the hazards and the theorems.

## The system

| Component | Code | State | Operations |
|---|---|---|---|
| Mailbox worker | `internal/imapmon/manager.go`: `run`, `connected`, `sync`, `fetchOne` | IMAP session, `notify` channel, the loop's locals | connect, catch-up sync, IDLE, incremental sync, backoff |
| Monitor manager | same file: `Manager` | map of workers, wait group | `Start`, `StartAccount`, `StopAccount`, `Sync`, `Close` |
| Account service | `internal/accounts/service.go` | none | `Create`, `Delete`, `Sync`, `Test` |
| Store | `internal/store/*.go` | SQLite: accounts, emails, attachments, auth_user, auth_sessions, api_tokens | one transaction per method |
| Parser | `internal/mailparse/parser.go` | attachment files | `Parse`, `saveAttachment` |
| Master key | `internal/secure/crypto.go` | `master.key`, `.master-key-*` | `LoadOrCreateKey`, `Encrypt`, `Decrypt` |
| Authentication | `internal/auth/*.go`, `internal/httpapi/auth.go` | administrator, sessions, API tokens, login attempts (in memory) | setup, login, logout, token create / revoke / authenticate |
| HTTP API | `internal/httpapi/api.go` | none | routes, scopes, encoding |
| Sign-in pages | `frontend/src/AuthRoot.tsx`, `AuthScreen.tsx`, `api.ts` | per tab: what is shown, requests; the browser's cookie | setup, login, logout, reconnect, 401 |
| Mail view | `frontend/src/App.tsx`, `MessageList.tsx`, `EmailReader.tsx`, `Sidebar.tsx` | React state, requests in flight | select, page, refresh, create, sync, delete |
| Windows | `Modal.tsx`, `AccountDialog.tsx`, `AccountManager.tsx`, `APITokenManager.tsx` | open windows, forms, busy flags, requests in flight | test, add, sync, delete; list, create, revoke |
| Process | `cmd/paperwing/main.go` | signal context | start, shutdown after a signal, return after a failure of the server |

How they interact: API handlers run concurrently and call the account service,
the authentication service and the store. The account service calls the store
and the manager. The manager owns one goroutine per account; handlers reach it
by `syncReq` (an unbuffered channel), by `cancel` and by `done`. Workers write
to the store and to files; only `Delete` and a change of UIDVALIDITY remove
files. The store has one pooled connection, so its statements and transactions
are atomic steps in an order. The process may be killed between any two steps.

What is hard: mail that arrives, disappears or is renumbered while it is being
copied; notifications dropped by a one-place channel; answers that must wait
for a search; workers that end while somebody is about to talk to them; steps on
the database and on files that no transaction joins; first start by several
processes; answers that arrive after the user has moved on.

What makes each part correct:

* worker: nothing skipped, nothing of an old numbering kept, no wakeup lost, an
  answer means stored, files and emails agree, every message is stored in the end;
* manager and account service: at most one worker writes, none after deletion,
  every account monitored, calls and shutdown return;
* key: one key for ever, stored passwords readable;
* authentication: one administrator, revoked or expired credentials refused,
  valid ones honoured;
* login throttle: between two respites, a bounded number of guesses;
* sign-in pages: a tab leaves the app for a cause, and does when its session ended;
* mail view: what is shown belongs to what is selected;
* windows: every busy flag has a request, forms and lists say what is true, the
  value of a new token is kept, the page scrolls again.

## Modules

| Module | Models | Proofs |
|---|---|---|
| `Mailbox` | one worker, its IMAP server (external), the account's row, emails and files, one sync client, crashes | `MailboxProofs` |
| `MailReplica` | what a worker promises: a replica with a mark below which nothing is missing | refinement proved |
| `Monitors`, `MCMonitors` | manager, account service, shutdown, with concurrent handlers | `MonitorsProofs` |
| `AccountBook` | what manager and account service promise: which accounts there are and which are served | refinement proved |
| `KeyFile` | `LoadOrCreateKey` in several processes | `KeyFileProofs` |
| `KeyChoice` | what it promises: one key chosen for ever | refinement proved |
| `Access`, `MCAccess` | setup, login, logout, sessions, API tokens, with concurrent handlers and time | `AccessProofs` |
| `Admission` | what authentication promises: one administrator, open tokens, verdicts | refinement proved |
| `Inbox`, `MCInbox` | `App.tsx` with the panes and buttons of list, reader and sidebar, and requests in flight | `InboxProofs` |
| `OneRequest` | what a pane that loads promises: its last request counts, and no other | refinement proved, for the list and for the reader |
| `Session` | tabs of one browser, its cookie, the authentication handlers and the login throttle | `SessionProofs` |
| `Door` | what signing in promises: one setup, fresh sessions, no guess after too many | refinement proved |
| `Modals` | which windows are open, and the scroll lock of their frame | with `Windows` |
| `Tokens` | the window of API tokens and its requests | with `Windows` |
| `AccountWindows` | the form that tests and adds an account, the list that synchronises and deletes | with `Windows` |
| `Windows` | composes the three: `App.tsx` opens and closes windows, each render runs their effects | `WindowsProofs`, `TokensProofs` |

**Mailbox.** `pc` names the next step of the goroutine: `loading` and
`connecting` are `run` and the first half of `connected`; `validating` and
`wiping` the UIDVALIDITY branch of `sync`; `searching`, `fetching`, `parsing`,
`writing`, `saving`, `completing` its search, `fetchOne`, `saveAttachment`,
`SaveEmail` and `CompleteSync`; `answering`, `idleStart`, `idling`, `idleStop`
the loop of `connected`; `waiting` the backoff; `dead` a `run` that returned.
`account` is the copy of the row that `sync` works on; `row`, `emails`, `files`,
`temps` survive a crash. Every IMAP command, transaction and file operation is
one step, and each fails in an action of its own. A message is a pair of
UIDVALIDITY and UID. A message has at most one attachment here, which is
`none`, `torn` or `whole`. A worker that has come back from a function resets
that function's locals, which keeps the state space small.

**Monitors.** A worker is one value per account (`none`, `loading`, `syncing`,
`saving`, `idle`, `waiting`, `leaving`, `removed`, `done`), a handler one step
per call of `service.go` that can interleave. `raced`, `abandoned`, `lost` and
`late` are history: accounts whose creation raced with a deletion, deletions
that failed, accounts that their worker could not load, and those whose worker
was started behind the loop of `Manager.Close`. `phase` is where `run` of
`main.go` is. It leaves `serving` by a signal (`Signal`: the context of all
workers is done, which is `interrupted`, and `Shutdown` lets no call begin,
which is `accepting`) or because `ListenAndServe` failed (`ServeFails`: neither
happens, and open connections still bring requests). Both ways then run the
deferred calls: the loop of `Manager.Close` that cancels the workers in the map
(`CancelWorkers`), `wg.Wait` (`WaitEnds`), `stop` and `Store.Close`
(`CloseStore`). `Interrupt` is a signal after the server failed. A caller may
leave at any time, so the steps that need its context fail at any time. The lock
of the manager makes lookups and updates of the map atomic; `StopAccount` looks
a worker up and cancels it in one step, for a worker that goes on in between is
as if it was looked up later, and one that leaves as if it was cancelled on its
way out.

**KeyFile.** One value per process for its step, its key and its temporary
file. `link` is atomic; a kill leaves the temporary file.

**Access.** A handler is a program counter with the clock reading, the token
drawn and the token presented that its Go code holds in locals; every store
method is one step. Session tokens and API tokens share the domain `Secrets`
and differ in `kind`. `given`, `closed` and `stale` are history: what clients
hold, what was logged out or revoked, and which requests arrived with a token
past its end. The clock never goes back. Scopes are left out.

**Inbox.** A request in flight is a record; `current` stands for the comparison
of `requestID` with the ref, which only the request issued last passes. What a
handler closed over before its `await` is kept in `ops`. React runs the effect
of a click before it handles anything else, so a click sets state and starts
the request in one step; after an answer the effect is the step `Effect`, and a
click waits for it. The answer to a superseded request is not looked at by the
code, so its content is dropped. `fits` and `deleted` are history.
`ListPane`, `PageButtons`, `ReaderPane` and `Entries` say what the components
show, and so what can be clicked.

**Session.** A request carries the cookie that the browser holds when it is
sent; the cookie of an answer is stored when the answer arrives, and an answer
acts on whatever its tab shows by then. A tab that is reloaded forgets its
requests, but the server may have got them. A login is two steps, `LoginCheck`
before the password is hashed and `LoginFails` or `LoginSucceeds` after it. The
throttle of one address is its count, whether it is blocked, and whether its
window is older than five minutes (`old`). `wrong` and `peak` are history.

**Windows.** `Modals` keeps `document.body.style.overflow` and what each effect
found there; App gives every window a new `onClose` at each render, so `Render`
runs all clean-ups and then all effects, in the order of the windows in App.
`SetOpen` is one render with other windows open: it runs the effects of
`Modal`, `APITokenManager` and `AccountManager`. Windows that are covered can
still be reached by the keyboard, so a second one may be opened on top. A call
keeps what its closure knew (`seen` in `Tokens`). The form's values are one
value, which passes `validate`. `doubt`, `edited`, `passed` and `stacked` are
history: each marks the case in which a property is not promised, and each of
those cases is real (see below).

## Runs

| Run | Bounds | Shows |
|---|---|---|
| `mailbox_safety` | 2 UIDs, 2 UIDVALIDITY values, batches of 1, one rejected message, one crash, one drop, one failure | the safety properties and the refinement of `MailReplica` |
| `mailbox_live` | 2 UIDs, 2 UIDVALIDITY values, batches of 2, one drop | messages are stored, requests answered |
| `monitors_safety` | 1 account, 2 handlers, 2 starts | the properties of workers, deletions and both exits of the process, refinement of `AccountBook` |
| `monitors_live` | 1 account, 2 handlers, 1 start | the process closes after a signal or a failure of the server, deletion returns |
| `key_file` | 3 processes, 4 keys, 2 failures or kills | passwords stay readable, refinement of `KeyChoice` |
| `access` | 2 handlers, 2 credentials, 3 tokens, 3 instants, a lifetime of 2 | one administrator; refusals, revocations and expiry, refinement of `Admission` |
| `inbox` | 2 accounts, 2 emails, pages of 1, 3 clicks, 1 request for the accounts at a time | what is shown belongs to what is selected, refinement of `OneRequest` by list and reader |
| `session` | 2 tabs, 2 sessions, a limit of 2, 3 clicks, one lost request | sign-in pages and throttle, refinement of `Door` |
| `windows` | 6 clicks, 2 tokens, 2 accounts, 2 values of the form, one lost token request | the windows |

Two messages are enough for one to be stored and one missing on either side of a
mark, two UIDVALIDITY values for a message of each under one UID, and batches of
one for a checkpoint between two messages. Two handlers are enough for a
creation and a deletion, two deletions, or a deletion and a synchronisation of
one account at the same time, and handlers on different accounts share nothing
but the end of the process; the safety properties of `Monitors` and its
refinement are also proved for any number of handlers and accounts.
`monitors_live` leaves the history that no guard and no property of that run
reads out of TLC's view of a state (`NoHistory`). Two handlers and three tokens
allow a token to be issued, presented and revoked at once; three instants allow
a token to expire while a request is under way and one to be issued after that.
Three clicks in `inbox` allow two that supersede each other and an operation
that was started before; in `session`, two logins and a sign-out, or two guesses
that are verified together, across two tabs. Six clicks in `windows` allow one
to be opened, used, closed, opened and used again. In `key_file`, processes
beyond the fourth draw find no fresh key; random keys do not repeat.

Runs that end in a counterexample, each a disagreement with a line of the
documentation quoted in `findings`: `mailbox_poison` (a message the parser
rejects stops everything after it), `mailbox_torn` (a crash during the second
download of the newest message leaves a cut-off attachment), `monitors_sync` (a
request that nobody will take, because the account was deleted or could not be
loaded).

Seen while modelling, without a run of their own:

* a creation that races with a deletion may start its worker after the deletion
  stopped nothing, and the worker writes into the directory that was removed
  (`raced` in `Monitors`); a failed deletion leaves an account without a worker
  that still shows `idle` (`abandoned`); a database error in `AccountSecret` ends
  a worker for good (`dead` in `Mailbox`, `lost` in `Monitors`);
* when `ListenAndServe` fails there is no `Shutdown` and no signal, so a creation
  that reaches `StartAccount` behind the loop of `Manager.Close` starts a worker that
  nothing cancels: it holds `wg.Wait` up until a signal or a deletion of its account
  comes, or, started when `wg.Wait` has returned, it may still be running when the
  database is closed (`late` in `Monitors`, the exceptions in `StoreOutlivesWorkers`
  and `ShutdownEnds`). After a signal neither can happen;
* a synchronisation that ends after the user selected another account shows the
  list it had closed over (`fits` in `Inbox`); an email asked for before another
  account was selected is shown when it arrives; the error of the reader has no
  button back to the list, which a narrow screen hides; nothing loads the list of
  emails by itself, though an empty list says new mail will appear
  (`MessageList.tsx:173`);
* a late answer to a sign-out, or a late 401, shows the login form to a tab that
  has logged in again since, and the answer to a sign-out also deletes the newer
  cookie (the exception in `SignedInStays`); a setup form that lost the race
  for the administrator stays a setup form until the tab is reloaded;
  `recordLoginFailure` replaces a window older than five minutes and drops a block
  that is still running; the development proxy (`vite.config.ts:10-15`) does not
  forward `/auth`;
* a revocation confirmed while one token's value was shown and answered after
  another was created takes that one's value away (the exception in
  `IssuedKept`); a list asked for before a creation or revocation overwrites it or
  shows the new token twice (`doubt`); a token created in a window that was closed
  is shown when it is opened again;
* a field changed during a test lets the form say that a connection works which
  nobody tested (`edited` in `AccountWindows`); windows stacked by keyboard leave
  the page locked (`stacked` in `Modals`).

`CHECK_DEADLOCK FALSE`: the bounds on messages, starts, tokens, clicks and failures
end a run, and a process that was closed stops.

**Fairness.** `Mailbox!FairSpec`: the worker keeps taking steps (the runtime
schedules goroutines, IMAP commands return or fail, timers fire), and an IMAP
server tells an open session about new mail. Nothing is assumed of clients,
failures, crashes, deliveries. `Monitors!FairSpec`: handlers, workers and `run`
keep taking steps, a connection closed by `closeOnCancel` fails, and the timer
of `Shutdown` fires. `AttentiveSpec` adds, for the counterexample
`monitors_sync`, that a synchronisation comes to its end again and again
(finitely many messages) and that a `select` reached again and again takes a
request that is always offered. Nothing is assumed of callers, of signals or of
the listener. `Session!FairSpec`: a request is served and answered or fails, and
the interval of five seconds fires; nothing is assumed of users or of the expiry
of sessions.

## Proofs

`MailboxProofs` proves, for all values of the constants, `TypeOK`, `NoSkip`,
`OneEpoch`, `NoLostWakeup`, `StoredWhole`, `NoOrphans`, `TempsBounded` (together
`NoLeftovers`), `NothingForgotten`, `SyncMeansStored` and the refinement of
`MailReplica`; and `RequestHeld`, the safe half of `RequestsAnswered`, which no run
repeats: a request that was taken stays in the worker's hands until it answers.
None of the safety properties is inductive. `Inv` adds, per
concern: `SessionInv` (an open session selected the current numbering and has
seen no UID that was not handed out), `EpochInv` (which numbering the worker's
copy and the row belong to at each step), `BatchInv` (during a sync nothing live
is missing up to `lastUID`, nor up to any message still to fetch unless it is to
be fetched too: this is where the ascending order of the search and the late
checkpoint enter), `WakeInv` (announced mail is stored, to be fetched, or
notified), `AskedInv` (what a request asked for is in sight of the session, then
to be fetched, then stored), `FileInv` and `CountInv`. The key step for `NoSkip`
is `Complete`: `BatchInv` says the new mark passes nothing, and for a renumbered
mailbox `EpochInv` says the row is of an older numbering, which the property
does not speak of.

`MonitorsProofs` proves every safety property of `Monitors`, for any number of
accounts, handlers and starts. `Inv` adds to them what the races rest on:
`FreshInv` (an id nobody has used has no row and no worker, so the worker that
`CreateStart` starts replaces none), `CreateInv` (one call creates an account,
and until it has reached `StartAccount` there is no worker), `OrphanInv` (a
worker without a row is one of a creation that raced with a deletion),
`CancelInv` (while the process serves, a cancelled worker of a kept account has
a deletion that is under way or failed) and `StoreInv` (once `wg.Wait` has
returned, a worker that is not `late` is at most loading with a context that is
done, and there are late ones only where no `Shutdown` was called). With these,
`StoppedBeforeDeleted` needs only that `StopWait` waits for `done`, and
`StoreOutlivesWorkers` follows from `StoreInv`. `ServedByWorker` (a caller that
waits for an answer is held by a worker that will give one) is proved and not
repeated in a run.

`KeepsTheBook` is the refinement of `AccountBook`, where an account is unused,
kept or deleted, watched or not, and a request is where it stands or its answer.
It needs `CallInv` (a deletion under way is of an account that was created) and
`DoomInv` (a deletion waits only for a cancelled worker, which is the theorem
`DeletionIsHeard`; while the process serves, a cancelled worker that has not
left the map is waited for; and only workers are cancelled): with it, every
worker that stops has a deletion, the end of the process or a failure of the
database for its cause. The refinement contains `Monitored` (an account has a
worker, or it is one of the exceptions of the history), so the theorem
`EveryAccountMonitored` stands without a run of its own.

`KeyFileProofs` proves `TypeOK`, `Agreement`, `Decryptable`, `KeyForever`,
`LeftoversBounded` (proved and not repeated in a run) and the refinement of
`KeyChoice`, from the fact that a process about to link holds a complete file
and that a process past the link or the read holds the content of the path.

`AccessProofs` proves `TypeOK`, `ClosedForGood`, `PastRefused`, `KeptUntilEnd`,
`OneAdministrator` and `RefusedForCause`. `OneAdministrator` follows from the
steps alone. The others need to know who holds which token: `TokenInv` (a token
that is being set up, saved or issued is with no client yet, one that is
presented or to be revoked was given to one, and no clock reading is ahead of the
clock), `DistinctInv` (two handlers never drew the same token), `SavedInv` (a
session that is saved and not yet returned loses its row only by expiry) and
`StaleInv` (what ended the token of a late request lasts until its lookup).
`KeptUntilEnd` survives `Prune` because a login prunes with a clock reading that
is not ahead of the clock. `Admits` is the refinement of `Admission`, in which
a request is one token and one verdict. It needs `KindInv`: the label a handler
is at says of which kind its token is, so a session is never let in as an API
token, and only what was let in as a session or a password issues or revokes.
What a step promises about its verdict includes `PastRefused`, which is proved
(`PastIsRefused`) and not repeated in a run.

`SessionProofs` proves every property of the `session` run but `SignOutSeen`, for any
number of tabs, sessions and clicks and any limit. `Awaited` is inductive with the
types. `SignedInStays` needs `RefusedOnce`: an answer "no session" named a session
that had ended, and no session is handed out twice, so if the cookie is still the
one the request carried, the session of the browser is over. `GuessesBounded`
needs `Counted`: wrong passwords plus those being verified stay within the
limit less one plus the peak, because an attempt is let in only when the
address is not blocked, the wrong passwords of an address that is not blocked
are in its count, and every step that forgets the count also starts the
history anew. `KeepsTheDoor` is the refinement of `Door`, in which an address has a
number of wrong guesses and of guesses being looked at, and no count, window or
block: `Counted` gives the guard of `Enter`, and the cardinality of `Verifying` the
rest. It implies the bound of `GuessesBounded`, so `Throttled` is proved and not
repeated in a run.

`WindowsProofs` proves every property of the `windows` run but `ListTrue`, one
invariant per part of the composition: `LockInv` (unless windows were stacked, the
one that is open saw the page unlocked, so its clean-up unlocks it), `TokenInv`
(ids are drawn once: an answered creation is of a token that the list names at
most once, an answered revocation of one the server no longer has; this is why a
value that disappears is of a revoked token or was taken by a revocation that
began under another one) and `AccountInv` (the types, `ManagerAwaited` and
`FormHonest`, which are inductive together). Each lemma speaks of one part, and
`StepInv` joins them over the steps of `Windows`.

`TokensProofs` adds `ListTrue`. Its invariant `Truth` holds while nothing has spoilt
the list: a list request is alone, so its answer is what the server has when it
arrives (`ListAlone`); otherwise the list differs from the live tokens by exactly
the answers that are on their way (`ListFollows`), no revocation is under way of a
token whose creation was not answered (`NewIsLive`), and the value shown is of a
live token or a revocation that takes it away is on its way (`ValueTrue`).

`InboxProofs` proves every property of the `inbox` run, for any number of
accounts, emails, clicks and requests and any size of a page. `ServerInv` says what
makes a deletion final: emails are of accounts that exist, ids are used once, an
account whose deletion was answered does not exist. `OpInv` says that an answered
deletion is of such an account and an answered creation of one that only a poll
may have listed. `ListInv` is the argument for the list: the one current request
is for the selection if `fits` says so and brings nothing of a deleted account,
because a deletion makes a new request the current one and the answers of others
are dropped; `ReaderInv` is the same for the reader, where also no step leaves an
email highlighted with nothing to show. `LastRequestOnly` is the refinement of
`OneRequest` by the list and, with a map of its own, by the reader: requests that
were superseded map to nothing, so every step that answers one must change
nothing that is shown. It needs `UniqueInv`: of the requests of a pane at most one
is the current one. `LoadingAwaited` (a pane that is loading has a request whose end
clears it) is contained in it, proved (`LoadingEnds`) and not repeated in a run.

Assumptions: only the `ASSUME`s of the modules (bounds are naturals, batches are
not empty, markers are not keys, tabs are finitely many).

Only model-checked: liveness under fairness.

## Not modelled

MIME and character sets (the external go-message library), AES-GCM and argon2,
address normalisation, configuration, static files. Of the web interface: the
text and layout of what is shown, toasts, the sidebar's drawer, the search and
filter of the list (an email that is listed may be visible or not), the
sandboxed HTML of the reader, attachment links, the fields and the clipboard of
the token form, input that a form refuses (it shows a message and changes
nothing else). The pragma `foreign_keys` is taken to hold on the one pooled
connection. The directory entry of `master.key` is not synced to disk by the
code; a power loss that forgets it is not modelled. Failed updates of
`monitor_status` are ignored by the code and taken to succeed. More than one
attachment per message behaves as one: they are written in one order by one
goroutine. `ListEmails` counts and pages in two statements, which are one step
in `Inbox`: they are reads, and the next request puts them right. Times are
stored and compared as RFC 3339 text whose fraction loses its trailing zeros
(`store.go:406`), so two instants of one second may compare in the wrong order.
That concerns the sorting of emails and the three queries on expiry
(`auth.go:60`, `auth.go:70`, `api_tokens.go:45`), by which a session or token
may be taken to be expired, or still to be valid, within the second in which it
expires. `Access` and `Admission` compare instants as numbers: their instants
are of different seconds, so what they say of expiry holds but for that second.
`Tokens` has one browser window as its only client: what other tabs, browsers or
scripts create and revoke is outside `ListTrue`, and a token that has expired
and was not revoked is live there, as it has a row. `monitor.Start` failing at
start (`main.go:94`) ends `run` before any call is served. A `sync.WaitGroup`
may panic when a worker is added just as `Wait` returns; that ends the process,
as a kill does. A login throttle of many addresses is one throttle per address.

## Plan

1. Core: `Mailbox` with `MailReplica`, `Monitors`, `KeyFile` with `KeyChoice`;
   proofs of `Mailbox` and `KeyFile`. Done.
2. `Access` with its proofs, and `Inbox`. Done.
3. `Session` with the login throttle, `Windows` with its parts; proofs of
   `Monitors`, `Session`, `Windows` and `Inbox`. Done.
4. What each part promises, as an abstract specification with a proof of its
   refinement: `Admission`, `AccountBook`, `OneRequest`, `Door`. Done.
5. Left: the same for `Windows`; liveness of `Inbox` (the list of accounts agrees
   with the server in the end).
