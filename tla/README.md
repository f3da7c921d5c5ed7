# slab-email in TLA+

A verification project for [slab-email](../src/README.md), a small Node.js server that
gives scoped, audited access to mailboxes (IMAP/SMTP, Gmail, Microsoft Graph, AgentMail,
Resend, a managed Proton Mail Bridge) over HTTP and MCP. Paths below are relative to the
repository root, `src/`; `services/…`, `db/…`, `proton/…` and `providers/…` lie under
`src/src/`.

- [Execution model](#execution-model)
- [Inventory](#inventory)
- [Modules and the code they model](#modules-and-the-code-they-model)
- [Runs](#runs)
- [Fairness](#fairness)
- [Proofs](#proofs)
- [Findings](#findings)
- [Assumptions and limits](#assumptions-and-limits)
- [Plan](#plan)

To check a run: `tlc -config <cfg> <module>` with a pair of the table in [Runs](#runs).
To check the proofs: `tlapm <module>` for `SendProofs`, `InboundProofs`, `ScanProofs`,
`AccountProofs`, `ProtonProofs`, `LinkProofs`, `AccessProofs` and `MigrationProofs`.

## Execution model

The server is one Node.js process over one SQLite file (`better-sqlite3`, synchronous) with
one Python child process. JavaScript runs without interruption from one `await` to the next,
and a `db.transaction(...)` contains no `await`. So **an action of these modules is
everything between two awaits**, and what interleaves is: HTTP and MCP requests among
themselves, the background poller, the administrator's changes, the mail providers' answers,
the Python process, timers, and the end of the process at any point. What survives a restart
is the SQLite file and the Bridge keychain, nothing else.

## Inventory

| component | code | state | operations | what makes it hard | correct when |
|---|---|---|---|---|---|
| Send operations | `services/mail-service.ts`, `db/database.ts` | `send_operations`, `send_attempts`; the locals of each request | send, reply, retry with the same key | row read before two awaits and used after; ambiguous and late provider answers; crash between claim and verdict; hourly limit | a key delivers once; a verdict stands; a retry happens only after a confirmed failure; the limit holds |
| Inbound discovery | `services/inbound-event-service.ts`, `db/database.ts` | `inbound_poll_state`, `inbound_seen_messages`, `inbound_events`; the poll's locals | background and manual polls, page commits, baselines, errors | mail arrives, goes and is renumbered between two pages; the account changes while the provider is asked; scans are cut off and resumed | every mail seen, each announced once, none of the baseline, none of another mailbox; a scan ends |
| Account registry and OAuth | `services/account-service.ts`, `db/database.ts` | `email_accounts`, `email_account_secrets`, `oauth_states`, `provider_credentials`, `inbound_generation` | create, update, enable, delete, test, store OAuth credentials, authorize, callback | providers, tests and exchanges hold versions of a row across awaits; sequences of partial edits | keys stay with their server; equal generations mean the same mailbox; a state connects once |
| Managed Proton manager | `services/proton-bridge-manager.ts` | account rows of the logins, `pending`, `started`, `setupActive`, `upstreamConnected` | connect, continue, abort, status, disconnect, sync, start-up, shutdown | every handler lists rows, awaits Bridge, then writes rows | no mailbox in use is deleted; all of a login or nothing; rows equal Proton's addresses |
| Controller link | `proton/controller.ts` | child process, start promise, pending calls, timers | request, reply, timeout, start, exit, stop | late replies; processes that overlap, whose handlers and timers act on each other's fields | no call waits for what will not come |
| Bridge CLI controller | `proton/bridge_controller.py` | `pending` challenge, the CLI's dialog, the command whose echo is awaited | status, connect, challenge, abort, remove, addresses | commands that time out half way, dialogs that end or stall | a credential reaches its own login's dialog |
| Access profiles and tokens | `services/access-profile-service.ts`, `middleware/auth.ts` | profiles, their accounts, hashed tokens | create, update, remove, issue, revoke, authenticate, check | creation in two transactions; MCP tools run after an await on the policy read before it | a request stays within one policy that was granted to its token |
| Providers | `providers/*` | none kept (a connection per call) | search, get, thread, draft, send, reply, verify | paging while the mailbox changes; error classes of a send | a page boundary skips nothing |
| Migrations | `db/migrations.ts`, `db/migrate.ts` | `schema_migrations` and the schema itself | upgrade by a job or at start-up; serving with `SKIP_MIGRATIONS` | a version is looked up outside the transaction that applies it; other processes serve the file meanwhile; old `failed` rows | no mail twice, no operation uncounted, nothing an account has is lost |
| HTTP, MCP, wiring, configuration, setup, packaging | `app.ts`, `mcp/server.ts`, `index.ts`, `config/env.ts`, `proton/setup-*.ts`, `Dockerfile`, … | none of their own | routing, validation, formatting | – | – |

Interactions: `MailService` reads accounts and profiles, then builds a provider from an
account snapshot (`AccountService.getProviderForAccount`). `InboundEventService` takes
`getInboundProviderSnapshot`, asks the provider and commits under the captured
`inbound_generation`; the managed Bridge can hold polling back (`canPollManagedAccounts`).
`ManagedProtonBridge` creates, disables and deletes `proton_bridge` accounts through
`AccountService`, and talks JSON lines with the Python process, which types into the
pseudo-terminal of Proton's Bridge CLI. `PROJECT.json` lists all components with their
files, and every hazard at its line.

## Modules and the code they model

| module | models | code |
|---|---|---|
| `SendOperations` | one mail operation and the tables behind it | `services/mail-service.ts`, `db/database.ts`, outcome classes of `providers/*` |
| `SendLedger` | the abstract idempotency ledger that `SendOperations` implements | `docs/architecture.md`, "Send idempotency" |
| `InboundPoll` | a poll, the inbound tables, and the paging, windows and filters of every kind of provider | `services/inbound-event-service.ts`, `db/database.ts`, `searchMessages` of `providers/*` |
| `InboundFeed` | the abstract feed of events that `InboundPoll` implements | `docs/architecture.md`, "Inbound event discovery"; `services/inbound-event-service.ts` |
| `AccountRegistry` | account rows, readers across awaits, OAuth connections | `services/account-service.ts`, `db/database.ts` |
| `AccountVersions` | the versions of one account's row: what `AccountRegistry` implements for every account and `InboundPoll` counts on | `setAccountEnabled` and `upsertEmailAccount` of `db/database.ts` |
| `BridgeCli` | the Python process | `proton/bridge_controller.py` |
| `ManagedProton` | the manager, its account rows and the link; `EXTENDS BridgeCli` | `services/proton-bridge-manager.ts`, `proton/controller.ts` |
| `ControllerLink` | the child processes of the controller, old and new | `proton/controller.ts` |
| `AccessProfiles` | profiles, tokens, and a request's way to a provider | `services/access-profile-service.ts`, `middleware/auth.ts`, `db/database.ts`, `services/mail-service.ts`, `app.ts` |
| `Migrations` | the upgrade of a file that other processes have open | `db/migrations.ts`, `db/migrate.ts`, the writes of `db/database.ts` it meets |
| `MCSend`, `MCInbound`, `MCAccounts`, `MCProton`, `MCLink`, `MCAccess`, `MCMigrations` | small instances for TLC | |
| `SendProofs`, `InboundProofs`, `ScanProofs`, `AccountProofs`, `ProtonProofs`, `LinkProofs`, `AccessProofs`, `MigrationProofs` | theorems | |

`map` in `PROJECT.json` gives the lines of every definition.

An operator whose comment begins with *Mutant* is a plausible bug of the definition that
follows it; no action uses it. Each property of each passing run is violated when its
definition is replaced by one of these.

### SendOperations

`status`, `result` and `attempts` are the columns of `send_operations` and
`send_attempts`. `pc[r]` and `job[r]` are the place and the locals of a request: `idle`;
`preparing`, the awaits of `getProviderForAccount` and of a reply's preflight; `acting`, the
await of `provider.sendMessage` or `replyToMessage`. `BeginPreparing` is the code up to the
first of these (access check, `getSendOperation`, `currentWindowStart`); `Claim` is the
stretch between them (`countRecentSendAttempts`, then `createSendOperation` or
`claimFailedSendOperation`, each with its `send_attempts` insert, and the start of the
provider call); `LoseClaim` is the losing branch of the same; `ActionReturns` is
`markSendOperationStatus` with the outcome class of the provider (`Outcome`);
`LedgerWriteFails` is a write that throws after the provider has answered. `open`,
`accepted` and `told` are the provider's side and what callers heard: a call that was given
up may still be accepted at any later time. `SetEnabled`, `SetGranted` and `DeleteAccount`
are the administrator, `Restart` is the end of the process.

### InboundPoll

One account: `runPoll` serves accounts one after the other and touches no row of another,
and polls never overlap. `row`, `firstSeen`, `events` are the three tables; `pc`, `poll`,
`answer` are the loop's place, locals and the page received. The actions follow the loop:
`ListAccounts`, `CaptureAccount` and `SnapshotTaken` (the two halves of
`getInboundProviderSnapshot`), `BeginScan` (`beginInboundScan`), `FetchPage`,
then one of `PageIsFaulty`, `Rebaseline` (`rebaselineInboundIdentity`), `ScanStateChanged`
(the rolled-back transaction) and `RecordPage` (`recordInboundPage`). `CursorRefused`,
`FetchFails` and `FetchGarbled` end in `MarkError` (`markInboundPollError`). The mailbox is
a sequence of mails in their order of arrival, each with a date that may lag behind it; the
server may renumber its mailboxes (`Rebuild`, a new UIDVALIDITY), and mail leaves at any time.
One number stands for the UIDVALIDITY of all mailboxes: a scan compares only identities of its
own mailbox, and a scan of another one starts without any.
What differs between providers is in five operators over `Kind`: only IMAP ids carry an
identity epoch (`HasEpochs`); IMAP lists by UID, which is the order of arrival, the others by
date, latest first (`ListsByDate`; Graph is asked for `receivedDateTime desc`, the searches of
Gmail, AgentMail and Resend answer so without being asked); IMAP and Gmail searches take a calendar date for the start of
the window, which the provider counts from a midnight of its own, `Zone` after that of UTC
(`SearchesByDay`); Resend takes no start (`IgnoresWindow`); AgentMail and Resend filter a
page after the provider has cut it (`FiltersPages`), so a page may show nothing and still
have a next one. `Place` is where a mail stands in a listing: its number, or its date and, of
one date, its number. A cursor is the place of the last mail of the page before, and the next
page is what stands behind it, so that a mail which arrives with a date in the past can turn up
on a page still to come, or behind a mail that ends the scan. `Skew` is the lag of a date. `Drift` is how far the stamp of a scan may run
ahead of the clock: `nextScanStartedAt` moves the stamp past the previous one by force when
the clock stands still or steps back, and the overlap has to absorb the difference.

`baseline`, `settled` and `scanFrom` are history: the last mail that had arrived when the
baseline began, when it was complete, and when the scan under way began. With them `InboundPoll`
implements `InboundFeed`, which has no pages, cursors, clocks, ids, faults or restarts.
`FeedPhase` reads the phase of the feed off the row (`none`, `baseline`, `idle`, `scanning`; a
row of an earlier generation is as good as none), and the mails announced are those the events
name. `InboundFeed!Announce` is the promise: what is announced is mail of the account's mailbox
that came after the baseline began and was never announced before, only for an enabled account;
and a scan ends only when all that had arrived by its start, after the baseline, and is still
there has been announced.

### AccountRegistry

A row is its kind, inbound endpoint (origin and mailbox), credential, `enabled`, `generation`
and `status`; an `Update` that changes neither endpoint nor credential is an edit of the rest of
the configuration. `Update` is `updateAccount` with `persistAccount`: `KeyGoesAlong` is the check that another origin needs
another key, `MovesMailbox` decides whether the generation moves. A `reader` is whoever
holds a row across an await: a provider snapshot, a connection test, or an OAuth exchange.
`client` is where the OAuth client of each provider comes from (`resolveGoogleOAuthCredentials`
and its twin): the environment, or a stored row that `SaveSettings` writes and nothing removes;
a restart keeps both, so that a client which was there when the authorization began is there
when it comes back. `Callback` is the code up to the exchange (the state is consumed even if
refused), `Connect` the code after it. `Version(i)` shows the row of one id as
`AccountVersions` has it: a state, a generation, and what is read through the row (endpoint and
credential). The `account` of `InboundPoll` is shown in the same way, so the poller's
administrator (`SetEnabled`, `Reconfigure`, `DeleteAccount`) is not an assumption of that module
but what `AccountRegistry` does, no more and, within the bound on generations, no less.
`purgeExpiredOauthStates` has no caller and no action.

### BridgeCli and ManagedProton

`BridgeCli` is the Python process. `cli` holds its `pending` challenge, the login the CLI's
dialog is asking for, and `deaf`: a command was typed whose echo was never read, so every
later command is refused. Each handler reads one line and writes one
(`Answer`); `Stall`, `NotReached` and `LoginStalls` are the ways its deadlines can run out,
with everything they may leave behind. `vault` is Bridge's keychain, `aliases` what Proton
serves.

`ManagedProton` is the Node side. A caller (admin request or start-up task) goes from `idle`
to `starting` (`Begin…`, the code up to `ensureStarted`), to `waiting` (`Dispatch`, the line
is written) and back (`Receive`, the oldest reply with everything its handler then does).
`Timeout` gives a call up and leaves its lines in the pipes, `ChildExits` rejects all waiting
calls, `StartFails` all starting ones, `Restart` ends the server. `op[p].group` is the list
of rows `disconnectAccount` read before its await; `missing` remembers that one of them was
deleted since.

### ControllerLink

`child`, `start` and `target` are `this.child`, `this.startPromise` and, per call, the process
its line was written to; `armed` holds the start timers that have not fired. Calls go from
`new` to `starting` (they wait for the promise) or straight to `pending` (written), then
`settled`. The point of the module is that a `killed` process lives on until it is `dead` and
its exit is handled (`gone`), while `start` may already spawn the next: `HandleExit`,
`ReadReady` and `StartTimer` of a process act on whatever the fields hold by then, as the
closures of `start` do. `ManagedProton` uses the case of one process at a time, and reduces
this module to `Dispatch`, `Receive`, `Timeout`, `StartFails` and `ChildExits`.

### AccessProfiles

`profile`, `policy`, `token`, `owner` are the tables (`policy[p]` is a row of
`access_profiles` with its `access_profile_accounts`). `edit[p]` is the policy the
administrator was last told is in force and `due[r]` what a request's token was worth by those
edits when it arrived; both are there for the properties. `RestRequest` is one action, since
nothing is awaited between the token's lookup and the checks; an MCP call is `McpRequest` and,
after `transport.handleRequest`, `RunTool` on the context of the first. `stored` is whether
the inserts of `setProfileAccounts` go through.

### Migrations

`recorded` is `schema_migrations`, `schema` which of the columns and tables that migrations 3, 4
and 6 bring are there, and `proc[p]` the place and locals of a process: a migration job, a
server that migrates as it starts, or one with `SKIP_MIGRATIONS` that serves what it finds. A
migration is two actions, the look-up (`CheckApplied`, and `InspectProviders` for the DDL of the
account table) and the transaction, with everything other processes do in between; `Refused` is
what a second application runs into (the primary key of `schema_migrations`, a column or table
that exists), and `MigrationFails` the start that then ends. `Init` has a file of every earlier
version, with what its ledger may hold, and half-finished starts. Of the serving side there are
the writes that meet the migrations: accounts, generations, claims and verdicts, each failing as
a whole when its column or table is missing. The requests of one server in detail are
`SendOperations`.

## Runs

| run | module / cfg | question | bounds |
|---|---|---|---|
| `send_core` | `MCSend` / `MCSend.cfg` | At most one delivery per key; retries only after a confirmed failure; one owner; the hourly limit; verdicts that stand; settled rows final; orphans never retried; a deleted account never called; every step is a step of `SendLedger`. `SendInv` is the invariant of the proof | 1 account, 2 keys, 2 concurrent requests, 2 sends per window of 1 tick, 3 clock values; symmetric requests |
| `inbound_rebuild` | `MCInbound` / `MCInboundRebuild.cfg` | No mail is announced twice when the server renumbers the mailbox or the account is pointed elsewhere; every step is one of `InboundFeed`: no baseline is announced, no page of an earlier mailbox or of a disabled account is published, nothing due is left out by a scan that ends; a scan that began completes | IMAP by days of 2 ticks, 2 mailboxes, 2 generations, 2 mails, 2 identities, pages of 1, 1 page per poll, a clock that stands still, with stamps up to 1 tick ahead, 1 fault |
| `inbound_pages` | `MCInbound` / `MCInboundPages.cfg` | No mail falls out of the window or behind the seen boundary; a completed scan has caught up | IMAP, 3 mails, pages of 1, 2 pages per poll, dates up to 1 tick late, stamps up to 1 tick ahead, overlap of 2, clock 1 to 2, 1 fault |
| `inbound_window` | `MCInbound` / `MCInboundWindow.cfg` | *violation*, see [Findings](#findings) | Gmail, days of 3 ticks that begin 2 after UTC's, 1 mail, clock 1 to 4 |
| `accounts` | `MCAccounts` / `MCAccounts.cfg` | Keys stay with their origin; generations identify mailboxes; a state is used once; each row goes through the versions of `AccountVersions`, up to a deletion that nothing undoes. `RegistryInv` is the invariant of the proof | 2 ids, 2 origins, one API kind, both OAuth providers, one password kind, 2 readers, 1 state, 2 edits (of accounts, assignments or OAuth clients), 2 credentials; symmetric ids, origins, readers and OAuth providers |
| `proton_rows` | `MCProton` / `MCProtonRows.cfg` | Assigned rows survive; a login goes as a whole or not at all; a sync reconciles | 1 login with 1 alias, 2 admins and the start-up task, 3 calls or assignments, 1 change at Proton, 1 fault |
| `proton_login` | `MCProton` / `MCProtonLogin.cfg` | A credential reaches its own dialog only; a call that waits has its line with a running process, and an answer its handler takes; every call ends | 2 logins, 2 challenges, 1 admin and the start-up task, 3 calls, 1 fault; no symmetry |
| `proton_aliases` | `MCProton` / `MCProtonAliases.cfg` | *violation*, see [Findings](#findings) | as `proton_rows` |
| `proton_sync` | `MCProton` / `MCProtonSync.cfg` | *violation*, see [Findings](#findings) | 2 logins, 4 calls, 1 fault |
| `link` | `MCLink` / `MCLink.cfg` | No call waits for a start that is over or for a process whose exit was handled. `LinkInv` is the invariant of the proof | 3 calls, 3 processes; symmetric calls |
| `access` | `MCAccess` / `MCAccess.cfg` | Stored policies are the acknowledged ones, nothing dangles, requests stay within what was granted. `AccessInv` is the invariant of the proof | 2 accounts, 2 profiles, 2 tokens, 1 request, 2 choices of capabilities; symmetric accounts, profiles, tokens |
| `upgrade` | `MCMigrations` / `MCMigrations.cfg` | Upgrades lose nothing, no mail leaves twice, every operation counts, confirmed failures stand | files of every version, 2 processes, 1 account, 2 keys, 2 generations, 3 attempts; symmetric processes and keys |

Why these bounds are enough to be interesting:

- *Sending.* The hazards are between two requests for one key (a claim race, a retry behind
  a late acceptance), between two keys of one account (the limit), and between a request and
  an administrator; two requests and two keys have all of them. Calls outlive restarts, so
  a third call is compared with two earlier ones. The account's provider is of the kind whose
  answers may be certain or ambiguous; the others do less (SMTP classifies in the same way,
  the JSON providers never confirm a rejection), and the proofs cover all kinds.
  `MaxSends` 2 with `Window` 1 lets attempts leave the window.
- *Inbound.* With one mail per page, one page per poll makes a scan of two mails defer, and
  two pages one of three; both let mail arrive or leave before, at and behind the cursor. Two
  identities are one rebuild in every phase of a scan; two mailboxes and two generations are
  one repointing at every await. A second fault restarts the scan from the same state as the
  first. In `inbound_pages` lag and drift are one tick each and the overlap is exactly their sum;
  with an overlap of 1 `NoMailOutsideWindow` fails. The run is of IMAP because only there may
  dates lag. With `Kind = "agentmail"`, whose pages are also filtered (a page that shows nothing
  and has a successor needs one foreign mail between two others), `Skew = 0` and `Overlap = 1`
  the three properties hold as well (1.9 million states); with `Kind = "graph"`, `Skew = 1`,
  `Drift = 0` and `Overlap = 1`, `NothingBehindBoundary` fails, see
  [Findings](#findings).
- *Accounts.* A leak of a key needs an edit of the server and one of the key in some order
  and a reader from before; two edits, two origins and two credentials are that.
- *Proton.* One login with an alias is the smallest group; a third party (the start-up task)
  runs beside two requests. Two logins and two challenges are what a confusion of dialogs
  needs. Only one fault is allowed, since each costs about a factor of three; faults of
  different kinds in one behaviour are therefore not covered.
- *Link.* Three processes let an old one's exit and timer meet the start of the next and the
  calls of the one after; three calls can be starting, pending on an old and pending on a new
  process at once.
- *Upgrade.* Every migration only compares what it reads with what it writes, so two processes
  have every race of a look-up and a transaction; two operations of one account are needed for
  one to be old and failed and the other to be claimed at the same time.
- *Access.* Requests do not change the tables, so one of them sees every interleaving. Two
  profiles are needed for a token named under the wrong one, two accounts for an edit that
  trades one for the other.

`CHECK_DEADLOCK FALSE` is set where behaviours do end: when a deleted account leaves the
poller, or a bound leaves administrators and providers, nothing to do. The runs `send_core`,
`access` and `upgrade` keep the check on: a request can always be made and refused, a process
always be started or stopped.

## Fairness

- `InboundPoll!FairSpec` is `WF_vars(Poll)`. The timer of `start()` calls `pollNow` again and
  again, a provider request ends by its answer or its timeout, and everything else of a poll
  is code that just runs. Faults are not fair and are bounded by `MaxFailures`: an account
  whose provider fails for ever never completes a scan, in the code as in the model.
- `ManagedProton!FairSpec` is `WF_vars(Python)`, since every wait of `bridge_controller.py`
  has a deadline and every request is answered by one line; `WF_vars(Receive)`, since Node
  reads the pipe; and `WF_vars(Dispatch(p))`, since starting the process succeeds or fails
  within the 45 seconds of its timer. `Timeout` is not fair: the property does not rest on
  it.

The other specifications state no fairness (`Spec`); their properties are safety properties.

## Proofs

All theorems hold for every value of the constants that satisfies the named assumptions.
Each proof module extends its component's module, has lemmas for the helpers, one lemma
`Init… => Inv`, one for `Inv /\ [Next]_vars => Inv'` with a step per action, and theorems
that combine them.

| module | theorem | states |
|---|---|---|
| `SendProofs` | `TypeCorrect` | `Spec => []TypeOK` |
| | `SendInvariant` | `Spec => []SendInv` |
| | `AtMostOnceHolds`, `RetrySafe`, `SingleOwnerHolds`, `VerdictsStandHolds` | no key is accepted twice; a retryable row has no call that delivered or can; a row has one owner; verdicts stand |
| | `RateBoundHolds` | in no window of an hour does an account start more than `MaxSends` calls |
| | `SettledIsFinalHolds`, `OrphansStayPendingHolds`, `DeletedAccountNeverCalledHolds` | what no step may do |
| | `ImplementsLedgerHolds` | `Spec` implements `SendLedger!LedgerSpec` under the refinement mapping |
| `InboundProofs` | `InboundTypeCorrect` | `Spec => []TypeOK` |
| | `PollerAimedHolds` | equal generations: the poll reads the account's mailbox |
| | `NoStaleMailboxHolds` | nothing is published for another mailbox or while disabled |
| | `AdminTakesVersions`, `AccountIsVersioned` | the administrator of `InboundPoll` may take every step of `AccountVersions`, and the account takes no other |
| | `FeedInvariant`, `EventOncePerMailHolds`, `BaselineSilentHolds` | no mail has two events; a baseline, and what was there when it began, is never announced |
| `ScanProofs` | `ScanInvariant` | `Spec => []ScanInv`, as the next three if `DaysAgree` and `ListsInOrder` |
| | `NoMailOutsideWindowHolds`, `NothingBehindBoundaryHolds`, `ScanCatchesUpHolds` | mail not yet seen is in the window of the next scan and listed before its boundary; a completed scan has seen what had arrived when it began |
| | `PagesDescendHolds` | a page that leaves its scan open moves the cursor down the listing, and nothing else moves it but back to the first page; for every provider and any lag |
| | `AnnounceInvariant`, `ImplementsFeedHolds` | if `DaysAgree` and `ListsInOrder`, `Spec` implements `InboundFeed!FeedSpec` under the refinement mapping |
| `AccountProofs` | `RegistryInvariant`, `RegistryTypeCorrect` | `Spec => []RegistryInv`, `Spec => []TypeOK` |
| | `KeyStaysHolds`, `GenerationTracksHolds`, `StateUsedOnceHolds`, `DeletedStaysDeletedHolds` | keys stay with their origin; generations identify mailboxes; a state connects once; no late answer brings a deleted account back |
| | `ImplementsVersionsHolds` | the row of every id implements `AccountVersions` |
| `ProtonProofs` | `DialogInvariant`, `ProtonTypeCorrect` | `Spec => []DialogInv`, `Spec => []TypeOK` |
| | `OwnDialogOnlyHolds` | a credential reaches its own login's dialog only |
| | `ProceedInvariant`, `CallsProceedHolds` | a call that waits has its line or its answer in a pipe of a running process, and an answer is one its handler takes |
| | `AssignedRowsSurviveHolds`, `WholeGroupOrNoneHolds`, `SyncReconcilesHolds` | as in the run `proton_rows` |
| `LinkProofs` | `LinkInvariant`, `WaitersAreWoken` | `Spec => []LinkInv`; every waiting call has something that will end it |
| `AccessProofs` | `AccessInvariant`, `AccessTypeCorrect` | `Spec => []AccessInv`, `Spec => []TypeOK` |
| | `StoredAsAcknowledgedHolds`, `NothingDanglesHolds`, `ReachesWhatWasGrantedHolds` | as in the run `access` |
| `MigrationProofs` | `UpgradeInvariant` | `Spec => []UpgradeInv` |
| | `SentOnceHolds`, `EveryOperationCountedHolds`, `FailuresStandHolds`, `NothingLostHolds` | as in the run `upgrade` |

**Sending.** `AtMostOnce` alone is not inductive: nothing in it forbids a second call while
the first is only open. `SendInv` adds that at most one call per key is open or accepted
(`OneLiveCall`), that a row which can be claimed has none (`RetryOnlyWhenUndelivered`), that a
request that acts holds the call of its row, alone, and nobody was told a verdict before it
(`SingleOwner`, `OwnersHold`), and that settled rows name the accepted mail
(`SettledRowsName`). A claim then finds no live call; an answer is about the only one; and
`RowsHaveAccounts` keeps a deleted account's keys from ever being claimed again. The proof
uses that account ids are not reused and `KindAssumption`. `SettledIsFinal`,
`OrphansStayPending` and `DeletedAccountNeverCalled` follow step by step from it; for
`ImplementsLedger` every action is shown to be a step of `SendLedger` or a stutter, with the
ledger's `copies` mapped to the accepted calls of a key and `retryable` to keys without a live
call. `RateBound` has an argument of its own: a
request's window begins no later than the one at the time of its claim, so the attempts counted
include all of the last hour, and the count and the insert are one step.

**Inbound.** `TypeOK` fixes which locals the poller has at which await. `PollerAimed` says
that the captured generation is never newer than the account's, that equal generations mean
the captured mailbox is the account's, and that a page holds messages of the captured
mailbox. It is inductive because every action that moves the account's mailbox moves its
generation; a commit checks the generation and the enabled state in the same step in which
it publishes, which gives `NoStaleMailbox`. `FeedInv` carries `EventOncePerMail` and
`BaselineSilent`: an event is either older than the current baseline or of a message still in
`inbound_seen_messages` (`EventsSeen`), all seen ids and those of a page under way are of the
row's epoch (`EpochsAgree`), and a baseline has seen every old mail down to its cursor
(`BaselineSeen`, `AnswerCovers`). A mail that comes back under a new id can then only be one
the new baseline sees before it may announce anything.

**Scans.** `ScanProofs` shows that no mail is lost, from `ClocksAssumption` and two assumptions
about the provider, which are hypotheses of the theorems. `DaysAgree`: one that searches by day
counts days from UTC's midnight, `Zone = 0`; the run `inbound_window` shows what happens
otherwise. `ListsInOrder`: the dates of one that lists by date do not lag, `Skew = 0`. IMAP needs
no such assumption, its dates may lag as far as the overlap absorbs. What both kinds have in
common, and what the proof uses, is that a mail takes its place before all that were there when
it arrives (`ArriveScan`). `ScanInv` is about the *pending* mails, those a
current row has yet to see. `PendingReachable` says that each of them is no older than the last
scan's start less the overlap, that the cursor has not passed it by unless it arrived after the
scan began, and that mail listed before it which has been seen was seen by the scan still open.
`AnswerComplete` says the same of the page in hand: mail behind the cursor is on it, or has
arrived since, or is left to a later page. So a page that ends a scan, by a seen boundary or for
want of a next page, leaves only mail that arrived after the scan began: a boundary of an
earlier scan listed before a pending mail would contradict `PendingReachable`. That such late mail is
in the next window is arithmetic on stamps: `ClockKept` bounds the stamps of a row by the clock,
`Drift` and one tick for every rebuild up to the row's epoch, since each rebaseline may push the
start of the scan past the stamps before it, and `PollKeepsPace` carries this bound to the epoch
a page is answered with.

**Feed.** For `ImplementsFeed` each action is shown to be a step of `InboundFeed` or a stutter,
by the phase before and after it. Most of it is that the phase moves only where the feed lets it:
an edit of the account makes the row out of date, which is phase `none`; a rebuilt mailbox goes
back to `baseline`; errors, crashes and pages that are not recorded leave all of it alone. The one
step that announces is `RecordPage`. That it announces no mail twice is `EventOncePerMail` of the
next state; that the mail is of the account's mailbox, and the account enabled, is `MayCommit` with
`PollerAimed`; that it came after the baseline is `BaselineSilent`. That nothing due is left when
it ends the scan needs two invariants together: `ScanInv` says that a scan that completes has
*seen* all that had arrived when it began, and `AnnounceInv` that of what has been seen since the
baseline was complete all has been *announced* (`SeenAnnounced`). What the promise leaves open is the time
between `base` and `settled`: mail that arrives while a baseline is being read is either part of
it or announced by the first scan, depending on the page it meets, so `InboundFeed` allows both.

**Cursors.** `ScanCompletes` is liveness and stays with TLC; the safety it rests on is
`PagesDescend`. A page shows mail behind its cursor only, so its next cursor is a place further
down, in a listing by date as in one by arrival.
An answer that leads back, as a faulty provider may give, repeats a cursor this poll has used and
is refused (`RepeatedCursor`); `AnswerDescends` says so of the page in hand.

**Accounts.** `RegistryInv` is `TypeOK`, `KeyStaysWithItsOrigin` and
`GenerationTracksMailbox` with `ReadersBehind` (a reader's version is not newer than the
row's, so that an edit that moves the generation leaves it strictly behind) and `OneHolder`
(an OAuth state is in its row, or with one exchange, or used up). `DeletedStaysDeleted`
follows step by step from it and from the fact that a new row needs an id never used.

`ImplementsVersions` is one lemma per action: `Update` and `SetEnabled` change what the poller
reads, or whether it may, and move the generation in the same step; a test that comes back
changes the status of the row as it is by then, and nothing of the version it had read.
With `AccountIsVersioned` and `AdminTakesVersions` it closes a gap between two
modules: `PollerAimed`, `NoStaleMailbox` and the feed are proved of a poller whose administrator
is `AccountVersions`, and the registry is proved to be one.

**Managed Bridge.** `OwnDialogOnly` compares what was typed with the dialog it was typed into;
between the two lie the manager's own note of the challenge, a call, a line in each pipe and the
process's pending challenge, any of which a fault may cut off from the others. `DialogInv`
therefore says that all who know of a challenge know it as the same login's (`OneLoginEach`) and
that ids above `issued` are known to nobody, so that a new challenge agrees with everything
left over from old ones; that a line not given up belongs to a waiting call, and no call has two
(`LinesOwned`, `LinesApart`); and that the dialog an answer may reach is that of the pending
challenge (`DialogOfChallenge`). The three action properties about rows need only `TypeOK`: each
handler looks at the assignments again in the step in which it deletes. `RowsAssumption` says
that `Null` is not a row.

`CallsProceed` is the safety half of `CallsAreSettled`: a waiting call has never lost its line
while the process runs on, so that one of `Python`, `Receive` or `ChildExits` will end it, and
the reply at the head of the pipe is never one that no handler takes, behind which all others
would wait. It is not inductive because nothing in it ties a line to the kind of its call;
`ProceedInv` adds that a request asks for what its caller is about (`ActionsFit`). `Timeout`
takes the caller's name off its lines in the same step in which it gives the call up, and
`LinesOwned` and `LinesApart` keep a later call of the same caller from taking the old line for
its own.

**Migrations.** `UpgradeInv` says that versions are recorded in order with what they have done
(`SchemaRecorded`), that a process is at a migration only when all earlier ones are recorded and
that what it has read of the account table stays true (`MigratesInOrder`), and that a failed row
has no copies from version 5 on (`RowsOwned`). Claims need the table of version 6, so no request
runs before failed rows are closed; a second application of versions 3 to 6 meets the primary key
of `schema_migrations`, or the column or table that is there, and is undone as a whole.

**Link.** `EveryWaiterHasAWaker` needs to know that the timer of an open start has not fired
and that `this.child` is not a process that is gone, for a call is written to `this.child`
without asking whose it is. Both survive because an exit handler forgets the child and the
start, and rejects every call, without asking either: `LinkInv` records this, and that
processes not yet spawned have no timer.

**Access.** That a request stays within what was granted rests on `StoredAsAcknowledged` (the
context it reads is what the administrator was told) and on `NothingDangles` (a valid token
has a live profile). A profile whose creation failed half way has capabilities nobody
acknowledged; it is harmless because it has no account, which is why the invariant compares
capabilities only where there are accounts.

**Only model-checked** are the two liveness properties, `ScanCompletes` and `CallsAreSettled`: the
prover supports neither fairness arguments over `ENABLED` nor induction over data (that a
descending cursor comes to an end). The safety each of them rests on, `PagesDescend` and
`CallsProceed`, is proved. Every safety property that a passing run checks is a theorem.

The other way round, some theorems state properties no run has, since a run has a stronger one:
`NoStaleMailbox` and `BaselineSilent` are part of `ImplementsFeed` in `inbound_rebuild`,
`DeletedStaysDeleted` of `ImplementsVersions` in `accounts`. `PagesDescend`, `FeedInv`, `ScanInv`
and `AnnounceInv` hold in both inbound instances as well when they are added to the cfg, and all
but `ScanInv` in one that lists by date with a lag.

## Findings

Three places where the code does something else than its documentation says; each is a run
that is expected to fail.

1. **A deleted login can leave an alias behind** (`proton_aliases`).
   `services/proton-bridge-manager.ts:265` deletes the rows listed *before* the sign-out was
   awaited. A synchronisation of the same login that is answered during that await adds an
   alias which no one deletes, although `docs/proton-managed.md:34` says that removing the
   primary login removes all of its managed aliases.
2. **A synchronisation can import another login's mailboxes** (`proton_sync`).
   `proton/bridge_controller.py:368` (`_bridge_account`) falls back to the only account Bridge
   has. When the login was signed out in Bridge but its rows stayed (its removal was carried
   out and not acknowledged), and one other login is connected, `sync-addresses` of the first
   imports the second's addresses under the first's name, where `docs/proton-managed.md:28`
   describes it as importing the addresses of the account it is called for.
3. **A Gmail scan can begin after its window** (`inbound_window`).
   `providers/gmail/provider.ts:253` turns the start of the window into `after:` and a UTC date,
   which Gmail counts from midnight in its own time zone, several hours after that of UTC.
   What arrives between the end of a scan and that midnight, on the new UTC day, is in no later
   window that starts on that date, although `docs/architecture.md:91` promises an overlap. The
   time zone is the provider's and an assumption of the model (`Zone`); with `Zone = 0` the
   property holds.

Behaviour worth knowing about which no document says otherwise, recorded under `hazards`:
Graph, Gmail, AgentMail and Resend list by date, so a mail whose date lags behind its arrival
stands behind mail an earlier scan has seen, and that boundary
(`services/inbound-event-service.ts:165`) ends the scan before it is reached; the scan counts as
complete, and once the window has moved on the mail is never announced. The overlap protects
late dates only where the listing is in the order of arrival, which is IMAP. Two mails are enough:
one is seen by the baseline, the other arrives at the same time with the date of the tick before
and is listed behind it.
Also:
`setupActive` stays set after a challenge answer that failed, and managed mailboxes are not
polled until someone aborts, connects or restarts; a rejected answer leaves the challenge
pending, so that every command is refused until it lapses (ten minutes) or is aborted; a
command whose echo was missed blocks the CLI until the Python process is restarted; nothing
between the access check and the provider call looks at the account or the profile again. In
`ControllerLink`: the start timer set at `proton/controller.ts:93` is never cleared, and it
ends whichever start is open when it fires, so that the timer of a process that has exited can
end the start of its successor and the next call is written to a process that is not ready
(it is answered, rejected or timed out all the same); the exit handler of an old process
forgets a newer one, which runs on beside its successor; a process that never becomes ready is
not killed when its start was ended by another's timer. In `AccessProfiles`: revoking a token
under another profile's id is acknowledged and revokes nothing. In `Migrations`: of two
processes that upgrade one file together, one may fail its start. Outside the models:
`providers/gmail/provider.ts:302` and `:359` report `unread` for messages that do not carry the
`UNREAD` label; nothing calls `purgeExpiredOauthStates`.

Hazards no property covers, with the reason: late dates in a listing by date, as above (the code
has no protection to check; `ListsInOrder` names what it needs); a clock that steps back, or dates that lag, by more
than the overlap of five minutes (the code's only protection, hence `ClocksAssumption`); a process
that never becomes ready and is not killed, `setupActive` after a failed answer, and the command
whose echo was missed (no step of the code ends these states, so there is no fairness for a
liveness property to rest on; `ControllerLink`, `ManagedProton` and `BridgeCli` have the
behaviours).

## Assumptions and limits

- Constants are constrained by named `ASSUME`s, which TLC evaluates in the runs.
  `ClocksAssumption` (`Skew + Drift + (MaxValidity - 1) <= Overlap`) is a real limit of the
  code: a mail whose date lags by more than the five minutes of `POLL_OVERLAP_MS`, or a clock
  that steps back by more, can be missed. `DaysAgree` and `ListsInOrder` are no assumptions of
  the model, only of the theorems that name them.
- The continuation tokens of Gmail, Graph, AgentMail and Resend are opaque to the code; the model
  has them continue behind the last mail of the page, as the UID cursor of IMAP does. Of mails
  with one date the later arrival is listed first; a provider that rounds dates or breaks ties
  differently is one whose dates lag.
- The credential given together with an endpoint belongs to that endpoint's origin (the
  administrator typed it, or the provider's token endpoint returned it).
- A mail provider accepts a call at most once by itself; what the server cannot know is
  whether and when.
- Mail ids of `InboundPoll` carry the mailbox and its identity epoch, as those of
  `providers/imap-smtp/generic.ts` do. Providers with ids of their own appear as
  `HasEpochs = FALSE`.
- In `BridgeCli` the terminal is reduced to: a command at the prompt is echoed, executed and
  answered, or a deadline passes. Bridge's `delete` removes the named login or nothing, and
  `_remove` answers "removed" either way, without looking at what Bridge printed. The regular
  expressions and the byte stream are not modelled.
- `ManagedProton` has one child process at a time; several, and what they do to each other,
  are in `ControllerLink`. The broken pipe of a write to a dead process is not in either: it
  would end the server, which is `Restart` of `ManagedProton`.
- `AccessProfiles` does not model `rotateToken`, which nothing calls, nor the administrator's
  key, a constant of the configuration.
- Not modelled: MIME and HTML parsing, thread construction, request validation, encryption,
  logging, rendering of API results, the MCP tool layer (each tool is one service call),
  packaging, the interactive setup client. They keep no state between calls.
- `AccountRegistry` restarts in the same environment: an OAuth client configured there does not
  disappear between an authorization and its callback.
- `Migrations` applies the migrations of this version of the code; older versions of the program
  that run beside it are not modelled, only the files they leave.

## Plan

In this order; what exists is marked.

1. [x] `SendOperations`, `SendLedger`, `SendProofs`.
2. [x] `InboundPoll` with its runs, `InboundProofs`, `ScanProofs`; the paging, windows and filters of the
   other providers are part of it, so there is no module of their own.
3. [x] `BridgeCli`, `ManagedProton` with four runs, `ProtonProofs`.
4. [x] `AccountRegistry`, `AccountProofs`.
5. [x] `ControllerLink`, `LinkProofs`.
6. [x] `AccessProfiles`, `AccessProofs`.
7. [x] `Migrations`, `MigrationProofs`.
8. [x] `InboundFeed`: the abstract feed that `InboundPoll` implements.
9. [x] `AccountVersions`: what `AccountRegistry` promises and `InboundPoll` counts on.
10. [ ] The same between `ControllerLink` and the link of `ManagedProton`, whose calls are so far
   only described as its reduction; and a theorem that `AccessProfiles` implements an abstract
   policy.
