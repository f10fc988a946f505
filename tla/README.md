# claude-openmax: a TLA+ verification project

claude-openmax is a Claude Code plugin: an MCP server that joins a workspace
over the OpenMax agent SDK, pushes arriving messages into the running Claude
Code session, and keeps the agent's configuration in step with the workspace
server. This directory models the parts of it where order matters: several
sessions of one machine competing for one connection, messages that must enter
a session's context before they are acknowledged, cursors that must survive
crashes, two copies of an access policy that both sides edit, and an identity
that several processes of a machine set up, cache and replace.

Paths below are those of the repository under `src/`: the adapter is
`src/src/*.js`, the hooks `src/hooks/*.js`, the onboarding
`src/scripts/onboard.js`, and the SDK the adapter runs is bundled in
`src/dist/index.mjs`. `PROJECT.json` maps each definition to the lines it
stands for.

## 1. The system

Every Claude Code session starts the plugin process. Only a session that loaded
the channel and holds the *channel lock* opens the workspace WebSocket.

```
 workspace server --- WebSocket frames, /sync pages --->  SDK bridge
   | policy, owner, config events                         (deduper, ledger,
   v                                                       sync engine, handler)
 config.js: policy reconcile, owner sync                       | deliver()
   |  config.json, policy/<org>.json                           v
   |                                       inbound-delivery -> notifier -> channel
   |                                                           | MCP notification
   +-- sessions/<org>.json, inbox-<org>.json                   v
 channel-gate.js: channel.lock (one session per machine)   Claude Code session
```

With `CLAUDE_OPENMAX_MODE=channel-only` the part above the arrow `deliver()` runs
in a process of its own, `bridge.js`, which posts each wake over HTTP to a
`/wake` server in the session's plugin process.

| Component | State it keeps | Operations | What is hard |
|---|---|---|---|
| Channel gate (`channel-gate.js`) | files `channel.lock`, `channel.lock.takeover`, private `.stale-*` | activation, acquire, takeover, release, role | several processes over the same paths, deaths anywhere, reused pids, age as evidence of death |
| Notifier, channel, inbound delivery | coalescing window, pending wakes, transport, delivery flag | `deliver`, `notify`, window timer, `notifyWake`, connect, close | results that settle later, in any order; a write that proves nothing where the channel is not loaded |
| Inbox delivery (SDK in `dist`) | deduper, inbox ledger, cursor, sweep in progress; `sessions/<org>.json`, `inbox-<org>.json` | live frame, sweep, seek, gap timer, commit, persist, load, stop | a message seen live and by a sweep at once, failures half-way, crash between two files, caps |
| First-sync mode (`first-sync.js`) | marker file, catch-up flag | initial cursor, recording of skipped events, retiring the marker | a falsy and a truthy zero; an empty first page |
| Policy reconcile (`config.js`, `policy-sync.js`) | `org.access`, the server's copy, the marker, a debounce timer | periodic and debounced pass, config event, local edit | read, decide, write over HTTP without a condition; overlapping passes; lost events |
| Access block (`policy-sync.js`, `config.js`, the SDK's gate) | `org.access` | report, adopt, one operation per config event, the gate | two spellings of one policy; a fingerprint that stands for the block |
| Owner pull-sync (`config.js`, `owner-sync.js`) | `org.owner` | fetch member, fetch name, write; bind a first direct message | what was read before two awaits is written after them; passes overlap |
| Bootstrap, shutdown (`index.js`, `create-bridge.js`) | role, lock, runtime | wait for a key, guard, start, markers, stop | sessions older than the onboarding; markers written after the start they describe |
| Token guard (`token-guard.js`) | api_key markers, token, session and inbox files | guard, purge, write markers | a crash inside a purge, or between start and markers |
| Split topology (`bridge.js`, `wake-server.js`) | none beyond the notifier's | `POST /wake`, its handler, shutdown | an answer lost after the wake was taken; either process ending beside the other |
| Config file (`config.js`) | `config.json`, the copy in memory | persist, normalize, reload | whole-file rewrites by several processes, some in place |
| Onboarding, registration (`onboard.js`, `auto-register.js`, `session-hook.js`) | `config.json`, settings, invite | register, accept, merge, launch | a request that must not be repeated; a run that stops half-way and is run again |
| Guarded fetch (`fetch-guard.js`) | attempts, timers | fetch | timeout, abort and answer race |
| Storage (`storage.js`) | files | get, set, remove | atomic per file, not between files |
| MCP tools (`mcp-tools.js`) | roster cache | dispatch | little: tables and one cached time stamp |
| Logging, redaction, orientation, version, build | none | formatting | none |

What makes each correct: the lock, that one live process holds it and that
crashes never lock everybody out; the notifier, that each caller gets the fate
of the notice that stands for it, and every caller gets an answer; inbox
delivery, that no message is acknowledged before it was consumed and none is
consumed twice by one process, and that gaps are filled; the reconcile, that it
neither destroys an edit nor stops short of agreement, nor uploads for ever; the
access block, that the agent answers whom the settings page says, and that what
it reports comes back unchanged; the owner sync, that a name is its owner's, only
core rebinds an owner, and core's owner wins in the end; the split, that what the
bridge acknowledges was shown and shown again only when an answer was lost; bootstrap with the guard, that no session
works with another identity's cursor; onboarding with first-sync mode, that what
is sent after it reaches the first session, that nothing is replayed later, and
that no run registers two identities;
the config file, that the key of a finished onboarding stays in it.

## 2. The modules

| Module | Models | Checked by | Proved in |
|---|---|---|---|
| `ChannelLock` | the lock protocol of a machine's sessions | `MCChannelLock*.cfg` (module `MCChannelLock`) | `ChannelLockProofs` |
| `WakeNotifier` | from `deliver()` to the MCP notification | through `SplitWake` | `WakeNotifierProofs` |
| `SplitWake` | `WakeNotifier` behind the bridge's `POST /wake` | `MCSplitWake.cfg` (module `MCSplitWake`) | `SplitWakeProofs` |
| `AtLeastOnce` | what an inbox promises, abstractly | implemented by `InboxDelivery` | `InboxDeliveryProofs` |
| `InboxDelivery` | one org's inbox, from server to consumption | `MCInbox.cfg`, `MCInboxLoss.cfg`; `MCInboxLive.cfg` (module `MCInbox`) | `InboxDeliveryProofs` |
| `PolicySync` | when the access policy moves between the two sides | `MCPolicySync*.cfg` (module `MCPolicySync`) | `PolicySyncProofs` |
| `PolicyMap` | what a policy is on both sides, conversions, events, gate | used by the next two | lemmas in `AccessPolicyProofs` |
| `AccessPolicy` | one org's access block over its life | `MCAccessPolicy.cfg` | `AccessPolicyProofs` |
| `OwnerSync` | the agent's owner, in core and here | `MCOwnerSync.cfg` | `OwnerSyncProofs` |
| `Identity` | the agent's identity on one machine: onboarding, hook, sessions, guard, first-sync marker, `config.json` | `MCIdentity*.cfg` (module `MCIdentity`) | `IdentityProofs` |

The modules meet in the files and promises they share. `Identity` runs one
channel session at a time because `ChannelLock` shows that there is one, and
consumes messages in order because how they are consumed is `InboxDelivery`'s
subject; `InboxDelivery` in turn takes first-sync mode as a constant of a
behaviour, whose origin is `Identity`'s. A delivery that `InboxDelivery` sees
succeed or fail is a call of `deliver()`, in one process or two: `SplitWake`
extends `WakeNotifier` and conjoins the steps of the two. `PolicySync` keeps one
bit per field of a policy and lets equality stand for the fingerprint; that a
block may be replaced by what is reported of it is what `AccessPolicy` checks of
the code's own mapping (`ReportComesBackTheSame`, `EventsSeeTheFingerprint`).
`OwnerSync` takes from `PolicyMap` which direct messages bind an owner.

In all of them an action is what runs without interruption: one file system
call on a shared file for the lock (processes interleave at any call), the code
between two awaits for the rest (one JavaScript thread). Definitions whose
comment begins with "Mutant" are plausible mistakes in the code; each shows that
one property can fail, and no specification uses them.

### ChannelLock

`pc[p]` is where process incarnation `p` stands in `acquireChannelLock` or
`release`. `lock`, `mutex` and `aside` are the shared and private files;
`lockOld` and `mutexOld` say whether a file reached `LOCK_GRACE_MS` or
`TAKEOVER_STALE_MS`. `lock` holds the parsed record (pid, start time, boot id):
`acquireChannelLock` compares the text, but two processes write the same text
exactly when they write the same record. Actions follow the code call by call:
`TryLink`, `CheckLinked`, `ReadLock`, `StatLock`, `Judge`, then under the mutex
`OpenMutex`, `StatMutex`, `RmMutex`, `Reread`, `Rename`, `ExamineMoved`,
`Unlock`, and `ReleaseRead`, `ReleaseRm`. `Begin` starts a session with the
channel, `BeginStranger` any other process (it matters because it can own the
pid of a dead holder), `Die` ends one at any step, `Reboot` ends all.

The operating system is an environment with two rules (`MayStart`): no two
running processes share a pid, and a readable start time with the boot id tells
incarnations of a pid apart. Merged into one step: the re-read of the moved
file and the link that puts it back, or the deletion of it, because the moved
file has a private name. I/O errors other than "exists" and "does not exist" are
modelled where they change the result (`link`, creating the private record);
that `rename` or `rm` fails for another reason is not.

### WakeNotifier

`call[w]` is the state of one call of `deliver()`; `push[w]` the notification it
leads; `window` the leader of the open window; `cover[w]` the leader whose push
decides a merged wake. `Lead`, `Merge`, `MergeFull` and `CloseWindow` are
`notify` and `_closeWindow`; `PushSettles` is the transport's answer with all the
promise reactions it triggers; `Connect`, `Close`, `DisableDelivery` are the
channel's life. `loaded` is a fact of the session that the code cannot see.
`noticed` is the property's memory: a notice counts for every wake that had
arrived when it was written, which is generous to the code, since the session
that reads the notice reads all its messages.

`OkMeansNoticed`, the same of merged wakes too, is what the header of
`inbound-delivery.js` says, and does not hold with debounce: a merged wake gets
the result of a notice written before it arrived. (Checking it as an invariant of
`MCSplitWake.cfg` shows this in five steps.) It is a known limit of coalescing,
since the next wake's notice covers the message; `PushedOkMeansNoticed` is what
holds.

### SplitWake

`split` is the topology of a behaviour. `post[w]` is a `POST /wake` as the bridge
sees it: sent, in the server's handler, refused, or what `deliver()` returned.
`Deliver` is `httpWake` up to its `fetch`, `Handle` the server's handler up to
`notify` (with the checks, `Valid`), `Answer` and `RefusalArrives` the answers,
`ConnectionFails` a `fetch` that rejects at any point. `session` is the plugin
process: `ShutDown` closes the server, `CloseChannel` the channel once the
accepted requests are answered, `SessionEnds` ends the process at any step, and
`SessionStarts` starts the next, which may or may not get the channel.
`BridgeEnds` ends the bridge at any step; the next one may know nothing of what
the last acknowledged (`forgotten`), since when that is saved is
`InboxDelivery`'s subject, so any of it may be delivered again. A wake is one
attempt at a message; the deduper keeps the attempts of one message apart.

The server refuses every request when its wake token differs from the bridge's,
or one with neither text nor attachments (`turnedDown`): such a message is
refused on each redelivery, which the code intends (`test/wake.test.js`).

### InboxDelivery

Server: `inbox`, the number of events; `frames` on the open WebSocket.
Process: `cursor` (`sessionRef.sync_seq`), `ledger`, `lastAcked`, `gapOpen`
(whether `oldestGapTs` is set), `seen` (the deduper's committed entries),
`handler[s]` (a busy handler is a reservation), `sweep` (`syncMissedEvents`),
`seek` (`initSyncSeq`). Disk: `session`, `ledgerFile`, with `saving` the writes
of `saveSession` that have not landed.

`ReceiveFrame`, `Detail`, `Consume`, `DeliveryFails` are the message handler
between its awaits; `SweepRequest`, `SweepEvent`, `SweepPageDone`, `SweepFails`
the sweep, whose handler calls are those same handlers (`Awaited`,
`HandlerReturns`); `SeekDone` the end of `initSyncSeq`; `Tick` the ledger's
interval; `Open`, `Start`, `Stop`, `Exit` the life of connection and process.
`NoCursor` is a falsy cursor, 0 the truthy one of first-sync mode.

Simplified: an event is known by its number, which stands for its message id
too; the access decision is part of `Consume` (a dropped message is consumed);
the ledger's delayed write is one step that writes the current ledger, and the
snapshot it writes is taken when it is written, as in the code; the positions acknowledged to
the server are not modelled, since nothing in the bridge reads them back; one
seek at a time; failures of storage are not modelled.

`AtLeastOnce` is the promise without the machinery: each message is free,
reserved, being delivered with its number or blindly; messages are delivered,
sought past, or passed over while they were handled; and a message may count as
settled only for one of those reasons. `KeepsPromise` says that `InboxDelivery`
implements it under the mapping next to it: `settled` is what lies at or below
the watermark, `stage` the handler. So crashes, restarts, failing requests,
evicted entries and reordered writes settle nothing by themselves.

### PolicySync

`server` is the server's copy with its `updated_at`, `access` the local block,
`marker` the file that remembers what was last settled, `pass[r]` a running
reconcile with what it captured. `Begin`, `Fetch`, `Decide` (`DecideSeed`,
`DecideAdopt`, `DecideReport` for the code's cases 1 to 5), `Report`,
`ReportRefused`, `RetryRefused`, `ReportFails`, `Confirm`, `MarkerWritten` follow
`reconcilePolicyWithServer` from await to await. `member` are the groups the agent
belongs to; `LeaveGroup` and `JoinGroup` change that at any time. The server refuses a
report that lists any other group, naming one or more of those (`RefusedGroups`); the
pass drops the named ones (`drop`) and tries once more, and gives up without a marker
when that is refused too. `UIEdit` and `LateReport` are
the server's side, `ConfigEvent` and `LocalEdit` the adapter's. A policy is one
bit per field (for a group: whether it is allowed), so `accessFingerprint` is equality: that the mapping functions
agree with each other is `AccessPolicy`'s subject. Stamps are compared with the
code's `!==` only, so it is enough that one is free whenever the server's copy
changes: each pass holds at most two, the server and the marker one each, and 0 is
the absent one. `NewStamp` takes one nobody remembers, and a lemma shows that
there is one. `copy` is the properties' memory: whether the server's copy is ours or an edit, and whether that edit was
made while some pass was between its first and its last read.

### PolicyMap and AccessPolicy

`PolicyMap` has the two shapes of a policy, `Block` (config.json) and `Snapshot`
(the server), the conversions `BuildReportedPolicy`, `AccessFromServerPolicy` and
`WithoutGroups`, one operator per config event, and the SDK's gate
(`DmHandled`, `GroupHandled`). `AccessPolicy` starts from any block that a user
can leave in config.json, with settings absent, and lets it be changed by every
event, adopted over, and reported. What the settings page shows
(`PageAnswersDm`, `PageAnswersGroup`) is written down independently of the gate.

Simplified: lists are sets (the fingerprint sorts them); a text that is no known
mode is one value, "typo". The owner is answered in any group that is allowed,
whatever its member list, which the page does not say. Excluded by `Comparable`
from the comparison with the page: groups the server refused; entries in a mode
the server has no word for (silent, a typo); and groups whose members were all
deselected. Of those the wire says nobody, and the code adopts the empty list as
everybody.

### OwnerSync

`core` is the owner cws-core has on record and `named` who has a display name
there; `owner` is `org.owner`. A pass (`pass[r]`) requests its own record, gets
core's answer of one moment (`CoreAnswers`) and looks at it at a later one
(`ReadArrives`), remembers the owner it knew, requests the name and writes
(`NameFound`, `NoName`). Nothing in the code keeps passes apart, so any number
overlap. `ReadFails` and `AnswerLost` are the two ways a guarded fetch fails:
before core answered, or by its timeout while the answer is under way.
`OwnerChangedEvent` only starts a pass; it may be lost with the connection.
`DirectMessage` binds its sender where nobody is bound and the policy is "owner".

Simplified: a name is told apart by whose it is, so that a named owner's later
rename, which the code does not follow, is not there; the hint of a direct message and
the decision on it are one turn. An older answer that lands last is in force
until the next tick: the properties promise core's owner in the end, not at once.

### Identity

An api_key stands for the identity it was issued for. On disk: `config` (the key
and whether an invitation is pending, or `Torn` between the truncation and the
write of `writeConfig0600`), `token`, `session` and `ledger` with the key they
were made under (the session and ledger files do not record it; that is the
point), the api_key `marker` and the first-sync marker `first`. On the server:
who is registered, who is a member, and how long each inbox is.

`onb` is a run of the onboarding with the copy of the config it works on:
`OnboardBegins` (merge), `OnboardWrites`, `Register`, `Accept`, `Finish`, and
`OnboardDies` at any point. Each of its requests may fail in every way
`postWithRetry` tells apart (`PostFailure`), before or after the server did its
part, and is repeated where `IsRetryable` says so; `onb.made` is what the server
registered for the run, told or not. `hook` is a SessionStart hook that accepts a pending
invitation (`HookReads`, `HookAccepts`, `HookWrites`, `HookDies`). `tools` are
the keys held by sessions with tools only: they exchange tokens without guard
or marker, and persist their config (`ToolsExchange`). `sess` is the channel
session, from `Begin` and the key wait (`KeyFound`) over `Guard`, `Purge`,
`Hydrate` (the token exchange and `/me` before the WebSocket) and `Load` to
`WriteMarkers`, `Open`, `Consume`, `Save` and `Retire` or `RetireFails`, with
`SessPersist` for any later rewrite of the config and `End` at any point. `UseKey` is
the user who restores another identity's config, also that of one onboarded on another
machine (`Elsewhere`), which comes without a first-sync marker here.

The properties' memory: `got` and `hadCursor`; `promised[k]`, the length of the
inbox when ONBOARD OK was printed for `k`; `onboarded` and `older`, whether some
process then held an older copy; `mismarked`, identities whose first-sync marker
was never written, replaced, written for a wrong key or written after its first
cursor; `unretired`, identities whose cursor was saved while the process then ended, or
the write failed, that retires their first-sync marker (`sess.note` holds the marker
between the two), until a later cursor retires it; `cut`, whether a purge was interrupted or left the session or the
ledger file, or a start that has a session file ended before its api_key markers were
written or could not write them.

Simplified: one org, so that the guard's identity slot has the org's fate; one
hook and one tools-only session at a time; the session's and the ledger's write
are one step; reads do not fail, while removals, the writes of markers and the
retiring of the first-sync marker may; an
identity whose registration was never answered leaves no trace but in the run
that caused it; the `/me` mismatch guard of `syncSelf` never applies, since the token manager
already checks the key a token was exchanged for; the configured `identity_id`
goes with the key.

## 3. Runs

| Run (cfg) | Question | Result |
|---|---|---|
| lock (`MCChannelLock`) | mutual exclusion, no abandoned lock, nobody touches a live lock; mutexes do not age | holds |
| lock_live (`MCChannelLockLive`) | every acquisition ends; a lone session gets the lock after any crashes; mutexes age | holds |
| split (`MCSplitWake`) | fate of the push, `ok:true` for a pushed wake means noticed, shown again only if an answer was lost, every attempt settles, a bound on a batch; in one process and in two, with debounce | holds |
| inbox (`MCInbox`) | a lost message has one cause; the inbox implements `AtLeastOnce` | holds |
| inbox_live (`MCInboxLive`) | gaps within a sweep's reach are filled, with a cursor, and no message the ledger knows is delivered again | holds |
| inbox_loss (`MCInboxLoss`) | markers are held for what was not consumed | violated |
| policy (`MCPolicySync`) | an edit is erased only in the window of a pass | holds |
| policy_live (`MCPolicySyncLive`) | agreement in the end, unless an edit raced or two groups are refused, and quiet; with two groups, no return to them | holds |
| owner (`MCOwnerSync`) | a name is its owner's, only core rebinds, core's owner and name win in the end | holds |
| access (`MCAccessPolicy`) | the page shows what the gate does; a report comes back the same; events see the fingerprint; pruning leaves a report | holds |
| identity (`MCIdentity`) | the cursor is ours and the first session catches up, unless a purge or start was cut short; no replay, over up to three sessions; one identity per run, the key stays | holds |
| identity_retry (`MCIdentityRetry`) | the first session catches up, also when the onboarding had to be run twice | violated |

The two violated properties are statements of the code's own comments; each
counterexample is described under "findings" in `PROJECT.json`. For each a weaker
property that does hold says how far the promise goes: for the markers,
`LossHasOneCause` (a sweep passed over the message while its delivery was under way);
for the first session, `MarkedSessionCatchesUp` (the run that registered also wrote the
marker, nobody replaced it, and no earlier purge or start was cut short).

Other properties have an exception in their statement, and it is needed. Some of these are
at odds with a comment, which is then quoted:

- `GapsAreFilled` asks for a cursor and for a gap within a sweep's reach
  (`InSweepReach`). In an inbox that was empty at the first connect there is no cursor
  until the watermark moves, and `syncMissedEvents` returns at once. Events without
  `message_id` or `conversation_id` are skipped without moving `sinceSeq`
  (`dist/index.mjs:20901`): a page of nothing else is requested again until `MaxEvents`,
  the next sweep starts at the same place, and a message lost behind that page is never
  fetched, though lines 20873-20876 say of sweeping from the watermark "so a hole BELOW
  the persisted cursor is re-pulled". A sweep also comes no further than `MaxEvents`.
  Reach is counted from the lowest place a sweep may start at (`LowestStart`): a sweep that
  ends after the interval raised the cursor puts it back to its own position, below the
  watermark, and the next one starts there. In first-sync mode skipped events are recorded,
  which lifts the watermark over most such pages; that is not claimed. Without
  `InSweepReach` TLC finds an unfilled gap in the instance of `inbox_live`.
- `ConvergesUnlessRaced` excepts two refused groups. With one group the agent was removed
  from, the retry drops it and the rest is reported. With two, the error names the one it
  failed for ("the failing `group <conversation_id>: ...` detail carries the id",
  `policy-sync.js:192`), the only retry (`config.js:854`) fails for the other, no marker is written, and the next pass begins
  again: nothing is reported any more, the direct-message policy included. Of "one group
  the agent was removed from stops ALL policy reporting" `policy-sync.js:197-198` says
  "that is the bug this exists to avoid": of two it remains.
- `ConvergesUnlessRaced` says nothing where the agent may return to a group
  (`Rejoins`). A report without a refused group leaves a marker with the fingerprint of
  the whole local policy (`config.js:885`); when the agent is in the group again, a pass
  finds server and policy as the marker remembers them and reports nothing until the
  policy is edited, though `config.js:846-847` (and `test/owner-sync.test.js:653-654`)
  say that "re-adding the agent restores the report on its own". `Quiesces` is checked
  without such returns too. `policy`, whose property does not mind them, has them.
- `ErasureOnlyInWindow` and `ConvergesUnlessRaced` except an edit in the settings
  page between a pass's reads: it may be overwritten, or, if made between the
  upload and the confirming read with its event lost, stay unknown to the agent,
  because the marker takes its time stamp for the report's. Convergence is stated
  for passes that do not overlap: reports of two passes that land in reverse
  order leave the older policy on the server, whose time both then remember.
- `ShownAgainOnlyIfUnanswered` excepts what a bridge process acknowledged before
  it ended: the next one may not know.
- `CursorIsOurs` and `MarkedSessionCatchesUp` except a purge that was interrupted or
  left a file, and a start that ended before its api_key markers or could not write
  them (`cut`). `purgeOrgTokenCache` removes the token first, and without a marker the
  token is what the guard decides by: the next start takes the remaining session file
  for its own. So the first session after ONBOARD OK, with its first-sync marker in
  place, goes on at another identity's cursor, past what it was promised.
- `NoReplay` excepts two kinds of identities. One is `mismarked`: those whose marker
  came after the first cursor, was replaced, or was never there. The onboarding puts
  the key into `config.json` when it has registered, and writes `first-sync.json` only
  after the invitation is accepted. A session that starts in between works with the
  key and saves a cursor, which retires no marker since there is none; if it ends
  then, the marker waits for a first session that has already been. The other is
  `unretired`: `saveSession` writes the cursor and then retires the marker; if the
  process ends between the two, or the write fails, which is only logged, the marker
  stays pending until another cursor is saved. In either case, when another identity's
  session purges the cursor, the next session of this one catches up from 0 over what
  was consumed, which the header of `first-sync.js` (lines 23-25) says a later purge
  never does. It takes a third session to see: without the second exception TLC finds
  it in `identity`, without the first with `Spec` in place of `ShortSpec`, that is, with
  three sessions and one run of the onboarding. A purge or start cut short is no exception here.
- `OnboardedKeyStays` excepts processes that hold an older copy of the config
  when the onboarding ends. Their next `persist()` writes it back.

Two limits of the code are not runs of their own. `MutexAges = TRUE` in
`MCChannelLock.cfg` makes TLC violate `LiveLockUntouched` and then, checked alone,
`MutualExclusion`: a taker suspended for
more than `TAKEOVER_STALE_MS` inside its takeover loses its mutex to another, and
both go on. The code accepts this (a takeover takes milliseconds), and the proofs
assume it away by name, `OrderlyTakeovers`. The other is `OkMeansNoticed` under
debounce (section 2, WakeNotifier).

### Bounds, and why they suffice

- *Lock.* Up to four incarnations: three that can run side by side, which is
  what a takeover that moves somebody else's lock needs (the judge, the new
  holder, a third that links meanwhile), and one that reuses a pid, in the same
  boot (`p3`) or with the same start time in the next (`p5`). One reboot. Two
  attempts instead of three: enough for a retry and for giving up. Proofs cover
  any number of each.
- *Split.* Two attempts at one message, one at another, which may be blank, and a
  malformed one; batches of two: a leader, a merged wake and one that overflows
  the batch or leads the next window. Two sessions, so that the second attempt
  can fall into another session than the first; any number of bridge processes.
- *Inbox.* Two to four events; a page holds two, so three events need two
  pages; caps of one are exceeded by two; two starts are one restart.
  `MaxEvents` (10) is in `inbox` never the reason a sweep ends except over a page of
  non-messages, which is requested again and again as in the code; `inbox_live` bounds
  it by four events, so that it is.
  `inbox_live` has pages of one, two non-messages, so that a sweep may be stuck in front
  of either, two messages behind them and a deduper that remembers one, so that the
  ledger alone must keep a sweep from delivering again. It runs one start, whose writes
  to disk are left out since nobody would read them (`OneStartSpec`), because the deduper is not persisted: a restart may deliver again what was
  consumed but not yet saved. `NoSecondDelivery` speaks of deliveries that know
  their message's number: one consumed without it (its detail could not be
  fetched) is not in the ledger, and the sweep that closes the gap delivers it
  again.
- *Policy.* Two groups where one edit must not hide the other and two may be refused;
  one where two passes, which is what overlapping needs, run and where the agent may
  return to it. Initial states have both sides as earlier edits left them. `policy` adds
  one edit on each side; `policy_live` one in the settings page and two of the agent's
  own, which move its policy and move it back (with two in the page and one here, which
  takes three times as long, TLC finds no violation either). `policy` uses the symmetry of
  the passes, and no liveness property is checked with it.
- *Owner.* Two members are what a wrong name or owner needs, two passes an overlap,
  two moves in core an owner that comes back; one direct message, because the
  second finds an owner bound.
- *Access.* Two members and a group cover every case of the code, which never
  relates two groups; all 3680 blocks are initial states.
- *Identity.* Two keys are what a mix-up needs, one message what a lost or
  replayed one needs, two channel sessions what a cut-short start or purge and
  its successor need, a third what it takes for an identity to work, another's session
  to purge its files and the first to return (`NoReplay`). Retries are not counted: a
  run may repeat a request any number of times or give up. The onboarding runs once,
  after initial states that already contain an earlier one or an earlier life of the
  machine, with or without api_key markers; `identity_retry` runs it twice from
  anywhere. `ShortSpec` (module `MCIdentity`) keeps the two longest ways apart: the third
  session is for behaviours without an onboarding, whose second identity is one of
  another machine (`Elsewhere`); where the onboarding runs there is none of those, and
  there are two sessions. Keys are symmetric.

`CHECK_DEADLOCK FALSE` is set because the modelled systems may stop: all
processes dead, no message left, no edit left.

### Fairness

- Lock: `acquireChannelLock` is one synchronous call, so a process that started
  it goes on unless it dies (weak fairness of its next step). Nobody has to
  release, die or reboot.
- Split: the window's timer fires, a write settles, a running server handles and
  answers, a refusal arrives, and a connection nobody serves any more fails.
  Nothing has to be delivered and no process has to start or end.
- Inbox: timers fire, awaits end, and what is attempted again and again
  succeeds in the end: a delivery and a sweep's request are strongly fair, for
  each position of the sweep, since each retry may fail but not all of them.
  The connection is not reopened for ever (a reopening starts sweeps from the
  cursor and could keep the gap timer's from ever starting). No arrival, start
  or reconnect is required.
- Owner: ticks recur, a token is exchanged in the end, and a request made again
  and again is answered in the end (strong fairness of its answer and of the
  answer's arrival, since each may be lost but not all); the agent stays up in
  the end. No event has to arrive.
- Policy: timers fire, requests end, a request made every five minutes succeeds
  in the end, as does the marker's write, a refusal is an answer like any other, and
  the agent stays up in the end. No edit is required, and no return to a group.

## 4. Proofs

`tlapm` checks every step; the constants are arbitrary but for the named
assumptions of the modules.

**ChannelLock.** `TypeCorrect` needs `ConstAssumption` only. The three safety
theorems add `OrderlyTakeovers`: mutexes do not age, and start times can be
read. The first is needed, as section 3 shows. The second is needed
because a reused pid without a start time makes two different incarnations
write one record; the code then falls back to the pid, by design. The invariant
`MutualExclusion` is not inductive: nothing in it keeps a taker from moving a
live lock. `IInv` adds what the protocol's comments argue from:

1. one running process per pid, one incarnation per record (`DistinctPids`,
   `DistinctRecords`, `RunningInBoot`), from the operating system's rules;
2. the mutex excludes (`MutexOwned`), because it does not age;
3. whatever is read was written by some incarnation (`FilesWritten`), and not
   by the reader itself (`ObservedNotOwn`);
4. what was judged stale is the record of no running process, and stays so
   (`ObservedStale`), because a record is never written a second time;
5. under the mutex the lock, and then the moved file, is what was judged
   (`RenameMatches`): after the comparison only a holder could change it, and it
   has none;
6. hence past the link the lock is there and ours (`HolderHasLock`), and a live
   process's lock is never abandoned (`NoAbandonedLiveLock`).

There is one lemma per action, with one step per conjunct. `MutualExclusion`
follows from `HolderHasLock`, since two holders would have one record.
`LiveLockUntouched` is an action property proved from the same invariant.

**WakeNotifier.** `NotifierTypeCorrect` includes that a batch stays below
`maxBatchSize`, by cardinality of the set of pending wakes. For
`CallersGetPushFate` the inductive invariant adds that a window's leader has a
push, that a joined call's push is still in flight, and that merged wakes have
none of their own. `PushedAreNoticed` follows from the same invariant with
`notifyWake`'s gate; `OkMeansNoticedWithoutDebounce` is its consequence under
`~Debounce`, when every wake is pushed itself.

**OwnerSync.** `NameBelongsToOwner` and `OnlyCoreRebinds` for any members, any
number of overlapping passes and of changes in core. The invariant adds what makes
a late write harmless: a pass only holds an owner that core had at some time
(`ReadsAreCores`, with `CoreIsRecorded` for the next to read), and one that looks
up a name has an owner in hand, so that it can never clear one. The proof has a
lemma for the steps of a pass that leave the owner alone, one for the write, one
for direct messages, and one for the surroundings.

**SplitWake.** The module extends `WakeNotifierProofs`, whose lemma for the
notifier's steps is used as it stands. What is new is that a session may end with
its calls and that the next one takes up others: the notifier's invariant is kept
because a call that ends is forgotten with its push, and because what a handler
takes up has never been pushed (`Untouched`). For what the bridge acknowledges,
`Acknowledged` (an ok on the bridge's side is an ok of `deliver()`) and the
notifier's `PushedOkMeansNoticed` give `BridgeOkMeansNoticed`; a message is shown
again only after an answer was lost because one attempt at it is under way at a
time (`OneAtATime`) and because an attempt whose notice was written is either
known to the bridge or recorded as unanswered (`WrittenIsKnown`).

**InboxDelivery.** `LossHasOneCause` alone is not inductive: it speaks of the
watermark, and a watermark is seeded from files, a cursor, a page of a sweep. The
invariant says of every number that may become one, in memory, in a file, in a
write still under way or in a sweep, that everything up to it was consumed, sought
past or passed over (`MarksAreSafe`); that the page of a sweep is a run of numbers
without a hole (`PageIsARun`), so that moving `sinceSeq` from event to event skips
nothing; and that the deduper knows only such messages (`HandlersAndDeduper`). The
lemmas about the ledger (`AdvanceProperties`, `RecordedProperties`) state what
`setAckedSeq` and `record` do to a set of received numbers. From the same invariant
`InboxKeepsPromise` proves the refinement: initial states map to initial states of
`AtLeastOnce`, and each step to one of its steps or to a stutter. The theorem
covers the initial predicate and the steps, which is all `AtLeastOnce` says (it
states no fairness). `DeliveredOnce` assumes `[]LedgerHasRoom`, that the ledger
never holds more numbers above the watermark than `receivedCap`: when it does, it
drops them all, and a message the deduper has forgotten too is then delivered
again. `DeliveredOnceInSmallInbox` discharges the assumption where all numbers fit.

**PolicySync.** An edit may be erased only in the window between a pass's reads.
The invariant, `Unseen`, says of an edit made outside every window that nobody who
could write over it is unaware of it: no pass is past its decision, one that is
about to decide holds the very copy with the edit, and neither the marker on disk
nor one about to be written bears its time, so that the next pass sees a newer
server and adopts. This needs that a change of the server's copy gets a time that
nobody remembers (`NewStampIsNew`, by cardinality).

**AccessPolicy.** The fingerprint is taken of the reported policy. `SameBlock`
relates two blocks that report alike, setting by setting and entry by entry;
`SameReport` shows that their fingerprints are equal, `EventSame` that every config
event keeps them alike, `ReportReturns` that adopting a report gives a block that
reports the same, and `SameAsReturned` that it is alike where the block has no mode
the server does not know. Those lemmas are about `PolicyMap`'s operators and hold for all
blocks, any members and any groups. For `PageShowsWhatIsEnforced` the invariant adds
`InLine`: while a copy is shown, the local block either has the fingerprint of what
was adopted from it, or reports it but for the groups that were refused. The
assumptions say that the values "absent", "star", "nobody" and the stranger are none
of the members.

**Identity.** One inductive invariant, `IInv`, for any keys, runs, starts and
processes. `KeysAreIssued` traces every key in a file or in memory to the server.
`NothingMade` and `OneIdentityPerRun` are about the registration: an answer that may
have been a success ends the run. `NobodyElse` says what `OnboardedKeyStays` rests
on: as long as it promises anything, each process that has a key at all has the
onboarded one. `DiskIsOurs` follows the session file and the ledger from the guard
through purge, load and run to the end of the session: at rest they are the
marker's, or there is a token without a marker that makes the guard purge. The
first-sync promise rests on three facts: every issued key had a cursor, has its
promise, is mismarked or is being onboarded (`Accounted`); marker and promise stand
for one another until the first cursor (`MarkerIsPromise`); and an identity with a
cursor whose marker is still pending is the one about to retire it, or is mismarked or
unretired (`Retires`).
From these and `DiskIsOurs` a first session loads 0 as its cursor, while nothing was cut
short, and `CatchesUp` follows it over what it consumes. `NoReplay` is an action property:
a session that loads 0 found a pending marker (`ZeroIsPromised`), so by `MarkerIsPromise`
and `Retires` it is the first, or its identity is one of the excepted; that needs nothing
about cuts. Trying to prove `Retires` is what showed the cases that `NoReplay` excepts
(section 3). `FilesAssumption` says that an absent or torn file is not
mistaken for the contents of another.

Each inductive invariant was first checked by TLC on the instance of the run.

With this, every safety property of a passing run is a theorem. Only model-checked
is liveness, since fairness and `ENABLED` are beyond the prover:
`AcquireEnds`, `LoneAcquirerSucceeds`, `EveryAttemptSettles`, `GapsAreFilled`,
`ConvergesUnlessRaced`, `Quiesces`, `OwnerFollowsCore`, `OwnerGetsItsName`. The
mutual exclusion of the lock and its two companions are proved under
`OrderlyTakeovers`, `NoSecondDelivery` under `[]LedgerHasRoom`; the others under the
modules' assumptions about their constants alone.

## 5. Not modelled

- The guarded fetch as a component: it has no state between calls. `OwnerSync`
  has its timeout racing a late answer; elsewhere a request fails, before or
  after it took effect. Its two retries of a token request are one long request.
- Of `config.json`: `normalizeConfig`'s translation of old shapes, and the updates
  of other fields (policy, owner, names) that one process's whole-file rewrite
  takes from another: no comment of the code promises that they survive, and the
  periodic passes restore policy and owner.
- The migration of sessions saved under an org's slug (hazard at `config.js:560`).
- Of the onboarding, what follows the marker: permissions, self-check, launch.
- Several orgs in one process; the reconnect backoff and fatal closes of the
  WebSocket.
- The MCP tool tables and dispatcher, whose one piece of state is the time of a
  conversation's last roster read; logging, redaction, version,
  orientation and build script, which keep no state that a property is about;
  the SDK's WebSocket client, token manager and services, a third-party package;
  HTTP and MCP framing.

## 6. Plan

- Lemmas for the liveness properties: that the steps they rest on make progress,
  as action properties with a measure, which the prover can do without `ENABLED`.
- Of the lock, what remains true when takeovers are not orderly.
- The migration of slug-named sessions and several orgs, in `Identity`.
