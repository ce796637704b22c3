# LinuxPilot: models and proofs

LinuxPilot manages Linux servers through an agent that polls a central service.
This directory holds TLA+ models of its stateful core, the TLC configurations
that check them on small instances, and proofs that TLAPS checks for every
value of the constants. `PROJECT.json` maps every definition to the lines it
models and lists runs, mutants, hazards and theorems.

    tlc -workers 2 -config MCSessions.cfg MCSessions      # a run
    tlapm SessionsProofs.tla                              # a proof module

## 1. The system

| Component | State it keeps | Operations | Modules |
| --- | --- | --- | --- |
| operations (server-service) | a row per operation: status, version, idempotency key, createdAt, expiresAt | create, poll, ack, result, cancel, expiry sweep | `OperationStates`, `OperationLifecycle`, `Operations` |
| agent lifecycle (server-service) | server status, deletion, current credential; credentials; enrollment tokens | create token, enroll, agent's rotation, heartbeat, revoke, rotate, remove | `AgentAccess`, `AgentLifecycle` |
| sessions (auth-service) | user status; per session revocation, expiry, current and previous refresh hash, used hashes, rotatedAt | login, refresh, logout, logout all, revoke one, block or activate the user, cleanup | `AuthService`, `Sessions` |
| presence (server-service) | status, lastSeenAt, maintenance window; the event log | heartbeat, offline sweep, start, end and expiry of maintenance | `Presence` |
| nonces (server-service) | a row per accepted request with its expiry | accept a request, prune | `AgentLink` |
| ssh keys (server-service) | keys with status, key usages, a server's key and version | save, set status, install, rotate, remove; create, patch and remove of servers | `InventoryRows`, `SshKeys`, `Inventory` |
| groups, tags (server-service) | spaces, a server's space and tags | create, attach, assign, remove a space; add, remove and bulk-edit tags | `InventoryRows`, `ServerSpaces`, `Inventory` |
| agent (apps/agent) | agent.json, the process of the run loop | enroll, heartbeats with retries, crash and restart | `AgentLink` |
| gateway | the cookies it sets in the browser | refresh, login, logout, CSRF check, forwarding | `ClientSession`, `AgentLink` |
| web: session | the refresh in flight, AuthProvider's status | requests, refresh, login, logout, reload | `ClientSession` |
| web: enrollment | the wizard's state, its calls and its poll | create, issue, regenerate, retry, poll, close | `Wizard` |
| web: pages | list hooks, dashboard loader | load, refresh, timer, change of query or period | `QueryList`, `Dashboard`, `LatestView`, `WebPages` |
| web: presentation | none to speak of | rendering, forms, translations | not modelled |
| contracts and libraries | none | schemas, signatures, hashes | assumed to work |
| scripts, containers | none | bootstrap | not modelled |

`OperationStates`, `NoValue` hold what several modules share.

How they interact: the browser talks to the gateway, the gateway to
auth-service (login, refresh) and server-service over signed HTTP; the agent
signs its requests to server-service. Inside a service everything meets in
PostgreSQL. Replicas share no memory, so a handler is interrupted exactly at
its awaited database calls, and two handlers interfere only through rows.
Background timers (status sweep, cleanups) call the same services under an
advisory lock.

What is hard, and what correct means:

* operations: two polls, a result and the expiry sweep race for one row; rows
  are read, then updated on condition of status and version. An operation must
  be given out once (a reboot must not happen twice), a finished one must stay
  as it is, the events must say what happened, and an agent that dies must not
  block the queue.
* agent lifecycle: reads come before transactions and transactions run at READ
  COMMITTED. A token must enroll once, a retired credential must never come
  back, and a revoked or deleted server must let nobody in.
* sessions: refresh reads the session, then the user, then swaps the hash. A
  token must be traded once, reuse must end the family, a lost answer must not
  count as reuse inside the grace, and blocking must leave no session.
* presence: heartbeat and sweep both write a status computed from an earlier
  read, events are written after, maintenance ends without a condition.
* inventory: installs, rotations, creates, patches and removals of keys,
  servers and spaces each take several calls. A key on a server must be counted
  by a usage, or it can be removed while in use; a compare and set must not
  overwrite what it has not read; a withdrawn key must stay withdrawn.
* agent: requests and answers are lost, delayed and repeated, processes are
  killed. A signed request must run once, a host must not be locked out by its
  own retries, and an enrolled agent must keep reporting.
* the browser: tabs share cookies and nothing else, refreshes rotate a token
  that may be presented once. One's own tabs must not look like a thief, and a
  logout must hold.
* the wizard and the pages: answers come after the user has moved on. What is
  shown must be of one server, or of the selected query, and no spinner may be
  left without what stops it.

`PROJECT.json` lists each of these hazards at its line.

## 2. Conventions of the models

A handler (HTTP request or sweep) is a process `r`, `h` or `w`. `work[h]` holds
the database call it makes next and the values it remembers across the await;
`Idle` means that no handler runs there. One action is one awaited database
call (or one read that decides what comes next) with everything the code does
until the next await. `Abort` lets any call fail, at which point the handler
ends and what it had committed stays. A `$transaction` with more than one
statement whose later statement may see other rows than the first takes two
steps (READ COMMITTED); a single conditional UPDATE is one step.

Time is a counter `now` that `Tick` advances up to `MaxTime`. The database
clock (createdAt) and the replica's clock (expiresAt, comparisons) are taken as
one. `AgentLink` has no such bound: there a tick makes every timestamp older,
and what is too old to matter stays so. In `ClientSession` tokens age by
rotation and a grace ends when it likes.

The client modules are at another grain. JavaScript runs to the next await, so
one action is one callback, event handler or effect, with the React commit that
follows. A call that another module takes apart is one step here, and a contract
stands between the two: `Sessions` implements `AuthService`, where a refresh is
one step, and `ClientSession` asks no more of it; `AgentLifecycle` implements
`AgentAccess`, where an enrollment is one step, and `AgentLink` asks no more of
that. Histories (`handed`, `trail`, `origin`, `shut`, `exchanged`, `reuse`,
`block`, `alarmed`, `silent`, `returned`, `contended`, `rotated`, `lost`, `seen` in `Operations`,
`raced`, `overtaken`, `out`, `stale`, `crossed`) record what happened and
influence no guard.

Definitions with names like `ConsumableTwice`, `StaleEarly` or
`MayAuthenticateAnyway` stand before the operator they resemble. They are
plausible mistakes in that operator; each property is known to fail when one of
them replaces the operator (`PROJECT.json`, "mutants").

## 3. The modules

### Operations

`OperationStates` is the status table of `modules/domain/operations.ts`.
`OperationLifecycle` is the abstract promise: a row is requested once, moves
only along the table, and what is announced of it is how it ended.
`Operations` models `OperationsService` call by call and implements the
abstract module under `state <- status, announced <- trail`.

| Action | Code |
| --- | --- |
| `CreateBegin`, `CreateCount`, `CreateInsert` | `create()`: lookup by key, count in flight, insert (unique index) |
| `NextFind`, `NextClaim` | `nextForAgent()`: oldest pending row, conditional claim |
| `TransitionRead`, `TransitionSwap`, `RecordOutcome` | `ack()`, `result()`, `cancel()` over `transition()` |
| `SweepFind`, `SweepRow`, `SweepAbort` | `expireBatch()` and `runStatusSafe()` |

One server is enough: every query has the serverId in its WHERE clause.
Authentication and `requireActiveServer` belong to the agent lifecycle; the
REQUESTED audit entry and event are left out. `bulkCreate` is `create` for each
server with a key of its own. `cancel()` is a service method that no route
calls yet; it is modelled all the same. `handed` counts committed claims; the
answer may still be lost, and then the operation is delivered to nobody until
it expires. `createdAt` and `expiresAt` are fixed when `create()` sends its insert
(`InsertRow`), the row is there for others when the insert commits
(`CreateInsert`), so rows may appear out of their order; `OldestFirst` permits
that an operation overtakes an older one whose insert was under way when the
poll looked, and nothing else. A poll may claim an operation whose deadline has
passed since it looked, as in the code: the claim asks for status and version
alone. The advisory lock of the sweep is a session lock taken through a
connection pool, so it can be re-entered or left behind; the model does not rely
on it and lets sweeps overlap.

### AgentLifecycle

`status` is REVOKED or OPEN, OPEN standing for the other statuses, which
differ only in presence. An expired, used or revoked token is one that is not
`usable`. `authenticate()` reads credential and server in one query. The agent's
other routes only authenticate. `markOffline` asks for an ONLINE or DEGRADED
status and cannot undo REVOKED.

| Action | Code |
| --- | --- |
| `TokenBegin`, `TokenForRotation`, `TokenSupersede`, `TokenInsert` | `createEnrollmentToken()` |
| `EnrollConsume`, `EnrollRead`, `ReplaceSee`, `ReplaceIssue` | `enroll()` |
| `RotateFromAgent`, `ReplaceSee`, `ReplaceIssue` | `rotateFromAgent()` |
| `HeartbeatBegin`, `HeartbeatRead`, `HeartbeatWrite` | `authenticate()`, then `heartbeat()` |
| `CommandBegin`, `RetireSee`, `RetireClose`, `CommandMark` | `revoke()`, `rotateCredential()`, `remove()` |

`docs/server-service.md` says that rotate retires the current credential after
the next successful enroll. The code retires it at once; the model follows the
code.

`AgentAccess` is the contract about credentials, with each enrollment at one
moment: an open token brings one credential, only a rotation token retires the
active ones by it, an agent's rotation presents a credential it was given, and
what is retired stays so. `AgentLifecycle` implements it
(`ImplementsAgentAccess`): a token that a request has consumed counts as open,
for that request alone, until the request issues a credential or ends.

### Sessions

One user; the family of a session is the session (familyId is its id). The
refresh tokens of a session are numbered by `refreshVersion`: the current hash
is that of token `version`, the previous one of `version - 1`, and the used
hashes are all before. PENDING and BLOCKED are both BLOCKED: every guard treats
them alike. `LoginBegin`, `LoginCreate` are `login()`. `RefreshRead`,
`RefreshLookup`, `RefreshUser`, `RefreshSwap`, `RefreshLatest` and
`RefreshRevoke` are the reads and writes of `refresh()` and
`rotateIfCurrentHash()`. `EndBegin`, `EndRevoke`, `LogoutAll` are the
logouts, `StatusUpdate`, `StatusRevoke` are `changeStatus()`, and `CleanUp` is
the deletion of expired and revoked sessions, which may come at any time (the
retention is abstracted). `me`, `listSessions` and the JWT guard only read.
A refresh that loses its swap to a logout answers REFRESH_TOKEN_REUSE; the model
records it as reuse, and it revokes nothing that was not revoked.

`AuthService` is the contract: what those who hold refresh tokens may rely on,
with each refresh decided at one moment. A token is named by its age, a session
is absent, live or over. A trade needs the current token of a live session;
REFRESH_TOKEN_REUSE, and the end of the session, needs a token traded past the
grace or twice removed, or a session that was over. `Sessions` implements it
(`ImplementsAuthService`): a refresh is the abstract one from its read of the
session on, it trades where its conditional update succeeds, and it accuses
where it revokes the family. The contract lets a refresh be
refused for no reason, as a database that fails does, and a session end at any
time, as an administrator does.

### Presence

One server; credentials, revocation and deletion are in `AgentLifecycle`, so
here the server exists and its agent has passed authentication. ONLINE stands
for ONLINE and DEGRADED, which every guard takes together; `agentStatus` follows
and is left out. A heartbeat takes its time stamp right after it read the row.
`maintenanceEndsAt` may be null (`Never`, later than the clock gets) and may
already be past when maintenance starts; `bulkMaintenance` is `startMaintenance`
per server. A sweep takes up to 200 servers, here the one.

| Action | Code |
| --- | --- |
| `HeartbeatRead`, `HeartbeatWrite`, `HeartbeatAnnounce` | `heartbeat()`: row read, transaction, SERVER_ONLINE |
| `StartMaintenance`, `EndMaintenance`, `Rotate` | the same, and the status `rotateCredential()` writes |
| `SweepFind`, `SweepMark`, `SweepAlert` | `markOfflineBatch()` |
| `SweepFindExpired`, `SweepClear` | `endExpiredMaintenance()` |
| `SweepAbort` | `runStatusSafe()` |

What the code does not promise is not a property. The update of the sweep does
not ask for `lastSeenAt` again, so a server whose heartbeat just arrived can be
marked OFFLINE until its next one: `NoFalseAlarm` says what remains true (there
was a silence), `EventuallyOnline` that it does not stay so. The sweep clears
maintenance without asking whether it was extended since it looked, although
`docs/server-service.md:58` calls the clear conditional. Sweeps that
overlap may record SERVER_OFFLINE twice. As in `Operations`, the advisory lock
is not relied on.

### Inventory

`InventoryRows` declares the rows and the requests, `SshKeys` and `ServerSpaces`
hold the handlers of two services, `Inventory` adds those of `ServersService`
and composes them.

| Action | Code |
| --- | --- |
| `PersistKey`, `SetStatusRead`, `SetStatusWrite`, `RemoveKeyRead`, `RemoveKeyWrite` | saving a key, setting its status, `remove()` |
| `InstallCheck` to `InstallFinish`; `RotateRead` to `RotateNewStatus` | `install()`, `rotate()`: check the keys, find the servers, one server after the other, then the statuses |
| `CreateSpace`, `AttachCheck`, `AttachWrite`, `AssignCheck` to `AssignWrite`, `RemoveSpaceCheck` to `RemoveSpaceDelete`, `TagsRead`, `TagsWrite` | `groups.service.ts` and the tag writers |
| `CreateServerSpace` to `CreateServerRow`; `PatchRead` to `PatchReread`; `UpsertUsage`, `ActivateKey`; `RemoveServer` | `create()`, `update()`, `assignSshKeyUsage()`, `remove()` of `ServersService` |
| `Abort` | any call fails, or the process dies |

What the code does and the model keeps: a patch or an install leaves the usage
of the key the server had before; deleting a server keeps its key and that
key's usage; install and rotate do not bump the version that a patch compares;
the foreign key that clears a space does not bump it either; rotating away from
a compromised key writes UNUSED or ROTATION_REQUIRED over COMPROMISED; the last
writer of tags wins; an install that read a key before it was disabled makes it
ACTIVE again. `remove()` of a server is one step here: of its calls only the
write of `deletedAt` touches these rows.

### AgentLink

The enroll command, `agent.json`, the run loop and systemd on the host; the
tokens, credentials and nonces on the service's side; and between them requests
that may be lost, delayed, repeated and answered to nobody.

| Action | Code |
| --- | --- |
| `RunEnroll`, `EnrollSucceeds`, `EnrollRefused`, `EnrollFails`, `KillEnroll`, `Save` | `enroll()` with `withBackoff()` and `writeStateAtomic()` |
| `NewToken`, `Rotate`, `TokenExpires`, `LateEnroll` | `createEnrollmentToken()`, `rotateCredential()`, `enroll()` of server-service |
| `Start`, `Send`, `HearAccepted`, `HearRejected`, `TimeOut`, `Rest`, `Stop`, `Crash`, `StartAgain` | `run()`, `postJson()`, the systemd unit |
| `Arrive`, `Drop`, `Tick`, `CleanUp` | `authenticate()`, the gateway's timeout, time, `runCleanup()` |

Attempts are signed anew with the same body. A lost answer to enroll leaves an
active credential that no host holds: enrolling again answers ALREADY_ENROLLED,
and only a rotation replaces it. Revocation, deletion and the interleaving of
handlers are in `AgentLifecycle`; what the tokens and credentials do here is
held against `AgentAccess` (`KeepsToAgentAccess`). Here, unlike there, an operator's
requests do not overlap, so one token is usable at a time. Were an enrollment token
and a rotation token created at the same time, the rotation token could retire a
credential that was enrolled after the rotation; `OnlyRotationLocksOut` is about an
operator who does not do that.
An answer that is too large ends the process, which is a `Crash`.

### ClientSession

`apiRequest()` and `AuthProvider` in every tab, the cookies they share, the auth
routes of the gateway and auth-service at their end. A refresh token is named
by its age: current, previous, or older. What the tabs see of auth-service is
held against the same contract, `AuthService`, by `KeepsToAuthService`: a
session is made by one login, ages by one trade, and is taken for
stolen only if the contract allows it. So the two modules meet there, and no
behaviour of the browser rests on a promise that `Sessions` does not keep. It is
a meeting of interfaces and not a composition of the two state machines.

| Action | Code |
| --- | --- |
| `Load`, `Ask`, `Succeed`, `Fail`, `Reject` | the boot effect, `apiRequest()`, its retry after one refresh |
| `Rotate`, `RefuseRefresh`, `HearRefresh`, `LoseRefresh`, `LateRotation`, `LateRefusal` | `refreshInFlight`, the gateway's refresh route, `AuthService.refresh()` |
| `SignIn`, `HearLogin`, `FailLogin`, `SignOut`, `EndSession`, `HearLogout`, `LoseLogout` | login and logout from `AuthProvider` to auth-service |
| `Lapse`, `GraceEnds`, `EndElsewhere` | cookies and grace run out; another device ends the session |

What the model shows of the code and no property forbids: a tab stays
"authenticated" after another tab signed out, until its next request; a logout
without cookies is refused by the CSRF check and ends nothing; a logout with a
token that a refresh has just rotated revokes nothing, answers success, and
the answer of that refresh sets cookies again (hence the proviso of
`LogoutHolds`); server-service looks at the access token alone until it
expires. The `else if (currentSessionId)` branch of `logout()` cannot be reached
from a browser.

### Wizard

`useEnrollmentWizard` with the dialog that drives it. `Commit` is what React
does after every state change: the outcome is derived, the two phase effects
run, and the polling effect cancels its call if what it depends on changed. The
outcome is a memo: it is derived anew only when the server, the token or one of
two flags is another object (`Memo`), which a server that was read always is
(`Reread`), so a token that ran out is noticed late. `Reports` says what a server
may come to be read as: connected and ONLINE or DEGRADED, connected and neither
(in maintenance), with metrics but not connected any more, or revoked.

| Action | Code |
| --- | --- |
| `Open`, `Close`, `AddAnother`, `ChooseMode`, `ReturnToForm` | the dialog's handlers and `reset()` |
| `Submit`, `SubmitOffline`, `CreateOk`, `CreateFail`, `IssueOk`, `IssueFail` | `submitWizard()`, `persistServer()`, `issueToken()` |
| `Regenerate*`, `RetryPoll`, `Look*`, `RetryAgent`, `Retry*` | the token panel and `retryAgent()` |
| `PollSend`, `PollOk`, `PollFail` | `tick()` |
| `Lapse`, `Report` | a token expires; the agent connects, comes and goes, is revoked |

The steps of the form and their validation are not modelled; a confirmation is
one with what it confirms. `reset()` cancels no call, so after a close under a
call (`stale`) an old token may be shown for the next server, and a dead
waiting screen is possible; that is the proviso of the properties. The branch
of `persistServer()` that updates a server is never taken from the form
(`FormIsNew`). A wizard whose agent is revoked while it waits keeps the waiting
phase, without polling. The 40th poll ends in "partial" even if the agent is
connected, unless its status is ONLINE or DEGRADED.

### WebPages

`QueryList` is the loader that five list hooks share, `Dashboard` the loader of
the dashboard, `LatestView` what a page promises that shows one selection at a
time; `WebPages` puts them behind the router, where one page is mounted at a
time, and states that the dashboard implements `LatestView`
(`DashboardShowsLatest`). A list whose query
changes under a request it joins, or one of the timer, never loads the new
query by itself (`crossed`): the 30 s timer heals it, and a query with the timer
off keeps its spinner. `ListCatchesUp` therefore speaks of timed queries.

## 4. The runs

| Run | Instance | Shows |
| --- | --- | --- |
| `operations_races` | 2 requests, 1 sweep, 2 operations, cap 1, clock 0..3, TTL 2 | `HandedOutOnce`, `OneRowPerKey`, `TrailAgrees`, `ExpiredOnlyAfterDeadline`, `OvershootBounded`, `OldestFirst`, `ImplementsLifecycle` |
| `operations_expiry` | 1 request, 2 sweeps, TTL 2, clock 0..4, fairness | `EventuallyTerminal` |
| `agent_lifecycle` | 2 handlers, 2 tokens, 3 credentials | `RevocationHolds`, `ShutOut`, `ImplementsAgentAccess` |
| `agent_revoke` (violation) | 2 handlers, 1 token | a heartbeat in flight writes over REVOKED |
| `sessions` | 3 handlers, 1 session, 2 rotations, grace 1, clock 0..2 | `ExchangedOnce`, `ReuseRevokes`, `RetryInGrace`, `BlockHolds`, `ImplementsAuthService` |
| `presence` | 2 heartbeats, 1 sweep, timeout 1, clock 0..2, fairness | `NoFalseAlarm`, `SilenceDetected`, `MaintenanceEnds`, `EventuallyOnline` |
| `presence_online` (violation) | the same | a heartbeat in maintenance announces a return that does not happen |
| `inventory` | 3 requests of overlapping kinds, 2 servers, 2 keys, 2 spaces, 1 tag | `UsageCovers`, `RemovedKeyUnused`, `PatchSeesRow`, `WithdrawnNotRevived` |
| `agent_link` | 2 credentials, 2 tokens, 1 retry, window 1, clocks up to a window apart, fairness | `AcceptedOnce`, `OnlyRotationLocksOut`, `KeepsReporting`, `KeepsToAgentAccess` |
| `client_session` | 2 tabs, 2 requests at once, 1 login | `NoFalseReuse`, `LogoutHolds`, `NoLostWaiter`, `KeepsToAuthService` |
| `wizard` | 2 servers that may be ONLINE, in maintenance or revoked, 2 calls at once, timeout after 2 polls, fairness | `OneServerShown`, `NoDeadSpinner`, `TellsTheTruth`, `WaitingEnds` |
| `web_pages` | 2 queries, one with a timer, 2 periods, 3 attempts, 3 loads and requests at once, fairness | `NoStuckPage`, `PagesSettle`, `DashboardShowsLatest` |

Why these bounds are enough to mean something. Two handlers are what a race
needs; three are used where a third may come between two (a rotation between a
lost answer and its retry). Two operations give an older and a younger one. A
TTL of 2 and a grace or window of 1, with a clock that runs past them, put states
before, on and after the boundary. Three token versions are the fewest in which the previous token
and an older used one differ; three credentials allow two replacements. Larger
instances were explored without an error: three operations and two requests,
for the invariants and `OldestFirst`, without keys or sweep (2.9 million states),
three handlers with two credentials
(4.1 million states), two sessions with two handlers (4.2 million states), two
logins in the browser (5.4 million states) and two requests of the agent on the
wire, without liveness. In `agent_link` one is enough for the nonces: requests
have nonces of their own and never meet. With one login the run of the browser
has no token of an earlier session; that instance and the proofs do. A poll
limit of 2 instead of 40 puts a poll before and one at the limit; two servers
are what a wizard needs to confuse one with the other; the instance with servers
that keep metrics but lose the connection, instead of the maintenance, was
explored as well (1.0 million states). In `inventory` each
request is of the kinds `Serves` gives it, so that every two kinds of work meet,
two of them also with a third. For the properties that are proved the bounds do
not matter.

Deadlock is checked in every run but `inventory`, whose requests are handled
once each and then done.

The two violation runs are disagreements between a sentence of the docs and
the code; `PROJECT.json`, "findings", quotes the sentences. Beside each stands
what the code does guarantee: a revoke nothing in flight can undo holds, and a
server that keeps beating comes back (`EventuallyOnline`). Three more sentences
are stronger than the code, and the properties say what holds instead:

* The cap on operations in flight can be exceeded by creates that count before
  either inserts; `OvershootBounded` bounds the excess. It counts the inserts under
  way as if they succeeded: with a cap of 1 the two requests of the run reach the
  bound of 2, and a third operation would break it before its row exists.
* `docs/architecture.md:60` has a retry inside the grace always safe; it is for
  the previous token alone (`RetryInGrace`): once its successor was traded as
  well, the retry revokes the family.
* `docs/architecture.md:82` has blocking end all sessions; a login that is past
  its check creates one afterwards (`BlockHolds` is about no such login).

### Fairness

`EventuallyTerminal` and the liveness of `Presence` need it. `WF(Tick)`: time passes. `WF(SweepFind)`: the
interval timer starts sweeps for ever, so a sweep that has nothing under way and
finds stale rows runs. `SF(SweepRow)`: any update of a sweep may fail and end the
sweep (`SweepAbort`), but a database that is asked again and again answers in
the end. Callers and agents promise nothing: an operation may be delivered and
never heard of again. The property also needs that the sweep gets its lock
again; a lock that leaks on a pooled connection until that connection closes is
outside the model.

`Presence` assumes the same of its clock and its sweep. Agents are not assumed
to send heartbeats nor operators to stop: `EventuallyOnline` says what follows if
heartbeats keep being written (`Beats`) and, from some time on, no command comes
and no maintenance is on (`LeftAlone`). `SilenceDetected` and `MaintenanceEnds`
have no such premise; a new heartbeat or a new end of the window satisfies them.
The clock stops at `MaxTime`, so they speak of servers whose silence or window
lies within it.

`AgentLink`: systemd restarts the process and its timers fire (`WF` of `Start`,
`TimeOut`, `Rest`), what was lost on the way is gone some day (`WF(Drop)`), a
process that is killed again and again gets to send some time (`SF(Send)`), and of
requests made for ever one is answered (`SF(Heard)`). `KeepsReporting` asks
besides that the file names an active credential from some time on and that nobody
stopped the unit. `Wizard`: the effect polls while it should (`WF(PollSend)`) and
polls do not fail for ever (`SF(PollOk)`). `QueryList`: the timer fires and its
requests do not all fail (`SF`); `Dashboard`: every request is answered, well or
badly (`WF`). `ClientSession` has no liveness: a reload may end a page's requests
for ever.

### What the properties permit

Some races of the hazard list are decided the wrong way by the code, and the
models show it; no property that forbids them could hold. Each property then
names the race as an exemption and says that it is the only way: `shut` (a
revoke while an enroll that may undo it is in flight; a request that is past
authentication runs to its end), the block's seal (a login past its check, a
block whose second call failed), `contended` (a key assigned while it is being
removed), the status a request read (a key withdrawn after that is revived),
`crossed`, `stale`, and the clean logout of `LogoutHolds` (one with no refresh
under way). A rotation that fails half-way leaves a server that only another
rotation repairs. The notes of the hazards in `PROJECT.json` say so one by one.

## 5. The proofs

`OperationsProofs`, `AgentLifecycleProofs`, `SessionsProofs`,
`PresenceProofs`, `InventoryProofs`, `AgentLinkProofs`, `ClientSessionProofs`
and `WebProofs` prove the safety properties of the passing runs (the
exceptions are listed below) and the type invariants, for every value of the
constants that satisfies the ASSUME of the module, along one argument each: `IInv` holds
initially, every action preserves it, and it implies the property; action
properties follow from `IInv` in the pre-state.

* Operations. `IInv` adds to the properties what handlers remember across an
  await: an insert was sent in the past, a claim is of an existing row no younger
  than any that was deliverable when the poll looked (`seen`, a history), a
  swap is a legal move of the status that was read, a record tells the end of
  its operation, and the rows of a sweep were past their deadline. `VersionInv`
  ties the version of a row to its status; it is why status and version seen
  again mean that nothing happened in between. `Refinement`
  (`ImplementsLifecycle`) maps every step to a step of `OperationLifecycle` or a
  stutter, initial states included.
* AgentLifecycle. `TokenInv`: a token is usable, held by exactly one request
  that consumed it, or spent. `ShutInv`: once shut, the server is REVOKED and
  no handler is left that could reopen it. `PresentedInv`: the credential an
  agent's request was accepted with exists, and a request that saw credentials to
  retire is a rotation. With them `EnrollmentIsAtomic` maps every step to one of
  `AgentAccess` or a stutter, although a transaction retires what it saw before and
  tokens are created and closed in between.
* Sessions. `CallInv`: a call that lost its swap has a token that can never be
  traded again, a lookup of used tokens is of a token older than the previous,
  and what is about to be revoked as reuse is past its grace (`PastGrace`).
  `TradeInv` ties `rotatedAt` to the trade of the previous token. `BlockInv`:
  once sealed, no login is about to create a session. `RefreshIsAtomic` maps
  every step to one of `AuthService` or a stutter: the refreshes under way are
  those past their read, named by how far their token is behind the
  session, and `CallInv` with `PastGrace` is what lets a
  late revocation pass for one decided at its write, though the clock, other
  refreshes and logouts have moved since the read.
* Presence. `Noted`: a row that is stale now was noted as silent. `MemoryInv`: a
  heartbeat that remembers OFFLINE and a sweep that remembers a stale row do so
  after a silence, so whatever they write later, `NoFalseAlarm` stands.

* Inventory. `AssignedBefore` and `RemovalClean`: a removal that no assignment
  overlapped finds its key untouched, since whoever may still put the key on a
  server is noted in `contended`. `PatchBehind` keeps what a patch remembers
  comparable with its row also after the version moved on; with it every writer
  of tags is seen to bump the version. `FitOK` carries the status a request read.
* AgentLink. `NonceInv`: a request whose handler ran is remembered by a row that
  outlives the time its timestamp is still accepted, or is too old already; the
  row is kept for two windows and forgotten two windows later, a timestamp is at
  most a window ahead. `TokenInv`: there is one usable token at most, and only
  while no credential is active, so `enroll()` has nothing to retire; with
  `RotatedInv` only an operator's rotation retires. `HostKeepsToAgentAccess` maps
  the service's side onto the contract.
* ClientSession. `AnswerIsNewest` and `LoginIsFirst`: an answer under way brings
  the newest token of its session, and all other copies are older. `JarIsNewest`:
  an old cookie means that the newest token is on its way or lost. So a clean
  logout presents the newest token (`NothingCrosses`) and revokes, and after it
  nothing under way can bring cookies (`Over`). For `NoFalseReuse`, `ReuseOK`
  says why a token that would be taken for stolen was late: two refreshes of one
  session are out at once only if they raced (`CrowdIsRaced`); a token grows old
  on its way only by such a race (`OldIsRaced`); one two rotations old, or one
  rotation and past the grace, was overtaken (`LateIsOvertaken`, and
  `AnswerIsFresh` for the answers); and as nobody holds the newest token while it
  is on its way back, the cookie is one rotation behind at most
  (`CookieIsPrevious`), unless an answer was lost. `BrowserKeepsToAuthService`
  maps the browser's sessions and refreshes onto `AuthService`.
* Wizard. `PollCounts`: a poll that still counts is of the server in hand and
  the wizard waits. `Settled`: without a reset under a call, every call is of the
  server in hand, one submission or retry at most is in flight, and the spinners
  follow it. `OutcomeShown`: a connected outcome that the memo holds is of the server
  that is shown. `Landed` reduces each action to the state it commits. For
  `TellsTheTruth`, `NewsIsPast`: what is shown of a server, and what a read in
  flight has seen, is not ahead of it; `ModeFits`: only the automatic mode waits,
  and a submission is of the mode shown, so success comes of an answer only.
* Pages. A list (`ListOK`): a request the effect owns is for the query shown, and
  so is one that nobody owns unless the query changed under it (`OwnQuery`); from
  this follows that an answer which counts is of the query (`ListAnswersQuery`). The
  dashboard (`BoardOK`): busy means that the newest load is in flight for the
  period selected (`BusyIsLatest`), which is the one `load()` compares with
  (`AskedIsLoaded`). From these
  follow `NoStuckPage`, and that an answer of a load that was overtaken is a
  stutter of `LatestView` and the newest answer its one step
  (`DashboardRefinesLatestView`).

The assumptions say only that the constants are numbers of the right sign, that
`NoKey`, `NoCredential` and `None` are distinct from the values they are not (so a
page without data differs from one with a list or a board), and that
the set of requests is finite (for the count of `OvershootBounded`).

Proved and not in a run, for another property of that run contains them:
`TerminalIsFinal`, the type invariants of most modules, `RevokedForever` (a revoked session never comes back),
`OneCredentialPerToken` and `RetiredForever` (a retired credential stays so).

Only model-checked: the liveness properties (`EventuallyTerminal`,
`SilenceDetected`, `MaintenanceEnds`, `EventuallyOnline`, `KeepsReporting`,
`WaitingEnds`, `PagesSettle`), because liveness under fairness is out of the
prover's reach, and the violation runs.

## 6. Not modelled

* Presentation. Some 30,000 of the 45,000 lines of implementation are React
  components, pages, icons, translations, charts and view-model arithmetic of the
  web client. They compute what to draw from one state and have no steps; a
  model would repeat them. What of the client has steps is in the four client
  modules. The share of mapped lines stays low for that reason.
* Forms and imports. Field validation of the wizard, `import-configuration-dialog`
  and key-file parsing are functions of their input with unit tests.
* Schemas, DTOs, controllers and proxies that only forward; signatures,
  hashing and password verification, which are assumed to work.
* Reads (lists, audit, health, metrics) and writes of values no decision reads
  (metrics rows, package updates, `markUsed()`, timestamps of display).
* Nonces between services live in the memory of a replica and are forgotten at
  its restart; the window they leave open is not modelled. Throttling.
* Users and roles apart from what ends sessions.
* Clock skew between replicas and the database (the host's skew is in
  `AgentLink`).

## 7. Plan

1. Done: `Operations` with its abstract lifecycle; `AgentLifecycle`; `Sessions`;
   `Presence`; `Inventory`; `AgentLink`; `ClientSession`; `Wizard`; `WebPages`;
   their proofs.
2. Done: `NoStuckPage` and the refinement of `LatestView` as theorems; the
   contracts `AuthService`, between `Sessions` and `ClientSession`, and
   `AgentAccess`, between `AgentLifecycle` and `AgentLink`.
3. Operators whose requests overlap in `AgentLink`, with the weaker property that
   holds then.
