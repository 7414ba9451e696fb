# A verification of the platform

These TLA+ modules model the packages of this repository that keep state, `src/packages/platform/*`:
the authentication, session, cache, audit, RBAC, licensing and notification services that an
application runs on, and the parts of the user interface in which several events race. TLC checks the
modules on small instances; the theorems in the `*Proofs` modules are checked by TLAPS for every value
of the constants. `PROJECT.json` lists the runs, the
definitions' source lines, the hazards the properties are aimed at and the findings.

## The system

N stateless replicas share one database (the *stores*, ports with in-memory reference
implementations) and one cache (`CachePort`). No replica holds state that matters, so every
guarantee is a guarantee about interleaved store and cache operations of requests that run anywhere.
`docs/security-platform/distributed-guarantees.md` says what is promised;
`docs/security-platform/distributed-hardening-report.md` lists the places where a read is followed
by a write and says which are accepted.

| Component (under `packages/platform`) | State it keeps | Operations | What is hard |
| --- | --- | --- | --- |
| Refresh tokens, `auth/tokens.ts`, `auth/stores.ts` | one record per token: family, device, version, expiry, rotated, revoked | `issue`, `rotate`, `revoke`, `revokeFamily`, `revokeAllForUser`, `deleteExpired` | two exchanges at once, a revocation during an exchange, blind write-backs, purges, dying after the claim |
| Leased lock, `cache/locks.ts` | a cache key with an owner token and a time to live | `acquire`, `release`, `extend`, `withLock` | stalls past the lease, get-then-delete, eviction, retries |
| Sessions, `session/manager.ts`, `families.ts`, `stores.ts` | one record per session: two deadlines, last seen, revoked | `create` (three ways to enforce the limit), `validate`, `touch`, `revoke`, sweeps, `purgeExpired` | bursts of logins, stale copies, the lock that was not obtained |
| Audit trail, `audit/service.ts`, `repository.ts`, `canonical.ts` | per tenant a hash chain of records | `write`, `appendChained`, `verifyChain` | forks, lost answers, retries, resumed verification, the record bound |
| Login and password reset, `auth/login.ts`, `reset.ts` | hash and token version, reset links, a failure counter and a lock in the cache | `authenticate`, `changePassword`, `request`, `complete`, `revokeAll` | partial failure, stale checks around slow hashing, a login that upgrades a hash |
| Second factors, `auth/mfa.ts` | enrolments, challenges, claims and attempts in a cache or in the process | `request`/`verify` of a code, enrol, confirm, verify, recover, disable | consuming once, read-then-write, an evicted claim |
| API keys, `auth/machine.ts` | one record per key | `create`, `verify`, `revoke` | `verify` writes back what it read |
| Permissions, `rbac/resolver.ts`, `roles.ts`, `permissions.ts`, `cache/typed.ts` | assignments in a store, resolutions in a cache of two tiers, role graphs with a memo per process | `resolve`, `invalidate*`, `add`, `remove`, `effectivePermissions` | an answer cached after it was invalidated, a rejected edit, grants that cover each other |
| Rate limits, `cache/counters.ts`, `security/ratelimit.ts` | counters and buckets in the cache | `consume`, `hit`, `evaluate`, `reset` | compare-and-set loops, window boundaries, penalties, missing capabilities |
| Licences, `licensing/*.ts` | the subscription, the last snapshot, the stored revocation list | events, snapshot requests, `verifyLicense`, `resolveRevocationList` | outages, late answers, clocks, order of lists |
| Notifications, `notifications/service.ts` | dedupe claims | `send` | claims that outlive a failed send, hooks that throw, dead replicas |
| Devices, `session/devices.ts` | one record per device | recognise, trust, distrust, forget | two first sightings, stale writes |
| Audit mirror, `audit/repository.ts` | a buffer | `write`, `flush` | a batch that throws, two batches at once |
| Search bar, data grid, tree, `ui/components` | a debounce and a draft; page, sort, focus and selection; expansion and focus | typing, editing, applying; paging, searching, keys; keys, clicks, a new list | closures over an old value, an index against an element, data that changes under the focus |

How they interact: `PasswordResetService.complete` and `changePassword` bump the account's token
version, which refresh tokens and access tokens carry; session creation takes the leased lock;
reuse detection and sign-out revoke a whole token family; every service writes audit events.

Stateless code (parsing, headers, policies for one request, formatting, components that only render,
styles, Terraform) is listed in `PROJECT.json` as not modelled.

## What must be true

* Refresh tokens: a token is exchanged once; a login has one exchangeable token; nobody is accused
  of reuse wrongly; what a revocation ends stays ended; a token stays bound to its sign-in.
* Lock: no two callers within their leases; `acquire` returns; a dead holder does not keep the lock.
* Sessions: the concurrency limit; a revoked session stays revoked; the absolute deadline is
  absolute; `create` ends however its lock and store behave.
* Audit: the chain of every tenant verifies, whatever the writers do; tampering is seen, also
  across batches; each answer given to a writer is true.
* Permissions: an answer that a revocation made old is served for a bounded time; an invalidation
  nothing raced with leaves no old answer behind where it deleted; a role confers what its graph says.
* Passwords: whoever held a replaced password is signed out; one reset link works; guessing is bounded.
* Second factors: a code is accepted once; a factor counts only when its owner proved it.
* API keys and devices: a revocation or a distrust outlives the stale writes around it.
* Limits: a bucket lets through its burst and refill; no burst at a window's boundary.
* Licences: an outage, a lapse, an old list or a changed clock does not bring access back.
* Notifications and mirrors: one notice per window, a failed one can be retried; no record is lost.
* Interface: what is applied, selected, moved and focused is what the user did last.
* Memory cache: it answers for the keys used last, and never with an old value.

## The modules

Every module models a *call* as a request on some replica. A store or cache operation and the code
after it up to the next `await` are one action; between two of them anything else may happen, the
replica may die, and the clock may move. Variables marked as history are read by no guard: the
properties need them.

* **`RefreshTokens`**: `store` is the shared table, `pc`/`token`/`seen`/`heir` the locals of a
  suspended `rotate` or `revoke`. `Find*` are `findByHash` with the decision `rotate` takes on the
  record; `Claim`/`LoseClaim` the two answers of `markRotated`; `SaveHeir` is `issue` for the
  replacement; `RevokeReused`, `NotifyReuse`, `RevokeMismatch` the alarm paths; `FindToRevoke` and
  `WriteRevoked` the two halves of `revoke`. `Record` keeps the fields some decision reads. Clients
  present only tokens they received, from any device, with any version that was current once.
* **`CacheLock`**: `key` is the entry of one cache key. Time is kept as countdowns that `Tick`
  lowers together, so that there is no bound on the clock. `Begin`, `Acquire`, `GiveUp`, `Sleep`,
  `Wake` are the loop of `acquire`; `CheckRelease`/`Delete` and `CheckExtend`/`Extend` the two
  operations of `release` and `extend`; `Evict` is the bound of `MemoryCache`. `torn` records that a
  write landed on somebody else's lease or that the key was evicted.
* **`Sessions`**: `mode` is `limitEnforcement`, `policy` is `onLimitReached`. `CreateWithinLimit` and
  `DenyWithinLimit` are the transaction of the store; `BeginCreate` to `Unlock` the manager's own
  enforcement with or without the lock, which `owner` abstracts to what `CacheLock` provides (one
  holder until it releases or `LeaseExpires`). `FindToTouch`/`WriteTouch` is `touch`;
  `FindToRevoke`/`WriteRevoked` is `revoke`, alone or in the loops of the sweeps and of the eviction.
  `Fail` is a throw of the store or of a hook (the `finally` runs), `Crash` the death of the replica.
* **`AuditChain`**: `strategy` says whether the repository serialises the appends, as the memory one
  does, or is a table with a unique index, as the port allows (external: modelled from how the service
  treats a `ChainConflictError`). `Append1` or `ReadHead`/`Insert`/`Conflict` are one attempt of
  `appendChained`; `Deliver` and `Fail` the answer or its loss. `trail` is, per tenant, every record ever
  stored; the array of the store, `records`, points into it, and `gone` says how far each tenant's
  records were pushed out of it, so that the stored chain of a tenant is the rest of its trail. `Check` and `VerifyChain` are
  `verifyChain`, evaluated over every reachable chain and every way of tampering in `Tampered`. A
  digest is the sequence of what was hashed, so that it collides with nothing.
* **`AppendOnlyLog`**: what an audit trail promises. `AuditChain` implements it (`TrailIsLog`), with
  the events of the trail as the log, those of records pushed out included, and the outcome of a write
  as its answer.
* **`PermissionCache`**: the user's assignments and the tenant's roles are versions, and a resolved
  permission set is the pair of versions it was computed from, which is what staleness is about.
  `near` and `graphs` are per process, `far` is shared. `MissNear` to `StoreNear` are `resolve` through
  `TieredCache.get` and `set`: `HitFar`/`MissFar`, the role graph (`UseGraph`, or `LoadGraph` and
  `InstallGraph`, which are two steps because the load is awaited), `ListAssignments`, then `SetFar`
  and `StoreNear`. `EditAssignments`, `DropNear`, `DropFar` are a change of the user's roles followed by
  `invalidateUser`; `EditRoles`, `DropGraph`, `ClearFar` a change of a role followed by
  `invalidateTenant`. Entries are evicted, a request may `Fail` at any step, a process may `Restart`.
  `quiet` (time since an old answer could last be written to a tier) and `clean` (the newest edit each
  replica invalidated without a race) are history.
* **`Credentials`**: one account. `hash` is the password it was made from and the call that made it,
  `version` the token version, `links` the reset records, `failures` and `lock` the two cache keys.
  A call is a login (check the lock, verify slowly, count a failure and lock, or clear them, upgrade an
  old hash), a `changePassword`, a reset `request` or a `complete`; `complete` claims the link, sets
  the hash, bumps the version and revokes in separate actions, each of which may fail.
* **`SecondFactor`**: `challenge` and `guesses` are one-time codes with their claims; `enrolled`,
  `shown` the enrolment and the secret the user saw last; `distributed` says whether the claims are in
  the shared cache or, without one, in the process. Confirming, removing and beginning an enrolment
  read a record and write it back in two actions. The claim on a time step has an end of its own, counted
  from when it was made; `late` (history) is that some request claimed a step a period or more after
  its code stopped verifying.
* **`ApiKeys`**, **`Devices`**: a record read by one action and written back whole by another, as
  `verify`, `trust` and `touch` do. `late`, `raced` and `distrusted` are history.
* **`Notifications`**: one message. `Claim`, the attempts over the transports with the hooks that may
  throw (`*Unheard`), and `Release`; a replica may `Crash`, a claim may be evicted or run out.
* **`BatchingSink`**: `buffer`, the `batch` each call is writing, and the `mirror` it writes to.
* **`TokenBucket`**: `consume` looks at the clock, reads, writes with or without compare-and-set and
  tries again. **`RateLimiter`**: one rule and subject over `SlidingWindowCounter`, with penalty
  windows, failing open when the store fails (`Degrade`), and `reset`.
* **`AccessModes`**: the transition table, the status the dates give, the access a status leaves, as
  functions. **`Entitlements`**: those over time, with requests to the central service, late answers
  and the age cap of a kept snapshot. **`RevocationLists`**: an offline installation that is offered
  licence and list files under a clock and keys of its own.
* **`Permissions`**: grants as sequences of segments; `Covers` is `grantCovers`, `Normalized` is
  `normalizeGrants`. **`RoleHierarchy`**: the graph and its memo, over `Permissions`. The walks are
  sets reached by steps to a parent.
* **`SearchBar`**: `value` is what the product holds, `timer` what the pending callback will pass,
  `draft` the popover. A condition keeps what its completeness depends on: the kind of its field, what
  its operator needs, and whether a value is there, blank, `NaN` or a list.
* **`DataGrid`**: `focus` is the index the hook remembers, `dom` the element the browser focuses, which
  React keeps by the row's id. What is shown follows from `rows`, `sort`, `search` and `page` as in
  `useDataGrid`: a row's index is the number of rows before it.
* **`TreeView`**: `Visible` is `flattenVisible` over `buildBranches`, `ActiveId` the fallback of the
  hook, `FocusNode` its `focusNode`. The product may pass another list at any time.
* **`Kanban`**: `active` and `preview` are the board's state, `over` what the drag library (external)
  reported last, `items` the cards of a product that applies `onMove` as the story does. A product may
  add and take away cards, or decline, during a drag.
* **`Calendar`**: `focused`, `cursor` and `focusPending` of the component, `dom` the browser's focus. A
  handler and the effects of the renders it causes are one action; a key that sets the object that is
  there already causes none (`PressOn`). A browser takes the focus from what goes away: the day of a
  month that is not shown any more, and an arrow of the header that is disabled (`Gone`). A day is
  a number, months of some lengths stand for the adapter.
* **`MemoryCache`**: `entries` is the `Map` in its order of insertion; every operation is one action, for
  none awaits. `truth` is what a cache without a bound would hold; `newer` is, for each key, the keys
  used since it was, so that the keys used last are those with few of them.
* **`Subsequences`**: what is left of a list or a `Map` at some of its places, in order; `MemoryCache`
  and `Kanban` drop and filter with it.
* **`RefreshTokensProofs`**, **`SessionsProofs`**, **`AuditChainProofs`**, **`CredentialsProofs`**,
  **`SecondFactorProofs`**: the theorems about the module each extends. **`ServicesProofs`** has those
  about the parts of `MCServices` and `MCLicensing`, **`CachesProofs`** of `MCCaches` and `MCLimits`,
  **`InterfaceProofs`** of `MCInterface`; they extend these compositions, so that each theorem is about
  the specification that the run checks: `Spec`, `LicensingSpec`, `CachesSpec` or `LimitsSpec`.
* **`MC*`**: the instances for TLC. `MCServices`, `MCLicensing`, `MCCaches`, `MCLimits` and `MCInterface`
  put small parts that share no state side by side: a behaviour is one of them, `part` says which, and the
  variables of the others stay `Unused`, so that the state spaces add up and are not multiplied. Each
  action of a part is a disjunct there, so that TLC's coverage tells that each is taken. **`Parts`** has
  the variables that several compositions name alike (`part`, `now`, `pc`), since a module of proofs
  extends two of them.

## The runs

| Run | What it asks | Bounds |
| --- | --- | --- |
| `refresh` | one exchange per token, one head per login, honest alarms, what a revocation guarantees, no revocation undone | 3 requests, 3 tokens, 1 login, 2 devices, lifetime 1, 1 version bump |
| `lock` | `acquire` returns | 3 acquisitions, lease 2, wait 2, retry 1, unbounded time |
| `sessions` | the limit, survivors of a revocation, every call ends | 3 requests, 2 sessions, limit 1, idle 2, absolute 3, time 3 |
| `audit` | the trail verifies, tampering shows, writes end, the trail is a log | 3 writes, 2 tenants, 2 attempts, 2 stored records |
| `caches` | leases never overlap; the window of a revocation in both tiers, what `invalidateUser` achieves | 3 acquisitions as in `lock`; 2 requests, 2 replicas, near 1, far 2, 1 edit of each kind |
| `credentials` | who is signed out by a new password, how many links work, when an account is locked | 3 requests, 2 passwords, 2 links, 2 failures |
| `factors` | a code is spent, a time step is spent, an enrolment was proven | 4 requests, 1 challenge, 2 secrets, 2 attempts, period 2, window 1, time 8 |
| `services` | API keys, devices, one notification, the audit mirror, the role graph | 4 verifications, 2 keys; 4 device calls, 2 clients; 2 sends, 2 replicas, 2 transports, 2 attempts; 3 sink calls, batch 2, 5 records; 3 roles, 1 edit |
| `limits` | the bucket's bound, no boundary burst, what a full cache keeps | 3 requests, burst 2, limit 2, window 2, time 4; 3 keys, room for 2, sample 1, ttl 2 |
| `licensing` | stale access ends, a lapse ends growth, a revocation sticks | 2 requests, horizons 1, 2, 3, 2 events; 2 keys, 2 lists, clock 3 |
| `interface` | search bar, data grid, tree, board, calendar | 1 condition of 4 kinds; 4 rows, 3 matching, 2 to a page; 4 nodes in 3 hierarchies; 3 cards, 2 columns; 9 months, 1 or 2 panes, 11 days in bounds |
| `limiter_penalty` | the claim that penalties lower a caller's throughput, which the code does not keep | 3 requests, limit 1, window 2 |

Why the bounds are enough to be interesting. The races of `rotate` need two exchanges and a
revocation, hence 3 requests, and a token, its replacement and the replacement's; a lifetime of one
tick lets tokens expire and be purged under a call; one version bump tells a token's version from the
account's. A lease of 2 and a retry of 1 make a waiter retry within a lease and a holder extend in the
middle of one. An idle window of 2 under an absolute lifetime of
3 lets a touch slide the one as far as the other, and a session expire and be purged while a touch
holds a copy that would still be valid. With a limit of 1 two logins already exceed it and the third call is a touch, a
revocation or another login. Two stored records for three writes make the record bound drop a
tenant's genesis record, and three writers with two attempts make one of them run out of attempts.
Two
replicas and two requests let a resolution on one race the invalidation on the other or on its own;
the far tier outlives the near one by a tick, so that a near tier can be filled with an answer about to
leave the far one; one edit is enough for an answer to be old.
A replaced password needs two of
them, and three requests let a login with the old one span a reset. Four requests of a second factor
are a beginning, its confirmation, another beginning and a use; the clock goes to 8 because a claim
made at 0 lasts until then, so that one runs out while a request waits. Two sends on two replicas are a
message and its duplicate or retry; with two transports and two attempts each fails and is repeated.
One edit of a graph over any acyclic start makes every memo old, and a role that inherits both grant
sets has two grants that cover each other and one that covers a narrower one without allowing all that
one does. Three requests over
two windows meet at the boundary. Two events and a term move a subscription past its end in every
order the table allows. In the interface, three matching rows on pages of two make a second page
with one row, so that a search, a sort and a page each change what an index means; four nodes make a
branch with a grandchild and a later sibling, a cycle with a node below it, and a parent that comes
later than its child; a filter is one condition, since conditions do not look at each other. Three
cards have one above and one below another, in one column or two; the calendar's bounds lie inside
the first and the last of three months, so that paging reaches both, and a year of two months leads past
both. A cache
with room for two of three keys evicts at every third, and a sample of one leaves dead entries behind
live ones. `limits` uses the names of its requests as keys, so that one symmetry serves both.
No run replaces a definition, and every action is taken in some run. Deadlock is not checked because
each request runs once, so that all the models stop when the requests are served.

Symmetry is used over requests, and over tokens, links, keys, secrets or replicas where nothing tells
them apart, in runs whose properties are safety alone; never over roles, rows or nodes, which are
ordered or have a place in a constant.

**Fairness.** `RefreshTokens` has none: its properties are safety properties. `CacheLock` assumes that
the clock runs and that a live replica continues `acquire`'s own loop, nothing of the work done under
the lock and nothing of `release`. `Sessions` and `AuditChain` assume that a replica that did not
crash goes on with a call it has begun and that the store answers or fails: the event loop schedules
every ready continuation. The modules added for credentials, factors, services, limits, licences and the
interface state safety only, and no fairness. Weak fairness is enough everywhere, since an action of a call in progress
stays enabled until the call takes a step (a writer in conflict becomes able to insert, or the other
way round, but `Proceed` as a whole stays enabled).

## What the runs show, and the findings

The guarantees the code relies on its compare-and-swap, its transaction or its serialised append for
hold in every interleaving. What does not hold comes from read-then-write pairs:

Each item names the property that bounds it: the property passes because it exempts exactly the case
described, so the run shows that nothing else goes wrong. The sentence of the repository that the code
does not keep is quoted in `PROJECT.json`; several are also stated as definitions, named in brackets,
which TLC refutes when they are put into the cfg of the run.

1. `refresh`, `OnlyMidwaySurvives` [`ReuseEndsLineage`]: the loser of an exchange revokes the family
   while the winner has claimed and not yet saved its replacement, which is live afterwards.
2. `refresh`, `ClaimedOnce` [`OneWinnerEver`]: `revoke` writes back the record it read and erases a
   rotation mark set meanwhile; the token is exchanged a second time.
3. `caches`, `Exclusion` [`NoDoubleUnlock`]: `release` deletes whatever is under the key when its delete
   arrives.
4. `sessions`, `SurvivorsRaced` [`RevokedStaysRevoked`]: `touch` writes a validated copy back over a
   revocation.
5. `audit`, `ChainVerifies` [`SequencesAreUnique`]: the record bound is shared by all tenants, and a
   tenant whose records are all gone starts again at 1.
6. `caches`, `WindowsClose` [`RolesCatchUp`]: each process holds the role graph it loaded until
   `invalidateTenant` runs in that very process; for a permission removed from a role the window has no
   end on other replicas.
7. `caches`, `InvalidationBites` [`NearStaysClear`]: a read that took its answer from the far tier
   before the delete fills the near tier after it.
8. `credentials`, `ReplacedSignedOut` [`ReplacedStaysReplaced`]: a login that upgrades the hash it
   verified writes the old password back over a reset.
9. `services`, `RevocationHolds` [`KeyStaysRevoked`]: `verify` notes its use by writing back the record
   it read, over a revocation. `DistrustHolds`: `trust` does the same over a distrust.
   `FailureIsRetried`: a hook that throws after the last transport failed leaves the claim behind.
   `AnswersMatchRoles` [`NoCycleIsKept`]: a rejected `add` keeps its cycle and the old memo; and
   `normalizeGrants` takes covering for an order, which it is not: of two grants that cover each other both
   are removed, and `a:*:*:*` removes `a:b:*` although it does not allow `a:b`.
10. `limits`, `ExactInOrder` [`EnforcementAsReported`]: a caller that was slow between the clock and the
    read sets the bucket back in time. `limiter_penalty` refutes `ViolationsDoNotPay`: a wider window
    counts in a bucket of its own, which is empty.
11. `licensing`, `RevocationSticks`: when the stored list cannot be verified any more, an older one that
    can takes its place.
12. `interface`, `SearchSettles` [`AppliedStays`]: a search text reported late brings back the filter
    it was typed under. `OnlyFinishedApplied` [`HalfBuiltNeverApplied`]: a cleared number and a list left
    from another operator count as values. `SelectedAsMeant`: Space acts on the remembered index after
    rows came or went. [`OneTabStop`]: the remembered index can point below the page, and then no cell is
    in the tab order. `KeysActOnFocused`: a step to a parent that is not in the list moves the active
    node, not the focus. `CardsLandAsShown` [`OwnPictureKeepsPlace`]: a card let go over its own picture
    goes to the end of the column. `PlaceIsKept` [`ArrowKeepsFocus`]: a key pressed on against a bound
    leaves `focusPending` on, and a later page turn moves the focus into the grid; and paging to the month
    of a bound disables the arrow that was clicked, which loses the focus to the body of the page. Besides,
    the keys act on the day before a clicked one that may not be chosen, and a clicked day of a month that
    is not shown loses the focus with the grid it was in.
13. `limits`, `RecentAreKept` [`CountersAreKept`]: `increment` leaves a counter where it stands in the
    order of eviction.

`StepIsSpent` holds up to a stall. The claim on a time step is kept for two windows and two periods from
when it is made, which is longer than the code verifies, but a request decides that the code verifies
before it asks for the claim: one that waits between the two until a period after the code's end may
find that the first claim has run out. TLC shows it at time 8 and not at time 5.

`WindowsClose` states what does hold of assignments, with or without invalidation: an old answer leaves
the far tier within its time to live, and then every near tier within the near one's, so that the worst
case is the sum of the two and not the far one alone.

## The proofs

Assumed are only the `ASSUME`s on constants: lifetimes, leases and bounds are natural numbers (positive
where the code divides by them or a bound of zero would mean that nothing is done) and the null values
are not members of the sets they extend. Nothing is assumed of how many calls, tokens,
families, devices or callers there are, but that the calls of the limits, whose names are the memory
cache's keys too, and the cards of the board are finitely many. The proofs of the interface hold for any set of rows,
nodes and bounds over the cells, hierarchies and months that `MCInterface` defines.

* `RefreshTokensProofs`. Neither `ClaimedOnce` nor `AtMostOneHead` is inductive. A claim that was
  granted leaves a mark on the record (`MarkOK`), until the record is purged or a blind update erases
  the mark; a suspended call's copy is stale but belongs to the right family and a mark on it is the
  trace of a granted claim (`CallOK`); a replacement being minted is reserved for one call (`HeirOK`);
  and records agree with the history of their tokens (`StoreOK`). The key is `OneUnspent`: the tokens
  of a family for which no claim was ever granted, received or being minted, are at most one. A claim
  takes one away and reserves one; a purge does not change the set, although it changes the set of
  stored tokens, which is why `AtMostOneHead` itself is not preserved by the argument. `IInv` is the
  conjunction of these with `TypeOK` and `ClaimedOnce`; `Inductive` proves it, and `TypeCorrect`,
  `ClaimedOnceCorrect` and `AtMostOneHeadCorrect` follow. On top of it, `AlarmIsHonest` needs that a call
  which takes its token for a replay is right about it (`ReplayOK`); `OnlyMidwaySurvives` that the
  exchanges under way in a revoked family are those of its last revocation until one of them has saved
  (`EndedOK`); `RevocationIsPermanent` is about steps; and `LineageBinding`, that the records of a family
  agree on device and version, needs the copies that suspended calls hold to agree too.
* `SessionsProofs`. A suspended call may write back what it read, so the invariant speaks of copies
  too. `BuiltOK` keeps apart the sessions that are stored and those a login has built and not stored.
  `SurvivorsRaced` needs `TouchOK`: the touches of a revoked session in flight are those that were in
  flight when its revocation ended, until one of them has written. `LimitHeld` is clear where the store
  enforces the limit in its transaction. Where the lock does, the count alone is not inductive:
  `SectionOK` says that whoever is past the counting owns the section and has room, not counting the
  sessions it is about to evict, and that nobody else takes the room. `DeadlineHolds` holds of the
  store because it holds of every copy (`DeadlineOK`).
* `AuditChainProofs`. `ChainVerifies` is about what `verifyChain` computes with a fold over the stored
  chain. The invariant is local: record n of a trail is the n-th and is sealed behind its predecessor
  (`ChainOK`), the array is in the order of the trails (`ArrayOK`), and an optimistic write holds a head
  that was its tenant's (`WriteOK`); `ConflictError`s are what keeps two writes from the same head.
  `TamperingShows` goes through each way of tampering and finds the link it breaks. `TrailIsLog` is the
  refinement: the initial states map to initial states, an insertion is a `Take`, an answer a `Tell`,
  and everything else, the dropping of old records included, a stutter; it needs that a write that can
  still append is in no trail yet (`AnswerOK`). `ConflictsArePaidFor` says that a write that gave up met
  its conflicts one by one, each against an append of its tenant (`PaidOK`).
* `CredentialsProofs`. `ReplacedSignedOut` needs that a login that passes with a replaced password holds
  a version that is out of date or about to be (`LoginOK`), and that nobody upgrades a hash of the old
  one unless a write raced with it (`UpgradeOK`). `OneLinkWorks` needs that the one request at work has
  revoked every link before it saves its own (`LinkInv`), `LockoutHolds` that the alarm is raised on
  reaching the threshold and not before, and `OlderLinkDies` that no replaced hash is in force again.
* `SecondFactorProofs`. `CodeIsSpent` has an invariant for each place of the claims: in the cache every
  comparison is in the attempts counted and the only match holds the claim (`SharedInv`); in the process
  at most one call is engaged with a challenge and its copy counts (`LocalInv`), until two overlap.
  `StepIsSpent` needs that the claim of a call that passed outlasts the code by a period (`ClaimInv`),
  which is where `late` comes from; `EnrollmentIsProven` that a confirmation holds the secret that is
  enrolled and a code of it, unless a beginning or a removal came in between.
* `ServicesProofs`. A part has an invariant of its own, and the steps of the other parts leave it alone.
  `RevocationHolds` (`KeysOK`): no verification holds a record of a key revoked without a race.
  `OneRecordEach` and `DistrustHolds` (`RecordsOK`, `TrustOK`): a client has one record, and trust of a
  distrusted client is of a call that raced. `OneNotice` (`HoldersOK`): the claim of whoever may send is
  there or has run out, and two that share a store claimed a window apart. `FailureIsRetried` (`EndsOK`):
  a call that ended without a delivery holds no claim unless a hook was deaf to it. `MirrorIsComplete`
  (`BatchesOK`, `OrderOK`): the records given are the buffer, the batches and the mirror, each once.
  `AnswersMatchRoles` (`MemoOK`): a memo is what would be answered now; and `NormalizationKeepsAnswers`,
  a fact about `normalizeGrants` for every set of grants and every check: removing covered grants
  changes no answer as long as no grant that allows the check is `Unseated`. Its proof takes, among the
  grants that allow the check, one that names the fewest segments, of those one that ends in a wildcard
  if any does, of those a shortest: no other of them covers it without being covered by it. The graph is
  any graph over any number of roles, with the two grant sets that `MCServices` defines.
* `ServicesProofs`, the licences. `LapseEndsGrowth` needs that after a lapse every status that can be
  reached without a renewal is one whose date has come, also the one a suspension will return to, and
  that a trial has no other end than its own (`LapseOK`). `StaleAccessEnds` needs that a snapshot, kept
  or under way, was true when it was made: the service's own mode was as high at that time, which the
  history remembers (`Told`); that access only falls as time passes (`AccessOnlyEnds`) does the rest.
  `RevocationSticks` needs that the stored list is as new as any that was ever stored, unless an older
  one replaced one that could not be read.
* `CachesProofs`, lock and permissions. `HolderHasKey` is inductive together with `TypeOK`: a holder
  within its lease has its token under the key with the same time to live, unless a lease was torn; a
  grant needs a dead key, hence nobody in a lease; a tick lowers both. `Exclusion` follows because a key
  has one token. `WindowsClose` needs that the history stands at zero whenever an old answer may still be
  written (`QuietOK`): an answer becomes old only by an edit, which resets the history, and a tick lowers
  an entry by one while it raises the history by at most one. `InvalidationBites` needs that nothing on
  its way to a tier, of any replica, is older than a clean invalidation (`CleanOK`): a call that reads
  the store afterwards gets a newer answer, one that reads the shared tier gets one no older, and one
  that was under way counts as a race.
* `CachesProofs`, limits. `ExactInOrder` is an account (`Account`): since any earlier time, what was let
  through and the tokens in the bucket are at most the burst and what came in. It needs the entry to
  outlive the time in which an empty bucket fills up: the proof goes through because the code rounds
  that time up, and a model that rounded it down was refuted by it. `NoBoundaryBurst` needs that the
  answers of the calls in a bucket are different numbers up to its counter (`CountsOK`), so that there
  are at most so many, and that each call that passed found little enough in the bucket before, whose
  counter no longer moves (`SharesOK`). `RecentAreKept` needs two things of the order of the entries: that
  those of a key and of all used since fit (`Fits`), and that an entry behind one that nobody
  incremented in its place is of a key used since (`Reaches`), so that the first entry goes only when as
  many keys were used later as there is room for. What dropping and filtering leave is enumerated through
  the rank of each place, without induction.
* `InterfaceProofs`. `SearchSettles` and `OnlyFinishedApplied` need the same of the report that is
  pending as of what is applied: it has the text that shows, and an older filter only after a race
  (`ReportOK`); every condition was built by the editor, and the applied ones are complete (`FilterOK`).
  `SelectedAsMeant` needs that the remembered index is that of the row in focus (`FocusOK`), which
  follows rows through a sort because their order is strict and total. `KeysActOnFocused` needs that an
  item in focus is visible, and what the walk of `Visible` computes is not looked into: it is the same
  list when the nodes and what is expanded stay (`VisibleStays`). `PlaceIsKept` needs that the day in
  focus is between the bounds and shown, that a focus still asked for leaves the present one where the
  user put it, and that an arrow that lost the focus is spent (`CalendarOK`, `DomOK`, `SpentIs`).
  `CardsLandAsShown`, an action property, needs that the product's cards have different names (`BoardInv`). What a filter keeps is known from any increasing list of the places it
  keeps (`Enumerates`, `KeptBy`), so the board's destination list and the product's column are the same
  cards in the same order (`DestinationIs`); the card goes before the one that has the position's rank,
  taking it out again gives the others back (`InsertedIs`), and in its column the next place follows it
  (`LandsAt`). No other action ends a drag and moves a card.

Model-checked only:

* liveness (`AcquireReturns`, `CallsReturn`, `WritesEnd`), which is beyond the prover together with
  everything about `ENABLED`;
* what the recursive functions of `TreeView` compute, which would need induction over data;
* the finding of `limiter_penalty`, which is a counterexample.

The type invariants of the modules that stand alone, of the lock and of the permission cache are
theorems, those of the parts of `MCServices` and of `Entitlements` are conjuncts of their invariants; the
other modules state theirs (`TypeOK`), which can be checked by adding them to a cfg. Some properties are defined and in no run: `HolderHasKey`,
`DeadlineHolds`, `LineageBinding`, `ConflictsArePaidFor`, `OlderLinkDies` and `OneRecordEach` are proved;
`LeaseEnds`, `RowsAreReachable`, `TreeIsWhole` and `BatchesAgree` are not.

## The plan

Done: the four core components, the permission cache, credentials and second factors, API keys,
devices, notifications and the audit mirror, the limits, licences, the role graph, five parts of the
interface; and the proofs of every safety property the passing runs check.

Next proof: `BatchesAgree` of the audit chain.

Next modules: `SessionsOverLock`, `Sessions` with the lock of `CacheLock` in the place of `owner`, to
show that the abstraction is the right one; the key ring with replicas that hold different keys; the
secret cache of `config`; the Gantt chart and the file manager.

## Not modelled, and why

Assignments that expire on their own: `resolve` compares them with a clock it read before it loaded
anything and caches the answer for the full time to live all the same, so that such an assignment acts
like an edit whose invalidation never comes. Permission policies, guards and the platform's other pure
checks answer one request from its arguments. Most of the user interface renders its arguments; of the data grid, columns that are hidden
or resized, virtual rows and server mode, and of the tree the labels. Plaintext tokens,
hashes and signatures (a token is its id, a digest is what was hashed); IP binding, user agents, tenants other than the one in question except where tenants share something (the audit
repository's bound); events and hooks except where a throwing one changes the control flow; the order
in which `Array.sort` breaks ties; the formats and transports of log lines, e-mail and HTTP. External
stores other than the reference implementations are modelled only as the port's comments and the
services' use of them require.
