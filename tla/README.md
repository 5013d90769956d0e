# Verification of latte-rs

TLA+ models of the LicenseLatte Rust SDK, checked by TLC on small instances and,
where a theorem is stated, proved by TLAPS for every value of the constants.
Everything is translated from the Rust source under `src/src/`; file and line
references in `PROJECT.json` ("map") say which code each definition stands for.

## Inventory

| Part | State it keeps | Operations | Talks to |
|---|---|---|---|
| `Sdk` handle (`http.rs`) | cache file, `renewal_failed` (atomic, unlocked reads), `renewal` mutex; shared by clones and threads | `activate`, `renew`, `deactivate`, `check`, `machines`, `rename_machine` | server, cache file, verdict |
| Background renewal (`http.rs`) | `Renewal { attempt, in_flight, last_attempt }` | `renew_in_background`, `renew_and_store`, `note_renewal`, `InFlight::drop` | started by `check` on a detached thread; writes the cache under the mutex |
| HTTP transport (`http.rs`) | one helper thread and channel per request | `Http::post`, `call`, `post` | server; abandons a request after its timeout |
| Cache file (`storage.rs`) | one file, temporary files, a process-wide counter | `load`, `save`, `clear` | every method of `Sdk`, other processes on the same path |
| Processes on one cache path | one handle and mutex each, one file for all | every method, once per process | each other only by the file and the server |
| Chain verification (`verify.rs`, `jwt.rs`) | none | `verify_activation_any_at`, three JWT parses | called on every cached or received token |
| Offline verdict (`validate.rs`) | none | `validate_at`, `in_grace_period`, `is_valid` | called after verification |
| Entry points (`lib.rs`) | none | `check_license_*`, `PublicLicense` getters | verification, verdict, entitlements |
| Entitlements (`entitlements.rs`) | none | `decode_entitlements`, `can`, `limit` | verification, host |
| Keys, AppIDs, set-up (`key.rs`, `appid.rs`, `machine_id.rs`, `Sdk::new`) | none | checksum, normalising, reading and hashing the machine ID | input of every request and of the fast path of `activate` |
| Timestamps (`parse_rfc3339`) | none | parsing | answers of `machines` |

What makes each part correct, and what is hard about it:

- **Handle and renewals.** Host threads, background renewals and the server
  interleave; the cache file and the flag change together only under the
  mutex, and `check` reads both without it. Requests are lost before or after
  they took effect, renewals hang and are overtaken, threads panic, the process
  dies, the file cannot be written. The cache must follow the activation,
  renewals must be rare and single, `check` must never wait, nothing may hang.
- **Transport.** Helpers hang where no client limit reaches, panic, or answer
  when nobody waits; a call must still end in time with its own answer.
- **Several processes.** No mutex spans them and they live long: what one
  deletes another may be about to write back. In the long run the file must
  follow the seat, and a held seat must stay renewed.
- **Cache file.** Threads and processes save at once and die halfway; readers
  must see whole versions only.
- **Verification and verdict.** Four signatures, three kinds of deadline and two
  token formats: the boundaries have to agree, and no key may outlive its bound.
- **The other pure parts.** Boundaries of integers and floats, of calendars, of
  spellings and of blank machine IDs.

`PROJECT.json` ("hazards") lists the hazards at their lines with the properties
that would catch each one.

## Modules

| Module | Models |
|---|---|
| `Sdk` | the handle, its callers, the background renewals, the network and the server; instantiates `Validate`, implements `Handle` |
| `Handle` | abstract: what may happen to the cache file and `renewal_failed`, and on whose word |
| `HttpCall` | one caller's requests, their helper threads, channels and time limits; implements `Request` |
| `Request` | abstract: what a caller may rely on |
| `SharedCache` | several processes on one cache file, for any length of time |
| `Storage` | `save` and `clear` in steps, over several processes; implements `CacheFile` |
| `CacheFile` | abstract: what the cache promises its readers |
| `Validate` | the verdict as operators |
| `Chain` | tokens, certs and verification, composed with the verdict |
| `Offline` | one chain and token on a device that stays offline, while the clock advances |
| `Keys` | checksum, spellings, the fast path's comparison |
| `Setup` | `Sdk::new`: AppID, machine ID, default cache path |
| `Entitlements` | the `ent` claim and its getters |
| `Timestamps` | `parse_rfc3339` from fields to instant |
| `Pure` | `Offline` and the four modules above, each on inputs of its own |
| `MCSdk`, `MCStorage`, `MCChain`, `MCPure` | values of the constants for TLC |
| `SdkProofs`, `ScheduleProofs`, `HttpProofs`, `SharedProofs`, `StorageProofs`, `ChainProofs`, `PureProofs`, `KeyProofs` | theorems |

The models of the running system fit together as follows. `HttpCall` shows that a
call ends, with the server's answer or with `Network`; the request step of `Sdk`
is therefore one action with those outcomes. `Storage` shows that a save or a
clear is seen whole; `Sdk` and `SharedCache` therefore take each as one action.
`SharedCache` reduces the threads of one process to a host and one renewal that
counts, which `Sdk` has in detail.

### Sdk

A thread is a host caller, or background renewal number n (the thread n). Its
`pc` names the place it has reached; `call`, `tok`, `seen` and `outcome` are its
local variables: the request, the token loaded or received, the clock value it
kept, and the result. One action runs from one point where another thread can
notice it to the next: a clock read, a file read, `lock`/`try_lock`, the
network.

| Code | Actions |
|---|---|
| `check` | `Load`, `CheckVerdict`, then `CheckDue`, `CheckSkip` or `CheckStart` (`renew_in_background`), `CheckFlag` |
| `activate` | `Load`, `Fast`, the request, `Receive`, `Accept`, `SaveBegin`, `SaveEnd` |
| `renew` | `RenewClock`, `RenewStamp`, the request, `Receive`, `RenewNote`, `Accept`, `SaveBegin`, `SaveEnd` |
| `deactivate` | the request, `Receive`, `ClearBegin`, `ClearEnd` |
| `machines`, `rename_machine` | the request, `Receive` |
| `renew_and_store` | the request, `BackgroundVerify`, `BackgroundStale` or `BackgroundRecord`, `BackgroundWrite`, `BackgroundDrop`; `BackgroundPanic` from any of them |
| the request | `Answer` (a token, an undecodable 2xx, 401/403/404, any other status) or `Abandon` |
| environment | `Begin`, `LateArrival`, `Revoke`, `Tick`, `Crash` |

The order in the code is kept where it matters: `renew` evaluates the clock
before it takes the mutex (the right side of a Rust assignment comes first),
`check` reads the clock once for its verdict and again for the renewal, the flag
store precedes the file write, and a renewal's mutex guard is dropped before its
`InFlight` mark. What the code does under the mutex and no unlocked reader can
see is one action.

Abstractions:

- The licence key and the activation id name one thing, an element of `Aids`;
  legacy aliases are left out.
- A token is its activation, issue time, licence end and a seal: `good`,
  `foreign` (for another machine) or `bad` (a signature or claim fails).
  `ChainEnd` stands for the end of the certs above every token.
- A load, a save and a clear are atomic here. `Storage` shows when that is
  justified. An unreadable file counts as a missing one, as in `load`.
- A handle without a cache path, and builds without the `cache` feature, are
  left out.
- The server is external: it grants a renewal of a held seat, refuses one of a
  released or revoked seat, and may fail at any time. A deactivate of a seat no
  longer held is success. `late` holds the requests given up on that can still
  take effect.
- Time only advances.

`Handle` knows no methods, mutex or clock. An agent (a thread of `Sdk`) hears
news of an activation from the server, and only news lets it act: a granted token
that verifies may be kept, word that the seat is gone (a rejection, or the
success of a deactivate) empties the file, silence about the cached activation
puts the flag up. News is used once or dropped; a renewal may use it only
while the file holds the activation it asked about, and the file changes only
with the flag down. When news is used is open: a
`renew` answered long ago may still write, which is what `SdkStaleRenew` shows.
In `FollowsServer` a thread's `News` is read off its place and its `outcome`: it
holds news from its answer up to the write, removal or store that uses it.

### HttpCall

A request has a number, a helper thread, a channel and a time it was made. The
caller is `Http::post`: `Post` makes a channel and spawns the helper (or cannot,
which is `Network`), `Receive` takes what the channel holds, `Abandon` is
`recv_timeout` running out. The helper connects, waits for the status, reads the
body and sends; it may fail, panic (its sender is dropped, and the caller wakes
with an error) or hang before its request has left, in a name lookup, where no
limit of the client reaches. It starts as soon as it is spawned: the client's
limit counts from `started`, and a delay of the scheduler is left out.
`ureq` ends what its limits cover by `Timeout`; that is external, and a guard of
`Tick`. `Decode` is `Sdk::call` with `Sdk::post`: only a 2xx needs its body. The
refinement maps a request to "unsent", "open" or "closed", and says that what a
caller is told is the server's decision on that very request.

### SharedCache

There is one activation. Each process has a host that calls one method after
another and at most one renewal that still counts; one taken over gives up
its place, since the code drops its outcome whatever it is. A token is `young`
or `due`, and what `last_attempt` and `in_flight` forbid together is one
`mark`: `recent` until `RENEW_RETRY` (or twice that) has passed. `StepBack` sets
the clock back: tokens and attempts look new. `Release` is the seller's portal
or the end of the licence. All tokens pass verification here; `Chain` has the
other ones. `lapsed` is history: the requests during which the seat was,
at some moment, not held.

### Storage

A file is its save's number, a directory entry holds a file, and `whole` is the
set of files written to the last byte. `TmpName` is the pid and the counter.
`create_new` fails on a taken name, and every failure removes whatever is at the
name afterwards, as the code does. `ReadersSeeVersions` maps the path to
`CacheFile!content`, so every step is a publication, a removal or invisible.

### Validate and Chain

Pure operators with the source's order of checks. `Offline` watches one
chain and token while the clock advances. Signatures are who made them;
encodings are sound or not; claims are numbers or absent.

### Keys, Setup, Entitlements, Timestamps

Pure operators, and under "Properties" in each module the reference definitions
they are compared with: the calendar for `Days`, and for the date a
timestamp has in another zone; the wrong keys a checksum of weights 1 and 2
cannot see for `ValidateKey`; equality of what was typed for `Hits`; a claim
without the value for a bad value. `Pure` gives each one inputs in initial
states of their own. Sizes that only bound a computation are constants, and
small in the run: `MaxInt` for `i64::MAX`, `MaxExact` for a float's precision,
`Block` for SHA-256's block, `MaxKeyBytes` for the 256 bytes of a licence key.

The checksum is computed of bytes, as in `key.rs`. A byte of the alphabet is its
index; -1 is any other byte that begins a character, an ASCII one or the first
of several; `Rest` is a byte that does not begin one. Both count as -1 in the
sum. `ValidateKey` is "valid", "invalid" or "panic": `split_at` panics where the
byte after the split is a `Rest`, and `ParseAppId`, and with it `Sdk::new`,
panics too. `TyposCaught` has every wrong byte and, as `Longer`, a character of
two, three or four bytes in the place of each byte of a valid key.

## Runs

| Run | Question | Result |
|---|---|---|
| `SdkAllMethods` | all methods, one activation, disk faults, panics, foreign tokens; implements `Handle`; what is dropped comes back by `renew` alone | holds |
| `SdkSchedule` | `check` only: how often and how singly it renews, order of outcomes | holds |
| `SdkTwoActivations` | two activations, no manual `renew`; `check` waits for nobody | holds |
| `SdkCallsReturn` | all methods with a crash: nothing hangs, the running mark is cleared | holds |
| `SdkStaleRenew` | `NoResurrection` once `renew` is used | violated |
| `SdkStaleFailure` | `FlagNotOutdated` once `renew` is used | violated |
| `HttpCall` | helpers hang, panic, fail and are abandoned: calls end in time with their own answer | holds |
| `SharedCache` | two processes, one file: tokens are lost for cause, forgotten for good, kept fresh | holds |
| `Storage` | two processes, one with two threads, distinct pids | holds |
| `StorageSamePid` | three processes with one pid between them | violated |
| `Pure` | chains, tokens and licences as time passes; keys, claims, timestamps and set-ups | holds |
| `ChainOffline` | the offline window the documentation promises | violated |

The four violated runs are disagreements between the documentation and the
code; `PROJECT.json` ("findings") quotes both sides:

1. `deactivate` promises `NotActivated` until the next `activate`; a `renew`
   that was answered earlier saves its token after the clear.
2. `renewal_failed` is documented as "nothing has succeeded since"; a manual
   `renew` and a background renewal are not ordered against each other, so an
   old failure can be recorded after a newer success.
3. A save is documented never to leave a half-written file; the temporary name
   repeats across pid namespaces.
4. The licence is documented as usable until `issued_at + grace_period`; it
   stops earlier when the submaster or project cert ends.

One more disagreement has no run of its own: `Sdk::new` documents
`LatteError::InvalidAppId` for an AppID that does not parse (`http.rs:275-277`),
but an AppID with a segment of 32 bytes whose last four begin within a
character makes `validate_key` panic (`key.rs:41`). So does a key a host passes
to `validate_key` itself. `TyposCaught` says exactly when a single wrong
character does it, and `New` hands the panic on.

Smaller observations, none of which contradicts a promise of the repository:

- `renew` reads the clock before it has the mutex and stores that time after, so
  with `renew` among the calls `RetrySpacing` can fail by what the wait took.
  Nothing else can set `last_attempt` back or break the spacing (`OnlyRenewSetsBack`,
  `SpacedUnlessSetBack`).
- `check` reads the flag last, and the flag names no activation. A `check` that has
  loaded one token, overtaken by an `activate` of another and a failed renewal of
  that one, returns the first licence with `in_grace_period`, though no renewal
  of it failed. The field is advisory, and the next `check` is right.
- An integer claim so little below `i64::MIN` that a float cannot tell it apart
  reads as `i64::MIN`, and a fraction beyond 2^53 reads as the whole number a
  float makes of it. `Limits` states the first as its one exception.
- A host that calls `renew` more often than every `RENEW_RETRY` keeps its own
  process from renewing in the background: `renew` is then the only renewal it
  has. `KeepsFresh` is checked with a second process, whose host only checks.
- `timeout + ABANDON_AFTER` panics for a timeout near `Duration::MAX`.

### Bounds

- **Callers 2.** Every hazard listed is between two callers, or a caller and a
  renewal; with two renewals, four threads meet. Callers are symmetric in
  the safety runs; no liveness run uses symmetry.
- **MaxCalls 2 to 4, MaxAttempts 1 to 4, MaxCrashes 0 or 1.** Three calls hold
  the longest history of interest (a check starts a renewal, another call
  changes the cache, a third observes). `SdkSchedule` uses four of each, for a
  takeover, renewals on either side of it and a failed spawn. In `SdkTwoActivations` the
  clock ends before a third renewal could be due, so that no `check` stops at
  `MaxAttempts` alone. Crashes are left to `SdkCallsReturn`: one resets all the
  safety runs speak of but the file and the seats, and the theorems have any
  number of them.
- **Clock.** A unit is one `RENEW_RETRY`; the grace, ageing and retry limits
  are a few units, so tokens are young, due and retried within the run.
  `SdkSchedule` lets the clock run past the `2 * RENEW_RETRY` takeover limit, far
  enough for one takeover; the theorems have any number.
- **Expiries, MaxAge, ChainEnd** lie outside the runs of `Sdk`: deadlines are
  the subject of `Validate` and `Chain`, which pass every one of them.
- **HttpCall**: two requests, so that a late helper of the first meets the
  second; `Timeout` and `AbandonAfter` of one unit each and four units of time,
  so that both calls can run to their end.
- **SharedCache**: two processes and one activation; `MaxMishaps` 2 bounds
  crashes, panics, failed spawns and writes, and clock steps, not the calls or
  the time, which go on for ever. Only p1's host activates, renews and
  deactivates, p2 checks. Two mishaps allow a crash on each side, or a failed
  delete and a crash.
- **Storage**: three saves, one crash, two pids. Two saves make a collision, the
  third overlaps with its cleanup. A restarted process has its own pid again,
  the only one free.
- **Pure**: chain times 0 to 9, with `MaxGrace` 4 and certs ending at 4 or 7, so
  that each deadline is the first to pass in some chain. Keys of up to two
  bytes of the alphabet and checksums of two; in the place of each any other
  byte, or a character of two to four. Typed keys of up to two characters from
  eleven kinds, two of them of two bytes, so that `MaxKeyBytes` 3 is passed.
  Numbers on both sides of `MaxInt` 31 and of `MaxExact` 16, and texts. Nineteen
  years around the leap-year, century and 1970 boundaries. Timestamps at both
  ends of months, of a leap February and of a year, the year 0 included, and
  shifts to a day in each direction, so that each of these ends is crossed both
  ways. Machine IDs blank, trimmed, zero-padded and longer than `Block` 2; AppIDs
  with a part too few, a short key, a wrong checksum, and one that panics.

### Fairness

`Sdk!FairSpec` assumes weak fairness of each caller and each background renewal:
they are OS threads, and each request ends because `Http::post` gives up after
its timeout (`HttpCall` shows it), so `Answer` or `Abandon` is always possible.
Weak fairness is enough for the mutex here because calls and attempts are
bounded, so no thread can be overtaken for ever. Nothing is assumed about the
server, panics or the clock. `CheckNeverWaits` needs no fairness: in every state
a thread inside `check` has a step it can take by itself.

`HttpCall!FairSpec`: time passes, the caller runs when it can, and a helper
within the client's limits gets on. Nothing is assumed of
a hung helper.

`SharedCache!FairSpec`: time passes (`Age`, `Elapse`), threads run, and a host
that is in no other call goes on calling `check`. Two strong assumptions: a
server that is asked again and again to renew answers some time (it may fail any
finite number of times), and a renewal that gets its answer again and again is
not overtaken every time before it has the mutex. Both are per file, not per
process. Nothing is assumed of mishaps, late requests or manual calls.

### Faulty variants

A definition `Faulty...` is a plausible bug in the code the next definition
models. No specification uses one; put in the place of the original it must
break the property named here, which shows that the property can fail.

| Variant | Bug | Breaks |
|---|---|---|
| `FaultyHoldsActivation` | no test of the cache before a renewal writes | `WriteGuarded`, `NoResurrection`, `OnlyRenewRevives` |
| `FaultyUsable` | a received token is not validated for this machine | `FollowsServer` |
| `FaultyRetriedRecently` | only a running renewal holds the next one back | `RetrySpacing` |
| `FaultyCheckSkip` | `lock` in place of `try_lock` | `CheckNeverWaits` |
| `FaultyCheckFlag` | `in_grace_period` whatever the verdict, and an unresolved verdict returned | `TypeOK` |
| `FaultyNoted` | the flag set for an activation no longer cached | `FollowsServer` |
| `FaultySaveBegin` (Sdk) | a save that leaves the flag up | `FlagFollowsActivation` |
| `FaultyLatest` | an overtaken renewal still records its outcome | `CacheNeverRegresses`, `FlagNotOutdated` |
| `FaultyRunning` | a renewal taken to be stuck after one `RENEW_RETRY` | `SingleFlight` |
| `FaultyPanicKeepsMutex` | a panic leaves the mutex locked | `LockHeldByWriter`, `CallsReturn` |
| `FaultyPanicKeepsMark` | a panic skips `InFlight::drop` | `InFlightOwned`, `MarkCleared` |
| `FaultyHead` | a status read before the server decided | `TypeOK` |
| `FaultyGivesUp` | `recv` in place of `recv_timeout` | `ReturnsInTime`, `EveryCallReturns` |
| `FaultyDecode` (HttpCall) | a body cut short taken for being offline | `NetworkMeansNoAnswer` |
| `FaultyChannelOf` | one channel for all requests | `NetworkMeansNoAnswer` |
| `FaultyOutcome` (HttpCall) | a client error reported as the server's | `ServesRequests` |
| `FaultyDecision` | a refusal read as a failure | `TypeOK` |
| `FaultyThen` | a failed call clears the cache | `LostForCause` |
| `FaultyOutcome` (SharedCache) | a rejected renewal leaves the token in place | `Forgotten` |
| `FaultyMarked` | an attempt holds back every later one | `KeepsFresh` |
| `FaultySaveBegin` (Storage) | the counter advanced twice | `TypeOK` |
| `FaultyTmpName` | no counter in the temporary name | `OwnTemporary` |
| `FaultyWrite` | rename after a short write | `ReadersSeeVersions` |
| `FaultyDeadline` | the deadline one unit early | `Accepted` |
| `FaultyIsValid` | exclusive comparison at the boundary | `Fresh` |
| `FaultyValidateAt` | grace reported before hard expiry | `OnlyWorsens` |
| `FaultyInDailyWindow` | the daily cert's exp does not bound the token | `DailyBound` |
| `FaultyGraceOf` | `exp` taken for the duration `exp - iat` | `SameInstants` |
| `FaultyTimeClaims` | the daily cert's exp checked against now | `Verifying` |
| `FaultyWeight` | a checksum with one weight | `Typos` |
| `FaultyHits` | a legacy alias compared after folding O, I and L | `Spellings` |
| `FaultyDecodeEntitlements` | one bad value drops the claim | `BadValues` |
| `FaultyDecode` (Entitlements) | a text read as unlimited | `BadValues` |
| `FaultyNarrow` | a number above the range cut to the largest | `Limits` |
| `FaultyDays` | no 400-year rule | `Calendar` |
| `FaultyOffset` | the sign applied to the hours alone | `Zones` |
| `FaultyProtect` | the project key hashed in place of the whole AppID | `InstallsApart` |
| `FaultyNonEmpty` | a blank machine ID not trimmed away | `InstallsApart` |

## Proofs

`SdkProofs` assumes `ConstantsAssumption` and `NamesAssumption` (types of the
constants; callers, renewals and markers are different values) and proves, for
any number of threads, activations, calls, renewals and crashes:

- `TypeCorrect`. `TypeOK` is not inductive: that a call in `clear` has an
  argument, or that a thread beyond `attempt` is idle, is needed to type the next
  step. `Shape` states what follows from a thread's place; `TypeInv` is both.
- `LockDiscipline`, `MarkIsOwned`, `WritesAreGuarded`, `FlagHasToken`. These are
  proved together: the write guard rests on the mutex being held by that thread
  only, the mark on the latest renewal not having ended, and the flag on nobody
  removing the file with the flag up (`FlagDownUnderLock`: whoever holds the
  mutex across a write has lowered the flag). The conjunction is the inductive
  invariant. That the flag needs a token is proved but has no run of its own: `FollowsServer`
  and `FlagFollowsActivation` are about more. Most actions touch none of it; `QuietKeepsSafe` settles those, and
  the rest are taken one by one.
- `FlagFollows`, an action property from the same invariant: the file changes
  only under the mutex, and there the flag is down (`FlaggedFileIsKept`).
- `HandleFollows`: every step of `Sdk` is a step of `Handle`, or changes nothing
  `Handle` sees. What is checked at `Accept` or `BackgroundVerify` is written
  several steps later; `Verified` says that the token a thread carries towards
  the file in between is sealed for this machine, and `UsableIsSealed` that the
  two checks together leave no other seal. `Heard` says that a thread about to
  write was granted a token and one about to remove was told that the seat is
  gone. With `TypeInv` and the safety invariants above these are inductive.
  Each action is then one of a few kinds: an answer (`AnswerMaps`), a
  write, removal or flag store (`KeepStep`, `ForgetStep`, `DoubtStep`), a move
  that keeps or drops the news (`CarryMaps`, `DropStep`), or one no thread's news
  depends on (`QuietMaps`).

`ScheduleProofs` is about when renewals start and what they do to the cache. `SdkStaleRenew` and
`SdkStaleFailure` show that a manual `renew` breaks two of the promises. The
module therefore has two kinds of theorem. For every host, whatever it calls:

- `DroppedComesBackByRenew`: a released or rejected activation comes back into
  the file only by the write of a `renew` the host called, never by a background
  renewal or an `activate`, even on a disk that fails. `Quieted` says that
  nothing counts as dropped while an `activate` runs, `OwnTokens` that a renewal's
  token is of the activation the write guard compares. `RevivingStep` is the step.
- `OnlyRenewSetsBack`: `last_attempt` goes back only by the stamp of a `renew` that
  read its time before the attempt recorded there. `StampsInOrder` says that this
  does not happen, and is a hypothesis of the next three: it is false of some
  behaviours (the first of the smaller observations above), true of any in which
  no `renew` waits for the mutex behind a newer attempt, and
  `NoRenewKeepsOrder` proves it where `"renew" \notin Ops`.
- `SingleUnlessSetBack`, `SpacedUnlessSetBack`: then renewals are single and spaced.
  `SingleFlight` says nothing of a renewal that has ended, yet its successor may
  have overtaken one that has not. `Schedule` therefore orders the starts of all
  renewals, failed spawns included, and bounds them by `last_attempt` and
  `in_flight`. The step that matters is `CheckStart`, with a clock value read
  before the mutex was tried and perhaps older than the latest renewal.
- `SpacedFromRenew`: then a background renewal also keeps its distance from every
  `renew` under way. `Covered` says that the stamp of each is no later than
  `last_attempt`.

For hosts that leave renewing to `check` (`"renew" \notin Ops`):

- `RenewalsAreSingle` and `RenewalsAreSpaced` follow without `StampsInOrder`.
- `FailuresAreCurrent`: `last_attempt` is the start of the latest renewal (`Stamped`),
  and no other records a failure.
- `DroppedStaysOut`: on a disk that works nothing dropped comes back at all.
- `CacheOnlyAdvances`, where nothing but renewals writes tokens. `Newer`: what
  the latest renewal has is no older than the file.

All but `DroppedComesBackByRenew`, `DroppedStaysOut`, `FailuresAreCurrent` and
`CacheOnlyAdvances` assume `RenewRetry` above zero.

The lemmas `CallerFrame`, `RenewalFrame` and `StartFrame` say once what a step of
each kind leaves alone.

`HttpProofs` proves `Typed`, `Prompt` (no caller waits past its deadline), `NoFalseNetwork`
and `RequestsServed` (the refinement of `Request`) for any number of requests and
any limits with `AbandonAfter` above zero. The invariant says that calls are made
one at a time, that a channel holds only what its own helper sent to a caller
still there, that a status is read only after the server's decision, and that
the client's limit comes before the caller's.

`SharedProofs` proves `Typed` and `LossesHaveCause` for any number of
processes. `History` says that `lapsed` misses no request under way while the
seat is lost, `Told` that whoever is about to delete the file is in it.
`RefillsRunOut` and `StaysForgotten` are the safety half of `Forgotten`. `Owed` are the saves
of tokens already granted; while the seat is not held no new one comes to be owed,
and each token put back into an empty file uses one up. So after the loss the
file refills at most as often as there were saves under way, and an empty file
with none owed stays empty until the seat is held again. `GrantsNeedSeat` is
the step: only a server that holds the seat grants a token.

`StorageProofs` proves `Typed` for all pids, and, assuming `PidsUnique`,
`TemporariesAreOwn`, `WholeFilesOnly` and `ImplementsCacheFile`. Two saves under
way never share a number, nor a counter within a process (`Apart`, from `Drawn`),
so never a temporary name; `Past` says that no save begun later was ever visible.
`StorageSamePid` shows that the assumption is needed.

`ChainProofs` proves the properties of the pure operators for every licence, chain,
token and instant, from the types of the constants (`AcceptedExactlyInWindow`,
`FreshnessTestsAgree`, `VerdictNeverImproves`, `VerificationLasts`,
`VerificationEndsWithCerts`, `OnlyCertsCutTheWindow`), and from them each property of `Offline`:
`DailyKeysStayBounded`, `FormatsStayEqual`, `AcceptedOnTime`, `FreshnessAgreed`,
`VerifiedStaysVerified`, `VerdictOnlyWorsens`. That no daily key is useful past its
day and `MaxGrace`, and that the two token formats are accepted at the same
instants, are consequences of three checks in two files that no one line
states. `VerificationEndsWithCerts` is why `Sdk` needs only one `ChainEnd`: to a token
that verified once the two certs above it are one instant.

`PureProofs` and `KeyProofs` do the same for the other pure parts: first the
operators, for every input, then the property of `Pure`, whose inputs never
change (`Given`). `PureIsOffline` maps `Pure` to `Offline`, so that `ChainProofs`
holds of it.

- `EveryMonth`, `CalendarHolds`, `OneInstantInAllZones`, `ZonesHold`: the formula for
  days follows the calendar in every month of every year from 0 on, and a
  timestamp written in any zone up to a day away is the same instant, on the date
  the calendar has there (`Neighbour`), which may be in another month or year.
  `DayAway` is the step: the formula counts that date as the day before or after.
- `BadValuesStayAlone`, `LimitsAreAsSigned`: a bad entitlement reads as if it had
  not been signed, never as a grant, and costs no other anything; a limit is read
  as signed or not at all, but for the exception above.
- `MachinesDiffer`, `InstallsStayApart`: two AppIDs that share a cache file have
  different machine IDs, and so have two machines with different raw IDs. HMAC
  pads its key with zero bytes, so raw IDs that differ only in zero bytes at the
  end are excepted.
- `EveryTypo`, `TyposAreCaught`: in a key of any length every swap of neighbours and
  every wrong byte is caught, but for those `TyposCaught` names. A longer character
  in the checksum's part is always caught: the split falls within it and panics
  (and nowhere else does it), or its first byte is one no checksum has
  (`LongerTyped`, from where each byte of the key then stands, `Spliced`). One
  before it shifts the weights of all that follows and may be missed; nothing is
  claimed of it but that it does not panic.
- `EverySpelling`, `SpellingsAreFound`: a key of any length typed in other case, with
  other hyphens and spaces, finds its licence, and under an alias no other key
  does.

`Keys` recurses over a key by recursive functions. The library's induction
theorems take an operator and cannot be used; `KeyProofs` replaces them by
`LeastNat`: a set of places where a claim fails would have a least one, and the
place before it gives a contradiction (`PlaceByPlace`).

What these assume of the constants, beyond their types: keys of bytes of the alphabet and
a checksum of at least two (`KeyAssumption`); `2 * (MaxInt + 1) = u * MaxExact` with a float's
step `u`, as for 2^63 and 2^53 (`EntitlementAssumption`); that the marker for an
absent machine ID is no machine ID (`HostAssumption`); that `Malformed` is no
timestamp, and shifts of a day at most (`StampAssumption`).

Only model-checked:

- `CheckNeverWaits`, which is about `ENABLED`;
- liveness: `CallsReturn`, `MarkCleared`, `EveryCallReturns`, `Forgotten` and
  `KeepsFresh`.

Both are out of the prover's reach. Two of them have a safety half that is proved:
`LockDiscipline` for `CallsReturn` (whoever holds the mutex is at a place where it
releases it next), `RefillsRunOut` for `Forgotten`. The violated properties are counterexamples
of TLC. Every other property of a passing run has a theorem.

## Not modelled

The wording of errors and `Display`, JSON shapes, proxies and TLS, licence
metadata, and the copying of fields into `PublicLicense`: data without
behaviour. SHA-256 and signatures are external: injective, or known by who made
them. Fractions of a second in timestamps, legacy aliases in `Sdk` (`Keys` has
them), a handle without a cache path and builds without the `cache` feature are
left out. The 64-bit range of times is not modelled; a token whose `exp - iat`
leaves it would have to be signed by the seller. `claim_as_i64` (`jwt.rs:162-164`)
cuts a fraction off a time claim; claims are whole numbers here. A crash is the end
of a process: `save` does not sync, so what is left after a power failure is
up to the file system, and the "(or a crash)" of `storage.rs:78-80` is taken
as the process's.

## Plan

Done: the runs and theorems above. What further work would add, in order of use:

1. Several activations in `SharedCache`, so that the guard on activation ids is
   seen across processes; with one, `StaysForgotten` is about that one alone.
2. A contract like `Handle` for `SharedCache`, where no mutex orders the writers.
3. `Http` in `Sdk` as an instance of `Request`, in place of the request step's
   own outcomes.
