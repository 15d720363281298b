# Pi Fan Dashboard: TLA+ specifications

Specifications of the Pi Fan Dashboard (`src/`): a PWM fan controller, a web
dashboard in front of several Raspberry Pis, its browser page and its installer.
Each part is a TLA+ module, model-checked with TLC on a small instance; the
safety properties of every part are also proved, with TLAPS, for every value of the
constants. Paths below are relative to `src/`.

## 1. The system

| Part | State | Operations | Talks to |
|---|---|---|---|
| Fan curve (`app/config.py`, `requested_duty` in `app/fan_control.py`) | none | validate a curve; duty for a temperature | used by the controller and the dashboard |
| Fan controller (`app/fan_control.py`, `systemd/pifandashboard-fan.service`) | curve in use, previous duty, PWM, pin, `status.json` | start-up fail-safe, one round every few seconds, fail-safe branch, the `finally` block; SIGTERM | reads `fan.json`, writes `status.json`, drives GPIO |
| Sessions (`app/auth.py`) | the auth file; `_sessions`, `_auth_mtime` | login, valid, logout; `auth.py reset` | called by every endpoint of the dashboard, four threads at a time |
| Managed Pi list (`app/state.py`, endpoints of `app/dashboard.py`) | `pi_list.json` | get, add, edit, delete; `update_self` of the installer | `data_lock` between threads, nothing between processes |
| Fleet status (`app/dashboard.py`) | `fleet_cache`, `fleet_refresh_lock` | `GET /fleet-status` | the list, and `/status` of every peer through eight workers |
| Peer fetch (`fetch_pi_status` in `app/dashboard.py`) | a socket, the bytes that came, a deadline | connect, send, read until header and body are there, check | `/status` of a peer, or whatever listens at its address |
| Status and metrics (`app/dashboard.py`) | samples of CPU use | `GET /status` | reads `status.json` of the controller and the wall clock |
| Rate limiter (`app/dashboard.py`) | a deque of times per address and kind of endpoint | allow | before every request |
| Browser page (`webinterface/.../script.js`) | token, list, cards and histories, one timer, one flag, dialogs | sign-in, start-up, poll, Pi manager, fan settings, logout | one `fetch` per operation, answers in any order |
| Installer (`install.sh`) | releases, units, settings, data, services | deploy, health-check, rollback | stops and starts both services, edits the files they use |

What is hard in it: the controller must fail towards full speed from any point
of a round; sessions and the rate limiter read the clock *before* their lock; a
peer may send its answer in any pieces, slowly, or be something else; the list
has a writer that does not know the lock; a cached status can be overwritten by
an older one; the installer may fail or be killed between any two commands; the
page's handlers resume in whatever order answers arrive. `PROJECT.json` lists
these hazards with their lines and the properties that watch them.

What makes each part correct is stated at the end of its module, under
"Properties", and summarised in section 3.

## 2. Modules

Every module is a state machine of one component: actions are named after the
functions or steps they stand for, and a comment says where they differ.
Definitions headed "Slip:" are not part of any specification: each is a
definition with a plausible mistake in it, kept beside the right one to show
that the properties notice.

**`FanCurve`**: `normalize_fan_config` as `ValidConfig`, `requested_duty` as
`RequestedDuty` (with Python's round-half-even), over whole degrees. Pure.

**`FanController`** (with `MCFanController`, `FanControllerProofs`): `main()`,
one action per stretch between two points where something outside can happen: a
GPIO call that may raise, a wait that SIGTERM may cut short, a read of the file,
the write of the status. `pc` is the place in `main`; `curve`, `prev`, `duty`,
`reading`, `err` are its locals (`last_valid_config`, `previous_duty`, `duty`,
`temperature`, `error_message`), reset when the process is gone. `pwm` and `pin`
are the hardware: a PWM that dies leaves the pin at either level (`Leftover`).
`stoppedAt` is history: the reading at which the present curve stopped the fan.
Around the process are the sensor (`Heat`, and the failing branch of `Sample`),
`Kill`, `systemctl`, `PutFanConfig` of the dashboard and `EditFile`.

**`Sessions`** (`MCSessions`, `SessionsProofs`): `SessionStore` for a set of
threads. What a thread read before it took the lock (record version, clock) is
in its locals; each `with self._lock` section is one action. `ResetReplace` and
`ResetChown` are `create_auth_file(force=True)` by the administrator, with the
window in which the service cannot read the file. `issued`, `known`,
`loggedOut`, `begun` are history.

**`PiEntries`**, **`PiRegistry`**, **`PiList`** (`MCPiList`, `PiListProofs`):
`PiEntries` says what a valid list is and what a request does to one.
`PiRegistry` is what clients are promised: a request takes effect at one moment
or not at all, and a missing or damaged list stays as it is. `PiList` is the code:
threads that read, decide and write under `data_lock`, `atomic_write_json` with
its two failures (before and after `os.replace`), crashes, `update_self` without
the lock, hand edits. `PiList` implements `PiRegistry` under the mapping `Phase`
(the request takes effect at `os.replace`).

**`FleetCache`** (`MCFleetCache`, `FleetCacheProofs`): `fleet_status` for a set
of threads with explicit time. `asked` is `now` of the code, captured before the
lock; results carry the moment the peers were asked.

**`PeerStatus`** (`MCPeerStatus`, `PeerStatusProofs`): one call of
`fetch_pi_status` and the `/status` it asks. `pc` is the place in the function;
`remaining`, `until` and `got` are the rest of the deadline as it was last read,
the timeout of the blocking call, and `len(response)`. An answer is its sizes (header,
declared length, bytes sent) and whether it is in order, so every cut TCP can make is
a choice of `n` in `Receive`; `Turn` is one turn of the loop with its checks in their
order. `Publish`, `Remove` and `SetClock` are the controller, its service and the
wall clock of the Pi. `Foreign` are answers of programs that are no dashboard.

**`RateLimiter`** (`MCRateLimiter`, `RateLimiterProofs`): `RateLimiter.allow` for a
set of threads with explicit time. `calls[t].now` is the clock read before the
lock; `Allow` and `Refuse` are the section under the lock, popping and purging
included. `passed` and `purges` are history.

**`Installer`** (`InstallerProofs`): one run of `install.sh` from its first backup
to its end, one action per command or group of commands between which a failure
makes no difference, `Fail` (ERR, INT, TERM) at every command, `rollback` step by
step, `Kill` anywhere, a `systemctl stop` that leaves services running, requests
that edit the data while the web service runs. The three copies of the data are three
steps (`Copy`); `STATE_BACKED_UP` is set after the last (`BackUp`).

**`Frontend`** (`FrontendProofs`): the page is one record `ui`. A handler runs to its next `await` in
one action, so handlers are operators from page to page; `ui.calls` holds the
requests that are out, with the token they were sent with and the continuation
that awaits them. `Deliver`, `Lose` and `Abort` resume it.

**`PageForms`**: the rules of the page's forms beside those of the server: what the
inputs of the fan settings let through (`InputsAllow`), what `validateFanConfig` accepts
(`FormAccepts`), what `normalize_fan_config` accepts (`ServerAccepts`), over numbers that
may be fractions (multiples of `1/u` for any `u`); and the rules for an entry of the
list. How they compare are theorems of `FrontendProofs`.

Composition: the modules share no variables. What one needs of another is stated
in it as an environment action: the controller sees `PutFanConfig`, the fleet
cache sees `Edit` of the list, the installer sees `Edit` of the running
dashboard, the page sees every answer a server could give (and thus more than
`Sessions` and `PiList` allow). `EndsInTime` of `PeerStatus` is what the bound
`FetchMax` of `FleetCache` stands on: a fetch is over `2 * Pause` after its deadline,
and sixteen peers share eight workers, so two fetches follow one another at most.

## 3. Runs

| Run | Shows | Instance |
|---|---|---|
| `FanSafety` | `CurveSound`, `NoCurveIsFullSpeed`, `NoChatter`, `NoColdStart`, `StatusHonest` | one valid, one invalid file and one of another GPIO; temperatures below the stop threshold, at it, at start, at full; one kill, one GPIO error |
| `FanLiveness` | `HotIsCooled`, `ConfigAdopted`, `StopLeavesFull` | two temperatures; one kill, one GPIO error |
| `FanInvalidDoc` | **violated**, see section 5 | no kills or errors needed |
| `Sessions` | `AcceptedIsCurrent`, `Bounded`, `EndsForAReason` | two threads, three tokens for two places, one reset, a lifetime of two ticks, two ticks |
| `PiListWeb` | `ImplementsRegistry`, `LockReleased` | endpoints only: two clients, two places for four entries, among them two spellings of a name and a shared address |
| `PiListShared` | `FileValid`, `BadIsKept` | the same with installer and hand edits |
| `Fleet` | `OwnFleet`, `FreshIsRecent`, `AllAnswered` | two threads, two fleets, cache, refresh and pause of one tick, six moments |
| `Installer` | `CodeSurvives`, `FailureRestores`, `DoneIsWhole` | complete: every initial condition of code, data, services and leftovers |
| `InstallerDoc` | **violated**, see section 5 | usual initial conditions |
| `Front` | `CardsAreList`, `OnePoll`, `OneTimer`, `ConfirmNamesTarget`, `PollReleased`, `StartUpEnds` | two Pis, two requests out, two tokens |
| `RateLimiter` | `WindowKept`, `RefusedForAReason` | two threads, three keys of which two may be kept, two limits and two windows, six moments |
| `PeerStatus` | `EndsInTime`, `JudgedRight`, `AgeBounded` | limits of a few bytes, chunks of two, five other programs (a header without end, one at its limit, a body too long, too large, without length), clock set by up to two, eleven moments |

Each passing run also checks its module's `TypeOK` where there are safety properties.
A few invariants are proved but are no property of a run, as others show what a
run could find wrong: `DutyTracked`, `OneRecord`, `LogoutIsFinal`,
`NoLostUpdate`, `OneRefresh`, and the safe half of two liveness properties:
`EndLeavesFull` of `StopLeavesFull` and `StartUpOut` of `StartUpEnds`.

Why the bounds are enough. *FanController*: the locals that survive a round are
the curve and the duty, so one error or kill followed by any number of rounds
shows what it leaves behind; the number of rounds is not bounded. Temperatures
only matter against three thresholds. *Sessions*: the races are between two
threads about one reset; three tokens overfill a store of two, and with a lifetime of
two ticks sessions of two ages are in it, or an expired one beside a live one. *PiList*: a
conflict is between two entries, a race between two writers, and the limit is
reached. *FleetCache*: a slow and a fast thread, with time for an old
result to be stored over a newer one and to be served until it expires. The
clock stops at the last moment, which takes no step away from a thread.
*Frontend*: with two slots a start-up has both its requests out, and each race is
between it, or a poll, and one more request once the first answer is in; a third slot is
beyond what TLC does in minutes. So a sign-in, which takes both slots, never meets a
request of an earlier session in the run; the proofs have no such bound. The guards `Room` and `NewTokens` are these
bounds and have no counterpart in the code. *RateLimiter*: two threads suffice to
append out of order; one key too many starts a purge, and the time is longer than
the longest window. *PeerStatus*: a header at its limit, one under it and one without
end, each in pieces that end before, in and after the terminator. `AgeBounded` allows the
staleness limit, the deadline, two pauses and the ticks the clock was set back, eight at
most; the time goes on to ten, so a status can be older than that, whether the clock was
set back, forward or not at all.

Deadlock is checked except for the installer and the peer fetch, whose runs end.

## 4. Fairness

- `FanController`: weak fairness of the process and of `ServiceStart`: the loop
  has no blocking call and systemd restarts the unit (`Restart=always`). Nothing
  is assumed of the sensor, of kills or of errors. `HotIsCooled` and
  `ConfigAdopted` hold for behaviours in which the condition lasts.
- `PiList`: a thread inside the `with` block goes on.
- `FleetCache`: a thread inside a request goes on; a refresh comes back because
  each peer has an absolute deadline (`fetch_pi_status`).
- `Frontend`: every request of `/fleet-status` is aborted in the end
  (`STATUS_TIMEOUT_MS`) and nothing more is assumed of it; any other request that
  stays out for good is answered or given up by the browser. The latter is an
  assumption about browsers: the code sets no timeout on those.
- No fairness for users, administrators, resets, edits, crashes.

## 5. Where code and documents disagree

- `FanInvalidDoc`: `README.md:54` says invalid configuration requests full
  speed. A file that becomes invalid while the controller runs leaves the last
  valid curve in use (`app/fan_control.py:130`); only a start without a valid
  file is at full speed (`NoCurveIsFullSpeed`, proved).
- `InstallerDoc`: `README.md:37` says a failed deployment restores the previous
  code and the prior enabled and running states. Neither holds everywhere. Only the
  web service's states are recorded (`install.sh:314-315`) and applied to both
  units: the counterexample starts with a fan service in another state than the web
  service (`FailureRestoresServices`). And `SWAPPED` is set after both moves
  (`install.sh:525-528`): a failure between them leaves no program, or the new one
  (`FailureRestoresCode`, violated as well when it is checked alone).
  `FailureRestores` is the sentence with that window and the fan service's own
  state left out, and is proved.

Further observations contradict no document. `update_self` can lose an edit made
through the restarted web service. A request that finds a refresh in progress is
served the cached status at any age. In `fetch_pi_status` a header whose length is
at most two bytes below the limit of 8192 is taken or refused by where TCP cuts it,
since what came is measured before the terminator is complete (`OwnHead` is assumed
smaller; an answer of `/status` is), and the last check of the total size comes only
after one that a found header always meets first. A purge of the rate limiter may
forget a login's window of 300 seconds after the 60 of the caller: `WindowKept`
says how far. A rollback with copies missing (a failure between them) leaves the data
alone, so an edit that came after its file was copied is kept (`EditedLater`).

## 6. Proofs

All theorems are about the specifications the runs check, under the named
assumptions of the modules (capacities are positive, sentinels are not values,
entries are finite). No bound of TLC is used: the number of threads, tokens,
entries, temperatures, kills and moments is arbitrary.

- `FanControllerProofs`. `DutyRange` (a duty is 0 or between `min_duty` and 100,
  and 0 exactly below the threshold) rests on `RoundBounds`, the bounds of
  round-half-even. The invariants are not inductive alone: between command and
  publication the PWM, `duty` and `prev` differ on purpose. `RoundConsistent`
  says what holds at each place of a round; `IInv` is inductive with it. From
  `IInv` follow `TypeOK`, `CurveSound`, `DutyTracked`, `NoCurveIsFullSpeed`,
  `NoChatter`, and as action properties `NoColdStart` and `StatusHonest`.
  `EndLeavesFull`: `main()` ends with the pin high unless it was killed or a GPIO
  call failed; `EndsExplained` counts a failure wherever the pin was given up.
- `SessionsProofs`. `SeenInOrder` is the strengthening: the version a thread
  holds on its way to the lock is at least that of its request. With `OneRecord`
  it gives `AcceptedIsCurrent`: a thread that sets `_auth_mtime` back may end
  newer sessions, but revives none. `LogoutIsFinal` comes from the freshness of
  tokens, `Bounded` by counting the eviction, and `EndsForAReason` by what each section
  under the lock removes (`InsertDrops`): an eviction only of the first to expire, from
  a store still full without the expired ones.
- `PiListProofs`. `EffectValid`: an accepted request keeps a list valid.
  `HandsValid` (what a writer holds can be written back) makes `FileValid`
  inductive with *all* writers. Without installer and hand edits `FileIsSeen`
  holds too: what a thread read is still in the file. From it come `NoLostUpdate`
  and `Implementation`, the refinement of `PiRegistry`, step by step. `BadIsKept`
  is proved action by action: a thread that reads a damaged list never gets to write.
- `FleetCacheProofs`. `CacheSound` and `InTime` bound the age of what is cached
  and held; `FreshIsRecent` follows for every lifetime, refresh time and pause.

- `InstallerProofs`. `CodeKnown` says where the release is at each command, and for a
  failed run by the command that failed; `BackupKnown` what the backup holds after each
  copy, and that until all are made files are as found, or edited since their copy; `FoundKnown` what was noted of the services;
  `FilesKnown` which files are usable. They are inductive together and give
  `CodeSurvives`, `FailureRestores` and `DoneIsWhole`, with any edits meanwhile.
- `RateLimiterProofs`. A deque is an end of what was let through (`EndOf`), stamps are
  out of order by a pause at most (`InOrder`), and what is gone was older than
  the caller's cutoff, or was purged (`Gone`). From these, `WindowKept` by counting,
  and `RefusedForAReason`, for any limits, windows, pauses and threads.
- `PeerStatusProofs`. `InTime` bounds the thread's distance from its first look at the
  clock at every place, `BytesKnown` says what it knows of the bytes it has,
  `OwnIsOwn` what an answer of `/status` is. `EndsInTime`, `JudgedRight` and
  `AgeBounded` follow for any sizes, limits, deadlines and set of other programs.
- `FrontendProofs`. Handlers are operators on the record of the page, so the proof goes
  along them: one lemma per assignment says what it changes and keeps, one per operator
  that it keeps the invariant, up to `ResumeGood` (any handler, any answer) and
  `UserGood`. `IInv` is `TypeOK` with `CardsAreList`, `OnePoll`, `OneTimer`,
  `ConfirmNamesTarget` and `StartUpOut`, and is inductive between two steps but not
  inside one: an answered poll has left its slot before its flag is cleared (`Half`
  leaves `OnePoll` out until then), and an answered request has left its slot before
  what awaits it goes on (`Owed(u, then)` is `StartUpOut` but for `then`). `TypeOK` says
  which requests a start-up awaits: lists, configurations and polls only; without it a
  login could be lost with another request's answer. All five properties follow for
  any number of Pis, requests and tokens. `StartUpOut` is why `StartUpEnds` needs no
  more than that requests end.
- About `PageForms`, without state, for every `u`. `FormIsConfig`: check and server accept
  the same curves but for a fractional `min_duty`, which only the server refuses
  (`exact_integer`). `FormSendsConfig`: the inputs keep such a number back, so for what
  they let through the two agree. `HalfDegreeNotSent`: the inputs are narrower than both:
  a hand-edited `start_temp` of 40.5 is loaded and shown, and the browser does not submit
  it again (`step="1"`). `WholeDegrees` ties `ServerAccepts` to the `ValidConfig` of the
  controller. `ListLoads` and `FailSafeIsShown` are about entries and the fail-safe curve.

Only model-checked: the liveness properties `HotIsCooled`, `ConfigAdopted`,
`StopLeavesFull`, `LockReleased`, `AllAnswered`, `PollReleased` and `StartUpEnds`, as
fairness and ENABLED are out of the prover's reach. Every invariant and action
property the passing runs check, and the refinement of `PiRegistry`, is proved. Nothing is
proved by induction over data.

## 7. Not modelled

- Inputs as bytes: parsing of JSON, HTTP, forms. A file is valid, invalid or
  missing; a request is well formed.
- The fields `clean_remote_status` checks are one outcome (`valid`); a request is so
  short that `sendall` is taken not to block.
- Metrics (`SystemMetrics`): samples for display, no property depends on them.
- The key derivation, token generation (fresh tokens assumed), response headers,
  client address checks, static files.
- Installer: arguments, packages, accounts, port choice, staging; a failing
  command inside rollback, which the script ignores. Uninstaller and wrapper
  scripts: straight lines of removals.
- Page: drawing, charts, layout; texts of messages; unsaved changes in the
  fan-settings dialog. Names of Pis have one pattern on both sides and are left out of
  `PageForms`.
- Two runs of the installer in a row are not composed: `Init` of `Installer` admits what
  a killed run leaves (no program, and a release in `PREVIOUS_DIR`). That release is
  removed by the next run before it has moved its own in (`install.sh:524`).
- systemd sandboxing, CSS, HTML but for the inputs of the fan settings, tests.

## 8. Further work

1. `Frontend`: that a signed-in page has a token, which needs what is out together
   with the request of `verifySession`.
2. A composition of page, sessions and list: a signed-in page shows, in the end,
   the list the server has.
3. The uninstaller beside a run of the installer, and two runs in a row.
