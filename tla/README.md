# clientctl in TLA+

clientctl is a small Flask server that runs on a KDE desktop and serves a touch
panel: a phone or tablet signs in with a code or a passkey and then watches and
controls the machine (lock screen, power, sound, apps, system figures).  This
directory holds TLA+ models of the parts of it that have state and
concurrency, the TLC runs that check them on small instances, and proofs,
checked by TLAPS, that hold for every value of the constants.

Paths are relative to the repository.  A definition carries the name of the
function or variable it models where TLA+ allows it; `PROJECT.json` gives the
lines behind every definition.

## 1. The system

### 1.1 Parts, state and operations

The server is threaded: every request has a thread, and daemon threads produce
live data.  "Lock" below is a `threading.Lock` unless the screen is meant.

| Part | State | Operations | What makes it hard | What makes it correct |
|---|---|---|---|---|
| Rate limiter, `utils/ratelimit.py` | per address, a list of time stamps | `check`, `reset`, `_gc` | the clock is read before the lock; collection removes other callers' lists | never more than `max_attempts` in a window; nothing that counts is forgotten; a refusal is not extended by refused attempts |
| Passkey storage and ceremonies, `routes/auth.py` | `state/passkeys.json` | register, sign in, delete | load, edit and save with no lock; a save truncates, then writes; the process may be killed | the quota; use counts; a deleted passkey stays deleted |
| Challenge store, `routes/auth.py` | `_CHALLENGES` | `_challenge_store`, `_challenge_take` | clock reads on both sides of the lock, judgement after the release | one use, in time, for the right ceremony; live ones are not pruned |
| Sessions, `routes/auth.py`, `utils/auth.py`, `server.py` | a signed cookie per browser, one lifetime for the whole application | sign in, sign out, any request | overlapping requests whose responses each set the cookie; restart | an active browser stays in; a sign-out that nothing overtakes is final |
| Live state stream, `core/realtime.py`, `routes/system.py` | subscribers, a bounded queue each, the last event per name | `broadcast`, `add_subscriber`, the SSE generator | producers read outside the lock; full queues; clients that stall or vanish | no stale value after a newer one; subscribers go away; readers catch up |
| App control, `routes/apps.py`, `core/procs.py` | a cached scan of /proc | status, toggle, close, pause, kill | up to four reads of a cache per request while processes move, die late and stay as zombies | a kill is seen; what has settled is seen; a resume resumes all |
| KWin window states, `core/kwin.py`, `routes/apps.py` | a cached answer of a script | query, toggle, close, launch of a web app | the query runs with no lock, an old answer may be stored late; scripts and the journal fail | an answer is no older than the cache's life and one query |
| Lock state, `routes/auth.py` | a cached flag and its time | `screen_locked`, lock, unlock | value and time are written apart, with no lock, after a slow call | an answer is no older than the cache's life and one call |
| Login code, `config.py`, `server.py` | code and expiry | regenerate on a signal, compare | two assignments, a signal that interrupts its own handler | no code outlives its own expiry; the code in force was printed |
| Switches (do not disturb, power profile), `core/system.py` | a key of plasmanotifyrc, an inhibition cookie, the daemon's profile | read, then set | two requests toggle at once; each command may fail | an undisturbed request leaves key, cookie and answer in agreement |
| Panel, `static/app.js` | which card is shown, `lastStatus`, pollers, the EventSource | sign in and out, lock, `checkAuth`, `initApp`, timers and events | `await`s between a check and its use; answers in any order | no poller or stream escapes; the card agrees with `lastStatus`; the end of a session and a lock are shown |
| Notification history, `core/notifications.py` | a bounded history, the strings of the notification being read | restart loop around dbus-monitor, clear | the subprocess dies in the midst of a notification; strings that the pattern passes over; reads that fail | strings of two notifications never mix; what matches and is printed whole is heard |
| Intel GPU listener, `core/intel_gpu.py` | the last figure | restart loop around a subprocess | one writer, one assignment | not modelled |
| Themes, `core/themes.py` | list, default and CSS | `load`, `get_state`, `get_css` | reloads overlap while the file is edited, copied or removed | the three entries are those of one file, and one the panel can show |
| App and grid configuration, `config.py` | none after the import | `load_apps_config` | validation only | not modelled |
| Launcher, `start.sh` | process ids | start, trap, cleanup | signals at any command, processes that end by themselves, a cleanup that interrupts itself, a server that kills itself | a signal while it holds leaves nothing running |
| Service worker, `static/sw.js` | a cache by version | install, activate, fetch | the browser's own protocol | not modelled |
| Sound, displays, updates; capabilities and shell helpers; markup | none | wrappers of tools | I/O only | not a subject for a model |

### 1.2 Interactions

* A sign-in request passes the *rate limiter*, compares the *login code* or
  takes a *challenge* and verifies a *passkey*, and makes a *session*; success
  resets the limiter's list of its address.
* Every other request is admitted by its session, and its response renews the
  session's cookie.
* `/api/events` checks the session once, subscribes to the *stream* and then
  lives as long as the connection.
* *App control* reads the *process snapshot* and the *window states*; kill and
  launch drop the snapshot.
* A kill of the server (`/api/server/kill`, `routes/system.py:210`) ends all
  threads wherever they are; the *launcher* starts the next one.  The files
  and the browsers' cookies survive, everything else is new.

The parts meet through few calls, and each model states what it takes from its
neighbours: `RateLimiter` sees an address and whether the sign-in succeeded,
`Passkeys` holds challenges as free or taken, `Sessions` sees successful
sign-ins, `Realtime` sees connections whose session was checked, and `Panel`
sees whether its cookie is a session and whether the screen is locked.

The components of `Host` and `Daemons` share no variable with each other except
the clock, and no step of one reads what another writes.

## 2. Modules

| Module | Models | Abstract specification | Proofs |
|---|---|---|---|
| `RateLimiter` | `utils/ratelimit.py` and its use by `login` | `AttemptWindow` | `RateLimiterProofs` |
| `Passkeys`, `PasskeysAlone` | the passkey handlers and their file; the same with the history variable `alone` | `PasskeyStore` | `PasskeysProofs` |
| `Challenges` | `_challenge_store`, `_challenge_take` | `OneTimeTokens` | `ChallengesProofs` |
| `Sessions` | sign-in, sign-out, cookies, the lifetime | | `SessionsProofs` |
| `Realtime` | the hub, the producers, the SSE generator | `Feed` | `RealtimeProofs` |
| `AppControl` | the app handlers over `procs.snapshot()` | | `AppControlProofs` |
| `Panel` | the page `static/app.js` | | `PanelProofs` |
| `LockState` | `screen_locked`, `lock`, `unlock` of `routes/auth.py` | | `HostProofs` |
| `LoginCode` | `config.py`, the signal handler, the two steps of `login` | | `HostProofs` |
| `Switches` | do-not-disturb and power profile of `core/system.py` | | `HostProofs` |
| `Themes` | `core/themes.py` | | `HostProofs` |
| `WindowStates` | `core/kwin.py` and the handlers of web apps | | `HostProofs` |
| `HostClock`, `Host` | the clock and the threads; the five above side by side | | `HostProofs` |
| `Notifications` | the listener of `core/notifications.py` | | `HostProofs` |
| `Launcher` | `start.sh`, `server_kill`, the exits of the server | | `HostProofs` |
| `Daemons` | the two above side by side | | `HostProofs` |
| `MC...` | the same for TLC: symmetry, contents of files, further bounds | | |

A definition marked `mutant` is a plausible mistake in the definition that
follows it.  No specification uses one; it is kept beside the original to show
that the property named in `PROJECT.json` would notice the mistake.

### 2.1 RateLimiter

A call is three steps: `ReadClock` (line 34, before the lock), then `Admit` or
`Reject` (the critical section, with the purge, the append and the collection
in it), then `Leave` or, after a successful sign-in, `Reset`.  `Delay` bounds
the ticks between the clock and the lock; `Tick` respects it.  A list of
stamps is a set of pairs of position and stamp, because with a delay the
stamps of a list need not ascend while the code's `attempts[0]` and `v[-1]` go
by position.  History variables hold every admitted attempt since the last
reset and the end of the wait told by the last refusal.  `check` returns the
wait as a float and `login` tells the client its whole seconds; `Told` is that
`int()`, with a second of `Second` ticks.

`AttemptWindow` is what the code means: a log of admitted attempts, of which
the last `Window` ticks are counted.  With `Slack` (here `Delay`) the attempts
at the very edge may count or not.  Purging, collection and the dictionary are
invisible in it.

### 2.2 Passkeys and PasskeyStore

The handlers are cut where another thread can come between: taking the
challenge, loading the file (with the checks made on the loaded list), opening
the file for writing (`Truncate`), and `Write`.  Two writers that opened the
file overwrite each other from offset 0 (`Overwritten`): the longer text wins
or leaves a torn tail, which `load_passkeys` reads as an empty list.  `Crash`
stops all handlers in whatever step they are.  `status` and `signins` are what
clients have been told.  `Delete` takes any id a device has ever had, in the
list or not, as the handler does.

`PasskeyStore` adds, removes or counts a use of one passkey at a time, or is
wiped.  It is implemented while requests do not overlap; the file between
truncation and write maps to the list that is being written, and a crash there
to `Wipe`.  `PasskeysAlone` adds a history variable, `alone`, that is true as long
as no two handlers have been at work at once: the two properties that need it
are implications from `alone`, so that one run checks them beside those that
hold in any case.

### 2.3 Challenges and OneTimeTokens

`Draw` computes the deadline before the lock, `Store` prunes and inserts under
it, `Take` pops under the lock, and `Accept` or `Refuse` judge by another clock
read after the release.  Time passes anywhere in between, without bound.  In
`OneTimeTokens` redeeming is one step; the refinement maps a token that was
popped and not yet judged to one that is still open.

### 2.4 Sessions

A request is `Send` (the browser adds the cookie it has), `Handle` (the view
runs: `LifetimeAfter`, `AuthedAfter`), `Respond` (Flask makes the cookie from
the session and from the lifetime of *that* moment) and `Arrive` at the browser,
or `Lose`.  Requests of a browser overlap and their responses arrive in any
order.  What Flask does is external and modelled from its use: a cookie is
accepted while it is no older than the application's lifetime now, and a
permanent session is re-issued with every response.  A tick is a day, so no time
passes while a request is in flight.

### 2.5 Realtime and Feed

`Sample` reads a state without the lock, `Broadcast` publishes it under the lock
to every queue with room (`Offer`).  `Connect` subscribes and replays the last
events under the same lock; `Start`, `Get`, `Ping` and `Write` are the
generator; `Close` is its `finally`.  A HEAD request subscribes and its
generator is never started (`AnswerHead`).  A client may `Stall` or be `Cut`;
the write after a cut may still succeed once.  `behind` remembers, for each
name, the connections whose queue has not been empty since its last broadcast.
`Feed` says what a viewer may see: states that were published, never an older
one after a newer.

### 2.6 AppControl

Each handler is the sequence of its calls of `procs.snapshot()`: `Find`
(`_app_pids`), `Judge` (`is_paused`), `Direct` and `Tree`
(`_real_pids_with_descendants`), then one `Signal` per process, then `Answer`,
`Launch` or `Invalidate`.  A call returns the cache if it is `Fresh`, which an
empty one never is, or the scan it made itself.  `Scan` takes the lock and the
list of /proc, each `Read` gets to the entry of one process, at its moment, and
`Returns` stores the result, or nothing if the scan failed, and releases the lock.

In between the app moves: `Appear`, `Fork`, `Die`, `Reap`.  A process is a record
of how the code finds it (`kind`: by its name, or only as a descendant), of its
`life` and of its parent.  SIGKILL only dooms a process (`Struck`): it dies some
time later, is then a zombie, which /proc lists under its name and the scan does
not filter, and is gone when its parent has reaped it, which for a program that
the panel launched may be never.  When a parent dies its children lose it.

### 2.7 Panel

JavaScript runs one task at a time, so an action is a task up to its next
`await`: `checkAuth`, `LockPoll` and `LockEvent` send a request of
`/api/status`, the server judges it (`Answer`) or it is lost (`Fail`), and
`Arrive` is the rest of the task, in which `Use` tells what that sender does
with the answer.  `applyAuthState` chooses the card and starts or stops the
timers; `initApp` marks the page as initialized and waits, and `Started` is its
remainder.  `SignedIn`, `SignedOut`, `Lock` and `UseCode` are the buttons,
`StreamOpens`, `StreamRefused` and `StreamBreaks` the browser's EventSource,
`SessionEnds` and `ScreenMoves` what happens elsewhere.  `screen` is what
`screen_locked()` returns, whose age is the business of `LockState`; an event
may carry another value than that (`LockEvent`), and a browser may have no
EventSource at all (`Sources` empty, a case of the proofs).

Intervals and the variables that hold them are two pieces of state (`running`,
`held`), as are the EventSources and `sse.es` (`live`, `es`): `clearInterval`
and `close` reach only what a variable still names.  The timers of ping,
battery, sysinfo, app states and updates start and stop together and are one,
`data`; the lock poll is the other.

### 2.8 Host: LockState, LoginCode, Switches, Themes, WindowStates

Five small components below the request handlers, each a module of its own with
its `Init` and `Next`.  As none reads what another writes, a behaviour of all is
an interleaving of behaviours of each, and `Host` lets one of them move, which
the variable `part` names: one run checks all five and one set of constants and
threads serves them.

*LockState.*  `screen_locked` is `Enter` (the time is read), `Look` (the stamp
is compared), then `Hit` or `Ask` (busctl) and the two halves of `Write` (value,
then stamp).  Any number of threads are between these, and none holds a lock.  The
stamp is the time before the call, which takes up to `CallTime`.  loginctl's
orders are carried out later or never, and the user moves the screen too.

*LoginCode.*  `Regenerate` is two assignments, `Announce` the read of the global
that the handler returns and the print.  Handlers of SIGUSR1 are a stack, since
Python runs one between any two steps of another; `banner()` is its first frame
after a start, since the handler is registered before it.  `TryCode` judges the
expiry, `CompareCode` the code, any time later; a handler takes at most
`HandlerTime`, those inside it included.

*Switches.*  A request of `notif_toggle` is `ReadSwitch`, `WriteKey`,
`LookAtCookie`, `CallDaemon`, `ReplySwitch`; one of `power_cycle` is
`ReadProfile`, `SetProfile`, `ReplySwitch`.  Each command may fail, and the
failure does what the code's `except` does.  `clean` remembers whether a request
ran with no other one, no failure and no use of the desktop's own buttons.

*Themes.*  `CopyExample` (the look, the opened and so empty copy, and what is
written to it, as a step each), `ReadThemes` (the second look, and the reading
of a file that by then may be gone, unreadable or no mapping; outside the lock,
with the validation, the limit and the fallbacks as the operators `Kept`,
`Accepted`, `DefaultOf` and `ToCss`; `Kept` is the loop over the themes as a
recursive function), `Acquire`, and the three assignments of `Replace`.  The
user edits the file between any of them.

*WindowStates.*  `Query` looks at the cache under the lock, `Script` and `Journal`
run without it, `Journal` stores under it and stamps with the time of the store.
`FallBack` is what every failure returns: the cache, however old.  `UseAnswer`
is the handler's reaction, `Act` the toggle or close script, `LaunchWebApp` the
start of an app whose window opens later (`opening`).

### 2.9 Daemons: Notifications, Launcher

*Notifications.*  The loop asks of a line whether it contains `member=Notify`
and whether it matches `_STR_RE`; the pipe holds the lines that do the one or the
other.  `Printings` are the ways in which a notification may be printed: any
sequence of such lines that begins with a head.  Application, icon, summary and
body come first, but each of them is missing if it holds an unescaped quote or a
newline or ends in a backslash; further strings follow, some of which may match
by accident, and one that holds `member=Notify` is a head again.  `Plain` tells
the notifications in which all goes well.  dbus-monitor ends at any time, with
part of a notification printed; the listener reads what is left in the pipe
(`ReadLine`) and starts it again (`StartMonitor`).  If reading itself fails
(`ReadFails`: bytes that are no text), the pipe is lost with what was in it.

*Launcher.*  The commands of `start.sh` in their order, each with the moment in
which a process runs and its id is not yet in a variable; the trap of INT and
TERM between two commands, in the wait or in the cleanup, which it starts anew
(`Trap`); SIGHUP, for which there is the trap of EXIT only and which then ends
the shell (`HangUp`); `Cleanup` as SIGTERM, SIGKILL and wait; the children that
end by themselves; `server_kill`, which answers (`ServerKill`), signals the
parent half a second later (`ServerSignals`) and ends the server two seconds after
that (`ServerLeaves`).

## 3. What the runs check

| Run | Instance | Holds / finds |
|---|---|---|
| `RateLimiter` | 2 threads, 2 addresses, 2 attempts in 4 ticks, delay 1, a second of 2 ticks, collection above 1 bucket, clock to 6 | `SlidingWindow`, `LiveAttemptsKept`, `BanEndsAsTold`, refines `AttemptWindow` |
| `Passkeys` | 2 threads, 3 credentials, quota 2, 2 challenges, 2 crashes; once requests overlapped, 1 crash and 4 registrations and sign-ins in all | `QuotaRespected`, `NeverOvercounted`; while requests do not overlap, `DeletedStaysOut` and the refinement of `PasskeyStore` |
| `PasskeysResurrected` | 2 threads, 1 credential | **violates** `DeletedStaysOut` |
| `Challenges` | 2 threads, 3 tokens, life of 2, clock to 5, restarts | `TypeOK`, `SingleUse`, `LiveChallengeKept`, `ReturnedInTime`, refines `OneTimeTokens` |
| `Sessions` | 2 browsers, 2 requests in flight, lifetimes 1 and 2, clock to 4, restarts | `ActiveStaysIn`, `SignedOutStaysOut` |
| `SessionsShared` | 2 browsers | **violates** `LifetimePerSession` |
| `Realtime` | 2 connections, GET and HEAD, 1 producer, queue of 2, 2 versions | `TypeOK`, `NothingMissed`, refines `Feed`; under fairness `GoneIsRemoved`, `CatchesUp` |
| `AppControl` | 2 processes, 2 requests, cache life 1, scan of 1 tick, clock of 3 values; any number of requests one after the other | `KillIsSeen`, `SettledIsSeen`, `ResumeResumesAll` |
| `Panel` | 1 page, 1 check, 1 poll and 1 event's request under way, 2 `initApp`s waiting, 2 checks due | `TypeOK`, `OneOfEach`, `CardShowsLast`, `GateIsTrue`; under fairness `SignOutIsSeen`, `LockIsSeen`, `PollsAgain` |
| `PanelLogin` | the same | **violates** `NothingPollsOnLogin` |
| `Host` | 2 threads, clock from 1 to 4, cache lives of 1 and calls of up to 2 ticks, a code's life of 1, handlers of up to 1 tick, 2 of them nested on the banner, 4 codes, 6 contents of `themes.yml` with a limit of 2, 1 web app | `HostTypeOK`, `LockSettled`, `CodeInTime`, `AsPrinted`, `AnswersTrue`, `ThemesWhole`, `WindowsSettled` |
| `Daemons` | a history of 2, 3 notifications in 6 printings, 2 deaths of dbus-monitor or failed reads, 2 signals beside those of `server_kill` | `HistoryTrue`; under fairness `Heard`, `HoldStops` |

The type invariants of `RateLimiter`, `Passkeys`, `Sessions` and `AppControl`
are proved and in no run.

`CHECK_DEADLOCK FALSE` stands where a bound (the clock, the number of uses,
tokens or notifications) stops the model though the program would go on.

### 3.1 Bounds

* *Clocks* stop at `MaxClock`.  The windows are scaled down with it: the run of
  the limiter covers a whole window, the ban after it and the next attempt, told
  in seconds of two ticks so that a fraction is dropped; that of the challenges
  a whole life and twice the wait at the lock; that of the sessions more than
  the longest lifetime after a sign-in at time 1 or 2.
* *Threads.* Two requests at a time are enough for every race of a load with a
  save, a pop with a pop, or a scan with an invalidation.  The proofs
  need no bound.
* *Passkeys.* Three credentials against a quota of two is the smallest instance
  in which the quota can be missed; a crash and a torn file both happen.  The
  four registrations and sign-ins of overlapping requests include two sign-ins
  with one passkey at a time (`MCPasskeys`, `Few`).
* *Collection* above one bucket instead of 1024: with two addresses it runs.
* *Queues.* A queue of two overflows while its client stalls, with an old and a
  new event in it, and the other client goes on; either may vanish, and a HEAD
  request leaves a queue behind.  One producer: liveness over two connections and
  two producers is beyond the time of a run.  What several producers do to one
  queue is in the proofs, `ReaderHasRoom` for the room that `CatchesUp` needs.
* *Processes.* Two suffice for a main process with a child, a child that loses
  its parent, and two main processes.  Nothing bounds the requests and
  launches.  The run identifies states by a `VIEW` that forgets the data of a
  cache that is not fresh and a last change that is too old to matter: no
  guard and no property tells them apart.
* *The page.*  A check, a poll and an event's request at a time overtake one
  another in every order; two waiting `initApp`s arise from a sign-out and a
  sign-in during the first.  Two are due checks because the lock button makes
  two.  A second EventSource object exists because the old one is closed as the
  new one is made.
* *Ages in `Host`.*  A cache's life of 1 and a call of 2 ticks leave, with a
  clock of four values, one moment in which a screen or a window that was left alone
  must be shown as it is, and several in which a late answer overwrites a
  newer one.  The proofs are for any lives and durations.
* *Signals.*  Two handlers, one on top of the other at each of its steps, on
  `banner()` too, and a fourth code for a restart.  Two signals from outside,
  each of either kind, interrupt the launcher at any two of its commands, or its
  cleanup, and `server_kill` adds one.
* *Notifications.*  Three against a history of two drop the oldest; one is cut off
  at each of its lines.  The six printings (`MCDaemons`) are a plain one without
  and with an action, one without its summary, one without its application and
  too short, and two with a second head in them, before and after their body.
* *Symmetry* is used only in runs with no liveness property.

### 3.2 Disagreements found

Each is a run that asks for what a document or comment says, and a trace of the
code that does not do it.

1. **A deleted passkey can come back** (`PasskeysResurrected`).  A sign-in
   loads the list, a deletion is saved and confirmed, the sign-in saves its
   copy (`routes/auth.py:485-526`).  `static/app.js:1564` tells the user that
   the device can no longer sign in.  The same race can lose a registration or
   a use; the quota and the upper bound on uses survive it, which is proved.
2. **The lifetime is not per session** (`SessionsShared`).  `login` assigns an
   attribute of the application, so a sign-in with "remember me" lengthens the
   sessions of others and one without it ends them (`routes/auth.py:258-265`).
   That it never ends one that was used within the default lifetime is
   `ActiveStaysIn`.
3. **The login card polls** (`PanelLogin`).  `initApp` does not look again after
   its awaits; if the user signs out meanwhile, or an answer shows that the
   session is over, it starts all timers and the EventSource on the login card
   (`static/app.js:1302`), against the comment at lines 296-297.  They stop with
   the next answer that is applied there, and never escape the page
   (`OneOfEach`).
Other behaviours are as surprising.  Each can be followed in a model; no run
asks for their opposite, because no source promises it or because the run would
say no more than these sentences.

* **"Use code instead" changes nothing.**  The script assigns an expired cookie,
  but the session's cookie is `HttpOnly` (`server.py:60`), so the browser keeps
  it; `checkAuth` finds the panel signed in and the screen locked, and the lock
  card stays (`static/app.js:1468-1471`, `UseCode` in `Panel`).
* **The launcher holds on after the server is gone** if a tunnel runs: its last
  line waits for all children, while the comment above it says "until a process
  dies" (`start.sh:132-133`, `WaitReturns` in `Launcher`).
* **A signal during the start does not stop the script.**  `cleanup` does not
  exit (`start.sh:51-70`), so after it the script goes on with its next command,
  and the panel's banner is printed for a server that was stopped (`Trap`).
* **A client that returns exactly when it was told may be refused once more.**
  `int(retry_in)` drops the fraction of the wait, down to "0 s"
  (`routes/auth.py:233,237`, `Told` in `RateLimiter`); `BanEndsAsTold` shows that
  less than a second is missing and that refused attempts add nothing to it.
* **A killed app may still be listed**, and its button shown as running, until
  it is dead and its parent has reaped it: the scan does not look at the state Z,
  and nobody waits for what `_launch` started (`core/procs.py:33-65,112-117`,
  `routes/apps.py:67`).  `KillIsSeen` says what dropping the cache does achieve: no
  snapshot that is used after the answer shows a target as it was before the
  signal.
* **SIGHUP between the start of a child and the keeping of its id** makes the
  last cleanup wait for a child it has not signalled (`HangUp`, `EndsClean` in
  `HostProofs`).
* The response of a poll that was in flight during a sign-out restores the
  session (in `Sessions`, `overtaken` remembers such a sign-out).
* A HEAD request of `/api/events` subscribes a queue whose generator never starts,
  so nothing removes it (`AnswerHead` in `Realtime`).
* A second press of pause within the life of the process snapshot repeats the
  signal of the first, because signals do not drop the snapshot (`Judge` in
  `AppControl`).
* An older reload of the themes may overwrite a newer one, as the file is read
  before the lock is taken, and its answer is copied after the lock is released
  (`core/themes.py:98-147`, `ReadThemes` and `Replace` in `Themes`).
* The batch status says "One KWin query" (`routes/apps.py:165`) and asks again
  for each web app whenever the cache has run out in between (`UseAnswer` in
  `WindowStates`).
* A query that fails returns the cache, however old, and a toggle acts on it
  (`FallBack` in `WindowStates`).
* A string of a notification with an unescaped quote, a newline or a backslash at
  its end is passed over (`_STR_RE`, `core/notifications.py:19`).  The strings after
  it take its place: the body becomes the summary, an action or a hint the body.
  If too few follow, the notification is never entered; one of whose strings
  contains `member=Notify` may be entered twice, or not at all; and a read that
  fails loses what was in the pipe.  `HistoryTrue` shows that such strings never
  end up with another notification's, and `Heard` promises only what matches.

### 3.3 Fairness

`Realtime`, `Panel` and `Daemons` have liveness properties.  The fairness of
`Realtime` is

* weak fairness of `Sample` and `Broadcast` of each producer: an endless loop
  of a daemon thread that catches its exceptions;
* weak fairness of the request thread of a connection: it is woken by an event
  or by the time-out of 20 s; `Write` is disabled while the client is stalled,
  so nothing is assumed of a client that has stopped reading;
* `Paced`, from some time on: when a producer wakes up, the queue of a client
  that reads has been empty since its last broadcast.  A producer sleeps for 2, 3
  or 5 s, and a request thread with a client that reads writes a queue of at most
  32 events in far less.  It says nothing of a client that has stopped reading,
  whose queue may be full for ever, and nothing of room: that a client that
  reads finds room is what follows (`ReaderHasRoom` proves it, for a queue with a
  place for each producer).

Nothing is assumed of `Change`, `Connect`, `Stall` and `Cut`.

In `Panel`, timers go off, awaits end and the tasks of events run (weak fairness
of `Started`, `checkAuth`, `LockPoll`, `LockEvent` and `Arrive`), and a request
made again and again is answered at last (strong fairness of `Answer`: any one
request may be lost, not all of them).  An event of the stream that is delivered
again and again tells in the end what `screen_locked()` returns, since the
producer broadcasts that for ever; until then it may tell anything.  Nothing is
assumed of the user, the session, the screen or the stream's connection: the
properties say what they need of them, such as a screen that stays as it is and
a stream that stays connected or disconnected.

In `Daemons`, the listener reads on and starts dbus-monitor again (weak fairness
of `ReadLine` and `StartMonitor`: a loop that catches every exception), the
shell goes on to its next command (weak fairness of its commands, of the traps
and of `Cleanup`, whose wait is enabled once the children are gone), and the
thread of `server_kill` sends its signal and ends the server.  Nobody has to
send a signal or a notification, and no process has to end by itself.

## 4. What is proved

The proofs are for all values of the constants, from the `ASSUME`s of the
modules only (a positive limit, window and length of a second, finite `Keys` or
`Creds` where a cardinality is taken, names that are not members of the sets
they are kept out of, a clock that starts within its bound, senders of status
requests that are told apart, comment lines that are not events, profiles that
include "balanced", files of themes that include the example and an empty one,
and printings that begin with a head).  `HandlerTime` stands for the longest
duration of a signal handler and appears in what is proved of it; nothing is
assumed of the order of the two lifetimes of a session.  History variables take
no part in what the modelled code does.

**`RateLimiterProofs`.**  `InductiveInvariant`, from which `TypeCorrect`,
`WindowRespected` (`SlidingWindow`), `NothingForgotten` (`LiveAttemptsKept`),
`BanNotExtended` (`BanEndsAsTold`, with the second that `int()` may drop) and
`Refinement` (`ImplementsAttemptWindow`).  The invariant strengthens the
properties by: a waiting thread's stamp is at most `Delay` old; later entries of
a history are stamped at most `Delay` before earlier ones; a bucket holds a part
of its history, never more than `Max`; and every attempt that still counts is in
its bucket.  The last part makes the admission check meaningful: an attempt
within `Window - 2 * Delay` of a new one is in the bucket, so the bucket's
length bounds their number.  The collection is the case that needs care: it goes
by the last entry only, and it may delete the bucket of a key that has a waiting
thread.

**`PasskeysProofs`.**  `InductiveInvariant`, `TypeCorrect`, `QuotaSafe`
(`QuotaRespected`) and `UsesSafe` (`NeverOvercounted`).  The invariant talks of
all *lists*, the one in the file and those that handlers are about to save: each
respects the quota and counts no more uses than there were sign-ins.  That it
holds of copies is why lost updates and torn files do no harm here: a save only
replaces one sound list by another.

What overlapping requests break is proved of those that do not overlap, for a
specification with the history variable `alone`: `DeletedAreOut`
(`DeletedStaysOutAlone`) and `AloneIsAStore` (`AloneImplementsPasskeyStore`), the
refinement of `PasskeyStore`.  The invariant is `Serial`: while `alone`, at most
one handler is at work; what it is about to save is the list of the store after
its one change (`Holds`), because nobody wrote the file since it was loaded; and
a deleted passkey is in neither the file nor such a list (`DeletedGone`).  Of the
steps of a handler only the truncation is a step of the store; the rest, and a
write after it, are invisible there.

**`ChallengesProofs`.**  `InductiveInvariant`, `TypeCorrect`, `ChallengesSingleUse`,
`LiveKept`, `InTime` and `Refinement`.  The invariant: a token a thread is about
to store is unknown to all others, a token being judged was taken and is held
by one thread only, with the entry that was granted, and what is stored was
granted and never taken.

**`SessionsProofs`.**  `InductiveInvariant`, `TypeCorrect`, `ActiveKept`
(`ActiveStaysIn`) and `SignOutFinal` (`SignedOutStaysOut`).  The invariant: a
browser that signed in holds a cookie stamped no earlier than its last response,
every lifetime is at least the shorter of the two settings, so that age alone
cannot end it sooner; a response in flight was made at the present moment or
belongs to a request that does not touch the jar; and after a sign-out that
nothing overtook the jar is empty and only a sign-in in flight can fill it.

**`AppControlProofs`.**  `InductiveInvariant`, `TypeCorrect`, `KillsSeen`
(`KillIsSeen`), `SettledSeen` (`SettledIsSeen`) and `Resumed`
(`ResumeResumesAll`).  The parts of the invariant:
one scan at a time (`OneScan`), which is no older than `ScanTime` (`Ages`); a
scan, and a cache while it is fresh, shows the processes as they were when it
began, unless they have changed since (`Current`); the entry of a process, read at
whatever moment, is one from which the present one can have come (`Becomes`,
`Past`), and parents are born before their children in every listing, though its
entries were read one after the other (`Rooted`); a kill that is under way has hit
all it no longer has to signal (`Killing`); and what an answered kill hit is
seen as dying or dead in every scan and in a fresh cache, because
invalidation waits for the lock: a scan that began before it was stored before
it, and dropped with it (`Hit`).

`Resumed` is about a request that reads up to three different snapshots, and
needs a second invariant, `PauseInv`.  A process that a request has listed is in
every snapshot that is read from then on (`Seen`, `Remembers`), and what belongs to
the app in two listings of different ages is found from the main processes of the
one as a descendant in the other (`TiedBefore`).  What is stopped was signalled by
a pause, hence listed by it, so the later pause that resumes cannot miss it,
however stale its snapshots are, unless another request overlaps or a scan fails
(`Complete`, `Resumes`): the flag `calm` of a handler.

**`PanelProofs`.**  `InductiveInvariant`, `TypeCorrect`, `NothingEscapes`
(`OneOfEach`), `CardAgrees` (`CardShowsLast`) and `GateSound` (`GateIsTrue`).
Here the properties together are inductive: an interval that is started clears
the one its variable names, and as every running interval is named by its
variable there is never a second one.  `KeepsAsking` is the safety part of
`SignOutIsSeen`, `LockIsSeen` and `PollsAgain` (`NeverAdrift`): a page that shows
the lock or the app card has its timers running, or an `initApp` that will start
them, or a `checkAuth` due or under way that will show what it finds.

**`RealtimeProofs`.**  `InductiveInvariant`, `TypeCorrect`, `NoGap`
(`NothingMissed`), `Refinement` (`ImplementsFeed`) and `ReaderHasRoom`.  What a
connection has is its queue, the event in the writer's hand and the versions it
shows.  The invariant says of the three that they rise to the newest (`Rises`)
and, for each name that no full queue refused, that the last of them is the
newest (`Complete`); of the hub, that no version is ahead of the one its
producer read and that the dict lists exactly the names that were broadcast
(`HubInv`), which makes the replay complete; and of a connection, that nobody
but its writer has an event in hand and a closed one left nothing behind
(`Served`).  `Published`, `Offered`, `Taken` and `Written` say what a broadcast,
a get and a write do to these, for any queue.  `ReaderHasRoom` is the safety
part of `CatchesUp`: once the queue of a client that goes on reading was empty,
it holds at most one event of each name whose producer has not gone on since
(`Keeps`), so that with a place for each producer no broadcast finds it full;
the steps are those of `Paced`.

**`HostProofs`.**  One inductive invariant for each component and `HostInv` for
all, from which `TypeCorrect` (`HostTypeOK`), `LockIsRecent` (`LockSettled`),
`CodeExpires` (`CodeInTime`), `CodeIsPrinted` (`AsPrinted`), `SwitchesAgree`
(`AnswersTrue`), `ThemesOfOneFile` (`OneFile`) `ThemesAreWhole` (`ThemesWhole`)
and `WindowsAreRecent` (`WindowsSettled`).  `LockInv` says how old the value in
the cache can be *relative to its stamp*: a thread may stamp a value that
another one stored, but that one was asking at the same time, so the value is no
more than one call older than the stamp.  `WinInv` is the same with the stamp
taken at the store. `CodeInv` bounds the expiry by that of the newest code at
every step of every handler on the stack; the outermost may set it last, a
`HandlerTime` after the code in force was drawn by one inside of it.
`SwitchInv` follows an undisturbed request: what it read is still so, and after
each command the part it has set agrees with what it wants. `ThemeInv` is mutual
exclusion and that the holder has replaced a prefix of the entries;
`ThemesAreWhole` adds that whatever `Built` makes of a file is a list within the
limit with its own default and CSS.  `Kept` is a recursive function: that it
exists (`KeptExists`) and that its values are sequences of identifiers of the
file (`KeptTyped`) follow by `NatSetInduction`, induction for a *set* of
numbers, which needs no operator as a parameter.

For `Daemons` the module has an invariant of each component.  `NotifInv` says
of the pipe that it holds the lines of notifications in the order they were
printed (`PipeInv`); of the listener, that its strings are of one notification,
the first ones if that is plain, and the pipe goes on with the rest of it, if it
was not cut off (`ListenerInv`); and of the history, that what may still be
entered is newer than all that was, or the same (`EntriesInv`).  From it follow
`HistoryIsTrue` (`HistoryTrue`) and `NoneIsLost`, the safety part of `Heard`: a
notification whose strings all match and that was printed in full is entered, or
being read with its strings in place, or in the pipe in full (`Awaits`), or was
in the pipe when reading failed.  `LaunchInv` says which children can run at each
command and in each step of the cleanup; `LauncherEndsClean` is the safety part of
`HoldStops`: nothing is left of a launcher that has ended, and its last cleanup has
no child to wait for, unless SIGHUP came before the id of one was kept.

**Model-checked only.**  The liveness properties: `GoneIsRemoved`, `CatchesUp`,
`SignOutIsSeen`, `LockIsSeen`, `PollsAgain`, `Heard` and `HoldStops`; every other
property of a passing run is a theorem.  Liveness under fairness is out of the
prover's reach, as are `ENABLED`, induction with an operator as its parameter, and
modules with `RECURSIVE` operators, of which there are none here.

## 5. What is left out

* Inside the modelled parts: WebAuthn verification and the comparison of codes
  are choices of outcome; the setup password and the limiter only refuse
  requests before they touch the state of `Passkeys`; clock adjustments; the
  reuse of process ids; SIGHUP during the launcher's cleanup for EXIT, which
  ends the shell at once, SIGKILL of the shell, and a server that was not
  started by it, whose `server_kill` signals another parent; the lookup of an
  app by its konsole tab and the icons in `AppControl`; which window is active,
  and apps with several windows, in `WindowStates`; whether the notification
  daemon still inhibits for a cookie that was lost in `Switches`; colours in
  `Themes`; the removal of cache directories in `Launcher`; the button that
  stops the server, live timers of dropdowns and sliders in `Panel`; a second
  server process on the same files.
* The app and grid configuration is validated once, at the import, by one thread.
  The Intel GPU listener has one writer and one assignment.  The service worker is
  a client of the browser's install and activate protocol and of HTTP caching,
  which are not in this repository.
* Sound, displays, updates, capabilities and shell helpers keep no state of
  their own: they run a tool and parse its output.
* Markup, style, wording and headers.

## 6. Plan

In order of importance:

1. **The rest of `Panel`**: the handler that stops the server and leaves the
   EventSource (`static/app.js:605-628`), the live timers of dropdowns and the
   sliders' requests, which may be applied out of order.
2. **Composition** of `Challenges`, `RateLimiter` and `Passkeys` behind one
   sign-in request, with `PasskeyStore` and `OneTimeTokens` as the parts, and of
   `AppControl` with `WindowStates` for apps that have both a process and windows.
3. **`Grid`**: the validation of `load_apps_config` as operators, against a
   reference definition over bounded inputs.

An abstract specification worth stating next is a cache with a bounded age, which
`AppControl`, `WindowStates` and `LockState` share; the theorem that each of them
implements it would replace three proofs about ages by one.

The theorem worth proving next is that refinement.  Each liveness property has
its safety part proved: of `CatchesUp` it is `NoGap` and `ReaderHasRoom`, of
`GoneIsRemoved` the part `Served` of the stream's invariant (who is subscribed
has a connection that is not closed).
