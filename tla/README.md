# ptyhub in TLA+

ptyhub keeps shells alive in a daemon and shows them in browsers. This
directory models the parts of it that decide whether a terminal shows what its
shell printed, whether input and edits arrive, who is let in, and whether the
processes, sockets and files that come and go leave anything behind. TLC checks
the models on small instances, TLAPS proves the theorems about some of them for
all values of their constants.

- [The system](#the-system)
- [Modules](#modules)
- [What the runs check](#what-the-runs-check)
- [Fairness](#fairness)
- [What is proved](#what-is-proved)
- [Findings](#findings) and [Deviations](#deviations)
- [Limits](#limits), [Not modelled](#not-modelled) and [What is left](#what-is-left)

`PROJECT.json` lists components, runs, the source lines of every definition
("map"), hazards and theorems, and one mutant for every checked property: a
`Fault:` operator in the module that stands for a plausible bug, which makes
TLC find the property violated.

    tlc -config MCPtyd.cfg MCPtyd.tla
    tlapm SessionStreamProofs.tla

## The system

```
 shell <-PTY-> ptyd  <--Unix socket, frames-->  gateway  <--HTTP, WebSocket-->  browser
               Session, Registry,               PtydControl, Auth,              ReconnectingSocket,
               Connection                       handleTerminal, handleEvents    SessionTerminal, state
                        <--Unix socket-->       command line
```

Everything runs on event loops, one thread per process. What is hard is
therefore not data races but what happens between two callbacks, in the middle
of one that calls itself again, and across processes.

| component | state it keeps | operations | talks to |
|---|---|---|---|
| ptyd session (`src/ptyd/session.ts`, `ringbuffer.ts`) | PTY, headless terminal, unparsed backlog, raw ring, attachments with sizes and activity, lock | output, write callback, attach, detach, size, input, exit, snapshot, dispose | registry (events), connections (output) |
| ptyd registry (`registry.ts`) | session table, event queue, warm pool, timers, session file | create, claim, remove, broadcast, refill, sweep, persist, stop | sessions, listeners |
| ptyd IPC server (`ipc-server.ts`) | connections, their subscriptions | one handler per request, write with backlog limit, close | registry, sessions |
| ptyd start and stop (`index.ts`) | socket file, session file | probe, unlink, listen, shutdown | other ptyds, systemd |
| protocol and client (`protocol.ts`, `ptyd-client.ts`) | undecoded bytes, pending calls with deadlines | frame, decode, request, settle, tear down | ptyd and its clients |
| gateway link to ptyd (`ptyd-control.ts`) | connection, cached list, status | connect, retry, events, close | ptyd, `handleEvents` |
| gateway web sockets and terminal bridge (`ws.ts`) | sockets grouped by device, a ptyd connection for each terminal socket | upgrade, heartbeat, removal, end; output, events, answers, input, backlog cut | ptyd, browser |
| gateway authentication (`auth.ts`, `index.ts`) | devices in memory and on disk, save timer, lockouts, pairing file, token | authenticate, rotate, remove, save, log in, pair, restart | browsers, `ptyhub link` and `passwd` |
| page entry (`main.tsx`, `app.tsx`, `Login.tsx`, `state.ts`) | signed in, booting, loaded | redeem, boot, visible, log in, refused call | gateway |
| browser socket (`reconnecting-socket.ts`) | socket, one timer, retry, probe | connect, callbacks, probe, nudge, online/offline | gateway |
| browser terminal (`session-terminal.ts`, `registry.ts`) | xterm, its write queue, size, `replaying`; which pane it is in, where it is scrolled to | messages, parse, measure, input; mount, unmount, restore | bridge, panes |
| browser list, panes, preferences (`state.ts`, `events.ts`, `layout.ts`, `dnd.ts`, `prefs-sync.ts`) | sessions, layout tree, active pane, queue of edits | calls, events, drags, boot, saves | REST, `/ws/events` |
| keyboard (`keys.ts`, `keymap.ts`, `Settings.tsx`, `MobileKeys.tsx`) | keymap, leader with its timeout, overlays, latched modifiers | keys, recording, saving, migration | gateway's keymap file |
| command line (`src/cli/`) | raw mode, detach scanner, picker's list | commands, attach, picker | ptyd |

The behaviours that are hard, and what is right about each part:

- **Snapshot and stream.** A viewer subscribes while the parser is behind and
  the PTY is paused. Its screen must be a snapshot followed by every later byte
  once; back-pressure must end.
- **Re-entrant fan-out.** Announcing an event may close a slow connection,
  which detaches it, which resizes the session, which is another event, inside
  the loop that announces the first. All clients must still end on the current
  state, and no session may keep a viewer that is gone.
- **Callbacks around a pool.** Refills, sweeps, exits and claims interleave and
  spawns fail; no shell may be lost or handed out dead.
- **A byte stream cut anywhere**, with calls that time out before their answer.
- **A cache beside its source.** The gateway's list is replaced by an answer
  and patched by events of the same stream, over connections that come and go.
- **Credentials that rotate** while requests and answers are under way, are
  lost, or outlive a restart. A browser in use must not be locked out and a
  removed device must not return, nor keep a socket.
- **Files rewritten by several processes**: pairing links, and ptyd's socket and
  sessions.
- **Retries.** Edits queue while saves are awaited, fail, are rejected, or time
  out and arrive late; a keymap is saved as a whole.
- **Sockets that die silently** and are replaced while their last messages wait
  in a queue.
- **Effects that run in their own order**: terminals that move between panes.
- **One client, two users of it**: picker and attached terminal replace each
  other's handlers around awaits.

## Modules

Each module says in its head which code it models; names are the code's. One
action is one callback, handler or, where the thread or the system call
matters, one part of it.

| module | models | how state and steps correspond |
|---|---|---|
| `LiveScreen` | what a session promises its viewers | The abstract specification: what was printed, what each viewer sees, whether printing is held up. |
| `SessionOutput` | `onOutput`, write callback, snapshot, subscribe | Output is an unbounded text; a chunk is an interval of it, a terminal the position up to which it has been fed. `turn` is the request that holds the thread between `attach()` and the snapshot. |
| `RingBuffer` | `ringbuffer.ts` | A byte is its position in what was written; `write`, `clear`, `read` with the code's index arithmetic. |
| `SessionStream` | a session with both copies of its output | `onOutput` and `dispose` take the step of both modules. |
| `Ptyd` | registry table and broadcast, attachments, sizes, every request, `close`, persistence | `stack` is the nest of synchronous calls, a frame each; callbacks wait until it is empty. `Step` runs the innermost frame: one delivery, one session left, one reply. |
| `WarmPool` | `create`, `claimWarm`, `fillPool`, `sweepPool`, `stop` | A shell is its id with the time it was spawned; `poolFill` counts refill callbacks scheduled. |
| `PtydConnection` | frames, `FrameDecoder`, `PtydClient`'s calls | A byte is its place in its frame; the stream is cut anywhere. |
| `PtydControl` | `PtydControl`, `PtydClient` with its `list` call, `handleEvents` | `wire` is the stream from ptyd; a chunk of it is handled in one step, and the continuation of an `await` runs after it, before any other callback. |
| `PtydStartup` | `clearStaleSocket`, `main`, `shutdown` | A program counter for each process, one socket file, one session file. `crossed` remembers who did what while another was at the wrong place for it. |
| `Attach` | the byte scanner of `attachSession`, raw mode, how it ends | What was typed, what is unread, what was sent; a read is any piece of it. |
| `CommandLine` | the commands, `attach` and the picker over one connection | `stage` is what the command awaits; `pending` its calls; `replies` ptyd's answers and events, in order. |
| `DeviceAuth` | `authenticate`, `maybeRotate`, removal, saves, restart | Requests and answers under way carry secrets and ages; times are ages. |
| `GatewayLogin` | login with its lockout, standing token, `pair`, `ptyhub link` and `passwd` | The pairing file is a function from links to what is left of their time; `minting` is what each `ptyhub link` that runs has read, `redeeming` what the gateway has, each written back in a step of its own. |
| `DeviceSockets` | upgrades, groups, heartbeat, removals, shutdown of `ws.ts` | Each socket has its device and what its handler waits for; `handler` outlives the socket. |
| `PageEntry` | redeeming, boot, login page | A call is one step, answered by the cookie of that moment. |
| `ReconnectingSocket` | the class of that name | Time in ticks; one timer with what it will do; late `ready()` calls are in `applying`. |
| `TerminalView` | bridge and browser terminal, with the ptyd handlers they use | `request`, `frames`, `wire`, `up`, `queue` are what is under way on each leg and in xterm's write queue; `votes` is what viewers declared to ptyd, clamped as it does, and who was active last, by typing too. |
| `TerminalMounts` | terminals' registry, `attachTo`, `unmount`, scroll restoring, pane effects | A pane is rendered, its effect runs later; the frame that restores a scroll position later still. |
| `SessionList` | the list in the browser, its calls, `/ws/events` | Calls keep what their closures keep (`previous`). |
| `Panes` | `layout.ts`, layout actions, tab drags, restored layouts | The tree is its leaves from left to right. |
| `PrefsSync` | `PendingSave`, `boot()`, `flushPrefs`, `PrefsStore.update` | A preference holds the number of the edit that set it; `strays` are requests the page gave up. |
| `Keymap` | what a keymap is, recording in it, migration | A leader chord, keys behind it, direct chords. |
| `Shortcuts` | recording, saving and reading the keymap | The page's keymap, its save queue, the gateway's file; `keymapStrays` are the requests that were given up, by a timeout or with their page, and may arrive at any time. |
| `Keyboard` | `installKeyHandler`, overlays, the key recorder, the phone's bar | Keys and ticks; `timeouts` are the timers of the leader that run. |

`SessionStream` composes `SessionOutput` and `RingBuffer` and implements
`LiveScreen` (`Promise` is its instance under the mapping of `SessionOutput`);
`CommandLine` extends `Attach`, `Shortcuts` and `Keyboard` extend `Keymap`.

`MC*` modules give the constants of the instances, `*Proofs` modules hold the
proofs. Some `MC` modules run several specifications that share no state: a
behaviour is then of one of them while the others stay in an initial state, so
that each is checked as it would be alone. `MCReconnectingSocket` is
`ReconnectingSocket`, `PageEntry` or `Keyboard`; `MCPrefsSync` is `PrefsSync` or
`Shortcuts`; `MCDeviceAuth` is `DeviceAuth`, `GatewayLogin` or `DeviceSockets`;
`MCLifecycle` is `PtydStartup`, `WarmPool` or `CommandLine`; `MCPtydControl` is
`PtydControl` or `PtydConnection`; `MCPanes` is `Panes` or `TerminalMounts`.

What the specifications promise is stated against history variables, which play
no part in any guard: `view` (what each client was told), `stale` and `edited`,
`screen` as a position in the output, `accepted` input, `shown`, `redeemed` and
`beside` (pairing links, and which were redeemed or minted while a `ptyhub link`
held an older file), `wrong` (the passwords judged), `crossed`, `fileMade` and
`taken` (which change made the keymap file, and the latest it ever held).

## What the runs check

Nine runs pass; three show a disagreement between the code and what it says.

| run | instance | properties |
|---|---|---|
| `output` | two viewers; chunks of 1, 2, 3, 5 bytes, marks 4 and 1, ring of 3, 11 bytes | `SnapshotExact`: a snapshot rebuilds all output; `BacklogBounded`; `ReplayIsRecent`: the ring is the end of it; `KeepsPromise`: the whole implements `LiveScreen`, whose held programs go on |
| `ptyd` | two clients, one session, both policies, three windows | `OwnedViewers`: no viewer that is gone; `ClientsCurrent`: all clients end on the current state; `SizeFollowsViewers`; `FileCatchesUp` |
| `control` | one session, two values of its metadata, three frames unread; or one connection with two requests, an event and two bytes of length | `CacheCatchesUp`: cache and unread frames make ptyd's table; `BrowsersFollow`; `ComesBack`; `FramesExact`: each end has acted on just the frames that have come in, whole, once and in order, and no call waits for an answer that is there |
| `socket` | delays of 1 and 2 ticks, two network events waiting; or a page and its calls; or three keymaps, six chords, a leader of three ticks | `NeverStranded`: always a deadline, a probe or a retry; `DeadRouteNoticed`; `WorkspaceLive`: a page that shows its workspace hears of what happens in it; `LeaderHeld`: no old timeout disarms a new leader |
| `auth` | grace 4, rotation 5, delays up to 2, two requests and answers under way; or an address, two links, two `ptyhub link` at once, threshold 2, lockout 3, links of 2 ticks; or a device with two sockets | `NeverRefused`, `RemovedForGood`; `LinksExact`: the file accepts just the links shown and not used or too old, but for those that a `ptyhub link` which ran beside brought back or dropped; `GuessesBounded`; `SocketsFollow`: no socket outlives its device by more than a heartbeat, what is gone leaves nothing |
| `prefs` | two preferences, two edits; or two recordings, keymap files of two older versions | `NothingLost`, `NeverStalled`, `EventuallySaved`; `RecordedStays`: what was recorded survives failed saves, requests that arrive late, reloads and migration, as long as none overtakes a later one |
| `panes` | two panes, three sessions; or two terminals in up to two panes, one with output | `OneViewEach`, `NoNeedlessHole`; `PaneShows`: once rendered, each pane has the terminal of its session, scrolled to where it was left |
| `lifecycle` | three processes, started in any order; or four ids, pool of two, two sessions, clock up to 4; or one command, two sessions, three keys typed, two in the picker | `FilesAreOwn`: until two of them have crossed at the wrong places, the socket file of a ptyd that serves stays its own and its session file is not cleared by another; `FailsForAnother`; `PoolBounded`, `NoOrphanShell`, `FillsWhenQuiet`; `InputExact`: what reaches the session is what was typed but for the keys that detached, in one piece before, between and behind doubled prefixes; `ShowsPtyd`: no terminal in front of a shell that ended, no stale list; `NeverHangs` |
| `terminal` | two outputs, two sockets, one input each, three sizes of which ptyd allows two, policy `active`, backlog of 1 | `ScreenExact`: the terminal has parsed a snapshot and the output after it; `InputKept`; `SizesAgree`: once nothing is under way, ptyd has the size of the terminal, or the largest it allows; `CatchesUp` |
| `ptyd_startup_overlap` | two processes that may overlap | `OneServing` is violated |
| `doubled_prefix` | one attachment, three keys typed | `DoubledIsOne` is violated |
| `session_list_ghost` | two sessions, one call | `NoGhost` is violated |

Why these instances are enough for what they ask:

- `output`: against marks of 1 and 4 the lengths reach each mark exactly, cross
  it in one chunk and by accumulation, and land on either side; against a ring
  of 3 a chunk is shorter, as long and longer. Eleven bytes leave room for a
  pause, its end and a second one. A second viewer subscribes while the first
  is in every state.
- `ptyd`: two clients give a viewer that is closed inside its own broadcast,
  inside the other's, and both at once, with events queued behind. A window of
  zero, one above the maximum and one in between are all kinds of size there
  are; that they win in both dimensions at once, and in one each, tells the
  policies apart. The event queue and the stack are not bounded by the model:
  they stay finite because every close takes a listener away.
- `lifecycle`, the pool: ids are drawn again once free; four of them let two sessions,
  two parked shells and a claimed one coincide. A shell older than one tick is
  too old, so expiry happens before, during and after a claim.
- `control`: three unread frames hold the answer to `list` with an event before
  and after it, in one chunk or several. Two bytes of length and frames of one
  and two bytes are cut inside the length, after it, inside the frame and at its
  end; two requests let the first answer come after the first deadline.
- `auth`: `2 * Delay = Grace`, the edge of what `NeverRefused` assumes: an
  answer that takes longer than the grace period there and back can lock a
  browser out, which is what the grace period means. Five secrets are as many
  as the gateway, its file, the browser and the traffic can hold. Two links of
  two ticks are minted by two `ptyhub link` that overlap each other and the
  gateway, redeemed and expire in every order; two wrong passwords reach the
  threshold, and a lockout ends within the run. Two sockets
  of a device: one that is cut while the other is upgraded or already ends.
- `prefs`: an edit of the preference that is being saved, and one of another,
  before, during and after every save, failure, boot and late arrival. Two
  recordings can contradict, repeat or undo each other; the request of the first
  may arrive before, between and after those of the second, from this page or an
  earlier one.
- `panes`: two panes are enough to move, swap and empty; a third session is one
  that is hidden. Two terminals swap places; a slot is named after the session
  it was first rendered for, so both orders of effects and cleanups occur.
- `terminal`: two sockets leave one generation of old messages behind; a backlog
  of one cuts a connection on the second message unsent. Of three sizes ptyd
  allows two, so that proposals differ, cross, or are above the limit while ptyd
  is at it or below. Sizes above it come up in sessions without output only
  (`Modest`): what is told about a size does not depend on output.
- `socket`: what the code derives from round trips, backoff and jitter is any
  of two delays, so that each deadline comes before, with and after another. The
  keymaps differ in whether leader, action and Escape collide.
- `lifecycle`, processes and commands: one ptyd that serves, one that fails, and
  one that crashed and left its file, or all three anywhere between. Three typed bytes are a doubled prefix with a key
  behind it, or the detach keys cut anywhere with a byte before or behind; of
  two sessions one matches the name, and the picker's selection moves.

`MCSessionStream`, `MCPtydControl`, `MCTerminalView`,
`MCLifecycle` and `MCCommandLine` turn deadlock checking off: their bounds (bytes, clock, sockets,
requests), a session or a gateway that was stopped, and a command that has come
to its end, end a behaviour. Elsewhere no state is without a step.

## Fairness

Weak fairness of a timer or a callback that is due is what an event loop
gives. Strong fairness is assumed where one attempt may fail for outside reasons
and the code repeats it:

- `SessionOutput`: the parser's callbacks (`Parse`) run although other work
  disables them for moments (`SF`); a request that has begun goes on (`WF`).
  `KeepsPromise` rests on it for the programs that were held up.
- `Ptyd`: a synchronous call runs to its end; the persist timer fires between
  callbacks, however busy the daemon is (`SF`, since every callback disables it
  for a while).
- `WarmPool`: sweeps and refill callbacks run; a spawn that is tried again and
  again succeeds in the end, an assumption about the operating system.
- `PtydControl`: timers fire, sockets are read, ptyd answers or the call times
  out; a connection tried again and again is accepted (`SF`).
- `CommandLine`: answers and events that have arrived are handled, the picker's
  poll and the deadlines of calls fire. Nothing is assumed of ptyd or the user.
- `ReconnectingSocket`: timers, time and browser events only. Nothing is assumed
  of the gateway: `DeadRouteNoticed` comes from deadlines alone.
- `PrefsSync`: the retry timer, the online event, and a request that succeeds in
  the end if it is repeated. `EventuallySaved` asks for a page that stays online,
  running and accepted.
- `TerminalView`: everything under way arrives and is handled; sockets are lost
  at most as often as the bound allows.

## What is proved

All of it for every value of the constants that the named assumptions allow.

**`SessionStreamProofs`**. Of `SessionOutput`: `TypeOK`, `ScreensExact`, `SnapshotExact`,
`BacklogBounded`, `PauseHasWakeup`, and `ImplementsLiveScreen`. None of them is
inductive alone. `IInv` adds that the parser's queue *is* the pending backlog and
spans it without gap from the parsed position to `read` (`QueueSpansBacklog`),
that the counter is its length (`CounterExact`), the hysteresis between the
marks, and what holds of the viewer whose subscription is in the middle
(`ServedViewer`): its screen is blank, so that the snapshot, which rebuilds a
reset terminal only, makes it equal to `read`. The work is in lemmas about
contiguous chunks: appending one, taking one off, feeding them. With `IInv`
every step is one of `LiveScreen` or leaves what it speaks of alone: viewers
whose screens are exact see what was printed, and a viewer in the middle of
subscribing is not watching yet.

Of the composition: `ReplayIsRecent`, from the invariants of both parts and the
link between the two counters while the session lives. Of `RingBuffer`: a read
returns the most recent bytes in order, for every capacity, also zero, and every sequence of writes and clears.
`RingIInv` adds that byte `start + k`, wrapped, is `written - length + k`
(`Contents`).

**`PtydProofs`**: `OwnedViewers`, for any number of connections and sessions and
however deep the calls nest. `IInv` states it of the sessions that are listed and
adds little but that the stack is a sequence; the work is in what the steps do to
it. A call that is pushed keeps those below; a write that closes a connection
pushes its `close()`; that returns only when it has left everything; and between
callbacks, with no call in progress, every viewer listens, so that a connection
that comes finds nothing attached in its name.

`SizeFollowsViewers` (`SizesInv`): the order of activity lists each viewer once
(`Ranked`), and the size is that of the *last* of them that has a window, or the
least of each dimension (`Chosen`), once a viewer had a say. `ClientsCurrent` is the
deepest of the three (`CInv`): what a client *will* know. Following the broadcasts
that are still to be delivered to it, in the order the nested calls deliver
them, and then those that are queued, its view `Ends` in one that `Agrees` with the
table: each session is unknown to it or as it is, but for the number of viewers
where a call in progress is still to announce that. The lemmas say what a
delivery, a queued event, a session that is added, changed or removed and a
call that is pushed do to such a way.

**`LifecycleProofs`**. Of `WarmPool`: `PoolBounded`, `NoOrphanShell` and the action
property `ClaimsUsable`. `IInv` adds that no shell is parked twice (`ParkedOnce`),
and that what is counted is finite. Of `PtydStartup`: `StartupTypeOK`,
`FilesAreOwn` and `FailsForAnother`, for any number of processes that start, stop
and die in any order. Nothing is assumed of that order: `crossed` collects the
processes that looked, listened or cleared while another was at the wrong place
for it, and the two promises hold up to the first of them. Until then a ptyd that
serves does so alone (`ServesAlone`), no debris lies where one is about to listen
(`NoDebrisAhead`), and the session file is what `RecordFits` says of each place.
That crossing breaks the promise is what `ptyd_startup_overlap` shows.

Of the command line: `InputExact`, for any alphabet and reads of any length; it says
nothing of how often a doubled prefix is sent (see the findings).
`InputInv` says that what was typed is what was sent and what is held back
(`Held`), and every action keeps it, begins an attachment, ends one or reads
(`EveryStepInput`); `ScanExact` says the same of the passes over one read, which are
a recursive function. And `ShowsPtyd`, for any number of sessions, keys and
messages under way. Its invariant `ShowInv` has a part for the connection
(`Orderly`: a rid is of one call and its message under way once, although answers
come after their deadline and the calls they answer are gone) and two for the
promise: every answer on its way in which a session lives that has ended has the
event of its end behind it (`ExitFollows`), so a lookup that raced the exit is put
right (`ExitNoticed`); and the picker's list is ptyd's, or is on its way, or asked
for, or an event is on its way that will have the picker ask (`ListComes`). The last
needs that who asks for the list still waits for it (`ListsAwaited`), which a
time-out of the picker's breaks: hence `gaveUp`. A step of the command is told by
what it takes from the connection and what it sends (`Moves`), what it does about an
exit (`Notices`) and about the list (`Lists`), or it closes the connection (`Halts`).

**`ControlProofs`**: `CacheCatchesUp` and `BrowsersFollow` of the gateway's link to
ptyd. `SyncInv` follows the answer to `list` along its way: not made yet, every
frame on the wire is an event; on the wire, it is the only answer there, and
with the events after it it yields ptyd's table; read, it does so with what is
left of the wire. What events do to a list (`AfterEvents`) is a recursive
function; that it is defined, and what one more event or one less at the front
does to it, are lemmas at the head of the module. `FollowInv` says of each moment
of a connection's life what the status may be.

And `FramesExact` of `PtydConnection`, a byte stream that is cut anywhere and a decoder
that joins it again, for any length of the length field and any number of frames.
`FramesInv` says of each direction, while the end that reads it is open, that there
is a `Leg`: some frames are still to come, their bytes are exactly what the decoder
holds, what is on its way and what was thrown away behind it, and what the decoder
holds is less than a frame (`Short`). Behind it are lemmas about the model's own
recursions: that encoding and `Ending` go over into concatenation, that a pass of
the decoder takes the first frame off or stops (`DecodesOne`), and that after as
many passes as there are bytes less than a frame is left (`PushDecodes`). On top,
`HandledFacts`: a call still waits after a chunk only if it did before and no frame
of the chunk answers it.

**`GatewayProofs`**: five theorems about who gets in and who stays.
`SocketsFollow` needs that every socket that may still be cut is found under its
device (`Grouped`), that a socket owes the gateway one answer at most
(`OnePingOwed`), and what a handler that waits will find (`Tidy`).
`RemovedForGood` is inductive once memory and file both say that the device is
gone. `LinksExact` is about every behaviour, also those in which the gateway and any
number of `ptyhub link` write over each other: what the theorem says of the file holds of every copy that was read and is not
written back yet (`Agrees`, for all of `Reading`).
`NeverRefused` is the deepest: both the gateway's record and its file accept all
that the browser and the traffic hold (`InUse`), because whatever carries the
secret before the newest was sent at most a delay after the newest was made;
when the grace period is over it has been lost. It uses that two delays fit into
the grace period and that this is shorter than the time between rotations.
`GuessesBounded` is about one run of the gateway, since failures are in memory and a
restart forgets them; it ties the history to the counter (`JudgedInv`): an address that is
not locked out has had at least as many failures counted as wrong passwords
judged lately, and one that is has had none judged since it was, so that all
are too old when its counter starts again.

**`BrowserProofs`**: `NeverStranded`, from `SocketIInv`: the last network event
that waits says how things are now, and a timer that probes does so for a socket
in use, so that a deadline follows; `WorkspaceLive`, since a load that runs is
awaited by someone who starts the stream after it (`Awaited`); `LeaderHeld`,
since the one timeout that runs is the one of the leader that is armed
(`OneTimeout`). `OneViewEach` for any sessions and panes: `WindowInv` adds that the
panes have different ids, without which moving a session could leave it in two,
and that the layout that was saved has no session twice, since a page load
restores it. `SetFits` carries the proof: setting a pane's session repairs a
window in which that pane, and only it, shows what another does, as after a
split that a dropped tab caused. That filling one stale pane after another keeps
this is an induction over a recursive function (`PrunedFits`). `NoNeedlessHole`, an
action property, for the same: after each stale pane `RefilledTo` says what every
pane shows, so that in the end (`PrunedHoles`) one that is listed is where it was and
a stale pane that got nothing is empty because what there was to show ran out. For
this the list and `mru` must have nothing twice (`OnlyHas`, `JoinedHas`: what filters
and concatenations leave), since a session that is offered twice would take itself
from a pane that was filled before; and the active pane must be one that is there,
or a session that was created would be shown nowhere. Both are in `HolesInv`. The
other actions empty only the pane a session is moved from (`MovedHoles`).
`RecordedStays` for
any old file, keys and actions, and however late requests arrive that the page gave
up or left behind. Requests, like the file's keymap, have the number of the change
they were made by. `Numbered` says that none is newer than the last change, that what
waits in the queue is the newest, and that the file has held the newest once nothing
waits; `RecordedInv` that every request of the last change carries what was recorded,
and so do the file, when it was made by that change, and an answer that boot waits to
apply, unless it is late. An older request may still overwrite the file, which is what
`Overtaken` excludes. Reading the file changes nothing of it, since
`Normalized` leaves a keymap of this version alone but for empty tables
(`NormalizedKeeps`), and whatever is recorded yields such a keymap (`RecordingFits`).
`PaneShows` for any sessions, slots and scrollback: `MountsInv` says of every state,
with effects due or not, that a terminal is in the slot whose cleanup would take it
out (not the other way round: a slot may hold on to a terminal that another pane
took since), that a pane whose effect is not due has its terminal, and where each
terminal keeps the line the user left it at (`Kept`): in its view, or in what it
saved, or in the frame that is asked for. The effects run in any order, so what they
do is an induction over them (`RanFits`): no two are of one slot or of one session, so
none takes from a pane what an earlier one gave it.

**`TerminalProofs`**: `ScreenExact`, `InputKept` and, where
`resizePolicy = "active"`, `SizesAgree` (with `"min"` it is false, see below), for
any number of sockets, outputs, inputs, sizes and any largest size. `PhaseInv` ties the phases of the
bridge to what may be on each leg. `ScreenInv` says that from what is on the
screen the write queue `Leads` to some state, from there what is on the wire to
another, and from there what ptyd has sent to all of the output: a snapshot lands
on a screen that was reset, each output comes after the one before it, and no
replay is ready before what was copied is on the screen again. Nothing on any leg
may break the chain, so a message that moves from one leg to the next keeps it.
`InputInv` adds that a connection that took input has told so. `SizeInv`: the size
that was told last is ptyd's, on whichever leg it is, or the terminal has asked
for another that is still on its way up, or has one that ptyd clamps to its own
(`FittingSizes`: what ptyd picks is clamped already). Input is in it as what may
change the size without a request for one.

**`PrefsSyncProofs`**: `TypeOK`, `BlockedIsStill`, `NeverStalled` and
`NothingLost`. The queue needs `OneAtATime` (no timer while a save is in
flight). `NothingLost` needs `ServedIsThere` (what the gateway confirmed is
what it has) and `PatchesPast` (no patch is newer than the last edit, so a
late request that overtakes nothing brings the gateway nothing it should not
have).

The induction theorems of the library take an operator as a parameter, which the
provers cannot instantiate. Where an induction over a sequence is needed, the proof
takes a least counterexample instead (`LeastIndex`, from the theorem on
well-founded relations, which takes a set).

Only model-checked: all liveness properties, which are out of the prover's reach, as
is `ENABLED`. `TypeOK` of a module whose proofs do
not need it is the typing of its variables written down and belongs to no run.

## Findings

1. **Two ptyds** (`ptyd_startup_overlap`, `src/ptyd/index.ts:97` and `:55`).
   `shutdown()` unlinks the socket file once more after its server's close has
   unlinked it, and `clearStaleSocket()` unlinks after a probe that may be out of
   date: either may remove the live socket of a ptyd that started in between.
   The next one finds none and serves as well.
2. **A session that is gone returns to the list** (`session_list_ghost`,
   `web/src/state.ts:365`). `closeSession()` puts back its whole old list when
   its call fails, also when it failed because the session no longer exists.
3. **A doubled prefix** (`doubled_prefix`, `src/cli/attach.ts:58`). "Prefix pressed
   twice sends one literal prefix byte through" (`attach.ts:56`, and `README.md:175`).
   The second press sends one and stays armed, so the next byte is taken for the one
   behind a prefix: an ordinary one is sent with a second prefix before it, and a
   detach key detaches. `InputExact` is therefore about what lies between doubled
   prefixes.

## Deviations

What the code says elsewhere and does not keep, or does and a reader would not
expect. They concern narrow windows.

The first group is written down: the formulas are in the modules, beside the
properties that do hold; adding one to the module's `.cfg` shows the behaviour.

- `PtydControl!Authoritative`: an event in the same chunk as the answer to
  `list` is applied first and then overwritten by the older list
  (`ptyd-control.ts:92`), because the continuation of the `await` runs after the
  chunk. `CacheCatchesUp` therefore excludes it (`raced`).
- `PtydControl!StatusIsHealth`, `ReconnectRefreshes`: a close during the first
  `list` call ends in status `connected` without a connection
  (`ptyd-control.ts:96`), and the reconnect after it is no change of status,
  so browsers are not sent the new list. `BrowsersFollow` and `CacheCatchesUp`
  exclude a list call that was cut off (`cutOff`).
- *Pairing links* (`GatewayLogin`). A redemption between the read and the write of
  `ptyhub link` is undone, and the link works again, although "One-shot pairing
  links die on use" (`auth.ts:457`): `Redeemable(pairings) \cap redeemed = {}` is
  false. And of two that write over each other one is lost: a link that was minted
  between the read and the write of another `ptyhub link` or of a redemption is
  refused, `DOMAIN shown \ redeemed \subseteq Redeemable(pairings)` is false.
  `LinksExact` says that nothing else goes wrong, and only then (`beside`).
- `PrefsSync!PageKeepsEdits`: `boot()` shows the gateway's preferences over edits
  that are still queued (`state.ts:602`); they are saved all the same.
- `PrefsSync!LaterEditsWin`: a save that timed out and was retried may arrive
  after the retry (`prefs-sync.ts:89`) and undo a later edit. `NothingLost` holds
  up to that moment (`overtaken`).
- `Shortcuts!SavedStays`: a keymap is saved as a whole, and a save that timed out
  (`api.ts`), or the one a page sends while it is left (`state.ts:548`), may arrive
  after a later one and bring the older keymap back: shortcuts that were recorded,
  confirmed and are in use are gone at the next load. `RecordedStays` holds of the
  file up to that moment (`Overtaken`), and of the page until it is loaded again.
- `SessionList!NoneHidden`: the list `closeSession()` restores may lack a session
  that was created meanwhile.
- `Panes!ShownAreListed`: a tab whose session another client closes while it is
  dragged is still dropped into a pane (`state.ts:462`).
- `TerminalView!SnapshotFits`: the terminal may be resized while a snapshot of
  another size waits in its queue (`session-terminal.ts:466`). And `SizesAgree`
  fails with `resizePolicy = "min"`: a proposal larger than another viewer's
  window is applied locally at once and never corrected (`:613`).
- `TerminalView!SizesEqual`: "ptyd decides the authoritative size ... and tells us
  what it picked" only when that is another than before. A pane that has room for
  more than 1000 columns or rows (`session.ts:30-38`) takes its own size at once;
  if the session has the largest already, nothing tells it otherwise, and
  terminal and session stay different. `SizesAgree` says that this is the only
  way they do.

The others were met while the models were written and are kept in them as the
code has them, or lie just outside of them.

*Command line.*
- `attach.ts` listens for `exited` only. A session that another client kills
  sends `removed`, and the terminal sits there until it is detached; so does one
  attached from the picker whose shell exited before the subscription.
- A change of the window between `await subscribe` and the installation of the
  listener is missed; keys typed within 40 ms after Enter act on the picker; an
  answer of `list()` that comes late draws the picker over an attached session;
  an escape sequence split over two reads is two keys.
- `cmdLink` makes an `Auth` of its own, whose constructor may prune and rewrite
  the devices file under the gateway.

*Protocol.* `FrameDecoder` throws away whole frames decoded before a bad one in
the same chunk, and `PtydClient.onData` goes on handing over frames of a chunk
after a handler closed the client.

*Gateway.* A pairing link is used up before the device is written, so a write
that fails burns it. Events go on being sent to a device whose removal failed to
be written until the next heartbeat (`ws.ts:216`).

*Page.*
- The events socket keeps reconnecting behind the login page; a 401 to an older
  call shows the login page to a page that was let in meanwhile.
- `boot()`'s answer overwrites a recorded keymap that is not saved yet; the next
  recording then saves the stale keymap as a whole. Direct chords that were all
  removed come back as defaults. A keymap of a version before 5 brings only ⌘J
  of the direct chords (`keymap.ts:464-484`).
- README.md:132 says "Each one is bound under both ⌘ and Ctrl"; `keymap.ts`
  290-331 binds ⌘ only. README.md:136 puts the master switch into `keymap.json`;
  it is in the browser's local storage.
- While Settings records a key the page's own listener runs first, so a chord
  that is recorded also acts or arms. With the leader armed and the master
  switch off, Escape does not close Settings.
- "Ctrl and Alt latch for one keystroke" (`MobileKeys.tsx:5-6`): Ctrl stays
  latched behind keys it cannot transform, and ^C ignores the latches.
- A terminal that moves directly to a pane whose effect runs first is attached
  there without having been unmounted, so its scroll position is not saved
  (`session-terminal.ts:289-325`). A pane's effect that is still to run when its
  session is removed makes the terminal again until the next event.
- A clipboard request in the output right behind a snapshot is dropped while
  `replaying` is set.
- The next and previous session go by the server's order, not that of the tabs;
  a pinned tab dragged among the pinned ones stays; Enter in the rename field is
  followed by a blur that renames again.

## Limits

- *SessionOutput.* The serializer is taken to reproduce the parsed screen, and
  `reviveScreen` is on; the ring is then the copy nobody reads, and
  `ReplayIsRecent` is what a client would get with it off. Bytes have no value;
  escape sequences cut by a chunk are the library's. What the library does with
  a paused PTY that is hung up is not modelled.
- *Ptyd.* A write of the session file that fails, and the file's contents, are
  not modelled; metadata is what clients compare. `SizeFollowsViewers` speaks of
  a session whose size was last decided by its viewers (`direct` is the
  other case: a size set from outside, or a viewer that attached again without
  one).
- *PtydConnection.* Frames are shortened to one and two bytes behind two bytes of
  length (`LengthBytes`); one kind of request stands for all (`MaxAsked`), with
  as many events as `MaxTold`.
- *PtydControl.* One value stands for a session's metadata; other calls than
  `list` behave like it. No more than `MaxWire` frames are unread.
- *Attach, CommandLine.* At most `MaxTyped` bytes, `MaxKeys` keys in the picker,
  `MaxQueue` changes of sessions that are not handled yet; two sessions.
- *DeviceAuth.* One device; clocks do not jump.
- *GatewayLogin.* Links and tokens are keys without text. No link is made up
  twice, and the gateway and `ptyhub link` use the file system in whole writes.
  Failed logins are counted in memory, so `GuessesBounded` is a bound for one run
  of the gateway: a restart begins anew. Addresses are counted apart, so one is
  enough.
- *DeviceSockets.* One device in the run, no sockets of a trusted network (which
  have no device).
- *PageEntry.* A call is one step, so answers do not overtake each other.
- *PrefsSync.* One device edits; another device's edits win or lose by arrival,
  as in the code.
- *Shortcuts, Keyboard.* A keymap keeps a few entries; the user changes it
  `MaxRecordings` times, on one page. In `Keyboard` the keymap becomes any of `InUse`.
- *SessionList.* The gateway is in step with ptyd (see `PtydControl`); the list
  that `boot()` reads before the channel opens is left out.
- *Panes.* Split ratios and the tree's shape are drawing; a layout is saved at
  once.
- *TerminalMounts.* Scrolling is counted in lines (`MaxLine`); one terminal has
  output; what a new terminal is sent is one step.
- *TerminalView.* A size is one number, clamped from above only (`MaxSize`), and
  no one sets it but viewers; other viewers are one. The model's last
  socket drains instead of being cut, else `CatchesUp` would ask for a socket
  beyond the bound. The page has the focus when a clipboard request comes, and
  typing without a connection is modelled after the first one. Selection, zoom
  and themes are left out.
- *ReconnectingSocket.* Round-trip estimate, backoff and jitter are choices.

## Not modelled

Configuration, preferences' fields, themes and fonts are tables and the
normalisation of untrusted fields, without behaviour over time. The helpers that
read `/proc` or load the terminal libraries, static files and headers are
input and output. Interface components are rendering; what they do to the page's
state is in the modules above, but for the order of tabs and pins and the ratios
of splits. Of the REST routes `ensure` (find a named session or create it) is
left out, of the command line `status`, `install-service`, `fetch-font` and the
printing. Scripts and tests are tests of the program.

## What is left

1. `ensure` and the order of tabs in `SessionList`; a write of the session file
   that fails in `Ptyd`, which needs the file's contents.
2. The bridge as a second implementation of `LiveScreen`: `TerminalView` with
   `SessionOutput` in the place of the ptyd handlers it has of its own.
