# PET-Project: a TLA+ verification project for petlib

`petlib` (`src/src/petlib`) lets command-line tools and AI agents drive a
Commodore PET emulated by VICE (`xpet`): start sessions, type, read the screen
and memory, set breakpoints, step, and wait for things to happen. This
directory holds TLA+ models of the parts where order, timing and failure
matter, TLC runs over small instances, and proofs checked by TLAPS.

Read this file with the source beside it. Line numbers are those of
`src/src/petlib/<file>`; PROJECT.json maps every definition to its lines.

## 1. Inventory

| Component | State | Operations | Talks to |
|---|---|---|---|
| Session daemon, `daemon.py` | `state` (desired run/stop state), the one VICE connection, one client at a time, `_quitting` | idle pump, accept, the requests of `ALLOWED`, `_wait_for_stop`, `_run_until`, `_restore` | VICE through MonitorClient; clients over a Unix socket |
| MonitorClient, `monitor.py` | `events` (bounded deque), `_pending`, request ids, decoder buffer | `_transact`, `resume`, `step`, `finish`, `poll_events`, `wait_for_stop`, checkpoints, memory, registers | VICE's binary monitor over TCP |
| VICE (external) | CPU running or halted, checkpoints with hit flags and counters | processes commands, fires checkpoints, sends RESUMED, STOPPED and CHECKPOINT_GET events | the connection's owner |
| Frame codec, `protocol.py` | decoder buffer | `encode_command`, `FrameDecoder.feed`, body builders and parsers | MonitorClient |
| Daemon RPC, `daemon_client.py`, `rpc.py` | request ids, socket file | `_call` with a client-side timeout and an id check; value codec | the daemon |
| Session registry, `session.py` | JSON records, `.respawns` files, socket files, processes | `launch`, `attach`, `ensure`, `stop`, `monitor` (respawn), circuit breaker, `set_labels_path`, `record_loaded` | files shared by every process of the user; VICE and daemon processes |
| Operations, `ops.py` | none between calls | `wait_for_text/mem/break`, `call_routine`, `run_until`, `key_hold`, `find_bytes`, `clear_checkpoints`, `staleness` | a session's monitor |
| Test runner, `testing.py` | step list, a fresh session | `run_test`, `_do_step` | registry, operations |
| Command line and MCP server, `cli.py`, `mcp_server.py` | the MCP server keeps Session objects between calls | the operations as commands and tools | registry, operations |
| Symbols, build, basic, packaging, romdoc, screen, text, disasm, machines, disk | tables, no state | pure functions and wrappers of external tools | callers |

### What is hard

- *Three actors on one machine.* VICE runs and stops by itself between any two
  instructions of the daemon; clients come, go and crash; the daemon has one
  thread. Every monitor command halts the CPU as a side effect, so "halted"
  alone never says whether somebody wanted it halted.
- *Noise and evidence share a stream.* A halt that a command caused and a
  checkpoint that fired both send STOPPED. The daemon must keep parks, undo
  noise, and do so when the events arrive late, together or in pieces.
- *Clients vanish* in the middle of requests that last minutes.
- *Files without locks.* Registry records are read and rewritten whole by
  concurrent processes.
- *Timeouts racing answers* at three levels: VICE, the RPC, the daemon's start.

### What makes each component correct

- Daemon: between clients the machine is in the session's state; no park is
  lost or invented; a wait reports only real stops; `run_until` counts each
  arrival once; a vanished client or a dead VICE never wedges it.
- Transport: a call returns its own response or an error; no event is lost,
  duplicated or reordered short of the queue's bound.
- Registry: one live emulator per name, and it can be found; no failed launch
  leaves one behind; a respawned daemon serves its own session's VICE; one
  process's update does not undo another's; the breaker trips exactly when its
  rule says.
- Operations: each leaves the machine in the state its docstring promises, on
  success, timeout and error; its own checkpoint does not survive it.
- Test runner: the session is stopped however the test ends.

PROJECT.json lists each hazard at its line, with the properties that cover it
or the reason why none does, and the status of each component.

## 2. How the project is built

Five groups of modules, from the wire to the user. Each level takes from the one
below only what was checked of it.

1. **MonitorTransport**: bytes, request ids, timeouts and the event queue of
   `MonitorClient`, at the level below the next one's.
2. **ViceMonitor, PetDaemon, SessionMachine**: the daemon over the monitor
   connection, in whole frames, and the abstract session it implements.
3. **OpsClient**: the operations of `ops.py` that wait for the machine, as
   clients of the whole PetDaemon (it EXTENDS it: the two are composed).
4. **PetCommands, Frontends, MachineData**: every command, MCP tool and test
   step as data; processes that run them over the daemon's RPC; what
   they compute of addresses and memory. The daemon is reduced here to
   what SessionMachine promises: a mode that only a client sets running.
5. **SessionRegistry, RespawnBreaker**: processes, files and sockets around a
   session's name.

What a continuation would take up, in order: a daemon whose calls to a living VICE
time out, which would join MonitorTransport to PetDaemon; the daemon's theorems that
need `Prompt` under a bound on the delay instead.

## 3. The modules

### ViceMonitor.tla: VICE and the two primitives

VICE is external: its actions say what the client code relies on (the header
lists it), and PROJECT.json marks them so. `cks` holds each checkpoint number's
life (`unset`, `on`, `off`, `once` for a temporary one, `gone`). `parked` is the
set whose hit halted the CPU, which is what the `hit` flag of CHECKPOINT_LIST
shows. `wire` holds the event frames VICE has sent and nobody has read;
`events` is `MonitorClient.events`.

- `Transact(queue, pending)` is `_transact` of any command but EXIT: every
  event sent before the response is read ends in the queue, and the CPU is
  halted. A command and its response are one step, because VICE sends nothing
  while the CPU is halted.
- `SendExit` and `ReadResponse` are the two halves of `resume`. Here the CPU
  *does* run before the response is read, so a hit may slip in and be stashed
  in the queue: the interleaving the comments of `poll_events` warn of.
- `ExitAfterCommand` is a command followed by `resume`. One step, again because
  the CPU is halted throughout and `resume` empties the queue.
- `PollOutcomes` and `FirstOutcomes` are `poll_events` without and with
  `first=True`; `LastHit` and `StopAt` are what `wait_for_stop` makes of a
  batch, `got` being its local `checkpoint`.

Frames are whole here and a frame is its type and checkpoint number. Contents
of memory, registers, the display and the keyboard buffer are left out: no
control decision of the daemon reads them.

### PetDaemon.tla: the daemon

`pc` is where the daemon's thread is; `cont` says what follows an EXIT whose
response is still to be read. A blocking call that VICE or the client can
interleave with is several steps, anything else is one.

| Code | Actions |
|---|---|
| `_idle_wait`, `_pump_vice_events` | Pump, Accept, NoticeDeath |
| commands by `getattr`, STOPPING | Command, SetCheckpoint, DeleteCheckpoint, ToggleCheckpoint, Step, Finish, FinishSees, FinishTimesOut |
| `resume`, `release`, `quit` | Resume, Release, Quit |
| `_restore` | Restore (Release, EndTenure), RestoreExit, ExitAnswered, ExitLost |
| `_wait_for_stop` | WaitForStop, ReadBatch, WaitSees, WaitSlice |
| `_run_until` | RunUntil, RunUntilZero, RunUntilWaits, ReadBatch, RunUntilSees, RunUntilSlice, RunUntilLists, RunUntilChecks, RunUntilExpires |
| errors in `_serve_client`, `_handle` | RequestFails, CallFails, ExitLost (all by Fail) |

`conn` is the served client: `gone` means it has closed its end and the daemon
has not noticed. `arrivals` is the `hit_count` of `_run_until`'s checkpoint.
`last` carries the clients' discipline: every caller of `wait_for_stop` in the
code base has just issued a command (so the CPU is halted) and then `resume`
(ops.py:189, ops.py:231, ops.py:245). All other requests come in any order,
also from a client of the raw RPC.

### SessionMachine.tla: what the daemon promises

Two variables: the machine's `mode` and who holds the session. Only a client
that holds it (or has left and not been handed back) may see it set running;
it may stop by itself; a client that left is handed back. PetDaemon implements
it under the mapping in `Session`, its fairness included.

### SessionRegistry.tla: one session name, many processes

`emu` and `dmn` are the emulator and daemon processes, `port` the VICE a
daemon was started for, `path` the daemon bound to the socket path (a dead one:
a stale socket file), `file` and `rec` the JSON record, `writers` the clients
whose open handle is still the file of that name. `me[c]` is a client process:
`pc` is where it is, `phase` tells whose `_load_all` or `_save` it is in,
`sess` is its Session object, which grows stale while others write, `kids` and
`helper` what it has started.

| Code | Actions |
|---|---|
| `_load_all`, `attach`, `ensure` | Begin, Glob, Read, Prune |
| `launch` | Spawn, PopenFails, AttemptFails, MonitorAnswers |
| `_spawn_daemon` (launch and respawn) | SpawnDaemon, PingAnswered, PingFails |
| `_save`, `set_labels_path`, `record_loaded` | SaveOpen, SaveWrite |
| `monitor` and its callers | Connect, ConnectFails, BreakerTrips, Use, UseFails |
| `stop` | StopWaits, Terminate, KillDaemon, UnlinkSocket, UnlinkRecord |
| `daemon.main`, `_connect_vice` | DaemonUp, DaemonGivesUp, DaemonExits, DaemonCrashes |
| VICE, the system | Boots, Dies, Killed |

A step is one system call that another process can see, or one wait. The
daemon is here only what a client of the registry sees of it: it serves one
client at a time, so a second one's hello times out and is taken for a
crash; everything else it does is in PetDaemon. The client's use of the session
is one call (`autostart` or `quit`), which may fail before or after it took
effect. `run` stands for `pet run`, `pet load` and `pet_run`; `load` for
`pet_load`, which saves no program.

### RespawnBreaker.tla: the circuit breaker

The file `NAME.respawns` with a clock in ticks, of which the file keeps
multiples of `Grain`. Reading, truncating and writing are separate steps of
each client. Two clients that have both truncated it both write from its start, so a shorter
list leaves the tail of a longer one behind it (`Over`). `respawns`, `raced` and `overlaid` are
history: every respawn as it happened, whether two clients have been in the file at
once, and whether two have had it open for writing at once.

### MonitorTransport.tla: bytes and request ids

`wire` and `buf` are sequences of bytes, each knowing its frame and its place in
it; `Decode` may look at nothing but the header of the first. `inbox` is what VICE
has yet to serve; a list is answered info by info (`SendInfo`) with events in
between. `decoded`, `calls` and `raised` are history.

| Code | Actions and operators |
|---|---|
| `FrameDecoder.feed` | Complete, Decode |
| `_handle_frame`, `events`, `_pending` | Decode, Kept, Taken |
| `_transact`, `_next_id` | Send, RequestId, Look, Mine, Receive, Expire |
| `checkpoint_list`'s collected infos | Look |
| `resume`'s `events.clear()` | Send |
| `poll_events` | Poll, PollReturns |

An answer may come after its call timed out; it then lies in `pending` and no
other call takes it. This is the case ViceMonitor and PetDaemon leave out.

### OpsClient.tla: operations on the whole daemon

`op` is the one operation under way, its next request (`at`) and what it has
learnt; every step of it *is* a request of PetDaemon, conjoined. A deadline may
pass at any time (`Deadline`), and the operation looks at it only where the code does.

| Code | Actions |
|---|---|
| `break add` | BreakAdd |
| `wait_for_break` | WaitLists, Resumes, AsksStop, Hears, Registers, LastResume |
| `call_routine` | CallSetsUp, CallTraps, Resumes, AsksStop, Hears, CallLists, CallExpires, Registers, DeletesTrap |
| `key_hold` | Pokes, ConnectsAgain, HoldRuns, HoldGoesOn |
| connect, close, Ctrl-C, errors | Begin, Leave, Loses, Fails |

`op.hit` is the `hit_count` of the trap; the memory and registers that
`call_routine` writes are in MachineData.

### PetCommands.tla and Frontends.tla: commands and the processes that run them

PetCommands holds no state. A command is a set of scripts, a script a sequence of
stages, a stage one `with session.monitor()` block: the calls in order, which may
follow which, the verb of its finally clause, whether it is polled, and which errors
it swallows. `run_test` builds the script of a test: boot, load, steps, final
screen, and the stop of its finally.

Frontends runs them. `job[c]` is process c: its script, its stage `k`, its position
`at` in the body (0: the finally verb), its outcome so far, its call `id` and
whether its reader is `poisoned` by a timeout. `conn` is the one connection the
daemon serves, with requests it has yet to read and answers nobody has read yet;
requests outlive the process that sent them.

| Code | Actions |
|---|---|
| `Session.attach`, `launch`, `ensure`, `stop` | Begin, LaunchSession, KillSession |
| `DaemonMonitorClient.__init__`, `Session.monitor` | Connect, ConnectFails |
| `_call` | Call, Answered (Accepts), TimesOut, Lost |
| `close`, `__exit__` | Unwind, Close |
| loops, finally clauses, exceptions of a command | Enter, Onward, Again, Late, Raised, After |
| `_serve_client`, `_handle` | Serve, ServeQuit, EndTenure |
| Ctrl-C, the emulator's end, an idle park | Interrupt, EmulatorDies, Parks |

### MachineData.tla: what commands compute

No state. The inputs are CONSTANTS, so that the run gives small sets and the proofs take any:
`Values`, `Patterns`, `Limits`, `LabelMaps`, `Addends`, `Addresses`, `Traps`.
Frontends extends it and states FindsAll, FindsInAllMemory, RefsAddUp and RoutinesReturn of the states where no
command has begun, for TLC checks a property of states, not of constants alone.

| Code | Definitions |
|---|---|
| `find_bytes` | Window; BytesFind and NextFrom; Scanned, one round of its loop, and Scan, the loop as a recursive function of the next match and the matches kept; FindBytes |
| `memory_read` | MemoryRead, the set of the data it may return |
| `nearest`, `pc_symbol` | Near, Nearest, PcSymbol |
| `parse_ref`, `parse_number`, `resolve` | on tokens: LastSeparator, Offset, Parsed, and Parser, the recursive function that calls itself on the text before a separator |
| `call_routine`'s frame | ReturnAddress, Pushed, Lowered |

`memory_read` asks for the addresses from `start` to `start + length - 1` in 16 bits each and
reads the answer's length from 16 bits. A window of no address therefore fails at address 0
(`struct.error`) and is upside down elsewhere, which VICE may refuse and has no data for; all of
memory is a length of 0. FindBytes is the set of what the search may return, empty if the read fails.

### Proof modules

PetDaemonProofs (the primitives, types, `run_until`), PetDaemonStateProofs (waits, the idle
daemon's state, the refinement), OpsClientProofs, SessionRegistryProofs, RespawnBreakerProofs,
MonitorTransportProofs, FrontendsProofs and MachineDataProofs: section 6.

## 4. Runs

| Run | Instance | Shows |
|---|---|---|
| daemon_prompt | 3 checkpoints, count to 3, Prompt, FairSpec | TypeOK; NoFalsePark: with all read, an idle daemon that says STOPPED has a halted CPU; RestoreSeesParks: a park that a release or disconnect resumes away landed after its poll; ImplementsSession |
| daemon_segmented | 2 checkpoints, count to 3, stream cut anywhere, FairSpec | IdleTruth: an idle daemon knows of a halt or still holds the hit; WaitTruth; RunUntilExact; TenureEnds, RunsAgain, DeathEnds |
| registry_serial | 2 clients by turns, all commands, killed where it does no harm; 2 emulators, 3 daemons, 2 programs, 2 attempts | Findable: between commands the record names every emulator not told to end; OwnVice; Reachable; RecordsProgram |
| registry_shared | 2 clients that start and stop and may be killed; 2 emulators, 2 daemons, 2 attempts | FailedLaunchClean; StopStops |
| registry_live | 2 clients, one starts, both stop; 1 emulator, 2 daemons, FairSpec | StopEndsAll; CommandEnds |
| breaker | 2 clients, 3 respawns in 4 ticks, 2 ticks to a grain | TypeOK; RefusesBursts: a refusal has as many respawns before it, and within the window unless two clients had the file open at once; SeesBursts |
| transport | 2 calls, 3 events, lists of up to 2 infos, queue of 2 | TypeOK; InStep: the decoder is always at the start of a frame; OwnResponse: a call returns its own answer; WholeLists; QueueIsSuffix: the queue holds the latest events, none missing between; NoLeftovers |
| ops | a user's breakpoint and 3 numbers for the operations', 2 frames of key_hold, Prompt, OpsFairSpec | FiredParked: a reported hit is one the CPU is parked on; FiredStays: and it stays so after the operation; HoldSteady: between two frames, from the second on, the CPU does not execute; OpEnds |
| frontends | 2 processes, one with a command of each shape and small tests, 1 pass of a loop | TypeOK; Undisturbed; OwnAnswer; TestsCleanUp; CommandEnds; over bounded inputs ChecksSuffice: which steps load without a key they index; FindsAll: the search of any window but all of memory; RefsAddUp; and RoutinesReturn: the frame `call_routine` pushes leads RTS to the trap and overwrites nothing else |
| daemon_finish, registry_twins, ops_once | 1 checkpoint, or 2 clients | counterexamples, section 5 |

**Bounds of the daemon.** Two checkpoint numbers let a client's breakpoint and `run_until`'s
own checkpoint share an address (`MaxShared = 2`) and be hit together; the
third lets one more be set in the same history. Numbers are never reused,
which bounds a behaviour to that many checkpoints but not its requests, tenures
or stops. `count` up to 3 gives a first, a middle and a last arrival.
`EventCap = 4` instead of 256 makes the queue overflow in every run. Nothing
else is bounded; a search is complete. `CHECK_DEADLOCK` is on everywhere: a
daemon that has ended stutters by `Terminated`.

**Bounds of the registry.** A process number is used again once no record, no
client, no daemon and no file refers to it, so the commands in a behaviour are
not bounded, only the processes that matter at one time. Two emulators let
a launch fail once and try again, a session start while the one before still dies, and two clients
start at the same time. When none is left a
launch ends as if the system could start no process. registry_serial's `TurnsSpec` keeps to the
behaviours in which a command begins when the one before
has ended (`Turns`) and no client is killed where it is `Exposed` (section 6); the processes still
do as they like. TypeOK of the registry is proved and has no run. registry_live has one
emulator and lets one client start it: liveness needs every interleaving of two stops with a
respawn, and a second session of the name adds none. With `Crashes` a client may
be killed at any step. In the breaker three respawns and a window of four ticks stand for five and
thirty seconds; four respawns between two launches let the oldest stamp
fall out of the list.

**Bounds of the transport.** Two calls are a call that times out and the one that could
take its answer for its own; three events overflow a queue of two; a list of two infos can be
left half way. Header bytes are two instead of twelve, enough to be cut inside.
`Spec` has no liveness and the deadline may pass at once, so a timeout needs no clock.
When the calls and events are spent everything still reads on, or polls.

**Bounds of the operations.** `CkIds` bounds the checkpoints of a whole behaviour (VICE does not
use a number again): the user's breakpoint and three for operations, so a call and a
hold of two frames fit behind one another. `Begin` starts an operation only while there are enough
numbers for it. `MaxCount` is 1: key_hold asks for one arrival at a time.

**Bounds of the frontends.** `Main` runs one script of each shape, where a shape is the number of
tenures, the finally verb, a loop of stages or of calls, and what is swallowed. The others of the
70 commands and tools differ only in the names of their calls: the theorem of section 6 covers
them all for Undisturbed, and `CommandsWellFormed`, which TLC evaluates in this run, checks its assumption
for each of them. The other process resumes (`continue`), the one thing
that could disturb. `MaxSlices = 1` gives each loop a pass that goes round and one that is late. The
bounded inputs of FindsAll are all memories of 7 bytes of two values, all windows in and beyond
them, of no address and of all of them included, and patterns that overlap themselves; those of RefsAddUp are labels with and without a
hyphen, equal, within a page of one another and further apart; those of RoutinesReturn are all
stack pointers, and traps at either end of memory and of a page. These three depend on no
state, and section 6 proves them for all inputs. ChecksSuffice depends on none either: it tries
every set of the keys that a kind of step has, with one or more that belong to another kind.

**Prompt.** In the daemon, with `Prompt = TRUE` a read returns every frame sent so far, and the
daemon does not accept a client with events unread; frames on a loopback
connection take microseconds, the polls wait 50 ms. With `FALSE` the stream is
cut anywhere and a poll may close before frames that were already sent.
NoFalsePark, RestoreSeesParks, the refinement and FiredStays are stated for `TRUE`;
FiredParked and HoldSteady, which ops checks with it too, are proved without. If a RESUMED stays unread past the 50 ms poll and a
client connects before it arrives, the idle daemon can keep a park that is no
more; if HIT and STOPPED of one stop fall on either side of a wait's slice,
the hit is consumed and the park is taken for noise. Both need a delay
of 50 ms or more between frames that VICE sends in one write, so they are recorded as
assumptions and not as findings.

In the registry `Prompt = TRUE` says that a daemon whose emulator is gone has ended
before the next emulator of the name is started (it notices within one `select`;
a launch takes seconds). OwnVice, Findable and Reachable are stated for it: the old
daemon's last act is to unlink the path, its successor's or not. registry_shared
and registry_live do without.

**Fairness.** `WF_vars(Daemon)`: the daemon's thread keeps going. Each of its
calls ends, since the socket to VICE has a 5 s timeout and every wait is
sliced; nothing is assumed of VICE (it need not hit a checkpoint or die) nor of
clients (they need not send or leave). In `readline` the daemon may stay for
ever with a client that keeps its connection open, and DeathEnds and
TenureEnds are stated accordingly.
In the registry a client's next step is weakly fair (every wait of `session.py`
has a deadline), a daemon that starts gives up after eight seconds and one whose
VICE is gone ends, and an emulator that was told to end does. Emulators need
not boot, and daemons may be killed for ever.
In OpsClient the operation goes on when its answer is there (`Operates`), its deadline
passes at some time, and the daemon's thread keeps going (`Hears \/ Works`); a
checkpoint need never be hit. In Frontends each process goes on and so does the
daemon; new commands, Ctrl-C, parks and the emulator's death may come or not.

## 5. Where the code and its documents differ

Three are runs that must fail on one property; PROJECT.json quotes the lines.

- **daemon_finish / FinishWaits.** `finish` right after `step` ends at the
  step's queued STOPPED, with the subroutine still running.
- **registry_twins / OnePet.** Two `ensure` commands both find nothing and both
  launch: two emulators of one name, of which the record can name one. By turns they do not
  (NamesAreUnique).
- **ops_once / WaitSeesParks.** A `break add --once` that fires while no client is attached is
  deleted by its hit; `wait --break` sees no flag in the list and resumes the parked machine.

Seven more are stated in the modules and are refuted when given to TLC; no run of its own keeps them.
Each takes a cfg that is here with its property exchanged.

- **PetDaemon.RemembersParks** (daemon_finish's cfg). A hit read together with the EXIT's
  response sits in the queue, where `select` cannot see it; the idle daemon
  answers `running` for a parked machine (daemon.py:66-68). IdleTruth is what still holds: the
  hit is in the queue and the next tenure's `_restore` finds it.
- **PetDaemon.AbandonedRuns** (daemon_finish's cfg). When its client vanishes, `run_until`
  deletes its checkpoint but not the hit already queued, and the session ends
  STOPPED instead of RUNNING (daemon.py:201-203).
- **SessionRegistry.WedgeRecovers** (registry_shared's cfg). `_save` truncates before it writes;
  after a kill in between, every command that looks a session up fails with an error of
  the JSON parser, `stop` and `start` included. Where no kill falls in
  between, and by turns, it holds (RecordsAreReadable).
- **SessionRegistry.StatusTells** (registry_serial's cfg, `Commands <- RunAndLoad`). `pet_load`
  does not call `record_loaded`, so `pet_status` names the program before.
- **Frontends.WaitLeavesRunning** (the frontends' cfg, `Repertoire <- StepAndWait`). A
  `wait --text` or `--mem` only releases, so on a stopped machine it times out and leaves it stopped;
  docs/cli.md:437 and the answer it prints (`"machine": "running"`, cli.py:1006, 1022) say running.
- **RespawnBreaker.RefusesOnlyBursts** (breaker's cfg; with `Limit = 5`, `Window = 3`, `MaxTime = 6` and
  `MaxRespawns = 6` it reads so). A client truncates the file and is about to write four
  stamps, two of them old; another reads it empty, truncates it too, and writes its one stamp over the
  first's four. What is left has new stamps before and behind the old ones. The window is judged from
  the first stamp to the last, and the next respawn, the fourth in the window, is refused as the fifth
  (session.py:242: "RESPAWN_LIMIT respawns all fall within RESPAWN_WINDOW seconds").
- **Frontends.FindsInAllMemory** (the frontends' cfg). `mem find` and `pet_mem_find` search all 64 KB unless told
  otherwise (docs/cli.md:234, `--length $10000`; ops.py:338, "every occurrence"). That many bytes cannot be counted in the 16 bits of the answer's length
  (protocol.py:130), so the data is lost and the search finds nothing. The tests' monitors return
  data of their own, so none shows it. What VICE does when asked is taken from this format: its
  source is not here.

Read and not modelled: `machine_state` "never raises" (ops.py:366-369), but the SessionError
of a respawn that fails passes its `except`; `vice_info` strips every trailing 0 and dot, so
version 3.10.0.0 reads "3.1" (monitor.py:203).

What the models also allow, without a run of its own: a checkpoint that fires between
`_restore`'s poll and its EXIT is resumed away (RestoreSeesParks bounds the
loss to hits after the poll); an `ensure` whose rival finishes between its
`attach` and its `launch` fails with "already running" (`Found`
in phase launch); `_spawn_daemon` takes the answer of any daemon at the
path for its child's; RecordsProgram does not hold for two concurrent `pet run`,
whose saves may come in the opposite order of their autostarts; two clients in
the respawn file at once lose a stamp, which is what `~raced` in SeesBursts
excludes. A `wait` or `assert` step that names `mem` or `reg` and no `equals` (nor, for an assert,
another comparison) loads and ends in a KeyError when it runs; testing.py:34-35 calls these
kinds lenient, and ChecksSuffice says that there is no other such step.

## 6. Proofs

For every value of the constants that satisfies the named assumptions, TLAPS proves
what follows. A theorem with "if" has that hypothesis besides.

| Theorem | States | If |
|---|---|---|
| PetDaemonProofs.TypeCorrect | `[]TypeOK` | |
| RunUntilIsExact | RunUntilExact | |
| PetDaemonStateProofs.WaitIsTruthful | WaitTruth | |
| IdlesTruly (HaltsKnown) | `[]IdleTruth` | `EventCap > 1` |
| ParksAreReal (ParksKnown) | `[]NoFalsePark` | `Prompt`, `EventCap > 1` |
| RestoreJudges | RestoreSeesParks | `Prompt`, `EventCap > 1` |
| SessionHeld | `Session!SInit /\ [][Session!SNext]_(Session!svars)` | `Prompt`, `EventCap > 1` |
| OpsClientProofs.OperationsAreRequests | `OpsSpec => Spec` | |
| WaitsHearNoOldHit | `[]HitsInv` | |
| ReportsAreParked | `[]FiredParked` | |
| HoldsAreSteady | `[]HoldSteady` | |
| ReportsStay | `[]FiredStays` | `Prompt`, `EventCap > 1` |
| SessionRegistryProofs.TypeCorrect | `[]TypeOK` | |
| FailedLaunchIsClean | FailedLaunchClean | |
| StopIsEffective | `[]StopStops` | |
| NothingIsLost | `[]Findable` | `Peaceful`; by turns |
| DaemonsAreOwn | `[]OwnVice` | `Peaceful`; by turns |
| DaemonsAreReached | `[]Reachable` | `Peaceful`; by turns |
| ProgramsAreRecorded | `[]RecordsProgram` | `Peaceful`; by turns |
| NamesAreUnique | `[]OnePet` | `Peaceful`; by turns |
| RecordsAreReadable | `[]WedgeRecovers` | `Peaceful`; by turns |
| RespawnBreakerProofs.TypeCorrect | `[]TypeOK` | |
| TripsOnlyOnBursts | RefusesBursts | |
| TripsOnBursts | SeesBursts | |
| MonitorTransportProofs.TransportTyped | `[]TypeOK` | |
| DecoderStaysInStep | `[]InStep` | |
| AnswersAreOwn | `[]OwnResponse` | |
| ListsAreWhole | `[]WholeLists` | |
| QueueKeepsLatest | `[]QueueIsSuffix` | |
| PendingIsSpent | `[]NoLeftovers` | |
| FrontendsProofs.FrontendsTyped | `[]TypeOK` | |
| InspectionsDisturbNothing | Undisturbed | |
| AnswersAreOwn | OwnAnswer | |
| TestsLeaveNoEmulator | TestsCleanUp | |
| ChecksAreEnough | `[]ChecksSuffice` | |
| SearchFindsAll (MachineDataProofs.SearchIsRight) | `[]FindsAll` | |
| ReferencesHold (ReferencesAddUp, SymbolsReadBack) | `[]RefsAddUp` | |
| RoutinesDoReturn (RoutineReturnsToTrap, FrameTakesTwoBytes) | `[]RoutinesReturn` | |

and of the data, which no run states: `WindowIsClamped` (`find_bytes` reads nothing past the last
address) and `NearestIsNearest`.

**The assumptions.**

- Daemon: `NoCk` is no checkpoint number; `EventCap`, `MaxShared` positive; `Prompt` a Boolean;
  `MaxCount` a natural number. `EventCap > 1` is a hypothesis where a hit and its STOPPED must
  fit in the queue together: with room for one frame the STOPPED drops the hit. The code has
  256 (monitor.py:66).
- `Prompt`: section 4. Without it NoFalsePark, RestoreSeesParks, SNext and FiredStays are false,
  each by a frame that arrives after the poll that should have read it. Nothing else needs it.
- Operations: the user's breakpoint is a checkpoint number; a hold has at least one frame.
- Registry: `None` is no process and no program, `Attempts` positive, each client's commands are
  commands. `Peaceful`: there is a client, `Prompt` as in section 4, and `Spare`, a daemon process can
  be started beside the one whose socket file is left at the path. "By turns": the theorem is of
  `Spec /\ []Turns /\ KillsDoNoHarm`. `Turns`: the commands of different clients do not overlap,
  any number of clients giving them in any order. `KillsDoNoHarm`: no client is killed where it is
  `Exposed`, that is after its launch has started an emulator and before the record is written,
  between starting a daemon and saving its pid, or in the middle of a save; anywhere else,
  in a lookup, in the use of a session, in a stop, it may be. All of this is needed: two clients that
  launch at once refute OnePet (registry_twins) and Findable, a kill where a client is exposed
  leaves an emulator that no record names, a daemon at no recorded pid or a record that names nothing, and
  a launch that can start no daemon leaves its emulator behind: Popen's OSError is not caught
  (session.py:356, a hazard without a property).
- Breaker: limit and grain are positive, the window a natural number (`BreakerAssumptions`).
- Transport: the header has a size, the queue room for a frame, and a response's kind is
  neither "info" nor "event", which the types of protocol.py keep apart.
- Frontends: the scripts are `WellFormed`: loops and bodies lead to places inside them, and once
  a body's deadline has passed its last ways go forward (`EndsFrom`), so that a late body ends.
  TestsLeaveNoEmulator also uses `Stops`: a test's last two stages are the quiet quit and
  the signals, as `Session.stop` has them in the `finally` of `run_test`. The run frontends
  evaluates both for every command and tool.

- Data: patterns are not empty sequences of bytes (`mem find` requires a value, the tool's text asks
  for "one or more" and does not refuse none), limits natural numbers, byte values and traps in their
  ranges. A label is a text without "+"
  that does not end in a number of its own: `parse_ref` would read a label `a-1` as one less than
  `a` where `a` is a label too. Its hyphens are otherwise free. FindsAll itself excludes the window of
  all of memory, which FindsInAllMemory is about (section 5), and of a window of no address says only that what is
  answered, if anything is, is right.

**The daemon's invariant.** RunUntilExact is not inductive. `IndInv` adds
`WireInv` (a CPU that executes is parked on nothing and has announced only
RESUMED; a STOPPED on the wire is the last frame there), `ControlInv` (the
wait's memory does not outlive the call; an EXIT's continuation fits its
origin) and `RunInv`. The last says, inside the loop of `_run_until`: the
arrivals are `i`, or `i + 1` while the CPU is parked on the checkpoint; a hit of
it that is still on the wire, queued or remembered means the CPU is parked on
it; and a STOPPED in the queue is the last thing VICE said. So an event that
counts an arrival and the durable flag that counts one speak of the same
park, and `resume` forgets both. Without the last conjunct a STOPPED read with
more frames behind it could count an arrival already resumed from.

**WaitTruth** adds `WaitInv`: after a command all is read and the CPU is
halted, so the client's resume leaves an empty queue, and from then on a queued
STOPPED is VICE's last word.

**What the idle daemon knows** is not inductive either: the daemon forgets a halt in
the middle of its work and learns it again at the end. `HaltInv` says of every place of its
thread what makes up for a CPU that is halted: the daemon says STOPPED; or it has yet to send
the EXIT that undoes the halt; or the queue, or the wire, still ends in the frames of that stop,
the hit among the last `EventCap` (`EventCap > 1`). IdleTruth is its case for the idle place.
`ParkInv` is the converse under `Prompt`: where the daemon says STOPPED with all read, nothing has
resumed the CPU. `TenureInv` says whom the thread is serving, which is what the mapping to
SessionMachine reads; SessionHeld then goes through the actions, each a step of SessionMachine or
a stutter. The fairness that ImplementsSession also asserts stays with TLC.

**The operations' invariants.** OperationsAreRequests shows that every step of an operation is a step
of the daemon, conjoined: whatever is proved of the daemon holds under the operations. `HitsInv` says
that from the client's resume to the end of its wait every hit on the wire, queued or remembered
is one the CPU is parked on: an old event cannot be taken for the stop. `OpsInv` ties the
operation's place to the daemon's (`Attends`: while the operation has a step to take, the daemon serves its connection, in the wait it asked for or in readline),
keeps its own trap alive (`TrapInv`), says from the report on that the CPU is halted on what was
reported (`FiredInv`), and between two frames of key_hold that it does not execute (`HoldInv`).
`StayInv` follows the reported stop through the end of the tenure into the idle daemon.
The proof found a fault of the model: an operation that had left could be given the answer of
its last wait and go on (`Hears`); it has been mended.

**Layout.** The first part of PetDaemonProofs has one lemma per emulator action and per
primitive (it keeps `VInv`; what it does to frames of one checkpoint and to
STOPPEDs), on top of lemmas on cutting, joining and bounding sequences.
"Contains no such frame" is stated as membership of `Seq` over the other
frames, which every sequence operation preserves. Its second part has a lemma per
group of actions with one case per action, then `NextKeeps`, `Inductive` and
the theorems; PetDaemonStateProofs and OpsClientProofs follow it. TLC checked `IndInv` and `HaltInv`
on the instance of daemon_segmented, `ParkInv` and `TenureInv` on daemon_prompt's, and `OpsInv` and
`StayInv` on that of ops, the first also with `Prompt = FALSE`, before they were proved.

**The registry's invariant.** Neither FailedLaunchClean nor StopStops follows
from the step that ends the command: between two steps of a client anything
can happen to its processes. `ClientInv(c)` says what c may rely on: all it has
launched is gone, except the emulator it is about to hand over (`Keeps`); from
`killdaemon` on its emulator is gone or dying; only a launch passes through
`spawn` and `await`, and it has no daemon of its own yet. The rely is `Gentle`: no
step revives an emulator whose number a client knows, and one told to end does
nothing else. Each action has a lemma `...IsSound`: it keeps the types,
changes only its own client, is Gentle, and re-establishes that client's
`ClientInv`; `Others` gives it to the rest. `Unfailing` shows that only a failed
attempt and a failed first ping end a command with "failed". TLC checked
`IndInv` on the instance of registry_serial first.

**Commands by turns.** Findable, OwnVice, Reachable, RecordsProgram and OnePet need one invariant,
`Serial(c)`, because each command leaves to the next what it found. c is the client that gave the last
command, or is giving it: `FileInv` (the record is whole but
in a save), `SessionInv` (outside a launch the client's Session object is what is recorded, up to
what it is about to save), `EmulatorInv` (no emulator runs but the session's, `Session(c)` being the
record between commands and the Session object within one), `DaemonInv` (no daemon runs but
`Running(c)`, for the session's emulator and bound at the path; a daemon whose emulator and record are
both gone may be left, until the next launch waits for it, which is what `Prompt` says), and
`ProgramInv`. There is a lemma for each action, with a step for each of the five (`ContinueSerial`).
Between commands `Serial` speaks of files and processes alone, so the Begin of another client b
takes `Serial(c)` over as `Serial(b)` (`BeginSerial`), and a client that waits its turn does nothing
(`IdleWaits`). `OneWorld` says that some c has `Serial(c)` and all others are `AtRest`; `[]Turns` is
what keeps the second at rest while the first goes on. A client that is killed leaves its
processes without a Session object, so `Serial` holds again only where the record says of them what the object
said (`KilledSerial`, whose guard is `~Exposed`); and a stop killed after its quit leaves a daemon
that is still to end, which the next command takes for dead and replaces (`Quits`: the new one waits for VICE's
slot until the old one is gone). TLC checked `OneWorld` on the instance of
registry_serial, kills included, first. RecordsAreReadable adds that only a kill in a save leaves a truncated
record, so no lookup ends as unreadable (`AllReadable`).

**The breaker's invariants.** `TypeInv` bounds the list in a client's hands by `Limit`. For
RefusesBursts, `LengthInv`: no list is longer than the respawns there were, whatever is left over
of another's text; `ClockInv`: the respawns are in order; and `BurstInv`: as long as no two clients
have had the file open at once (`~overlaid`), it is empty while one has, and every stamp in
it or in a client's hands is a respawn that happened, each at most once and in their order
(`Sourced`), whoever's write came last. For SeesBursts, `AloneInv`:
while no two clients have been in the file at once, the file holds the last `Limit` respawns
(`Echo`) when no client is in it, and the list of the one that is in it holds them (`OwnEcho`).

**The transport's invariants.** For OwnResponse: every byte and frame in `inbox`, `wire`, `buf`
and `pending` carries an id that is 0 or the number of the call it answers, and the call under way
goes by its own number (`IInv`). For InStep: `buf \o wire` is a sequence of whole frames
(`WholeFrames`); VICE appends whole frames, a chunk moves the boundary between `buf` and `wire` and nothing
else, and the decoder removes the first frame. For WholeLists, QueueIsSuffix and NoLeftovers, `LInv`: what
VICE has sent, from `pending` through the bytes to `inbox`, is one line in which the infos of each list
stand in order before their response and the events carry consecutive numbers. These arguments are about
concatenations and cuts, so the lemmas are about `SubSeq` and `\o`.

**The frontends' invariant.** `IInv` says that whatever is queued on the connection is a call of
the stage the connection was opened for, even when the process has left (`Queued`), that a process
which is calling on the connection is at that stage (`Held`), and that a job stays inside its script
(`Jobs`). The control flow (`Enter`, `Onward`, `Late`, `Raised`, `After`) has a lemma each that it
does; two lemmas then cover all actions, `Settles` for a process that stops calling and `Stays` for
one that goes on at its stage. Only Serve sets a stopped machine running, and only for
`resume` or `run_until` (`OnlyRunnersRun`); `ObservingIsCalm` goes through the inspections one by one
and shows that none has such a call, its finally verb included. For OwnAnswer, `TalkInv`: at most
two calls are on the connection, as requests or as answers, the body's last and the finally verb's, none
with a number above the client's own, and under the number the client waits for only the call it waits
for.

**The test runner's invariant.** `StopInv` adds what holds of a test once it quits: a connection
opened to quit carries that one request and no answer, because the daemon is gone before it could
send one (`QuitsAlone`); so at its quit a test's call can only fail with an error of the socket,
or of the session, which `Session.stop` swallows, and a process at its signals calls nothing (`Ends`). Before the quit every
way out of a stage, an answer, an error, a timeout or an interrupt, leads to another stage of the
script (the lemmas `...GoesOn`), hence in the end to the quit; `OnlyKillEnds` concludes that the
step that ends a test past its launch is its last signal, which leaves no emulator.

**The data.** The library's induction and recursion theorems take an operator as a parameter, which
the provers cannot be given; MachineDataProofs does without, with a set or a function in its place.
`LeastNumber` (a set of naturals that is not empty has a least member) and `Smallest` (elements with
a size have a smallest among them) are the induction. `Recursion` is the recursion: a function
whose value at `t` depends on its values at elements of a smaller size exists, so that the CHOOSE
behind a recursive definition does what its text says; two solutions on the smaller elements agree
(`SolutionsAgree`), and the one on all elements below `t` can be extended to `t`
(`SolutionsExist`). For `find_bytes` the size is what is left of the data behind the next match
(`ScanUnfolds`), and what is read of a window short of all of memory is the window
(`FindReads`). The loop's invariant is `Kept`: the matches kept are the occurrences before the
next one, in order, no more than the limit. For `parse_ref` the size is the length of the text
(`ParseUnfolds`): what precedes a separator is shorter.

## 7. Model-checked only, and not modelled

Every invariant and every action property that a passing run checks is a theorem for all values of
the constants, the hypotheses of section 6 apart. Checked and not proved: all liveness, and the
fairness that ImplementsSession asserts, since ENABLED and fairness are out of the prover's reach;
and the counterexamples of section 5.

Not in the daemon's model: calls that time out while VICE lives (a call ends
with its response or with the connection's death; what a late answer may do to later calls
is MonitorTransport's subject, what it does to `state` is nobody's yet); memory, registers, display;
conditions and ignore counts of checkpoints (a hit of a conditional checkpoint is
a hit).

Not in the models of the operations and commands: `_run_until_client`, the loop for a daemon too
old to know `run_until`, and direct mode without a daemon (PET_TOOLS_NO_DAEMON); `staleness`, which
compares file times and decides nothing; that a test's finally raises its error again, and a second
Ctrl-C in it; commands that only work on files (`build`, `disk` other than boot, `rom` listings);
parsing of arguments and of bodies, and what is printed.

Not in the data's model: numbers' notations, `@row,col` references, case folding of labels; the
screen codes and the disassembler, which are tables; of the frames' bodies only the widths that
`memory_read` meets. The arguments of `mask` and `between` steps are not followed into, nor is an
argument that is no mapping.

Not in the registry's model: the mode without a daemon;
several names and the ambiguity errors of `attach`; zombies (a client is one
command, its children are inherited when it ends); two emulators that were given
the same port; the relation between the launch's 20 s, the daemon's 8 s and the
ping's 10 s; the labels path as data (two concurrent saves lose it as they lose
the program).

Not modelled at all: the wrappers of external tools (`machines`, `disk`, `build`, `basic`,
`packaging`), which have no state of their own, and the demo programs, which run on the emulated machine.
