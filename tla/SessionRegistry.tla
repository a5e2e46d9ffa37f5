--------------------------- MODULE SessionRegistry ---------------------------
(***************************************************************************)
(* The session registry, src/src/petlib/session.py, for one session name:  *)
(* client processes (pet commands, MCP tools) that start, look up, use and *)
(* stop the session through a JSON record and a Unix socket path, without  *)
(* a lock, and the emulator and daemon processes they leave behind.        *)
(*                                                                         *)
(* A step is one system call another process can see, or one wait.  A      *)
(* process number is used again once nothing refers to it.  Left out: the  *)
(* mode without a daemon (PET_TOOLS_NO_DAEMON), zombies (a client is one   *)
(* command and its children are inherited when it ends), two emulators     *)
(* given the same port, and the wording of errors.                         *)
(***************************************************************************)
EXTENDS Naturals, FiniteSets

CONSTANTS
    Client,     \* client processes
    Commands,   \* what each of them may be asked to do
    Emu,        \* emulator processes; each owns its monitor port
    Daemon,     \* daemon processes
    Prog,       \* programs to load
    None,       \* no process, no program
    Attempts,   \* PET_TOOLS_LAUNCH_ATTEMPTS
    Crashes,    \* may a client be killed in the middle of a command?
    Prompt      \* has a daemon whose emulator died ended before the next launch?

Ops == {"start", "ensure", "stop", "run", "load"}

ASSUME RegistryAssumptions ==
    /\ Commands \in [Client -> SUBSET Ops]
    /\ None \notin Emu \cup Daemon \cup Prog
    /\ Attempts \in Nat \ {0}
    /\ Crashes \in BOOLEAN
    /\ Prompt \in BOOLEAN

VARIABLES
    emu,        \* each emulator: "gone", "booting", "up", or "dying" (told to quit)
    program,    \* the program each emulator runs
    dmn,        \* each daemon: "gone", "starting", "serving", "quitting"
    port,       \* --vice-port of each daemon
    path,       \* the daemon bound to the socket path; dead: a stale file
    file,       \* the record file: "absent", "torn" (truncated), "whole"
    rec,        \* its contents
    writers,    \* clients whose open handle is still the file of that name
    me          \* each client: where it is and what it knows

vars == <<emu, program, dmn, port, path, file, rec, writers, me>>

world   == <<emu, program>>
daemons == <<dmn, port>>
record  == <<file, rec, writers>>

Records  == [pid : Emu \cup {None}, daemon : Daemon \cup {None},
             prog : Prog \cup {None}]
NoRecord == [pid |-> None, daemon |-> None, prog |-> None]

Pcs == {"idle", "glob", "read", "prune", "spawn", "await", "respawn", "ping",
        "save", "write", "monitor", "reconnect", "use", "wait", "sigterm",
        "killdaemon", "unlinksock", "unlinkrec"}

Clients ==
    [pc     : Pcs,
     phase  : {"attach", "launch", "monitor", "labels", "loaded"},
                                        \* whose _load_all or _save it is in
     op     : Ops \cup {"none"},        \* the command
     arg    : Prog \cup {None},         \* the program it was given
     sess   : Records,                  \* its Session object
     kids   : SUBSET Emu,               \* the emulators it has launched
     helper : Daemon \cup {None},       \* the daemon it has launched
     conn   : Daemon \cup {None},       \* the daemon it is connected to
     answer : {"none", "ok", "nosession", "running", "failed", "error",
               "noprocess", "unreadable", "killed"}]

Idle == [pc |-> "idle", phase |-> "attach", op |-> "none", arg |-> None,
         sess |-> NoRecord, kids |-> {}, helper |-> None, conn |-> None,
         answer |-> "none"]

TypeOK ==
    /\ emu \in [Emu -> {"gone", "booting", "up", "dying"}]
    /\ program \in [Emu -> Prog \cup {None}]
    /\ dmn \in [Daemon -> {"gone", "starting", "serving", "quitting"}]
    /\ port \in [Daemon -> Emu \cup {None}]
    /\ path \in Daemon \cup {None}
    /\ file \in {"absent", "torn", "whole"}
    /\ rec \in Records
    /\ writers \in SUBSET Client
    /\ me \in [Client -> Clients]

Init ==
    /\ emu = [e \in Emu |-> "gone"]
    /\ program = [e \in Emu |-> None]
    /\ dmn = [d \in Daemon |-> "gone"]
    /\ port = [d \in Daemon |-> None]
    /\ path = None
    /\ file = "absent"
    /\ rec = NoRecord
    /\ writers = {}
    /\ me = [c \in Client |-> Idle]

-----------------------------------------------------------------------------
(* Emulators and daemons, by themselves.                                   *)

Alive(e) == e # None /\ emu[e] # "gone"                     \* _pid_alive

\* A number the system may give to a new process.
FreshEmu(e) ==
    /\ emu[e] = "gone" /\ rec.pid # e
    /\ \A c \in Client : me[c].sess.pid # e /\ e \notin me[c].kids
    /\ \A d \in Daemon : port[d] # e
FreshDaemon(d) ==
    /\ dmn[d] = "gone" /\ path # d /\ rec.daemon # d
    /\ \A c \in Client : me[c].sess.daemon # d /\ me[c].helper # d /\ me[c].conn # d

KillEmulatorNot(e) == UNCHANGED <<emu, program>>

\* The emulator ends; _kill_proc waits until it has.
KillEmulator(e) ==
    /\ emu' = [emu EXCEPT ![e] = "gone"]
    /\ program' = [program EXCEPT ![e] = None]

\* A daemon that ends, and closes its connection to VICE.
EndDaemon(d) ==
    /\ dmn' = [dmn EXCEPT ![d] = "gone"]
    /\ port' = [port EXCEPT ![d] = None]

Boots(e) ==
    /\ emu[e] = "booting"
    /\ emu' = [emu EXCEPT ![e] = "up"]
    /\ UNCHANGED <<program, daemons, path, record, me>>

Dies(e) ==
    /\ Alive(e)
    /\ KillEmulator(e)
    /\ UNCHANGED <<daemons, path, record, me>>

BindBeside(d) == path' = IF path = None THEN d ELSE path

\* main unlinks whatever socket is at the path and binds its own.
Bind(d) == path' = d

(* _connect_vice gets VICE's one monitor slot; main binds the socket and   *)
(* serves.                                                                 *)
DaemonUp(d) ==
    /\ dmn[d] = "starting"
    /\ emu[port[d]] \in {"up", "dying"}
    /\ \A o \in Daemon : port[o] = port[d] => dmn[o] = "starting"
    /\ dmn' = [dmn EXCEPT ![d] = "serving"]
    /\ Bind(d)
    /\ UNCHANGED <<world, port, record, me>>

(* It gives up on VICE after eight seconds, is killed, or fails: whatever  *)
(* socket file there is stays.                                             *)
DaemonGivesUp(d) ==
    /\ dmn[d] = "starting"
    /\ EndDaemon(d)
    /\ UNCHANGED <<world, path, record, me>>

DaemonCrashes(d) ==
    /\ dmn[d] \in {"serving", "quitting"}
    /\ EndDaemon(d)
    /\ UNCHANGED <<world, path, record, me>>

EndedByQuit(d) == dmn[d] = "quitting"

Ended(d) == dmn[d] = "quitting" \/ (dmn[d] = "serving" /\ ~Alive(port[d]))

(* serve_forever returns, after a quit or because VICE is gone; main's     *)
(* finally unlinks the path, whoever's socket it is by now.                *)
DaemonExits(d) ==
    /\ Ended(d)
    /\ EndDaemon(d)
    /\ path' = None
    /\ UNCHANGED <<world, record, me>>

-----------------------------------------------------------------------------
(* Clients.                                                                *)

At(c, place) == me[c].pc = place
Becomes(c, r) == me' = [me EXCEPT ![c] = r]
Goto(c, place) == Becomes(c, [me[c] EXCEPT !.pc = place])
Enter(c, place, ph) == Becomes(c, [me[c] EXCEPT !.pc = place, !.phase = ph])

\* The command ends, and its process with it.
End(c, why) == Becomes(c, [Idle EXCEPT !.op = me[c].op, !.answer = why])

\* stop() swallows what goes wrong while it talks to the daemon.
Abort(c, why) ==
    IF me[c].op = "stop" THEN Becomes(c, [me[c] EXCEPT !.pc = "wait", !.conn = None])
    ELSE End(c, why)

\* A client finds the daemon serving another one: its hello times out.
Reaches(c) ==
    /\ path # None /\ dmn[path] = "serving"
    /\ \A o \in Client \ {c} : me[o].conn # path

(* A command begins.  "run" is pet run, pet load and pet_run; "load" is    *)
(* the MCP tool pet_load.                                                  *)
Begin(c) ==
    /\ At(c, "idle")
    /\ \E op \in Commands[c], p \in Prog \cup {None} :
        /\ (p # None) <=> (op \in {"run", "load"})
        /\ Becomes(c, [Idle EXCEPT
                !.pc = "glob", !.op = op, !.arg = p,
                !.phase = IF op = "start" THEN "launch" ELSE "attach"])
    /\ UNCHANGED <<world, daemons, path, record>>

\* _load_all returns an empty list to attach or to launch.
NothingFound(c) ==
    IF me[c].phase = "launch" THEN Goto(c, "spawn")
    ELSE IF me[c].op = "ensure" THEN Enter(c, "glob", "launch")
    ELSE End(c, "nosession")

Glob(c) ==
    /\ At(c, "glob")
    /\ IF file = "absent" THEN NothingFound(c) ELSE Goto(c, "read")
    /\ UNCHANGED <<world, daemons, path, record>>

FoundAnyway(c) ==
    IF me[c].phase = "launch" THEN Goto(c, "spawn")
    ELSE IF me[c].op = "ensure" THEN End(c, "ok")
    ELSE Becomes(c, [me[c] EXCEPT !.sess = rec, !.pc = "monitor"])

\* attach returns a session, or launch refuses to start a second one.
Found(c) ==
    IF me[c].phase = "launch" THEN End(c, "running")
    ELSE IF me[c].op = "ensure" THEN End(c, "ok")
    ELSE Becomes(c, [me[c] EXCEPT !.sess = rec, !.pc = "monitor"])

(* The file glob has listed is read and its pid looked up.  A file that is *)
(* gone or torn by now raises what no caller expects.                      *)
Read(c) ==
    /\ At(c, "read")
    /\ IF file # "whole" THEN End(c, "unreadable")
       ELSE IF Alive(rec.pid) THEN Found(c)
       ELSE Goto(c, "prune")
    /\ UNCHANGED <<world, daemons, path, record>>

UnlinkFile ==
    /\ file' = "absent"
    /\ rec' = NoRecord
    /\ writers' = {}

(* The file of that name is removed, which need not be the one read.       *)
Prune(c) ==
    /\ At(c, "prune")
    /\ UnlinkFile
    /\ NothingFound(c)
    /\ UNCHANGED <<world, daemons, path>>

-----------------------------------------------------------------------------
(* launch.                                                                 *)

DaemonsSettled ==
    \A d \in Daemon : dmn[d] \in {"serving", "quitting"} => Alive(port[d])

Spawn(c) ==
    /\ At(c, "spawn")
    /\ Prompt => DaemonsSettled
    /\ \E e \in Emu :
        /\ FreshEmu(e)
        /\ emu' = [emu EXCEPT ![e] = "booting"]
        /\ Becomes(c, [me[c] EXCEPT !.pc = "await", !.kids = @ \cup {e},
                !.sess = [NoRecord EXCEPT !.pid = e]])
    /\ UNCHANGED <<program, daemons, path, record>>

(* No process can be started: what Popen raises is caught only by stop.    *)
PopenFails(c) ==
    /\ \/ At(c, "spawn") /\ \A e \in Emu : ~FreshEmu(e)
       \/ At(c, "respawn") /\ \A d \in Daemon : ~FreshDaemon(d)
    /\ Abort(c, "noprocess")
    /\ UNCHANGED <<world, daemons, path, record>>

MayRetry(c) == Cardinality(me[c].kids) < Attempts

(* The emulator died, or its monitor did not answer before the deadline.   *)
AttemptFails(c) ==
    /\ At(c, "await")
    /\ KillEmulator(me[c].sess.pid)
    /\ IF MayRetry(c) THEN Goto(c, "spawn") ELSE End(c, "failed")
    /\ UNCHANGED <<daemons, path, record>>

MonitorAnswers(c) ==
    /\ At(c, "await")
    /\ emu[me[c].sess.pid] = "up"
    /\ Goto(c, "respawn")
    /\ UNCHANGED <<world, daemons, path, record>>

-----------------------------------------------------------------------------
(* _spawn_daemon, for launch and for a command that finds the daemon down. *)

(* The circuit breaker stands before a respawn (module RespawnBreaker).    *)
BreakerTrips(c) ==
    /\ At(c, "respawn") /\ me[c].phase = "monitor"
    /\ Abort(c, "error")
    /\ UNCHANGED <<world, daemons, path, record>>

SpawnDaemon(c) ==
    /\ At(c, "respawn")
    /\ \E d \in Daemon :
        /\ FreshDaemon(d)
        /\ dmn' = [dmn EXCEPT ![d] = "starting"]
        /\ port' = [port EXCEPT ![d] = me[c].sess.pid]
        /\ Becomes(c, [me[c] EXCEPT !.pc = "ping", !.helper = d])
    /\ UNCHANGED <<world, path, record>>

(* Any daemon at the path will do: nothing compares it with the child.     *)
PingAnswered(c) ==
    /\ At(c, "ping")
    /\ Reaches(c) /\ Alive(port[path])
    /\ Becomes(c, [me[c] EXCEPT !.pc = "save",
            !.sess = [me[c].sess EXCEPT !.daemon = me[c].helper]])
    /\ UNCHANGED <<world, daemons, path, record>>

(* The child has ended, or ten seconds have passed.                        *)
PingFails(c) ==
    /\ At(c, "ping")
    /\ EndDaemon(me[c].helper)
    /\ IF me[c].phase = "launch"
       THEN KillEmulator(me[c].sess.pid) /\ End(c, "failed")
       ELSE UNCHANGED world /\ Abort(c, "error")
    /\ UNCHANGED <<path, record>>

-----------------------------------------------------------------------------
(* _save: open truncates, write replaces.  A handle opened before the file *)
(* was unlinked writes to no name.                                         *)

SaveOpen(c) ==
    /\ At(c, "save")
    /\ file' = "torn"
    /\ rec' = NoRecord
    /\ writers' = writers \cup {c}
    /\ Goto(c, "write")
    /\ UNCHANGED <<world, daemons, path>>

\* Over another writer's text, a shorter one leaves the tail of the longer.
Written(c) ==
    \/ c \notin writers /\ UNCHANGED <<file, rec>>
    \/ c \in writers /\ file' = "whole" /\ rec' = me[c].sess
    \/ c \in writers /\ file = "whole" /\ file' = "torn" /\ rec' = NoRecord

UnnotedSave(c) ==
    Becomes(c, [me[c] EXCEPT !.pc = "save", !.phase = "loaded", !.conn = None])

\* record_loaded notes the program, then saves.
RecordLoaded(c) ==
    Becomes(c, [me[c] EXCEPT !.pc = "save", !.phase = "loaded", !.conn = None,
        !.sess = [me[c].sess EXCEPT !.prog = me[c].arg]])

SaveWrite(c) ==
    /\ At(c, "write")
    /\ Written(c)
    /\ writers' = writers \ {c}
    /\ IF me[c].phase = "monitor" THEN Goto(c, "reconnect")
       ELSE IF me[c].phase = "labels" /\ me[c].op = "run" THEN RecordLoaded(c)
       ELSE End(c, "ok")
    /\ UNCHANGED <<world, daemons, path>>

-----------------------------------------------------------------------------
(* Session.monitor and the commands that use it.                           *)

Connect(c) ==
    /\ At(c, "monitor") \/ At(c, "reconnect")
    /\ Reaches(c)
    /\ Becomes(c, [me[c] EXCEPT !.pc = "use", !.conn = path])
    /\ UNCHANGED <<world, daemons, path, record>>

RetryConnect(c) ==
    /\ ~Reaches(c)
    /\ At(c, "monitor") \/ At(c, "reconnect")
    /\ Enter(c, "respawn", "monitor")
    /\ UNCHANGED <<world, daemons, path, record>>

(* No daemon at the path, or one that is busy: it is taken for dead.       *)
ConnectFails(c) ==
    /\ ~Reaches(c)
    /\ \/ At(c, "monitor") /\ Enter(c, "respawn", "monitor")
       \/ At(c, "reconnect") /\ Abort(c, "error")
    /\ UNCHANGED <<world, daemons, path, record>>

\* What the client asks of the emulator its daemon serves.
Effect(c) ==
    LET d == me[c].conn  e == port[d] IN
    /\ dmn[d] = "serving" /\ emu[e] = "up"
    /\ IF me[c].op = "stop"
       THEN /\ emu' = [emu EXCEPT ![e] = "dying"]
            /\ dmn' = [dmn EXCEPT ![d] = "quitting"]
            /\ UNCHANGED program
       ELSE program' = [program EXCEPT ![e] = me[c].arg] /\ UNCHANGED <<emu, dmn>>

(* After autostart set_labels_path saves if there are symbols, and all but *)
(* pet_load then note the program.                                         *)
Use(c) ==
    /\ At(c, "use")
    /\ Effect(c)
    /\ \/ me[c].op = "stop" /\ Abort(c, "ok")
       \/ me[c].op \in {"run", "load"} /\
             Becomes(c, [me[c] EXCEPT !.pc = "save", !.phase = "labels", !.conn = None])
       \/ me[c].op = "run" /\ RecordLoaded(c)
       \/ me[c].op = "load" /\ End(c, "ok")
    /\ UNCHANGED <<port, path, record>>

(* The call fails, or its answer is lost after it has taken effect.        *)
UseFails(c) ==
    /\ At(c, "use")
    /\ Effect(c) \/ UNCHANGED <<world, dmn>>
    /\ Abort(c, "error")
    /\ UNCHANGED <<port, path, record>>

-----------------------------------------------------------------------------
(* The rest of Session.stop.                                               *)

(* The emulator is gone, before stop talks to the daemon or in the three   *)
(* seconds after; or it is still there.                                    *)
StopWaits(c) ==
    /\ \/ At(c, "wait")
       \/ At(c, "monitor") /\ me[c].op = "stop" /\ ~Alive(me[c].sess.pid)
    /\ Goto(c, IF Alive(me[c].sess.pid) THEN "sigterm" ELSE "killdaemon")
    /\ UNCHANGED <<world, daemons, path, record>>

NoSignal(e) == UNCHANGED emu

Signal(e) == emu' = [emu EXCEPT ![e] = "dying"]

(* os.kill raises when the emulator has died since it was looked at.       *)
Terminate(c) ==
    /\ At(c, "sigterm")
    /\ IF Alive(me[c].sess.pid)
       THEN Signal(me[c].sess.pid) /\ Goto(c, "killdaemon")
       ELSE UNCHANGED emu /\ End(c, "noprocess")
    /\ UNCHANGED <<program, daemons, path, record>>

(* The daemon this client knows of; another may have been spawned since.   *)
KillDaemon(c) ==
    /\ At(c, "killdaemon")
    /\ IF me[c].sess.daemon = None THEN UNCHANGED daemons
       ELSE EndDaemon(me[c].sess.daemon)
    /\ Goto(c, "unlinksock")
    /\ UNCHANGED <<world, path, record>>

UnlinkSocket(c) ==
    /\ At(c, "unlinksock")
    /\ path' = None
    /\ Goto(c, "unlinkrec")
    /\ UNCHANGED <<world, daemons, record>>

UnlinkRecord(c) ==
    /\ At(c, "unlinkrec")
    /\ UnlinkFile
    /\ End(c, "ok")
    /\ UNCHANGED <<world, daemons, path>>

(* The client is killed, interrupted or loses its machine.                 *)
Killed(c) ==
    /\ Crashes
    /\ ~At(c, "idle")
    /\ End(c, "killed")
    /\ writers' = writers \ {c}
    /\ UNCHANGED <<world, daemons, path, file, rec>>

-----------------------------------------------------------------------------
\* What a client does once its command has begun.
Continue(c) ==
    \/ Glob(c) \/ Read(c) \/ Prune(c)
    \/ Spawn(c) \/ PopenFails(c) \/ AttemptFails(c) \/ MonitorAnswers(c)
    \/ BreakerTrips(c) \/ SpawnDaemon(c) \/ PingAnswered(c) \/ PingFails(c)
    \/ SaveOpen(c) \/ SaveWrite(c)
    \/ Connect(c) \/ ConnectFails(c) \/ Use(c) \/ UseFails(c)
    \/ StopWaits(c) \/ Terminate(c)
    \/ KillDaemon(c) \/ UnlinkSocket(c) \/ UnlinkRecord(c)

DaemonStep(d) == DaemonUp(d) \/ DaemonGivesUp(d) \/ DaemonExits(d)

Next ==
    \/ \E c \in Client : Begin(c) \/ Continue(c) \/ Killed(c)
    \/ \E d \in Daemon : DaemonStep(d) \/ DaemonCrashes(d)
    \/ \E e \in Emu : Boots(e) \/ Dies(e)

Spec == Init /\ [][Next]_vars

(* Every wait of a client has a deadline; a daemon's start gives up after  *)
(* eight seconds and its loop notices that VICE is gone; an emulator that  *)
(* was told to end does.                                                   *)
FairSpec ==
    /\ Spec
    /\ \A c \in Client : WF_vars(Continue(c))
    /\ \A d \in Daemon : WF_vars(DaemonStep(d))
    /\ \A e \in Emu : WF_vars(emu[e] = "dying" /\ Dies(e))

-----------------------------------------------------------------------------
(* Properties.                                                             *)

Ends(c, why) == ~At(c, "idle") /\ me'[c].pc = "idle" /\ me'[c].answer = why

FailsClean(c) == Ends(c, "failed") =>
    /\ \A e \in me[c].kids : emu'[e] = "gone"
    /\ me[c].helper # None => dmn'[me[c].helper] = "gone"

(* A launch that fails leaves no emulator and no daemon of its own, however*)
(* many attempts it made (session.py:357, "no half-sessions"; 179, "a      *)
(* failed launch never orphans an xpet").                                  *)
FailedLaunchClean == [][\A c \in Client : FailsClean(c)]_vars

(* A stop that returns has ended its session's emulator or told it to end, *)
(* whoever else starts, stops or uses the session at the same time.        *)
StopStops ==
    \A c \in Client : At(c, "unlinkrec") => emu[me[c].sess.pid] \in {"gone", "dying"}

(* Commands of different clients do not overlap, and no client is killed   *)
(* where that does harm.  The four properties that follow are about this   *)
(* use of a session.                                                       *)
Turns == \A c, o \in Client : c = o \/ At(c, "idle") \/ At(o, "idle")

\* Where a client has a Session object.
Holding == Pcs \ {"idle", "glob", "read", "prune", "spawn"}
Launching(c) == me[c].phase = "launch" /\ me[c].pc \in Holding

\* Where a kill does harm: an emulator or a daemon has been started that no
\* record names yet, or the record is cut short.
Exposed(c) ==
    \/ Launching(c)
    \/ me[c].pc \in {"ping", "write"}
    \/ me[c].pc = "save" /\ me[c].phase = "monitor"

Spared == \A c \in Client : Killed(c) => ~Exposed(c)
KillsDoNoHarm == [][Spared]_vars

(* Between two commands every emulator that was not told to end is the one *)
(* the record names.                                                       *)
Findable ==
    (\A c \in Client : At(c, "idle")) =>
        \A e \in Emu : emu[e] \in {"booting", "up"} =>
            file = "whole" /\ rec.pid = e

(* A client talks to its own session's emulator.                           *)
OwnVice ==
    \A c \in Client : me[c].conn # None /\ dmn[me[c].conn] = "serving" =>
        port[me[c].conn] = me[c].sess.pid

(* A daemon that holds VICE's one monitor slot can be reached at the path; *)
(* if it could not, no other could take its place.                         *)
Reachable ==
    \A d \in Daemon : dmn[d] = "serving" /\ emu[port[d]] = "up" => path = d

(* After a pet run, pet load or pet_run the record names the program the   *)
(* emulator runs.                                                          *)
RecordsProgram ==
    /\ \A c \in Client : At(c, "idle") /\ me[c].answer = "ok" /\ me[c].op = "run"
    /\ file = "whole" /\ emu[rec.pid] = "up"
    => rec.prog = program[rec.pid]

(* Once a stop has returned, the emulator and every daemon started for it, *)
(* by whichever client, are eventually gone.                               *)
StopEndsAll ==
    \A c \in Client, e \in Emu :
        (At(c, "unlinkrec") /\ me[c].sess.pid = e)
            ~> (emu[e] = "gone" /\ \A d \in Daemon : port[d] # e)

(* Every command ends, whatever the other processes do.                    *)
CommandEnds == \A c \in Client : ~At(c, "idle") ~> At(c, "idle")

(* docs/cli.md:90: ensure attaches to "a running session, or starts one if *)
(* none exists": one name never has two emulators.                         *)
OnePet ==
    \A e, o \in Emu : emu[e] = "up" /\ emu[o] = "up" => e = o

(* SKILL.md:166: a session that seems wedged is stopped and a new one      *)
(* started: neither command trips over the record.                         *)
WedgeRecovers ==
    \A c \in Client :
        At(c, "idle") /\ me[c].op \in {"stop", "start"} => me[c].answer # "unreadable"

(* mcp_server.py:114: pet_status "reports the loaded program".             *)
StatusTells ==
    /\ \A c \in Client :
        At(c, "idle") /\ me[c].answer = "ok" /\ me[c].op \in {"run", "load"}
    /\ file = "whole" /\ emu[rec.pid] = "up"
    => rec.prog = program[rec.pid]
=============================================================================
