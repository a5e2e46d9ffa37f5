------------------------------ MODULE Frontends ------------------------------
(***************************************************************************)
(* Processes that run pet commands and MCP tools (PetCommands) against one *)
(* session through its daemon: daemon_client.py on their side, the serving *)
(* loop of daemon.py on the other.  A process may be interrupted, its      *)
(* calls may time out with the request still queued, and the emulator may  *)
(* die.  The daemon itself is no more here than what PetDaemon was shown   *)
(* to implement, SessionMachine: a mode, set running by a client only.     *)
(***************************************************************************)
EXTENDS PetCommands, MachineData, FiniteSets

CONSTANTS
    Client,         \* processes
    Repertoire,     \* the scripts each may run
    MaxSlices       \* passes of a waiting loop before its deadline

ASSUME FrontendsAssumption == MaxSlices \in Nat

(* Where a body may be once its deadline has passed: where it starts, and  *)
(* where it goes back to; from there the last ways lead on to its end.     *)
EndsFrom(spent, body) ==
    /\ Len(body) # 0 => 1 \in spent
    /\ \A i \in 1 .. Len(body) :
        /\ \A n \in body[i].next : n # Done /\ n <= i => n \in spent
        /\ i \in spent => \A n \in body[i].last : n # Done => n > i /\ n \in spent

(* A loop stays within its script, and a body within itself.               *)
WellFormed(script) ==
    /\ Len(script.stages) \in Nat \ {0}
    /\ script.cleanup \in Nat \ {0} /\ script.report \in Nat \ {0}
    /\ \A k \in 1 .. Len(script.stages) :
        LET stage == script.stages[k]
        IN  /\ stage.polls \in 0 .. k
            /\ Len(stage.body) \in Nat
            /\ stage.kind = "tenure" => Len(stage.body) # 0
            /\ \A i \in 1 .. Len(stage.body) :
                stage.body[i].next \cup stage.body[i].last \subseteq {Done} \cup 1 .. Len(stage.body)
            /\ \E spent \in SUBSET (1 .. Len(stage.body)) : EndsFrom(spent, stage.body)

(* A script with a cleanup of its own ends by stopping its session.        *)
IsTest(script) == script.cleanup <= Len(script.stages)

Stops(script) ==
    LET n == script.cleanup
    IN  /\ Len(script.stages) = n + 1
        /\ script.stages[n] = quitting
        /\ script.stages[n + 1].kind = "kill"
        /\ script.report <= n

ASSUME TestsAssumption == \A c \in Client : \A s \in Repertoire[c] : IsTest(s) => Stops(s)

ASSUME RepertoireAssumption == \A c \in Client : \A s \in Repertoire[c] : WellFormed(s)

VARIABLES
    mode,           \* PetDaemon.state, or "none": no emulator
    conn,           \* the connection the daemon serves
    job             \* what each process is doing

vars == <<mode, conn, job>>

NoConn == [open |-> FALSE, by |-> {}, stage |-> Launch, requests |-> <<>>, answers |-> <<>>]
Errors == {"os", "session", "other", "interrupt"}

Nothing == Script(<<>>)

At(script, out) ==
    [script |-> script, k |-> 0, at |-> 0, phase |-> "done", out |-> out, id |-> 0,
     poisoned |-> FALSE, slices |-> 0]

Idle == At(Nothing, "ok")

TypeOK ==
    /\ mode \in {"none", "running", "stopped"}
    /\ conn.open \in BOOLEAN
    /\ conn.by \subseteq Client /\ Cardinality(conn.by) <= 1
    /\ Len(conn.requests) <= 2 /\ Len(conn.answers) <= 2
    /\ \A c \in Client :
        /\ job[c].script \in Repertoire[c] \cup {Nothing}
        /\ job[c].k \in 0 .. Len(job[c].script.stages)
        /\ job[c].phase \in {"done", "open", "call", "await", "close", "failed"}
        /\ job[c].out \in {"ok", "late"} \cup Errors
        /\ job[c].slices \in 0 .. MaxSlices
        /\ job[c].poisoned \in BOOLEAN

Init ==
    /\ mode \in {"none", "running", "stopped"}
    /\ conn = NoConn
    /\ job = [c \in Client |-> Idle]

Mine(c) == conn.by = {c}
Serving == conn.by # {}
Over(j) == j.phase \in {"done", "failed"}
Current(j) == j.script.stages[j.k]

-----------------------------------------------------------------------------
(***************************************************************************)
(* Control flow of a script: where an outcome of a stage leads.            *)
(***************************************************************************)
Enter(j, k) ==
    IF k > Len(j.script.stages)
    THEN IF j.out = "ok" THEN Idle ELSE [At(Nothing, j.out) EXCEPT !.phase = "failed"]
    ELSE [j EXCEPT !.k = k, !.at = 1, !.phase = "open", !.id = 0, !.poisoned = FALSE]

AgainUncounted(j, k) == Enter(j, k)             \* mutant: a loop without a deadline
Again(j, k) == Enter([j EXCEPT !.slices = @ + 1], k)

Loops(stage) ==
    stage.polls > 0 \/ \E i \in DOMAIN stage.body : stage.body[i].next # stage.body[i].last

Onward(j) ==
    Enter(IF Loops(Current(j)) THEN [j EXCEPT !.slices = 0] ELSE j, j.k + 1)

(* A step that failed goes to the report; any other late answer is an      *)
(* error of the command (for a test that boots: TestError).                *)
Late(j) ==
    IF Current(j).late = "report"
    THEN Enter([j EXCEPT !.slices = 0, !.out = "ok"], j.script.report)
    ELSE Enter([j EXCEPT !.slices = 0, !.out = "late"],
               IF j.k < j.script.cleanup THEN j.script.cleanup ELSE Len(j.script.stages) + 1)

(* An exception: swallowed here, or the finally of the script, or the end; *)
(* that the finally raises it again is not followed.                       *)
Raised(j, e) ==
    IF e \in Current(j).catches THEN Onward([j EXCEPT !.out = "ok"])
    ELSE Enter([j EXCEPT !.slices = 0, !.out = e],
               IF 1 < j.k /\ j.k < j.script.cleanup THEN j.script.cleanup
               ELSE Len(j.script.stages) + 1)

(* Where the end of a stage may lead.  A loop that has not seen what it     *)
(* waits for goes round again until its deadline, and is late then.        *)
After(j) ==
    CASE j.out \in Errors -> {Raised(j, j.out)}
      [] j.out = "late"   -> {Late(j)}
      [] OTHER -> {Onward(j)}
                \cup (IF Current(j).polls > 0 /\ j.slices < MaxSlices
                      THEN {Again(j, j.k + 1 - Current(j).polls)} ELSE {})
                \cup (IF Current(j).judged THEN {Late(j)} ELSE {})

(* The body is over: its finally verb, then the connection is closed.      *)
Unwind(j, out) ==
    [j EXCEPT !.at = 0, !.out = out,
              !.phase = IF Current(j).finally = "none" \/ j.at = 0 THEN "close" ELSE "call"]

Go(c, nxt) == job' = [job EXCEPT ![c] = nxt]

-----------------------------------------------------------------------------
(***************************************************************************)
(* The processes.                                                          *)
(***************************************************************************)

(* Session.attach finds the session, or the command ends before it starts. *)
Begin(c) ==
    /\ job[c].phase = "done"
    /\ \E s \in Repertoire[c] :
        /\ mode = "none" => s.stages[1].kind \in {"launch", "ensure"}
        /\ Go(c, Enter(At(s, "ok"), 1))
    /\ UNCHANGED <<mode, conn>>

(* The process ends with its error, or exit code 1. *)
Exit(c) ==
    /\ job[c].phase = "failed"
    /\ Go(c, Idle)
    /\ UNCHANGED <<mode, conn>>

(* Session.launch; ensure takes a session it finds instead.                *)
LaunchSession(c) ==
    /\ job[c].phase = "open"
    /\ Current(job[c]).kind \in {"launch", "ensure"}
    /\ \/ /\ mode = "none"
          /\ mode' = "running"
          /\ Go(c, Onward(job[c]))
       \/ /\ mode # "none" /\ Current(job[c]).kind = "ensure"
          /\ Go(c, Onward(job[c]))
          /\ UNCHANGED mode
       \/ /\ Go(c, Raised(job[c], "session"))
          /\ UNCHANGED mode
    /\ UNCHANGED conn

(* Session.stop's signals: the emulator and its daemon end.                *)
KillSession(c) ==
    /\ job[c].phase = "open"
    /\ Current(job[c]).kind = "kill"
    /\ mode' = "none"
    /\ conn' = NoConn
    /\ Go(c, Onward(job[c]))

(* Session.monitor: connect and read the hello.                            *)
Connect(c) ==
    /\ job[c].phase = "open"
    /\ Current(job[c]).kind = "tenure"
    /\ mode # "none"
    /\ ~Serving
    /\ conn' = [NoConn EXCEPT !.open = TRUE, !.by = {c}, !.stage = Current(job[c])]
    /\ Go(c, [job[c] EXCEPT !.phase = "call"])
    /\ UNCHANGED mode

(* The daemon is gone with its emulator and the respawn fails, or it is    *)
(* serving another process and its hello times out: SessionError.          *)
ConnectFails(c) ==
    /\ job[c].phase = "open"
    /\ Current(job[c]).kind = "tenure"
    /\ mode = "none" \/ Serving
    /\ Go(c, Raised(job[c], "session"))
    /\ UNCHANGED <<mode, conn>>

Method(j) == IF j.at = 0 THEN Current(j).finally ELSE Current(j).body[j.at].call

(* _call: number the request, send it, read a line.  A makefile whose read *)
(* has timed out once refuses every later read, after the send.            *)
Call(c) ==
    LET j == job[c]
        request == [id |-> j.id + 1, method |-> Method(j)]
    IN  /\ j.phase = "call"
        /\ IF Mine(c)
           THEN conn' = [conn EXCEPT !.requests = Append(@, request)]
           ELSE UNCHANGED conn
        /\ Go(c, IF Mine(c) /\ ~j.poisoned
                 THEN [j EXCEPT !.phase = "await", !.id = @ + 1]
                 ELSE Unwind(j, "os"))
        /\ UNCHANGED mode

(* The line read is taken for this call's answer.                          *)
AcceptsAny(answer, j) == TRUE                   \* mutant: no id check
Accepts(answer, j) == answer.id = j.id

FollowersAlways(j) == Current(j).body[j.at].next    \* mutant: no deadline in a body
Followers(j) == IF j.slices < MaxSlices THEN Current(j).body[j.at].next
                ELSE Current(j).body[j.at].last

Answered(c) ==
    LET j == job[c]  answer == Head(conn.answers)
    IN  /\ j.phase = "await"
        /\ Mine(c)
        /\ conn.answers # <<>>
        /\ conn' = [conn EXCEPT !.answers = Tail(@)]
        /\ IF ~Accepts(answer, j) THEN Go(c, Unwind(j, "os"))
           ELSE CASE answer.out = "err"  -> Go(c, Unwind(j, "other"))
                  [] answer.out = "late" -> Go(c, Unwind(j, "late"))
                  [] OTHER ->
                       IF j.at = 0 THEN Go(c, Unwind(j, j.out))
                       ELSE \E n \in Followers(j) :
                             IF n = Done THEN Go(c, Unwind(j, "ok"))
                             ELSE Go(c, [j EXCEPT !.at = n, !.phase = "call",
                                           !.slices = IF n <= j.at THEN @ + 1 ELSE @])
        /\ UNCHANGED mode

(* The read times out: the daemon has yet to answer.                       *)
TimesOut(c) ==
    /\ job[c].phase = "await"
    /\ Go(c, Unwind([job[c] EXCEPT !.poisoned = TRUE], "os"))
    /\ UNCHANGED <<mode, conn>>

(* The daemon has closed the connection: readline returns nothing.         *)
Lost(c) ==
    /\ job[c].phase = "await"
    /\ ~Mine(c)
    /\ Go(c, Unwind(job[c], "os"))
    /\ UNCHANGED <<mode, conn>>

(* Ctrl-C, before the script's own cleanup: finally clauses still run.     *)
Interrupt(c) ==
    LET j == job[c]
    IN  /\ j.phase \in {"open", "await"}
        /\ j.k < j.script.cleanup
        /\ Current(j).kind = "tenure"
        /\ j.out # "interrupt"
        /\ Go(c, IF j.phase = "open" THEN Raised(j, "interrupt") ELSE Unwind(j, "interrupt"))
        /\ UNCHANGED <<mode, conn>>

Close(c) ==
    /\ job[c].phase = "close"
    /\ conn' = IF Mine(c) THEN [conn EXCEPT !.open = FALSE] ELSE conn
    /\ \E nxt \in After(job[c]) : Go(c, nxt)
    /\ UNCHANGED mode

-----------------------------------------------------------------------------
(***************************************************************************)
(* The daemon: _dispatch, one request at a time, and the end of a tenure.  *)
(* An answer to a process that has closed its end cannot be sent, and ends *)
(* the tenure with the requests behind it unread.                          *)
(***************************************************************************)
Becomes(modes, outs) == [mode : modes, out : outs]

Effects(method) ==
    CASE method \in {"step", "finish"} -> Becomes({"stopped"}, {"ok"}) \cup Becomes({mode}, {"err"})
      [] method = "resume"    -> Becomes({"running"}, {"ok"}) \cup Becomes({mode}, {"err"})
      [] method = "run_until" -> Becomes({"stopped"}, {"ok"}) \cup Becomes({"running"}, {"late"})
                                    \cup Becomes({mode, "running"}, {"err"})
      [] method \in {"wait_for_stop", "release"} -> Becomes({mode, "stopped"}, {"ok", "err"})
      [] method = "status"    -> Becomes({mode}, {"ok"})
      [] OTHER                -> Becomes({mode}, {"ok", "err"})

Serve ==
    LET r == Head(conn.requests)
    IN  /\ Serving
        /\ conn.requests # <<>>
        /\ r.method # "quit"
        /\ \E e \in Effects(r.method) :
            /\ mode' = e.mode
            /\ conn' = IF conn.open
                       THEN [conn EXCEPT !.requests = Tail(@),
                                         !.answers = Append(@, [id |-> r.id, out |-> e.out,
                                                                method |-> r.method])]
                       ELSE [conn EXCEPT !.requests = <<>>]
    /\ UNCHANGED job

ServeQuit ==
    /\ Serving
    /\ conn.requests # <<>>
    /\ Head(conn.requests).method = "quit"
    /\ mode' = "none"
    /\ conn' = NoConn
    /\ UNCHANGED job

(* _handle's finally: _restore judges the tenure's events.                 *)
EndTenure ==
    /\ Serving
    /\ ~conn.open
    /\ conn.requests = <<>>
    /\ conn' = NoConn
    /\ mode' \in {mode, "stopped"}
    /\ UNCHANGED job

(* A checkpoint parks the machine while no client is served.               *)
Parks ==
    /\ mode = "running"
    /\ ~Serving
    /\ mode' = "stopped"
    /\ UNCHANGED <<conn, job>>

EmulatorDies ==
    /\ mode # "none"
    /\ mode' = "none"
    /\ conn' = NoConn
    /\ UNCHANGED job

-----------------------------------------------------------------------------
Acts(c) ==
    \/ LaunchSession(c) \/ KillSession(c) \/ Connect(c) \/ ConnectFails(c)
    \/ Call(c) \/ Answered(c) \/ TimesOut(c) \/ Lost(c) \/ Close(c) \/ Exit(c)

Daemon == Serve \/ ServeQuit \/ EndTenure

Next ==
    \/ \E c \in Client : Begin(c) \/ Acts(c) \/ Interrupt(c)
    \/ Daemon \/ Parks \/ EmulatorDies

Spec == Init /\ [][Next]_vars

(* Every process that is not waiting for input runs on, and so does the    *)
(* daemon: all their waits have timeouts.                                  *)
FairSpec == Spec /\ WF_vars(Daemon) /\ \A c \in Client : WF_vars(Acts(c))

-----------------------------------------------------------------------------
(***************************************************************************)
(* Properties.                                                             *)
(***************************************************************************)

(* A stopped machine never starts to run while the daemon serves a command *)
(* that only looks at it (docs/cli.md:36-37, "Inspection commands never    *)
(* disturb the state"), or a test step after an until step: not when the   *)
(* command is interrupted, when its call has timed out and is served after *)
(* the process has gone, or when the connection breaks before its release. *)
Undisturbed ==
    [][mode = "stopped" /\ mode' = "running" => conn.stage \notin Observing]_vars

(* The answer a call returns is the answer of the request it sent, although *)
(* answers of calls that were given up stay in the stream                  *)
(* (daemon_client.py:49-50).                                               *)
OwnAnswer ==
    [][\A c \in Client :
        /\ job[c].phase = "await" /\ Mine(c) /\ conn.answers # <<>>
        /\ conn'.answers = Tail(conn.answers)
        /\ job'[c] # job[c] /\ job'[c].out # "os"
        => Head(conn.answers).method = Method(job[c])]_vars

(* A test that got its emulator has none when it returns, whatever failed  *)
(* on the way: a call, the connection, the loading, or Ctrl-C.             *)
TestsCleanUp ==
    [][\A c \in Client :
        /\ ~Over(job[c]) /\ Over(job'[c])
        /\ IsTest(job[c].script) /\ job[c].k > 1
        => mode' = "none"]_vars

(* Every command returns, whether or not the emulator lives.               *)
CommandEnds == \A c \in Client : ~Over(job[c]) ~> Over(job[c])

(* Depends on no state: it is asked once, while there is no session.       *)
NothingBegun == mode = "none" /\ conn = NoConn /\ \A c \in Client : job[c] = Idle

\* The keys a step of each kind is tried with: its own, and one of another kind.
KeysOf(kind) ==
    CASE kind \in DOMAIN Allowed -> UNION {Allowed[k] : k \in DOMAIN Allowed}
      [] kind = "wait"   -> {"text", "mem", "equals", "timeout", "addr"}
      [] kind = "assert" -> {"screen", "mem", "reg", "equals", "in_range", "addr"} \cup Comparisons
      [] kind = "key"    -> {"addr"}

(* A step of a test file that load_test lets through has every key that    *)
(* _do_step indexes, except that a wait or an assert, which it lets through*)
(* whatever they have, may name a place but not what it should be: those   *)
(* end in a KeyError when the step is run, and no others do                *)
(* (testing.py:34-40, 68-90, 201-328).                                     *)
ChecksSuffice ==
    NothingBegun =>
    \A kind \in StepKinds : \A keys \in SUBSET KeysOf(kind) :
        StepLoads(kind, keys) =>
            \/ Reads(kind, keys) \subseteq keys
            \/ /\ kind \in {"wait", "assert"}
               /\ keys \cap {"mem", "reg"} # {} /\ "equals" \notin keys

(* What the commands compute depends on no state either.  mem find, of any *)
(* window but all of memory, answers with the first occurrences, each once,*)
(* and says whether there are more.                                        *)
FindsAll == NothingBegun => SearchIsExact

(* The same of all of memory, the window unless another is given           *)
(* (docs/cli.md:233-234).                                                  *)
FindsInAllMemory == NothingBegun => WholeSearchIsExact

(* A reference is the sum of what it names, and the name shown for an      *)
(* address reads back as that address.                                     *)
RefsAddUp == NothingBegun => ReferencesRead

(* A routine that is called comes back to the trap and has no other byte of*)
(* the stack changed under it.                                             *)
RoutinesReturn == NothingBegun => RoutinesLand

(* What docs/cli.md:437 says ("On timeout `pet wait` exits 1 and the        *)
(* machine is left running"), and so does the answer it prints             *)
(* (cli.py:1004-1006): a wait that times out leaves the machine running.   *)
WaitLeavesRunning ==
    [][\A c \in Client :
        /\ job[c].script \in wait_cmd
        /\ ~Over(job[c]) /\ job'[c].phase = "failed" /\ job'[c].out = "late"
        => mode = "running"]_vars
=============================================================================
