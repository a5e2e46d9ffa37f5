------------------------------ MODULE PetDaemon ------------------------------
(***************************************************************************)
(* The per-session monitor daemon, src/src/petlib/daemon.py: one process,  *)
(* one thread, that owns VICE's only monitor connection and serves one IPC *)
(* client at a time.  VICE runs and stops on its own between any two steps *)
(* of the daemon, and the client may vanish at any moment.                 *)
(***************************************************************************)
EXTENDS ViceMonitor

CONSTANT MaxCount           \* largest count a client gives run_until

ASSUME MaxCountAssumption == MaxCount \in Nat

VARIABLES
    state,      \* PetDaemon.state, the desired run/stop state
    pc,         \* where the daemon's thread is
    cont,       \* what follows the EXIT whose response is being read
    got,        \* wait_for_stop's checkpoint, remembered within one call
    run,        \* _run_until's checkpoint, i and count
    arrivals,   \* hit_count of _run_until's checkpoint
    conn,       \* the served client: "none", "open", "gone"
    last        \* what the client's previous requests established (see Ask)

vice == <<cpu, cks, parked, wire>>
vars == <<cpu, cks, parked, wire, events, state, pc, cont, got, run,
          arrivals, conn, last>>

RUNNING == "running"
STOPPED == "stopped"

PcValues == {"idle", "readline", "exit", "wait", "finish", "ru_top",
             "ru_wait", "ru_list", "ru_check", "abandoned", "restoring", "exited"}
Conts    == {"none", "resumed", "released", "restored", "ru_top", "ru_check"}
Runs     == [ck : CkIds \cup {NoCk}, i : Nat, count : Nat]
NoRun    == [ck |-> NoCk, i |-> 0, count |-> 0]

TypeOK ==
    /\ ViceTypeOK
    /\ state \in {RUNNING, STOPPED}
    /\ pc \in PcValues
    /\ cont \in Conts
    /\ got \in CkIds \cup {NoCk}
    /\ run \in Runs
    /\ arrivals \in Nat
    /\ conn \in {"none", "open", "gone"}
    /\ last \in {"other", "command", "armed"}

(* _connect_vice pings and resumes before the socket exists, so the first  *)
(* client finds the CPU running and that EXIT's RESUMED perhaps unread.    *)
Init ==
    /\ cpu = "running"
    /\ cks = [n \in CkIds |-> "unset"]
    /\ parked = {}
    /\ wire \in {<<>>, <<Resumed>>}
    /\ events = <<>>
    /\ state = RUNNING
    /\ pc = "idle"
    /\ cont = "none"
    /\ got = NoCk
    /\ run = NoRun
    /\ arrivals = 0
    /\ conn = "none"
    /\ last = "other"

-----------------------------------------------------------------------------
(***************************************************************************)
(* The emulator and the client, at any point of the daemon's code.         *)
(***************************************************************************)
Counted(q) == IF run.ck \in HitSet(q) THEN arrivals + 1 ELSE arrivals

ViceHits ==
    \E q \in HitSeqs :
        /\ Hit(q)
        /\ arrivals' = Counted(q)
        /\ UNCHANGED <<state, pc, cont, got, run, conn, last>>

ViceReturns ==
    /\ Return
    /\ UNCHANGED <<state, pc, cont, got, run, arrivals, conn, last>>

ViceDies ==
    /\ Die
    /\ UNCHANGED <<state, pc, cont, got, run, arrivals, conn, last>>

(* Ctrl-C, a crash, or an orderly close: the daemon's next read sees EOF.  *)
ClientLeaves ==
    /\ conn = "open"
    /\ conn' = "gone"
    /\ UNCHANGED <<vice, events, state, pc, cont, got, run, arrivals, last>>

-----------------------------------------------------------------------------
(***************************************************************************)
(* _idle_wait: VICE's socket is looked at before the listening socket.     *)
(***************************************************************************)
PumpedRaw(seen, s) ==               \* mutant: the event's name is stored
    \/ /\ \A j \in 1 .. Len(seen) : seen[j].type = "hit"
       /\ s = state
    \/ \E j \in 1 .. Len(seen) : seen[j].type # "hit" /\ s = seen[j].type

PumpedAnyStop(seen, s) ==           \* mutant: a STOPPED wins wherever it is
    s = IF NoStop(seen) THEN RUNNING ELSE STOPPED

PumpedState(seen, s) ==             \* the last STOPPED or RESUMED wins
    \/ /\ \A j \in 1 .. Len(seen) : seen[j].type = "hit"
       /\ s = state
    \/ \E j \in 1 .. Len(seen) :
        /\ seen[j].type # "hit"
        /\ \A k \in (j + 1) .. Len(seen) : seen[k].type = "hit"
        /\ s = IF seen[j].type = "stopped" THEN STOPPED ELSE RUNNING

Pump ==
    /\ pc = "idle"
    /\ cpu # "dead"
    /\ \E o \in PollOutcomes :
        /\ o.rest # wire                \* select() saw something to read
        /\ wire' = o.rest
        /\ events' = Kept(o.seen)
        /\ PumpedState(o.seen, state')
    /\ UNCHANGED <<cpu, cks, parked, pc, cont, got, run, arrivals, conn, last>>

Accept ==
    /\ pc = "idle"
    /\ cpu # "dead"
    /\ Prompt => wire = <<>>
    /\ conn' = "open"
    /\ pc' = "readline"
    /\ last' = "other"
    /\ UNCHANGED <<vice, events, state, cont, got, run, arrivals>>

(* _pump_vice_events reads end-of-stream: serve_forever returns.           *)
DeathIgnored ==                     \* mutant: the pump swallows the error
    /\ pc = "idle"
    /\ cpu = "dead"
    /\ UNCHANGED vars

NoticeDeath ==
    /\ pc = "idle"
    /\ cpu = "dead"
    /\ pc' = "exited"
    /\ UNCHANGED <<vice, events, state, cont, got, run, arrivals, conn, last>>

-----------------------------------------------------------------------------
(***************************************************************************)
(* Requests.  The clients under src/src/petlib send them in any order, but *)
(* for wait_for_stop: each caller first issues a command, which halts the  *)
(* CPU, then resume, then wait_for_stop (ops.py); last = "armed" is that   *)
(* point.                                                                  *)
(***************************************************************************)
Ask(l) == /\ pc = "readline"
          /\ conn = "open"
          /\ last' = l
          /\ UNCHANGED conn

(* A command that only halts the CPU (ping, memory_read, autostart ...).   *)
Command ==
    /\ Ask("command")
    /\ Transact(events, wire)
    /\ UNCHANGED <<cks, state, pc, cont, got, run, arrivals>>

SetCheckpoint ==
    /\ Ask("command")
    /\ Transact(events, wire)
    /\ \E n \in CkIds, kind \in {"on", "once"} :
        /\ cks[n] = "unset"
        /\ cks' = [cks EXCEPT ![n] = kind]
    /\ UNCHANGED <<state, pc, cont, got, run, arrivals>>

DeleteCheckpoint ==
    /\ Ask("command")
    /\ Transact(events, wire)
    /\ \E n \in CkIds :
        /\ cks[n] \in {"on", "off", "once"}
        /\ cks' = [cks EXCEPT ![n] = "gone"]
    /\ UNCHANGED <<state, pc, cont, got, run, arrivals>>

ToggleCheckpoint ==
    /\ Ask("command")
    /\ Transact(events, wire)
    /\ \E n \in CkIds :
        /\ cks[n] \in {"on", "off"}
        /\ cks' = [cks EXCEPT ![n] = IF cks[n] = "on" THEN "off" ELSE "on"]
    /\ UNCHANGED <<state, pc, cont, got, run, arrivals>>

Resume ==
    /\ Ask(IF last = "command" THEN "armed" ELSE "other")
    /\ SendExit(wire)
    /\ pc' = "exit"
    /\ cont' = "resumed"
    /\ UNCHANGED <<cks, state, got, run, arrivals>>

(* step: MonitorClient.step, then state = STOPPED.                         *)
Step ==
    /\ Ask("command")
    /\ \E q \in HitSeqs \cup {<<>>} : StepOnto(q)
    /\ state' = STOPPED
    /\ UNCHANGED <<pc, cont, got, run, arrivals>>

(* quit: VICE exits, and so does the daemon, restoring nothing.            *)
Quit ==
    /\ Ask("other")
    /\ cpu' = "dead"
    /\ pc' = "exited"
    /\ UNCHANGED <<cks, parked, wire, events, state, cont, got, run, arrivals>>

(* A request that needs VICE after its death: ConnectionError is marshalled *)
(* to the client and the daemon quits; if the client has gone too, the     *)
(* failed send drops the connection and the idle loop notices instead.     *)
Fail ==
    /\ cpu = "dead"
    /\ pc' = IF conn = "open" THEN "exited" ELSE "idle"
    /\ conn' = "none"
    /\ got' = NoCk
    /\ run' = NoRun
    /\ arrivals' = 0
    /\ cont' = "none"
    /\ UNCHANGED <<vice, events, state, last>>

RequestFails == pc = "readline" /\ conn = "open" /\ Fail

-----------------------------------------------------------------------------
(***************************************************************************)
(* After an EXIT: the response is read, perhaps with later events, and     *)
(* state is RUNNING (it already was, unless resume or run_until asked).    *)
(***************************************************************************)
After(c) == CASE c \in {"resumed", "released"} -> "readline"
              [] c = "restored" -> "idle"
              [] OTHER -> c

ExitAnswered ==
    /\ pc = "exit"
    /\ ReadResponse
    /\ state' = RUNNING
    /\ pc' = After(cont)
    /\ cont' = "none"
    /\ UNCHANGED <<cpu, cks, parked, got, run, arrivals, conn, last>>

ExitLost ==                     \* _restore swallows the error, others do not
    /\ pc = "exit"
    /\ cpu = "dead"
    /\ \/ /\ cont \in {"released", "restored"}
          /\ pc' = After(cont)
          /\ cont' = "none"
          /\ UNCHANGED <<vice, events, state, got, run, arrivals, conn, last>>
       \/ /\ cont \notin {"released", "restored"}
          /\ Fail

-----------------------------------------------------------------------------
(***************************************************************************)
(* _restore, for the release request and at the end of every tenure: poll, *)
(* park on checkpoint-hit evidence, and EXIT iff the session is RUNNING.   *)
(* The poll and the EXIT are two steps: VICE may act between them.         *)
(***************************************************************************)
RestoredBlind(seen) == state        \* mutant: pending events are not judged

RestoredAnyStop(seen) ==            \* mutant: a bare STOPPED parks too
    IF NoStop(seen) THEN state ELSE STOPPED

RestoredFromEvents(seen) ==         \* mutant: the evidence alone decides
    IF HitEvidence(seen) THEN STOPPED ELSE RUNNING

RestoredState(seen) == IF HitEvidence(seen) THEN STOPPED ELSE state

Restore(next) ==
    \/ /\ cpu = "dead"
       /\ wire' = <<>>
       /\ events' = <<>>
       /\ pc' = After(next)
       /\ UNCHANGED <<cont, state>>
    \/ /\ cpu # "dead"
       /\ \E o \in PollOutcomes :
            /\ wire' = o.rest
            /\ events' = Kept(o.seen)
            /\ state' = RestoredState(o.seen)
       /\ \/ /\ state' = STOPPED
             /\ pc' = After(next)
             /\ UNCHANGED cont
          \/ /\ state' = RUNNING
             /\ pc' = "restoring"
             /\ cont' = next

Release ==
    /\ Ask("other")
    /\ Restore("released")
    /\ UNCHANGED <<cpu, cks, parked, got, run, arrivals>>

(* readline() returns nothing, or the answer to a client that left fails.  *)
EndTenure ==
    /\ pc \in {"readline", "abandoned"}
    /\ conn = "gone"
    /\ conn' = "none"
    /\ run' = NoRun
    /\ Restore("restored")
    /\ UNCHANGED <<cpu, cks, parked, got, arrivals, last>>

RestoreExit ==
    /\ pc = "restoring"
    /\ \/ /\ SendExit(wire)
          /\ pc' = "exit"
          /\ UNCHANGED cont
       \/ /\ cpu = "dead"
          /\ pc' = After(cont)
          /\ cont' = "none"
          /\ UNCHANGED <<cpu, parked, wire, events>>
    /\ UNCHANGED <<cks, state, got, run, arrivals, conn, last>>

-----------------------------------------------------------------------------
(* select() and a MSG_PEEK of nothing: the client's end is closed.         *)
NeverGone == FALSE                  \* mutant: the client is not looked at
ClientGone == conn = "gone"

(***************************************************************************)
(* _wait_for_stop: slices of MonitorClient.wait_for_stop.  A batch with no *)
(* STOPPED is consumed and only its hit remembered, until the slice ends.  *)
(***************************************************************************)
WaitForStop ==
    /\ last = "armed"
    /\ Ask("other")
    /\ pc' = "wait"
    /\ UNCHANGED <<vice, events, state, cont, got, run, arrivals>>

ReadBatch ==
    /\ pc \in {"wait", "finish", "ru_wait"}
    /\ \E o \in FirstOutcomes :
        /\ NoStop(o.seen)
        /\ \E ck \in CkIds \cup {NoCk} :
            /\ LastHit(o.seen, Len(o.seen), got, ck)
            /\ got' = ck
        /\ wire' = o.rest
        /\ events' = <<>>
    /\ UNCHANGED <<cpu, cks, parked, state, pc, cont, run, arrivals, conn, last>>

WaitSees ==
    /\ pc = "wait"
    /\ \E o \in FirstOutcomes :
        /\ \E n \in 1 .. Len(o.seen) : StopAt(o.seen, n)
        /\ wire' = o.rest
        /\ events' = <<>>
    /\ state' = STOPPED
    /\ pc' = "readline"
    /\ got' = NoCk
    /\ UNCHANGED <<cpu, cks, parked, cont, run, arrivals, conn, last>>

(* A slice ends with nothing: the client is looked at, then the deadline.  *)
WaitSlice ==
    /\ pc = "wait"
    /\ pc' \in IF ClientGone THEN {"readline"} ELSE {"wait", "readline"}
    /\ got' = NoCk
    /\ UNCHANGED <<vice, events, state, cont, run, arrivals, conn, last>>

-----------------------------------------------------------------------------
(***************************************************************************)
(* finish: EXECUTE_UNTIL_RETURN, wait_for_stop for at most 5 s, registers. *)
(* The result of wait_for_stop is not looked at.                           *)
(***************************************************************************)
Finish ==
    /\ Ask("command")
    /\ SendUntilReturn
    /\ pc' = "finish"
    /\ UNCHANGED <<state, cont, got, run, arrivals>>

FinishAnswers(queue, pending) ==
    /\ Transact(queue, pending)
    /\ state' = STOPPED
    /\ pc' = "readline"
    /\ got' = NoCk
    /\ UNCHANGED <<cks, cont, run, arrivals, conn, last>>

FinishSees ==
    /\ pc = "finish"
    /\ \E o \in FirstOutcomes :
        /\ \E n \in 1 .. Len(o.seen) : StopAt(o.seen, n)
        /\ FinishAnswers(<<>>, o.rest)

FinishTimesOut ==
    /\ pc = "finish"
    /\ FinishAnswers(events, wire)

-----------------------------------------------------------------------------
(***************************************************************************)
(* _run_until: a persistent checkpoint, then count times resume and wait   *)
(* for its hit; the hit flag or hit_count decides when no event did.       *)
(***************************************************************************)
RunUntil ==
    /\ Ask("other")
    /\ \E n \in CkIds, count \in 1 .. MaxCount :
        /\ cks[n] = "unset"
        /\ cks' = [cks EXCEPT ![n] = "on"]
        /\ run' = [ck |-> n, i |-> 0, count |-> count]
    /\ ExitAfterCommand
    /\ pc' = "exit"
    /\ cont' = "ru_top"
    /\ arrivals' = 0
    /\ UNCHANGED <<state, got>>

(* count = 0: set, registers, delete; the loop body never runs.            *)
RunUntilZero ==
    /\ Ask("other")
    /\ Transact(events, wire)
    /\ \E n \in CkIds : /\ cks[n] = "unset"
                        /\ cks' = [cks EXCEPT ![n] = "gone"]
    /\ state' = STOPPED
    /\ UNCHANGED <<pc, cont, got, run, arrivals>>

Deleted == [cks EXCEPT ![run.ck] = "gone"]

(* The deadline has passed: delete the checkpoint, leave the CPU running.  *)
RunUntilExpires ==
    /\ pc = "ru_top"
    /\ cks' = Deleted
    /\ ExitAfterCommand
    /\ pc' = "exit"
    /\ cont' = "resumed"
    /\ run' = NoRun
    /\ arrivals' = 0
    /\ UNCHANGED <<state, got, conn, last>>

RunUntilWaits ==
    /\ pc = "ru_top"
    /\ pc' = "ru_wait"
    /\ UNCHANGED <<vice, events, state, cont, got, run, arrivals, conn, last>>

(* The i-th arrival is counted; more are wanted: resume again.             *)
NextArrival ==
    /\ run.i + 1 < run.count
    /\ run' = [run EXCEPT !.i = @ + 1]
    /\ pc' = "exit"
    /\ cont' = "ru_top"
    /\ got' = NoCk
    /\ UNCHANGED <<cks, state, arrivals, conn, last>>

(* It was the last one: registers, delete, STOPPED.                        *)
RunUntilAnswers ==
    /\ run.i + 1 = run.count
    /\ cks' = Deleted
    /\ state' = STOPPED
    /\ pc' = "readline"
    /\ run' = NoRun
    /\ arrivals' = 0
    /\ got' = NoCk
    /\ UNCHANGED <<cont, conn, last>>

RunUntilSees ==
    /\ pc = "ru_wait"
    /\ \E o \in FirstOutcomes, ck \in CkIds \cup {NoCk} :
        /\ \E n \in 1 .. Len(o.seen) : /\ StopAt(o.seen, n)
                                       /\ LastHit(o.seen, n, got, ck)
        /\ \/ /\ ck = run.ck
              /\ SendExit(o.rest)
              /\ NextArrival
           \/ /\ ck = run.ck
              /\ Transact(<<>>, o.rest)
              /\ RunUntilAnswers
           \/ /\ ck # run.ck
              /\ wire' = o.rest
              /\ events' = <<>>
              /\ got' = NoCk
              /\ pc' = "ru_list"
              /\ UNCHANGED <<cpu, cks, parked, state, cont, run, arrivals, conn, last>>

RunUntilSlice ==
    /\ pc = "ru_wait"
    /\ pc' = "ru_list"
    /\ got' = NoCk
    /\ UNCHANGED <<vice, events, state, cont, run, arrivals, conn, last>>

(* checkpoint_list: the durable flag counts the arrival, or the CPU the    *)
(* list halted is resumed and the client looked at.                        *)
ArrivedEarly == run.ck \in parked \/ arrivals >= run.i    \* mutant: off by one
Arrived == run.ck \in parked \/ arrivals > run.i

RunUntilLists ==
    /\ pc = "ru_list"
    /\ \/ /\ Arrived
          /\ ExitAfterCommand
          /\ NextArrival
       \/ /\ Arrived
          /\ Transact(events, wire)
          /\ RunUntilAnswers
       \/ /\ ~Arrived
          /\ ExitAfterCommand
          /\ pc' = "exit"
          /\ cont' = "ru_check"
          /\ UNCHANGED <<cks, state, got, run, arrivals, conn, last>>

RunUntilChecks ==
    /\ pc = "ru_check"
    /\ \/ /\ ~ClientGone
          /\ pc' = "ru_top"
          /\ UNCHANGED <<vice, events, state, cont, got, run, arrivals, conn, last>>
       \/ /\ ClientGone
          /\ Transact(events, wire)
          /\ cks' = Deleted
          /\ pc' = "abandoned"
          /\ arrivals' = 0
          /\ UNCHANGED <<state, cont, got, run, conn, last>>

-----------------------------------------------------------------------------
(* A call of the daemon finds the connection closed (see Fail).            *)
CallFails ==
    /\ \/ pc = "wait" /\ events = <<>> /\ wire = <<>>
       \/ pc \in {"finish", "ru_top", "ru_wait", "ru_list"}
       \/ pc = "ru_check" /\ conn = "gone"
    /\ Fail

Terminated == pc = "exited" /\ UNCHANGED vars

Environment == ViceHits \/ ViceReturns \/ ViceDies \/ ClientLeaves

Requests ==
    \/ Command \/ SetCheckpoint \/ DeleteCheckpoint \/ ToggleCheckpoint
    \/ Resume \/ Step \/ Finish \/ WaitForStop \/ RunUntil \/ RunUntilZero
    \/ Release \/ Quit \/ RequestFails

Daemon ==
    \/ Pump \/ NoticeDeath \/ EndTenure \/ RestoreExit
    \/ ExitAnswered \/ ExitLost \/ CallFails
    \/ ReadBatch \/ WaitSees \/ WaitSlice \/ FinishSees \/ FinishTimesOut
    \/ RunUntilExpires \/ RunUntilWaits \/ RunUntilSees \/ RunUntilSlice
    \/ RunUntilLists \/ RunUntilChecks

Next == Environment \/ Accept \/ Requests \/ Daemon \/ Terminated

Spec == Init /\ [][Next]_vars

(* Every call of the daemon's thread ends: its sockets answer or time out. *)
FairSpec == Spec /\ WF_vars(Daemon)

-----------------------------------------------------------------------------
(***************************************************************************)
(*                              Properties                                 *)
(***************************************************************************)

(* When the daemon idles and the CPU is halted, it knows, or the hit that  *)
(* halted it is among the events the next poll will judge: no halt is      *)
(* forgotten between two clients (_idle_wait, _pump_vice_events, the       *)
(* re-queueing of polled events).                                          *)
IdleTruth ==
    (pc = "idle" /\ cpu = "halted")
        => (state = STOPPED \/ HitEvidence(events \o wire))

(* The daemon never idles believing in a park that is not there: with      *)
(* every event read, STOPPED means the CPU is halted.  Late command noise  *)
(* (STOPPED then RESUMED) has healed (_pump_vice_events).                  *)
NoFalsePark ==
    (pc = "idle" /\ wire = <<>> /\ state = STOPPED) => ~Executing

(* When _restore has decided to EXIT and the CPU is parked on a checkpoint *)
(* all the same, that hit landed after the poll: no hit the daemon had     *)
(* read, in any request of the tenure, is resumed away by a release or a   *)
(* disconnect.                                                             *)
RestoreSeesParks ==
    (pc = "restoring" /\ parked # {}) => HitEvidence(wire)

(* When wait_for_stop answers with a stop, the CPU has stopped: a STOPPED  *)
(* left over from before the client's resume is never reported             *)
(* (events.clear() in MonitorClient.resume).                               *)
WaitTruth == [][(pc = "wait" /\ state' # state) => ~Executing]_vars

(* When run_until answers that the checkpoint was reached, it was reached  *)
(* exactly count times and the CPU is parked on it now, whichever of the   *)
(* event and the durable flag counted each arrival, and whatever was split *)
(* over slices, shared an address or interfered (_run_until).              *)
RunUntilExact ==
    [][(pc \in {"ru_wait", "ru_list"} /\ pc' = "readline")
         => (arrivals = run.count /\ run.ck \in parked)]_vars

(* A client that has vanished, at any point of any request, is noticed and *)
(* its tenure ends, without waiting for the request's own deadline         *)
(* (_wait_for_stop and _run_until look at the client between slices).      *)
TenureEnds == (conn = "gone") ~> (pc \in {"idle", "exited"})

(* A machine halted only by the commands of a client that left runs again: *)
(* command noise never wedges a RUNNING session (_restore).                *)
RunsAgain ==
    (pc = "readline" /\ conn = "gone" /\ cpu = "halted" /\ parked = {} /\ state = RUNNING)
        ~> (Executing \/ cpu = "dead")

(* Once VICE has died, the daemon exits, unless a client that is still     *)
(* connected keeps it waiting for a request (_idle_wait, _serve_client).   *)
DeathEnds == (cpu = "dead" /\ conn # "open") ~> (pc = "exited")

(* The daemon implements SessionMachine: between clients nothing sets a    *)
(* stopped session running, and a vanished client's session is handed back.*)
Session == INSTANCE SessionMachine WITH
    mode   <- IF pc = "exited" THEN "over" ELSE state,
    holder <- IF pc = "exited" \/ conn = "none" THEN "nobody"
              ELSE IF conn = "open" THEN "client" ELSE "left"

ImplementsSession == Session!SSpec

-----------------------------------------------------------------------------
(***************************************************************************)
(* What the code's comments say of it, and the code does not do.           *)
(***************************************************************************)

(* daemon.py:66-68 "the machine parks and the daemon must remember         *)
(* STOPPED": an idle daemon with nothing left to read knows of the halt.   *)
RemembersParks ==
    (pc = "idle" /\ wire = <<>> /\ cpu = "halted") => state = STOPPED

(* daemon.py:201-203 "on timeout (or the client vanishing) the checkpoint  *)
(* is deleted and the machine is left RUNNING": run_until's own checkpoint *)
(* leaves no park behind.                                                  *)
AbandonedRuns ==
    [][(pc = "abandoned" /\ state = RUNNING /\ parked \subseteq {run.ck})
         => state' = RUNNING]_vars

(* monitor.py:259 "Run until the current subroutine returns; machine stays *)
(* stopped": finish, asked of a stopped machine, sees a stop only once the *)
(* CPU has stopped.                                                        *)
FinishWaits == [][(FinishSees /\ state = STOPPED) => ~Executing]_vars
=============================================================================
