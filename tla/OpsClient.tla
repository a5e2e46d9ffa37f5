------------------------------ MODULE OpsClient ------------------------------
(***************************************************************************)
(* The operations of src/src/petlib/ops.py that wait for the machine, run  *)
(* as clients of the daemon of PetDaemon, one after the other: break add,  *)
(* wait_for_break, call_routine and key_hold.  Every step of an operation  *)
(* is a request of PetDaemon; here is who sends which, and what it makes   *)
(* of the answer.                                                          *)
(***************************************************************************)
EXTENDS PetDaemon, FiniteSets

CONSTANTS
    User,           \* the number of the breakpoint that break add sets
    MaxFrames       \* frames key_hold holds a key for

ASSUME OpsAssumption == User \in CkIds /\ MaxFrames \in Nat \ {0}

VARIABLE op         \* the operation under way, or the last one

opsVars == <<cpu, cks, parked, wire, events, state, pc, cont, got, run, arrivals, conn,
             last, op>>

Kinds == {"none", "break", "wait", "call", "hold"}

(* at: the request to send next, or whose answer is awaited; "left" once   *)
(* the operation is over.                                                  *)
Places == {"set", "release", "setup", "list", "resume", "top", "waiting", "regs", "delete",
           "last", "poke", "poked", "until", "running", "done", "left"}

Operation(kind, at, want) ==
    [kind |-> kind, at |-> at, want |-> want, mine |-> NoCk, hit |-> FALSE,
     late |-> FALSE, fired |-> NoCk, frame |-> 1]

OpsTypeOK ==
    /\ TypeOK
    /\ op \in [kind : Kinds, at : Places, want : SUBSET CkIds, mine : CkIds \cup {NoCk},
               hit : BOOLEAN, late : BOOLEAN, fired : CkIds \cup {NoCk},
               frame : 1 .. MaxFrames]

OpsInit == Init /\ op = Operation("none", "left", {})

-----------------------------------------------------------------------------
Over     == op.at = "left"
Served   == pc = "readline" /\ conn = "open"        \* the answer has arrived
To(at)   == op' = [op EXCEPT !.at = at]
Listed   == parked \cap {n \in op.want : cks[n] # "gone"}     \* hit flags a list shows

Unset    == {n \in CkIds \ {User} : cks[n] = "unset"}
Fresh    == CHOOSE n \in Unset : TRUE               \* VICE's next number

(***************************************************************************)
(* A command attaches and connects, while the numbers that bound the model *)
(* are enough for its checkpoints.  wait takes any checkpoint or one.     *)
(***************************************************************************)
Begin ==
    /\ Over
    /\ Accept
    /\ \/ cks[User] = "unset" /\ op' = Operation("break", "set", {})
       \/ op' \in {Operation("wait", "list", want) : want \in {CkIds, {User}}}
       \/ Unset # {} /\ op' = Operation("call", "setup", {})
       \/ Cardinality(Unset) >= MaxFrames /\ op' = Operation("hold", "poke", {})

(* The operation closes its connection, or Ctrl-C closes it.               *)
Leave ==
    /\ ClientLeaves
    /\ \/ op.at = "poked" /\ To("until")
       \/ op.at = "done" /\ To("left")
       \/ op.at # "done" /\ op' = [op EXCEPT !.at = "left", !.fired = NoCk]

(* The daemon or VICE has ended: the call, or the next connect, raises.    *)
Loses ==
    /\ ~Over
    /\ conn = "none"
    /\ op.at \in {"until", "poke"} => pc = "exited"
    /\ op' = [op EXCEPT !.at = "left", !.fired = NoCk]
    /\ UNCHANGED vars

(* The deadline passes.                                                    *)
Deadline ==
    /\ ~Over
    /\ ~op.late
    /\ op' = [op EXCEPT !.late = TRUE]
    /\ UNCHANGED vars

-----------------------------------------------------------------------------
(* break add, of a breakpoint that stays or goes when it fires (--once).   *)
BreakAdd ==
    \/ /\ op.at = "set" /\ op.kind = "break"
       /\ SetCheckpoint
       /\ cks'[User] # "unset"
       /\ To("release")
    \/ /\ op.at = "release"
       /\ Release
       /\ To("done")

(***************************************************************************)
(* wait_for_break: list and look at the hit flags; else resume what the    *)
(* list has halted and wait for a stop, until the deadline.                *)
(***************************************************************************)
WaitListsOn ==                      \* mutant: the deadline is not looked at
    /\ op.kind = "wait" /\ op.at = "list"
    /\ Command
    /\ \/ \E n \in Listed : op' = [op EXCEPT !.at = "regs", !.fired = n]
       \/ Listed = {} /\ To("resume")

WaitLists ==
    /\ op.kind = "wait" /\ op.at = "list"
    /\ Command
    /\ \/ \E n \in Listed : op' = [op EXCEPT !.at = "regs", !.fired = n]
       \/ Listed = {} /\ To(IF op.late THEN "last" ELSE "resume")

Resumes ==
    /\ op.at = "resume"
    /\ Resume
    /\ To(IF op.kind = "wait" THEN "waiting" ELSE "top")

LastResume ==                               \* a timeout leaves it running
    /\ op.at = "last"
    /\ Resume
    /\ To("done")

AsksStop ==
    /\ op.at \in {"waiting", "top"}
    /\ op.at = "top" => ~op.late
    /\ WaitForStop
    /\ To("waiting")

Registers ==
    /\ op.at = "regs"
    /\ Command
    /\ To(IF op.kind = "call" THEN "delete" ELSE "done")

(***************************************************************************)
(* call_routine: frame and registers, the trap, resume; a stop that is not *)
(* the trap's own is settled by its hit flag or hit_count, or resumed.     *)
(***************************************************************************)
CallSetsUp ==
    /\ op.at = "setup"
    /\ Command
    /\ To("set")

CallTraps ==
    /\ op.at = "set" /\ op.kind = "call"
    /\ SetCheckpoint
    /\ cks'[Fresh] = "on"
    /\ op' = [op EXCEPT !.at = "resume", !.mine = Fresh, !.want = {Fresh}]

CallLists ==
    /\ op.kind = "call" /\ op.at = "list"
    /\ Command
    /\ IF op.hit THEN op' = [op EXCEPT !.at = "regs", !.fired = op.mine]
       ELSE To("resume")

CallExpires ==
    /\ op.kind = "call" /\ op.at = "top" /\ op.late
    /\ UNCHANGED vars
    /\ To("delete")

DeletesTrap ==
    /\ op.at = "delete"
    /\ DeleteCheckpoint
    /\ cks'[op.mine] = "gone"
    /\ To(IF op.fired = NoCk THEN "last" ELSE "done")

(***************************************************************************)
(* key_hold: poke and leave, connect and run_until, for every frame.       *)
(***************************************************************************)
Pokes ==
    /\ op.at = "poke"
    /\ Command
    /\ To("poked")

ConnectsAgain ==
    /\ op.at \in {"until", "poke"}
    /\ Accept
    /\ UNCHANGED op

HoldRuns ==
    /\ op.at = "until"
    /\ RunUntil
    /\ run'.count = 1
    /\ run'.ck = Fresh
    /\ op' = [op EXCEPT !.at = "running", !.late = FALSE]

(* run_until has answered: reached, or not in time.                        *)
HoldGoesOn ==
    /\ op.at = "running"
    /\ Served
    /\ conn' = "gone"
    /\ op' = IF state = STOPPED /\ op.frame < MaxFrames
             THEN [op EXCEPT !.at = "poke", !.frame = @ + 1]
             ELSE [op EXCEPT !.at = "left"]
    /\ UNCHANGED <<vice, events, state, pc, cont, got, run, arrivals, last>>

-----------------------------------------------------------------------------
HeardAnyStop(ck) == [op EXCEPT !.at = "regs", !.fired = ck]    \* mutant: not compared

(* What the operation hears while the daemon works: the stop that          *)
(* wait_for_stop reports, or that its slice is over.  One that has left    *)
(* hears nothing.                                                          *)
Heard(ck) ==
    IF ck \in op.want THEN [op EXCEPT !.at = "regs", !.fired = ck]
    ELSE [op EXCEPT !.at = "list"]

Hears ==
    \/ /\ WaitSees
       /\ \E o \in FirstOutcomes, n \in 1 .. Len(events \o wire), ck \in CkIds \cup {NoCk} :
            /\ o.rest = wire'
            /\ StopAt(o.seen, n)
            /\ LastHit(o.seen, n, got, ck)
            /\ op' = IF Over THEN op ELSE Heard(ck)
    \/ /\ WaitSlice
       /\ op' = IF Over \/ pc' = "wait" THEN op ELSE Heard(NoCk)

(* A run_until that is late expires at the top of its loop.                *)
Works ==
    /\ \/ Pump \/ NoticeDeath \/ EndTenure \/ RestoreExit \/ ExitAnswered \/ ExitLost
       \/ CallFails \/ ReadBatch \/ RunUntilExpires \/ RunUntilSees
       \/ RunUntilSlice \/ RunUntilLists \/ RunUntilChecks
       \/ ~op.late /\ RunUntilWaits
    /\ UNCHANGED op

Emulates ==
    /\ ViceHits \/ ViceDies
    /\ op' = IF op.mine \in parked' THEN [op EXCEPT !.hit = TRUE] ELSE op

Fails == RequestFails /\ UNCHANGED op

-----------------------------------------------------------------------------
Operates ==
    \/ BreakAdd \/ WaitLists \/ Resumes \/ LastResume \/ AsksStop \/ Registers
    \/ CallSetsUp \/ CallTraps \/ CallLists \/ CallExpires \/ DeletesTrap
    \/ Pokes \/ ConnectsAgain \/ HoldRuns \/ HoldGoesOn \/ Fails \/ Loses
    \/ op.at \in {"done", "poked"} /\ Leave

OpsNext ==
    \/ Begin \/ Operates \/ Leave \/ Deadline
    \/ Hears \/ Works \/ Emulates
    \/ Terminated /\ UNCHANGED op

OpsSpec == OpsInit /\ [][OpsNext]_opsVars

(* The operation goes on when it has its answer, its deadline comes, and   *)
(* the daemon's calls end.                                                 *)
OpsFairSpec ==
    OpsSpec /\ WF_opsVars(Operates) /\ WF_opsVars(Deadline) /\ WF_opsVars(Hears \/ Works)

-----------------------------------------------------------------------------
(***************************************************************************)
(* Properties.                                                             *)
(***************************************************************************)

(* An operation that reports a checkpoint waits for that one, and has the  *)
(* CPU halted on it until it leaves (wait_for_break, call_routine): it has *)
(* not taken its own list's halt, a leftover breakpoint or an old event    *)
(* for the hit.                                                            *)
FiredParked ==
    (op.at \in {"regs", "delete", "done"} /\ op.fired # NoCk /\ cpu # "dead")
        => cpu = "halted" /\ op.fired \in parked \cap op.want

(* After a reported hit the session stays stopped, whatever was read when: *)
(* nothing but a later operation resumes it (docs/cli.md:33-36).           *)
FiredStays ==
    (Over /\ op.fired # NoCk /\ pc = "idle" /\ cpu # "dead")
        => state = STOPPED /\ cpu = "halted"

(* From the second frame on, key_hold's byte is poked into a machine that  *)
(* does not execute before it is run to the anchor: between two frames the *)
(* keyboard scan cannot overwrite it (ops.py:313-317).                     *)
HoldSteady ==
    (op.at \in {"poke", "poked", "until"} /\ op.frame > 1) => ~Executing

(* Every operation ends, whether its checkpoint is reached or not.         *)
OpEnds == ~Over ~> Over

(* What ops.py:160-164 says ("the hit flag on a stopped checkpoint is the  *)
(* durable source of truth"), and mcp_server.py:246-247 of a breakpoint:   *)
(* a wait never resumes a machine that is parked on a checkpoint it waits  *)
(* for.                                                                    *)
WaitSeesParks ==
    [][op.kind = "wait" /\ Resumes => parked \cap op.want = {}]_opsVars
=============================================================================
