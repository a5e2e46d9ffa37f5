----------------------------- MODULE ViceMonitor -----------------------------
(***************************************************************************)
(* The emulator's side of the binary monitor connection, as the code under *)
(* src/src/petlib relies on it, and the two MonitorClient primitives every *)
(* other module is built from: a request/response transaction and a poll   *)
(* for events (src/src/petlib/monitor.py).                                 *)
(*                                                                         *)
(* VICE itself is external.  What the client code assumes of it:           *)
(*   - processing any command leaves the CPU halted, and a halt announces  *)
(*     itself with a STOPPED event sent before the command's response;     *)
(*   - EXIT restarts the CPU; a RESUMED event follows its response;        *)
(*   - a checkpoint hit halts the CPU and sends one CHECKPOINT_GET event   *)
(*     per checkpoint hit, then STOPPED;                                   *)
(*   - a halted CPU sends nothing, and frames arrive in order.             *)
(***************************************************************************)
EXTENDS Naturals, Sequences

CONSTANTS
    CkIds,      \* checkpoint numbers VICE can hand out (never reused)
    NoCk,       \* "no checkpoint": None in StopInfo.checkpoint
    EventCap,   \* maxlen of MonitorClient.events (256 in the code)
    MaxShared,  \* most checkpoints that sit on one address
    Prompt      \* TRUE: one read returns every frame VICE has sent

ASSUME NoCkAssumption == NoCk \notin CkIds
ASSUME EventCapAssumption == EventCap \in Nat \ {0}
ASSUME MaxSharedAssumption == MaxShared \in Nat \ {0}
ASSUME PromptAssumption == Prompt \in BOOLEAN

VARIABLES
    cpu,        \* "running", "returning" (EXECUTE_UNTIL_RETURN), "halted", "dead"
    cks,        \* per checkpoint: "unset", "on", "off", "once" or "gone"
    parked,     \* checkpoints whose hit halted the CPU (their hit flag is set)
    wire,       \* event frames sent by VICE and not read yet
    events      \* MonitorClient.events

CpuStates == {"running", "returning", "halted", "dead"}
CkStates  == {"unset", "on", "off", "once", "gone"}
Frame     == [type : {"hit", "stopped", "resumed"}, ck : CkIds \cup {NoCk}]
Stopped   == [type |-> "stopped", ck |-> NoCk]
Resumed   == [type |-> "resumed", ck |-> NoCk]
HitOf(n)  == [type |-> "hit", ck |-> n]

Executing == cpu \in {"running", "returning"}

(***************************************************************************)
(* collections.deque(maxlen=EventCap): appending drops from the left.      *)
(***************************************************************************)
Kept(s) == IF Len(s) <= EventCap THEN s
           ELSE SubSeq(s, Len(s) - EventCap + 1, Len(s))

FirstN(s, n) == SubSeq(s, 1, n)
Beyond(s, n) == SubSeq(s, n + 1, Len(s))

(***************************************************************************)
(* How many frames of the wire one recv() can return.  With Prompt FALSE   *)
(* the stream is cut anywhere, and a poll's window may close on late       *)
(* frames.                                                                 *)
(***************************************************************************)
ReadSizes == IF Prompt THEN {0, Len(wire)} ELSE 0 .. Len(wire)
PollSizes == IF Prompt THEN {Len(wire)} ELSE 0 .. Len(wire)

-----------------------------------------------------------------------------
(***************************************************************************)
(* Checkpoints on one address are hit together: a nonempty sequence of     *)
(* distinct armed checkpoints.  A temporary one is deleted by its hit.     *)
(***************************************************************************)
Armed == {n \in CkIds : cks[n] \in {"on", "once"}}

HitSeqs == {q \in UNION {[1 .. m -> Armed] : m \in 1 .. MaxShared} :
               \A j, k \in DOMAIN q : q[j] = q[k] => j = k}

HitSet(q)    == {q[j] : j \in DOMAIN q}
HitFrames(q) == [j \in DOMAIN q |-> HitOf(q[j])]
Spent(q)     == [n \in CkIds |-> IF n \in HitSet(q) /\ cks[n] = "once"
                                 THEN "gone" ELSE cks[n]]

(***************************************************************************)
(* The emulator on its own: a checkpoint fires, a subroutine that          *)
(* EXECUTE_UNTIL_RETURN watches returns, the process dies.                 *)
(***************************************************************************)
Hit(q) ==
    /\ Executing
    /\ cpu' = "halted"
    /\ parked' = HitSet(q)
    /\ cks' = Spent(q)
    /\ wire' = wire \o HitFrames(q) \o <<Stopped>>
    /\ UNCHANGED events

Return ==
    /\ cpu = "returning"
    /\ cpu' = "halted"
    /\ wire' = Append(wire, Stopped)
    /\ UNCHANGED <<cks, parked, events>>

Die ==
    /\ cpu # "dead"
    /\ cpu' = "dead"
    /\ UNCHANGED <<cks, parked, wire, events>>

-----------------------------------------------------------------------------
(***************************************************************************)
(* MonitorClient._transact.  The response is read after every event frame  *)
(* VICE sent before it, so those frames all end in the events queue.       *)
(* queue and pending are the queue and the wire the call starts from: a    *)
(* step that polls first passes what its poll left.                        *)
(***************************************************************************)
Haltings == IF Executing THEN <<Stopped>> ELSE <<>>

Collected(queue, pending) == Kept(queue \o pending \o Haltings)

(* Any command other than EXIT: the CPU is left halted.                    *)
Transact(queue, pending) ==
    /\ cpu # "dead"
    /\ cpu' = "halted"
    /\ wire' = <<>>
    /\ events' = Collected(queue, pending)
    /\ UNCHANGED parked

(***************************************************************************)
(* MonitorClient.resume: events.clear(), then EXIT.  The action stops      *)
(* where VICE has restarted the CPU and the response is still unread.      *)
(* ExitAfterCommand is resume right after another command: the CPU is halted   *)
(* and every frame has been read, so only the RESUMED can be pending.      *)
(***************************************************************************)
SendExitUncleared(pending) ==       \* mutant: no events.clear()
    /\ cpu # "dead"
    /\ cpu' = "running"
    /\ parked' = {}
    /\ wire' = <<Resumed>>
    /\ events' = Collected(events, pending)

SendExit(pending) ==
    /\ cpu # "dead"
    /\ cpu' = "running"
    /\ parked' = {}
    /\ wire' = <<Resumed>>
    /\ events' = Collected(<<>>, pending)

ExitAfterCommand ==
    /\ cpu # "dead"
    /\ cpu' = "running"
    /\ parked' = {}
    /\ wire' = <<Resumed>>
    /\ events' = <<>>

(* The recv() that carries a response may carry later event frames too.    *)
ReadResponseOnly ==                 \* mutant: events read with it are lost
    \E n \in ReadSizes : /\ events' = events
                         /\ wire' = Beyond(wire, n)

ReadResponse ==
    \E n \in ReadSizes : /\ events' = Kept(events \o FirstN(wire, n))
                         /\ wire' = Beyond(wire, n)

(***************************************************************************)
(* ADVANCE_INSTRUCTIONS and the registers request that follows it: the CPU *)
(* is resumed, steps, possibly onto checkpoints, and stops again.          *)
(***************************************************************************)
StepOnto(q) ==
    /\ cpu # "dead"
    /\ cpu' = "halted"
    /\ parked' = HitSet(q)
    /\ cks' = Spent(q)
    /\ wire' = <<>>
    /\ events' = Kept(events \o wire \o Haltings \o <<Resumed>>
                             \o HitFrames(q) \o <<Stopped>>)

(* EXECUTE_UNTIL_RETURN: the response arrives with the CPU already going.  *)
SendUntilReturn ==
    /\ cpu # "dead"
    /\ cpu' = "returning"
    /\ parked' = {}
    /\ wire' = <<Resumed>>
    /\ events' = Collected(events, wire)
    /\ UNCHANGED cks

-----------------------------------------------------------------------------
(***************************************************************************)
(* MonitorClient.poll_events empties the queue and returns its frames with *)
(* those read within the window; first=True returns the queue alone when   *)
(* it holds something and otherwise what one recv() brings.  An outcome is *)
(* the frames seen and what stays on the wire.                             *)
(***************************************************************************)
PollOutcomes ==
    {[seen |-> events \o FirstN(wire, n), rest |-> Beyond(wire, n)] : n \in PollSizes}

FirstOutcomes ==
    IF events # <<>>
    THEN {[seen |-> events, rest |-> wire]}
    ELSE {[seen |-> FirstN(wire, n), rest |-> Beyond(wire, n)] : n \in ReadSizes \ {0}}

(***************************************************************************)
(* MonitorClient.wait_for_stop over one batch: checkpoint keeps the number *)
(* of the last hit seen in this call (got on entry), and the first STOPPED *)
(* ends the call; the frames of the batch after it are dropped.            *)
(***************************************************************************)
LastHit(batch, n, got, ck) ==
    \/ /\ \A j \in 1 .. n : batch[j].type # "hit"
       /\ ck = got
    \/ \E j \in 1 .. n : /\ batch[j].type = "hit"
                         /\ ck = batch[j].ck
                         /\ \A k \in (j + 1) .. n : batch[k].type # "hit"

StopAt(batch, n) ==
    /\ n \in 1 .. Len(batch)
    /\ batch[n].type = "stopped"
    /\ \A k \in 1 .. (n - 1) : batch[k].type # "stopped"

NoStop(batch) == \A k \in 1 .. Len(batch) : batch[k].type # "stopped"

(* Checkpoint-hit evidence: a hit with no RESUMED after it.                *)
HitEvidence(s) ==
    \E j \in 1 .. Len(s) : /\ s[j].type = "hit"
                           /\ \A k \in (j + 1) .. Len(s) : s[k].type # "resumed"

ViceTypeOK ==
    /\ cpu \in CpuStates
    /\ cks \in [CkIds -> CkStates]
    /\ parked \in SUBSET CkIds
    /\ wire \in Seq(Frame)
    /\ events \in Seq(Frame)
=============================================================================
