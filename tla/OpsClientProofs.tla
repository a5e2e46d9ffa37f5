--------------------------- MODULE OpsClientProofs ---------------------------
(***************************************************************************)
(* Proofs about the operations that wait for the machine.  Every step of   *)
(* theirs is one of PetDaemon, so what is proved of the daemon holds with  *)
(* them; and what they report, or poke, is then true of the machine, for   *)
(* any checkpoints, any number of frames and any order of events.          *)
(***************************************************************************)
EXTENDS OpsClient, PetDaemonStateProofs

(* What a wait may still hear since its client's resume: only hits of the  *)
(* checkpoints that the CPU is parked on now.                              *)
Clear(ck) == /\ wire \in Seq(Foreign(ck))
             /\ events \in Seq(Foreign(ck))
             /\ got # ck

HitsInv ==
    /\ AwaitsStop => \A ck \in CkIds \ parked : Clear(ck)
    /\ pc = "finish" => last = "command"

-----------------------------------------------------------------------------
(***************************************************************************)
(* Every step of an operation is a step of the daemon, or none.            *)
(***************************************************************************)
LEMMA OpsStep ==
    ASSUME [OpsNext]_opsVars
    PROVE  [Next]_vars
<1> USE DEF Next
<1>1. CASE Begin \/ ConnectsAgain
  BY <1>1 DEF Begin, ConnectsAgain
<1>2. CASE Leave
  BY <1>2 DEF Leave, Environment
<1>3. CASE Loses \/ Deadline \/ CallExpires
  BY <1>3 DEF Loses, Deadline, CallExpires
<1>4. CASE \/ BreakAdd \/ WaitLists \/ Resumes \/ LastResume \/ AsksStop \/ Registers
           \/ CallSetsUp \/ CallTraps \/ CallLists \/ DeletesTrap \/ Pokes \/ HoldRuns
           \/ Fails
  BY <1>4 DEF BreakAdd, WaitLists, Resumes, LastResume, AsksStop, Registers,
              CallSetsUp, CallTraps, CallLists, DeletesTrap, Pokes, HoldRuns, Fails,
              Requests
<1>5. CASE HoldGoesOn
  BY <1>5 DEF HoldGoesOn, Served, ClientLeaves, Environment
<1>6. CASE Hears
  BY <1>6 DEF Hears, Daemon
<1>7. CASE Works
  BY <1>7 DEF Works, Daemon
<1>8. CASE Emulates
  BY <1>8 DEF Emulates, Environment
<1>9. CASE Terminated \/ UNCHANGED opsVars
  BY <1>9 DEF opsVars, vars
<1> QED
  BY <1>1, <1>2, <1>3, <1>4, <1>5, <1>6, <1>7, <1>8, <1>9 DEF OpsNext, Operates

(* The operations send the daemon only requests that it serves, in an      *)
(* order that it allows: whatever is proved of the daemon and any clients  *)
(* holds of the daemon and these.                                          *)
THEOREM OperationsAreRequests == OpsSpec => Spec
<1>1. OpsInit => Init
  BY DEF OpsInit
<1>2. [OpsNext]_opsVars => [Next]_vars
  BY OpsStep
<1> QED
  BY <1>1, <1>2, PTL DEF OpsSpec, Spec

-----------------------------------------------------------------------------
(***************************************************************************)
(* A wait hears of no old hit.                                             *)
(***************************************************************************)
LEMMA HitsInit == Init => HitsInv
BY DEF Init, HitsInv, AwaitsStop

LEMMA HitsEnvironment ==
    ASSUME IndInv, HitsInv, Environment
    PROVE  HitsInv'
<1>0. VInv
  BY DEF IndInv, TypeOK, VInv
<1>1. UNCHANGED <<events, got, pc, cont, last>>
  BY DEF Environment, ViceHits, ViceReturns, ViceDies, ClientLeaves, Hit, Return, Die
<1>2. AwaitsStop' <=> AwaitsStop
  BY <1>1 DEF AwaitsStop
<1>3. CASE ViceHits
  <2>1. PICK q \in HitSeqs : Hit(q)
    BY <1>3 DEF ViceHits
  <2>2. parked = {} /\ parked' = HitSet(q)
    BY <1>0, <2>1 DEF Hit, VInv, WireInv
  <2>3. \A ck \in CkIds \ parked' : wire \in Seq(Foreign(ck)) => wire' \in Seq(Foreign(ck))
    BY <1>0, <2>1, <2>2, HitKeeps
  <2> QED
    BY <1>1, <1>2, <2>2, <2>3 DEF HitsInv, Clear
<1>4. CASE ViceReturns
  <2>1. parked' = parked
    BY <1>4 DEF ViceReturns, Return
  <2>2. \A ck : wire \in Seq(Foreign(ck)) => wire' \in Seq(Foreign(ck))
    BY <1>0, <1>4, ReturnKeeps DEF ViceReturns
  <2> QED
    BY <1>1, <1>2, <2>1, <2>2 DEF HitsInv, Clear
<1>5. CASE ViceDies \/ ClientLeaves
  <2>1. UNCHANGED <<wire, parked>>
    BY <1>5 DEF ViceDies, Die, ClientLeaves, vice
  <2> QED
    BY <1>1, <1>2, <2>1 DEF HitsInv, Clear
<1> QED
  BY <1>3, <1>4, <1>5 DEF Environment

LEMMA HitsRequests ==
    ASSUME IndInv, WaitInv, HitsInv, Requests
    PROVE  HitsInv'
<1>1. CASE \/ Command \/ SetCheckpoint \/ DeleteCheckpoint \/ ToggleCheckpoint
           \/ RunUntilZero \/ Step \/ Finish \/ RunUntil \/ Quit
  <2>1. /\ last' # "armed" /\ pc' # "wait"
        /\ pc' = "finish" => last' = "command"
    BY <1>1 DEF Command, SetCheckpoint, DeleteCheckpoint, ToggleCheckpoint,
                RunUntilZero, Step, Finish, RunUntil, Quit, Ask
  <2> QED
    BY <2>1 DEF HitsInv, AwaitsStop
<1>2. CASE Resume
  <2>1. CASE last = "command"
    <3>1. /\ events' = <<>> /\ wire' = <<Resumed>> /\ got' = got /\ pc = "readline"
          /\ pc' # "finish"
      BY <1>2, <2>1, CollectedNothing DEF Resume, Ask, SendExit, WaitInv, Commanded
    <3>2. got = NoCk
      BY <3>1 DEF IndInv, ControlInv
    <3>3. \A ck \in CkIds : /\ <<>> \in Seq(Foreign(ck))
                            /\ <<Resumed>> \in Seq(Foreign(ck))
      BY EmptySeq, SingleProperties, FrameProperties
    <3> QED
      BY <3>1, <3>2, <3>3, NoCkAssumption DEF HitsInv, Clear
  <2>2. CASE last # "command"
    BY <1>2, <2>2 DEF Resume, Ask, HitsInv, AwaitsStop
  <2> QED
    BY <2>1, <2>2
<1>3. CASE WaitForStop
  BY <1>3 DEF WaitForStop, Ask, vice, HitsInv, AwaitsStop, Clear
<1>4. CASE Release
  <2>1. pc' \in {"readline", "restoring"} /\ last' = "other"
    BY <1>4, RestoreKeeps DEF Release, After, Ask
  <2> QED
    BY <2>1 DEF HitsInv, AwaitsStop
<1>5. CASE RequestFails
  BY <1>5 DEF RequestFails, Fail, HitsInv, AwaitsStop
<1> QED
  BY <1>1, <1>2, <1>3, <1>4, <1>5 DEF Requests

(* The frames of a batch that a wait reads: a hit among them is current,   *)
(* and so is what the wait remembers of them.                              *)
LEMMA HeardIsParked ==
    ASSUME IndInv, HitsInv, pc = "wait",
           NEW o \in FirstOutcomes, NEW n \in 0 .. Len(o.seen), NEW ck \in CkIds,
           LastHit(o.seen, n, got, ck)
    PROVE  ck \in parked
<1>1. SUFFICES ASSUME ck \notin parked
               PROVE  FALSE
  OBVIOUS
<1>2. VInv /\ Clear(ck)
  BY <1>1 DEF IndInv, TypeOK, VInv, HitsInv, AwaitsStop
<1>3. o.seen \in Seq(Frame) /\ Len(o.seen) \in Nat /\ o.seen \in Seq(Foreign(ck))
  BY <1>2, FirstKeeps DEF Clear
<1>4. \A j \in 1 .. n : o.seen[j] \in Foreign(ck)
  BY <1>3, ElementOfSeq
<1>5. \A j \in 1 .. n : o.seen[j].type = "hit" => o.seen[j].ck # ck
  BY <1>4 DEF Foreign
<1> QED
  BY <1>2, <1>5 DEF LastHit, Clear

LEMMA HitsReadBatch ==
    ASSUME IndInv, HitsInv, ReadBatch
    PROVE  HitsInv'
<1>0. VInv
  BY DEF IndInv, TypeOK, VInv
<1>1. PICK o \in FirstOutcomes :
        /\ \E ck \in CkIds \cup {NoCk} : LastHit(o.seen, Len(o.seen), got, ck) /\ got' = ck
        /\ wire' = o.rest
  BY DEF ReadBatch
<1>2. PICK k \in CkIds \cup {NoCk} : LastHit(o.seen, Len(o.seen), got, k) /\ got' = k
  BY <1>1
<1>3. UNCHANGED <<parked, pc, cont, last>> /\ events' = <<>> /\ pc # "readline" /\ pc # "exit"
  BY DEF ReadBatch
<1>4. ASSUME AwaitsStop', NEW ck \in CkIds \ parked'
      PROVE  Clear(ck)'
  <2>1. pc = "wait" /\ ck \notin parked /\ Clear(ck)
    BY <1>3, <1>4 DEF AwaitsStop, HitsInv
  <2>2. wire' \in Seq(Foreign(ck))
    BY <1>0, <1>1, <2>1, FirstKeeps DEF Clear
  <2>3. events' \in Seq(Foreign(ck))
    BY <1>3, EmptySeq
  <2>4. Len(o.seen) \in 0 .. Len(o.seen)
    BY <1>0, FirstKeeps, LenProperties
  <2>5. got' # ck
    <3>1. CASE k \in CkIds
      BY <1>2, <2>1, <2>4, <3>1, HeardIsParked
    <3>2. CASE k = NoCk
      BY <1>2, <3>2, NoCkAssumption
    <3> QED
      BY <3>1, <3>2
  <2> QED
    BY <2>2, <2>3, <2>5 DEF Clear
<1> QED
  BY <1>3, <1>4 DEF HitsInv

LEMMA DaemonFinishes ==             \* only a request begins a finish
    ASSUME IndInv, Daemon, pc' = "finish"
    PROVE  pc = "finish" /\ last' = last
<1>1. cont \in Conts
  BY DEF IndInv, TypeOK
<1>2. After(cont) # "finish" /\ After("restored") # "finish"
  BY <1>1 DEF After, Conts
<1>3. ~(EndTenure \/ RestoreExit \/ ExitAnswered \/ ExitLost)
  BY <1>2 DEF EndTenure, Restore, RestoreExit, ExitAnswered, ExitLost, Fail
<1>4. ~(CallFails \/ WaitSees \/ WaitSlice \/ FinishSees \/ FinishTimesOut)
  BY DEF CallFails, Fail, WaitSees, WaitSlice, FinishSees, FinishTimesOut, FinishAnswers
<1>5. ~(\/ RunUntilExpires \/ RunUntilWaits \/ RunUntilSees \/ RunUntilSlice
        \/ RunUntilLists \/ RunUntilChecks)
  BY DEF RunUntilExpires, RunUntilWaits, RunUntilSees, RunUntilSlice,
         RunUntilLists, RunUntilChecks, NextArrival, RunUntilAnswers
<1> QED
  BY <1>3, <1>4, <1>5 DEF Daemon, Pump, NoticeDeath, ReadBatch

LEMMA HitsDaemon ==
    ASSUME IndInv, WaitInv, HitsInv, Daemon
    PROVE  HitsInv'
<1>0. VInv
  BY DEF IndInv, TypeOK, VInv
<1>1. CASE ReadBatch
  BY <1>1, HitsReadBatch
<1>5. pc' = "finish" => pc = "finish" /\ last' = last
  BY DaemonFinishes DEF Daemon
<1>2. CASE ExitAnswered
  <2>1. UNCHANGED <<cpu, cks, parked, got, last>> /\ ReadResponse
    BY <1>2 DEF ExitAnswered
  <2>2. AwaitsStop' => AwaitsStop
    <3>1. pc = "exit" /\ pc' = After(cont)
      BY <1>2 DEF ExitAnswered
    <3>2. cont \in Conts \ {"none"}
      BY <3>1 DEF IndInv, TypeOK, ControlInv
    <3>3. pc' = "readline" => cont \in {"resumed", "released"}
      BY <3>1, <3>2 DEF After, Conts
    <3>4. pc' \notin {"wait", "exit"}
      BY <3>1, <3>2 DEF After, Conts
    <3> QED
      BY <2>1, <3>1, <3>3, <3>4 DEF AwaitsStop, WaitInv, LastInv
  <2> QED
    BY <1>0, <1>5, <2>1, <2>2, ReadResponseKeeps DEF HitsInv, Clear
<1>3. CASE WaitSlice \/ RunUntilWaits
  <2>1. CASE WaitSlice
    BY <2>1, NoCkAssumption DEF WaitSlice, vice, HitsInv, AwaitsStop, Clear
  <2>2. CASE RunUntilWaits
    BY <2>2 DEF RunUntilWaits, vice, HitsInv, AwaitsStop, Clear
  <2> QED
    BY <1>3, <2>1, <2>2
<1>4. ASSUME ~(ReadBatch \/ ExitAnswered \/ WaitSlice \/ RunUntilWaits)
      PROVE  ~AwaitsStop'
  <2>1. WaitInv'
    BY WaitDaemon
  <2>2. CASE Pump \/ NoticeDeath
    BY <2>2 DEF Pump, NoticeDeath, AwaitsStop
  <2>3. CASE EndTenure
    <3>1. pc' \in {"idle", "restoring"}
      BY <2>3, RestoreKeeps DEF EndTenure, After
    <3> QED
      BY <3>1 DEF AwaitsStop
  <2>4. CASE RestoreExit
    <3>1. /\ pc = "restoring" /\ cont \in {"released", "restored"} /\ last' = last
          /\ cont = "released" => last = "other"
      BY <2>4 DEF RestoreExit, IndInv, ControlInv, WaitInv, LastInv
    <3>2. \/ pc' = "exit" /\ cont' = cont
          \/ pc' = After(cont)
      BY <2>4 DEF RestoreExit
    <3> QED
      BY <3>1, <3>2 DEF After, AwaitsStop
  <2>5. CASE ExitLost \/ CallFails
    <3>1. CASE Fail
      BY <3>1 DEF Fail, AwaitsStop
    <3>2. CASE /\ pc = "exit" /\ cont \in {"released", "restored"} /\ pc' = After(cont)
               /\ last' = last
      BY <3>2 DEF After, AwaitsStop, WaitInv, LastInv
    <3> QED
      BY <2>5, <3>1, <3>2 DEF ExitLost, CallFails
  <2>6. CASE WaitSees
    BY <2>6 DEF WaitSees, AwaitsStop, WaitInv, LastInv
  <2>7. CASE FinishSees \/ FinishTimesOut
    BY <2>7 DEF FinishSees, FinishTimesOut, FinishAnswers, AwaitsStop, HitsInv
  <2>8. CASE RunUntilExpires
    BY <2>8 DEF RunUntilExpires, AwaitsStop, WaitInv, LastInv, InRun
  <2>9. CASE RunUntilSees \/ RunUntilSlice \/ RunUntilLists \/ RunUntilChecks
    BY <2>9 DEF RunUntilSees, RunUntilSlice, RunUntilLists, RunUntilChecks,
                NextArrival, RunUntilAnswers, AwaitsStop, WaitInv, LastInv, InRun
  <2> QED
    BY <1>4, <2>2, <2>3, <2>4, <2>5, <2>6, <2>7, <2>8, <2>9 DEF Daemon
<1> QED
  BY <1>1, <1>2, <1>3, <1>4, <1>5 DEF HitsInv

LEMMA HitsNext ==
    ASSUME IndInv, WaitInv, HitsInv, [Next]_vars
    PROVE  HitsInv'
<1>1. CASE Accept
  BY <1>1 DEF Accept, HitsInv, AwaitsStop
<1>2. CASE Terminated \/ UNCHANGED vars
  BY <1>2 DEF Terminated, vars, HitsInv, AwaitsStop, Clear
<1> QED
  BY <1>1, <1>2, HitsEnvironment, HitsRequests, HitsDaemon DEF Next

(* From the client's resume to the end of its wait, every hit that is on   *)
(* the wire, queued or remembered is one that the CPU is parked on.        *)
THEOREM WaitsHearNoOldHit == Spec => []HitsInv
<1>1. IndInv /\ WaitInv /\ HitsInv /\ [Next]_vars => HitsInv'
  BY HitsNext
<1> QED
  BY <1>1, HitsInit, Inductive, WaitInductive, PTL DEF Spec

-----------------------------------------------------------------------------
(***************************************************************************)
(* The operation's invariant: where the daemon is while the operation has  *)
(* a step to take, what call_routine knows of its trap, what a reported    *)
(* checkpoint means, and what key_hold finds between two frames.           *)
(***************************************************************************)
Alive == cpu # "dead"

Attends ==
    /\ pc = "wait" => op.at \in {"waiting", "left"}
    /\ Alive /\ op.at \in {"set", "release", "setup", "list", "resume", "last", "regs"}
         => pc = "readline" /\ conn = "open"
    /\ Alive /\ op.at \in {"top", "waiting"}
         => conn = "open" /\ (pc \in {"readline", "wait"} \/ (pc = "exit" /\ cont = "resumed"))
    /\ Alive /\ op.at \in {"delete", "done"} /\ op.fired # NoCk
         => pc = "readline" /\ conn = "open"

TrapInv == op.kind = "call" =>
    /\ op.at \in {"setup", "set"} => op.mine = NoCk /\ ~op.hit
    /\ Alive /\ op.at \in {"setup", "set"} => Unset # {}
    /\ op.at \in {"resume", "top", "waiting", "list"} => op.want = {op.mine}
    /\ Alive /\ op.at = "resume" => ~op.hit /\ Halted
    /\ Alive /\ op.hit /\ op.at \in {"top", "waiting", "list"} => op.mine \in parked

Reports == op.fired # NoCk /\ op.at \in {"regs", "delete", "done"}

FiredInv ==
    /\ op.fired # NoCk => op.at \in {"regs", "delete", "done", "left"}
    /\ Alive /\ Reports => Halted /\ op.fired \in parked \cap op.want
    /\ Alive /\ Reports /\ op.at # "regs" => wire = <<>>

Rests == Halted /\ wire = <<>> /\ state = STOPPED

HoldInv ==
    /\ op.at = "running" /\ pc = "readline" /\ state = STOPPED /\ Alive => Rests
    /\ op.at \in {"poke", "poked", "until"} /\ op.frame > 1 /\ Alive
         => Rests /\ pc \in {"idle", "readline"}

OpsInv == OpsTypeOK /\ Attends /\ TrapInv /\ FiredInv /\ HoldInv

-----------------------------------------------------------------------------
(* What a request does that only halts the CPU.                            *)
Halts ==
    /\ pc = "readline" /\ conn = "open" /\ Alive
    /\ UNCHANGED <<parked, pc, conn, state, cont>>
    /\ cpu' = "halted" /\ wire' = <<>>

LEMMA CommandHalts ==
    ASSUME Command \/ SetCheckpoint \/ DeleteCheckpoint
    PROVE  Halts
BY DEF Command, SetCheckpoint, DeleteCheckpoint, Ask, Transact, Halts, Alive

LEMMA StaysDead ==
    ASSUME [Next]_vars, cpu = "dead"
    PROVE  cpu' = "dead"
<1>1. CASE Environment \/ Accept \/ Terminated \/ UNCHANGED vars
  BY <1>1 DEF Environment, ViceHits, Hit, ViceReturns, Return, ViceDies, Die, ClientLeaves,
              Accept, Terminated, vars, vice, Executing
<1>2. CASE Requests
  BY <1>2 DEF Requests, Command, SetCheckpoint, DeleteCheckpoint, ToggleCheckpoint, Resume,
              Step, Finish, WaitForStop, RunUntil, RunUntilZero, Release, Quit, RequestFails,
              Fail, Transact, SendExit, ExitAfterCommand, SendUntilReturn, StepOnto, vice
<1>3. CASE Daemon
  BY <1>3 DEF Daemon, Pump, NoticeDeath, EndTenure, RestoreExit, ExitAnswered, ExitLost,
              CallFails, Fail, ReadBatch, WaitSees, WaitSlice, FinishSees, FinishTimesOut,
              FinishAnswers, RunUntilExpires, RunUntilWaits, RunUntilSees, RunUntilSlice,
              RunUntilLists, RunUntilChecks, Transact, SendExit, ExitAfterCommand, vice
<1> QED
  BY <1>1, <1>2, <1>3 DEF Next

LEMMA HaltedOrNot ==
    ASSUME TypeOK, Alive
    PROVE  Halted \/ Executing
BY DEF TypeOK, ViceTypeOK, CpuStates, Alive, Halted, Executing

LEMMA NothingLeft ==                \* a poll of an empty wire leaves it empty
    ASSUME IndInv, wire = <<>>, NEW o \in PollOutcomes
    PROVE  o.rest = <<>>
<1>1. PICK n \in 0 .. Len(wire) : o.rest = Beyond(wire, n)
  BY ReadSizesBound DEF PollOutcomes, IndInv, TypeOK, VInv
<1>2. wire \in Seq(Frame) /\ Len(wire) = 0
  BY DEF IndInv, TypeOK, ViceTypeOK
<1>3. n = 0
  BY <1>2
<1>4. Beyond(wire, n) \in Seq(Frame) /\ Len(Beyond(wire, n)) = Len(wire) - n
  BY <1>2, CutProperties
<1>5. Len(Beyond(wire, n)) = 0
  BY <1>2, <1>3, <1>4
<1> QED
  BY <1>1, <1>4, <1>5, EmptySeq

LEMMA WorksWaits ==                 \* only a request begins a wait
    ASSUME IndInv, Works, pc' = "wait"
    PROVE  pc = "wait"
<1>1. cont \in Conts
  BY DEF IndInv, TypeOK
<1>2. After(cont) # "wait" /\ After("restored") # "wait"
  BY <1>1 DEF After, Conts
<1>3. ~(EndTenure \/ RestoreExit \/ ExitAnswered \/ ExitLost \/ CallFails)
  BY <1>2 DEF EndTenure, Restore, RestoreExit, ExitAnswered, ExitLost, CallFails, Fail
<1>4. ~(\/ RunUntilExpires \/ RunUntilWaits \/ RunUntilSees \/ RunUntilSlice
        \/ RunUntilLists \/ RunUntilChecks)
  BY DEF RunUntilExpires, RunUntilWaits, RunUntilSees, RunUntilSlice,
         RunUntilLists, RunUntilChecks, NextArrival, RunUntilAnswers
<1> QED
  BY <1>3, <1>4 DEF Works, Pump, NoticeDeath, ReadBatch

(* What the daemon does by itself while an operation is under way.         *)
LEMMA WorksWhere ==
    ASSUME IndInv, Works, Alive
    PROVE  /\ ~(pc = "readline" /\ conn = "open")
           /\ conn = "open" => conn' = "open"
           /\ pc = "exit" /\ cont = "resumed" => pc' = "readline"
           /\ pc' = "wait" <=> pc = "wait"
           /\ pc \in {"exit", "wait"} => UNCHANGED parked
           /\ pc = "idle" => wire # <<>>
<1> USE DEF Alive
<1>0. cont \in Conts /\ (pc = "exit" => cont # "none")
  BY DEF IndInv, TypeOK, ControlInv
<1>1. CASE Pump
  <2>1. pc = "idle" /\ UNCHANGED <<pc, conn, parked>>
    BY <1>1 DEF Pump
  <2>2. wire = <<>> => FALSE
    <3>1. SUFFICES ASSUME wire = <<>> PROVE FALSE
      OBVIOUS
    <3>2. PICK o \in PollOutcomes : o.rest # wire
      BY <1>1 DEF Pump
    <3> QED
      BY <3>1, <3>2, NothingLeft
  <2> QED
    BY <2>1, <2>2
<1>2. CASE NoticeDeath \/ ExitLost \/ CallFails
  <2>1. ~(NoticeDeath \/ ExitLost \/ CallFails)
    BY DEF NoticeDeath, ExitLost, CallFails, Fail
  <2> QED
    BY <1>2, <2>1
<1>3. CASE EndTenure
  <2>1. pc \in {"readline", "abandoned"} /\ conn = "gone"
    BY <1>3 DEF EndTenure
  <2>2. pc' \in {"idle", "restoring"}
    BY <1>3, RestoreKeeps DEF EndTenure, After
  <2> QED
    BY <2>1, <2>2
<1>4. CASE RestoreExit
  BY <1>4 DEF RestoreExit
<1>5. CASE ExitAnswered
  <2>1. pc = "exit" /\ pc' = After(cont) /\ UNCHANGED <<conn, parked>>
    BY <1>5 DEF ExitAnswered
  <2>2. pc' # "wait" /\ (cont = "resumed" => pc' = "readline")
    BY <1>0, <2>1 DEF After, Conts
  <2> QED
    BY <2>1, <2>2
<1>6. CASE ReadBatch
  BY <1>6 DEF ReadBatch
<1>7. CASE RunUntilExpires \/ RunUntilSlice \/ RunUntilChecks
  BY <1>7 DEF RunUntilExpires, RunUntilSlice, RunUntilChecks
<1>8. CASE RunUntilSees \/ RunUntilLists
  BY <1>8 DEF RunUntilSees, RunUntilLists, NextArrival, RunUntilAnswers
<1>9. CASE RunUntilWaits
  BY <1>9 DEF RunUntilWaits
<1> QED
  BY <1>1, <1>2, <1>3, <1>4, <1>5, <1>6, <1>7, <1>8, <1>9 DEF Works

(* A request is served with the session STOPPED only where the machine     *)
(* rests; what is left of it when the client has gone rests too.           *)
LEMMA WorksRests ==
    ASSUME IndInv, Works, Alive
    PROVE  /\ pc' = "readline" /\ state' = STOPPED => Rests'
           /\ pc = "readline" /\ Rests => pc' = "idle" /\ Rests'
<1> USE DEF Alive
<1>0. cont \in Conts /\ (pc = "exit" => cont # "none")
  BY DEF IndInv, TypeOK, ControlInv
<1>1. CASE Pump \/ ReadBatch \/ RunUntilExpires \/ RunUntilSlice \/ RunUntilChecks
           \/ RunUntilWaits \/ RestoreExit
  BY <1>1 DEF Pump, ReadBatch, RunUntilExpires, RunUntilSlice, RunUntilChecks, RunUntilWaits,
              RestoreExit
<1>2. CASE NoticeDeath \/ ExitLost \/ CallFails
  <2>1. ~(NoticeDeath \/ ExitLost \/ CallFails)
    BY DEF NoticeDeath, ExitLost, CallFails, Fail
  <2> QED
    BY <1>2, <2>1
<1>3. CASE EndTenure
  <2>1. pc' \in {"idle", "restoring"} /\ cpu' = cpu
    BY <1>3, RestoreKeeps DEF EndTenure, After
  <2>2. ASSUME Rests PROVE pc' = "idle" /\ Rests'
    <3>1. PICK o \in PollOutcomes : wire' = o.rest /\ state' = RestoredState(o.seen)
      BY <1>3 DEF EndTenure, Restore
    <3>2. state' = STOPPED /\ pc' = "idle"
      BY <1>3, <2>2, <3>1 DEF EndTenure, Restore, RestoredState, After, Rests, STOPPED, RUNNING
    <3>3. wire' = <<>>
      BY <2>2, <3>1, NothingLeft DEF Rests
    <3> QED
      BY <2>1, <2>2, <3>2, <3>3 DEF Rests, Halted
  <2> QED
    BY <2>1, <2>2
<1>4. CASE ExitAnswered
  BY <1>4 DEF ExitAnswered, RUNNING, STOPPED
<1>5. CASE RunUntilSees \/ RunUntilLists
  BY <1>5 DEF RunUntilSees, RunUntilLists, NextArrival, RunUntilAnswers, Transact, Rests,
              Halted
<1> QED
  BY <1>1, <1>2, <1>3, <1>4, <1>5 DEF Works

-----------------------------------------------------------------------------
LEMMA OpsStarts == OpsInit => OpsInv
<1> SUFFICES ASSUME OpsInit PROVE OpsInv
  OBVIOUS
<1>1. TypeOK
  BY InitInd DEF OpsInit, IndInv
<1>2. op = Operation("none", "left", {}) /\ pc = "idle"
  BY DEF OpsInit, Init
<1> QED
  BY <1>1, <1>2, OpsAssumption
     DEF Operation, OpsInv, OpsTypeOK, Kinds, Places, Attends, TrapInv, FiredInv, Reports,
         HoldInv

LEMMA BeginSound ==
    ASSUME OpsInv, TypeOK', Begin
    PROVE  OpsInv'
<1>1. /\ pc' = "readline" /\ conn' = "open" /\ cks' = cks
  BY DEF Begin, Accept, vice
<1>2. \/ op' = Operation("break", "set", {})
      \/ op' \in {Operation("wait", "list", want) : want \in {CkIds, {User}}}
      \/ Unset # {} /\ op' = Operation("call", "setup", {})
      \/ op' = Operation("hold", "poke", {})
  BY DEF Begin
<1>3. OpsTypeOK'
  <2>1. \E kind \in Kinds, at \in Places, want \in SUBSET CkIds :
          op' = Operation(kind, at, want)
    BY <1>2, OpsAssumption DEF Kinds, Places
  <2>2. 1 \in 1 .. MaxFrames
    BY OpsAssumption
  <2> QED
    BY <2>1, <2>2 DEF OpsTypeOK, Operation
<1>4. /\ op'.fired = NoCk /\ op'.frame = 1 /\ op'.mine = NoCk /\ op'.hit = FALSE
      /\ op'.at \in {"set", "list", "setup", "poke"}
      /\ op'.kind = "call" => op'.at = "setup" /\ Unset # {}
  BY <1>2 DEF Operation
<1>5. Unset' = Unset
  BY <1>1 DEF Unset
<1> QED
  BY <1>1, <1>3, <1>4, <1>5 DEF OpsInv, Attends, TrapInv, FiredInv, Reports, HoldInv

LEMMA LeaveSound ==
    ASSUME OpsInv, TypeOK', Leave
    PROVE  OpsInv'
<1>1. conn' = "gone" /\ UNCHANGED <<cpu, cks, parked, wire, state, pc, cont>>
  BY DEF Leave, ClientLeaves, vice
<1>2. \/ op.at = "poked" /\ op' = [op EXCEPT !.at = "until"]
      \/ op.at = "done" /\ op' = [op EXCEPT !.at = "left"]
      \/ op.at # "done" /\ op' = [op EXCEPT !.at = "left", !.fired = NoCk]
  BY DEF Leave, To
<1>3. op' \in [kind : Kinds, at : Places, want : SUBSET CkIds, mine : CkIds \cup {NoCk},
               hit : BOOLEAN, late : BOOLEAN, fired : CkIds \cup {NoCk},
               frame : 1 .. MaxFrames]
  BY <1>2 DEF OpsInv, OpsTypeOK, Places
<1>4. OpsTypeOK'
  BY <1>3 DEF OpsTypeOK
<1>5. Unset' = Unset
  BY <1>1 DEF Unset
<1>6. /\ op'.at \in {"until", "left"} /\ op'.frame = op.frame
      /\ op'.fired \in {op.fired, NoCk} /\ (op'.at = "until" => op.at = "poked")
  BY <1>2 DEF OpsInv, OpsTypeOK
<1> QED
  BY <1>1, <1>4, <1>5, <1>6
     DEF OpsInv, Attends, TrapInv, FiredInv, Reports, HoldInv, Rests, Halted, Alive

(* The operation gives up, or only its clock moves.                        *)
LEMMA PauseSound ==
    ASSUME OpsInv, TypeOK',
           \/ Loses \/ Deadline \/ CallExpires \/ (Terminated /\ UNCHANGED op)
           \/ UNCHANGED opsVars
    PROVE  OpsInv'
<1>1. UNCHANGED vars
  BY DEF Loses, Deadline, CallExpires, Terminated, opsVars, vars
<1>2. \/ op' = [op EXCEPT !.at = "left", !.fired = NoCk]
      \/ op' = [op EXCEPT !.late = TRUE]
      \/ op.at = "top" /\ op' = [op EXCEPT !.at = "delete"]
      \/ op' = op
  BY DEF Loses, Deadline, CallExpires, To, opsVars
<1>3. op' \in [kind : Kinds, at : Places, want : SUBSET CkIds, mine : CkIds \cup {NoCk},
               hit : BOOLEAN, late : BOOLEAN, fired : CkIds \cup {NoCk},
               frame : 1 .. MaxFrames]
  BY <1>2 DEF OpsInv, OpsTypeOK, Places
<1>4. OpsTypeOK'
  BY <1>3 DEF OpsTypeOK
<1>5. Unset' = Unset
  BY <1>1 DEF Unset, vars
<1>6. CASE op'.at = "left" /\ op'.fired = NoCk
  BY <1>1, <1>4, <1>6 DEF OpsInv, Attends, TrapInv, FiredInv, Reports, HoldInv, vars
<1>7. CASE \A f \in {"kind", "at", "want", "mine", "hit", "fired", "frame"} : op'[f] = op[f]
  BY <1>1, <1>4, <1>5, <1>7
     DEF OpsInv, Attends, TrapInv, FiredInv, Reports, HoldInv, Rests, Halted, Alive, vars
<1>8. CASE op.at = "top" /\ op' = [op EXCEPT !.at = "delete"]
  <2>1. op.fired = NoCk /\ op'.fired = NoCk /\ op'.at = "delete" /\ pc # "wait"
    BY <1>8 DEF OpsInv, OpsTypeOK, FiredInv, Attends
  <2> QED
    BY <1>1, <1>4, <2>1 DEF OpsInv, Attends, TrapInv, FiredInv, Reports, HoldInv, vars
<1> QED
  BY <1>2, <1>6, <1>7, <1>8 DEF OpsInv, OpsTypeOK

-----------------------------------------------------------------------------
(* The requests that only halt the CPU: what an operation makes of them.   *)
Asks == \/ op.at = "set" /\ BreakAdd
        \/ WaitLists \/ Registers \/ CallSetsUp \/ CallTraps \/ CallLists
        \/ DeletesTrap \/ Pokes

LEMMA AsksHalt ==
    ASSUME Asks
    PROVE  Halts
BY CommandHalts DEF Asks, BreakAdd, WaitLists, Registers, CallSetsUp, CallTraps, CallLists,
                    DeletesTrap, Pokes

LEMMA FreshIsUnset ==
    ASSUME Unset # {}
    PROVE  Fresh \in Unset
BY DEF Fresh

LEMMA AsksTyped ==
    ASSUME OpsInv, TypeOK', Asks
    PROVE  OpsTypeOK'
<1> USE DEF OpsInv, OpsTypeOK, Places, To
<1>1. CASE op.at = "set" /\ BreakAdd
  BY <1>1 DEF BreakAdd
<1>2. CASE WaitLists
  <2>1. \/ \E n \in Listed : op' = [op EXCEPT !.at = "regs", !.fired = n]
        \/ op' = [op EXCEPT !.at = "last"]
        \/ op' = [op EXCEPT !.at = "resume"]
    BY <1>2 DEF WaitLists
  <2>2. Listed \subseteq CkIds
    BY DEF Listed
  <2> QED
    BY <2>1, <2>2
<1>3. CASE Registers
  <2>1. op' = [op EXCEPT !.at = "delete"] \/ op' = [op EXCEPT !.at = "done"]
    BY <1>3 DEF Registers
  <2> QED
    BY <2>1
<1>4. CASE CallSetsUp \/ Pokes
  BY <1>4 DEF CallSetsUp, Pokes
<1>5. CASE CallTraps
  <2>1. Fresh \in CkIds
    BY <1>5, FreshIsUnset, AsksHalt DEF Asks, Halts, CallTraps, TrapInv, Unset
  <2> QED
    BY <1>5, <2>1 DEF CallTraps
<1>6. CASE CallLists
  <2>1. \/ op' = [op EXCEPT !.at = "regs", !.fired = op.mine]
        \/ op' = [op EXCEPT !.at = "resume"]
    BY <1>6 DEF CallLists
  <2> QED
    BY <2>1
<1>7. CASE DeletesTrap
  <2>1. op' = [op EXCEPT !.at = "last"] \/ op' = [op EXCEPT !.at = "done"]
    BY <1>7 DEF DeletesTrap
  <2> QED
    BY <2>1
<1> QED
  BY <1>1, <1>2, <1>3, <1>4, <1>5, <1>6, <1>7 DEF Asks

LEMMA AsksAttend ==
    ASSUME OpsInv, Asks
    PROVE  Attends'
<1>1. Halts
  BY AsksHalt
<1> QED
  BY <1>1 DEF Halts, Attends

LEMMA AsksTrap ==
    ASSUME OpsInv, Asks
    PROVE  TrapInv'
<1> USE DEF OpsInv, OpsTypeOK, To, TrapInv
<1>0. Halts
  BY AsksHalt
<1>1. CASE op.at = "set" /\ BreakAdd
  BY <1>1 DEF BreakAdd
<1>2. CASE WaitLists
  <2>1. op'.kind = "wait"
    BY <1>2 DEF WaitLists
  <2> QED
    BY <2>1
<1>3. CASE Registers \/ Pokes \/ DeletesTrap
  <2>1. op'.at \in {"delete", "done", "poked", "last"}
    BY <1>3 DEF Registers, Pokes, DeletesTrap
  <2> QED
    BY <2>1
<1>4. CASE CallSetsUp
  <2>1. cks' = cks /\ op.at = "setup" /\ op' = [op EXCEPT !.at = "set"]
    BY <1>4 DEF CallSetsUp, Command
  <2>2. Unset' = Unset
    BY <2>1 DEF Unset
  <2> QED
    BY <1>0, <2>1, <2>2 DEF Halts
<1>5. CASE CallTraps
  BY <1>0, <1>5 DEF CallTraps, Halts, Halted
<1>6. CASE CallLists
  <2>1. op.kind = "call" /\ op.at = "list"
    BY <1>6 DEF CallLists
  <2>2. CASE op.hit
    <3>1. op'.at = "regs"
      BY <1>6, <2>2 DEF CallLists
    <3> QED
      BY <3>1
  <2>3. CASE ~op.hit
    <3>1. op' = [op EXCEPT !.at = "resume"]
      BY <1>6, <2>3 DEF CallLists
    <3>2. /\ op'.at = "resume" /\ op'.kind = op.kind /\ op'.want = op.want
          /\ op'.mine = op.mine /\ op'.hit = op.hit
      BY <3>1
    <3> QED
      BY <1>0, <2>1, <2>3, <3>2 DEF Halts, Halted
  <2> QED
    BY <2>2, <2>3
<1> QED
  BY <1>1, <1>2, <1>3, <1>4, <1>5, <1>6 DEF Asks

LEMMA AsksFired ==
    ASSUME OpsInv, Asks
    PROVE  FiredInv'
<1> USE DEF OpsInv, OpsTypeOK, To, FiredInv, Reports
<1>0. Halts
  BY AsksHalt
<1>1. CASE op.at = "set" /\ BreakAdd
  BY <1>1 DEF BreakAdd
<1>2. CASE WaitLists
  <2>1. op.fired = NoCk
    BY <1>2 DEF WaitLists
  <2>2. CASE \E n \in Listed : op' = [op EXCEPT !.at = "regs", !.fired = n]
    <3>1. PICK n \in Listed : op' = [op EXCEPT !.at = "regs", !.fired = n]
      BY <2>2
    <3>2. op'.at = "regs" /\ op'.fired = n /\ op'.want = op.want
      BY <3>1
    <3> QED
      BY <1>0, <3>2 DEF Listed, Halts, Halted
  <2>3. CASE op'.fired = op.fired
    BY <2>1, <2>3
  <2> QED
    BY <1>2, <2>2, <2>3 DEF WaitLists
<1>3. CASE Registers
  <2>1. op.at = "regs" /\ op'.at \in {"delete", "done"} /\ op'.fired = op.fired /\ op'.want = op.want
    BY <1>3 DEF Registers
  <2> QED
    BY <1>0, <2>1 DEF Halts, Halted
<1>4. CASE CallSetsUp \/ Pokes \/ CallTraps
  <2>1. op.fired = NoCk /\ op'.fired = op.fired
    BY <1>4 DEF CallSetsUp, Pokes, CallTraps
  <2> QED
    BY <2>1
<1>5. CASE CallLists
  <2>1. op.fired = NoCk /\ op.kind = "call" /\ op.at = "list"
    BY <1>5 DEF CallLists
  <2>2. CASE op.hit
    <3>1. op'.at = "regs" /\ op'.fired = op.mine /\ op'.want = op.want
      BY <1>5, <2>2 DEF CallLists
    <3>2. op.mine \in parked /\ op.want = {op.mine}
      BY <1>0, <2>1, <2>2 DEF TrapInv, Halts
    <3> QED
      BY <1>0, <3>1, <3>2 DEF Halts, Halted
  <2>3. CASE ~op.hit
    <3>1. op'.fired = op.fired
      BY <1>5, <2>3 DEF CallLists
    <3> QED
      BY <2>1, <3>1
  <2> QED
    BY <2>2, <2>3
<1>6. CASE DeletesTrap
  <2>1. /\ op.at = "delete" /\ op'.fired = op.fired /\ op'.want = op.want
        /\ op.fired # NoCk => op'.at = "done"
    BY <1>6 DEF DeletesTrap
  <2> QED
    BY <1>0, <2>1 DEF Halts, Halted
<1> QED
  BY <1>1, <1>2, <1>3, <1>4, <1>5, <1>6 DEF Asks

LEMMA AsksHold ==
    ASSUME OpsInv, Asks
    PROVE  HoldInv'
<1>0. Halts
  BY AsksHalt
<1>1. CASE Pokes
  <2>1. op.at = "poke" /\ op'.at = "poked" /\ op'.frame = op.frame
    BY <1>1 DEF Pokes, To, OpsInv, OpsTypeOK
  <2> QED
    BY <1>0, <2>1 DEF OpsInv, HoldInv, Rests, Halts, Halted
<1>2. CASE ~Pokes
  <2>1. op'.at \notin {"running", "poke", "poked", "until"}
    <3> USE DEF To, OpsInv, OpsTypeOK
    <3>1. CASE op.at = "set" /\ BreakAdd
      BY <3>1 DEF BreakAdd
    <3>2. CASE WaitLists
      BY <3>2 DEF WaitLists
    <3>3. CASE Registers \/ DeletesTrap
      BY <3>3 DEF Registers, DeletesTrap
    <3>4. CASE CallSetsUp \/ CallTraps
      BY <3>4 DEF CallSetsUp, CallTraps
    <3>5. CASE CallLists
      BY <3>5 DEF CallLists
    <3> QED
      BY <1>2, <3>1, <3>2, <3>3, <3>4, <3>5 DEF Asks
  <2> QED
    BY <2>1 DEF HoldInv
<1> QED
  BY <1>1, <1>2

LEMMA AsksSound ==
    ASSUME OpsInv, TypeOK', Asks
    PROVE  OpsInv'
BY AsksTyped, AsksAttend, AsksTrap, AsksFired, AsksHold DEF OpsInv

-----------------------------------------------------------------------------
(* The requests that set the CPU running, or hand over to the daemon.      *)
LEMMA ResumesSound ==
    ASSUME OpsInv, TypeOK', Resumes
    PROVE  OpsInv'
<1>1. /\ pc' = "exit" /\ cont' = "resumed" /\ conn' = "open"
  BY DEF Resumes, Resume, Ask
<1>2. \/ op' = [op EXCEPT !.at = "waiting"]
      \/ op.kind # "wait" /\ op' = [op EXCEPT !.at = "top"]
  BY DEF Resumes, To
<1>3. op.at = "resume" /\ op.fired = NoCk /\ Alive
  BY DEF Resumes, Resume, SendExit, OpsInv, FiredInv, Alive
<1>4. OpsTypeOK'
  BY <1>2 DEF OpsInv, OpsTypeOK, Places
<1>5. /\ op'.at \in {"waiting", "top"} /\ op'.fired = NoCk /\ op'.kind = op.kind
      /\ op'.want = op.want /\ op'.mine = op.mine /\ op'.hit = op.hit
  BY <1>2, <1>3 DEF OpsInv, OpsTypeOK
<1> QED
  BY <1>1, <1>3, <1>4, <1>5 DEF OpsInv, Attends, TrapInv, FiredInv, Reports, HoldInv

LEMMA EndsSound ==                  \* the last request of an operation
    ASSUME OpsInv, TypeOK', LastResume \/ (op.at = "release" /\ BreakAdd)
    PROVE  OpsInv'
<1>1. pc' # "wait"
  <2>1. CASE LastResume
    BY <2>1 DEF LastResume, Resume
  <2>2. CASE op.at = "release" /\ BreakAdd
    <3>1. Release
      BY <2>2 DEF BreakAdd
    <3> QED
      BY <3>1, RestoreTenure DEF Release, After
  <2> QED
    BY <2>1, <2>2
<1>2. op' = [op EXCEPT !.at = "done"] /\ op.at \in {"last", "release"}
  BY DEF LastResume, BreakAdd, To
<1>3. OpsTypeOK' /\ op'.at = "done" /\ op'.fired = op.fired /\ op.fired = NoCk
  BY <1>2 DEF OpsInv, OpsTypeOK, Places, FiredInv
<1> QED
  BY <1>1, <1>3 DEF OpsInv, Attends, TrapInv, FiredInv, Reports, HoldInv

LEMMA AsksStopSound ==
    ASSUME OpsInv, TypeOK', AsksStop
    PROVE  OpsInv'
<1>1. /\ pc' = "wait" /\ conn' = "open" /\ UNCHANGED <<cpu, parked>>
  BY DEF AsksStop, WaitForStop, Ask, vice
<1>2. op' = [op EXCEPT !.at = "waiting"] /\ op.at \in {"waiting", "top"}
  BY DEF AsksStop, To
<1>3. OpsTypeOK' /\ op.fired = NoCk
  BY <1>2 DEF OpsInv, OpsTypeOK, Places, FiredInv
<1>4. /\ op'.at = "waiting" /\ op'.fired = NoCk /\ op'.kind = op.kind
      /\ op'.want = op.want /\ op'.mine = op.mine /\ op'.hit = op.hit
  BY <1>2, <1>3 DEF OpsInv, OpsTypeOK
<1> QED
  BY <1>1, <1>2, <1>3, <1>4
     DEF OpsInv, Attends, TrapInv, FiredInv, Reports, HoldInv, Alive

LEMMA ConnectSound ==
    ASSUME OpsInv, TypeOK', ConnectsAgain
    PROVE  OpsInv'
<1>1. op.at \in {"until", "poke"} /\ op' = op
  BY DEF ConnectsAgain
<1>2. pc' = "readline" /\ UNCHANGED <<cpu, cks, parked, wire, state>>
  BY DEF ConnectsAgain, Accept, vice
<1>3. op.fired = NoCk
  BY <1>1 DEF OpsInv, FiredInv
<1> QED
  BY <1>1, <1>2, <1>3
     DEF OpsInv, OpsTypeOK, Attends, TrapInv, FiredInv, Reports, HoldInv, Rests, Halted, Alive

LEMMA HoldRunsSound ==
    ASSUME OpsInv, TypeOK', HoldRuns
    PROVE  OpsInv'
<1>1. pc' = "exit"
  BY DEF HoldRuns, RunUntil
<1>2. op.at = "until" /\ op' = [op EXCEPT !.at = "running", !.late = FALSE]
  BY DEF HoldRuns
<1>3. OpsTypeOK' /\ op.fired = NoCk
  BY <1>2 DEF OpsInv, OpsTypeOK, Places, FiredInv
<1>4. op'.at = "running" /\ op'.fired = NoCk
  BY <1>2, <1>3 DEF OpsInv, OpsTypeOK
<1> QED
  BY <1>1, <1>3, <1>4 DEF OpsInv, Attends, TrapInv, FiredInv, Reports, HoldInv

LEMMA HoldGoesOnSound ==
    ASSUME OpsInv, TypeOK', HoldGoesOn
    PROVE  OpsInv'
<1>1. pc = "readline" /\ op.at = "running" /\ UNCHANGED <<cpu, wire, state, pc>>
  BY DEF HoldGoesOn, Served, vice
<1>2. \/ /\ state = STOPPED /\ op.frame < MaxFrames
         /\ op' = [op EXCEPT !.at = "poke", !.frame = op.frame + 1]
      \/ op' = [op EXCEPT !.at = "left"]
  BY DEF HoldGoesOn
<1>3. op.fired = NoCk
  BY <1>1 DEF OpsInv, FiredInv
<1>4. CASE /\ state = STOPPED /\ op.frame < MaxFrames
           /\ op' = [op EXCEPT !.at = "poke", !.frame = op.frame + 1]
  <2>1. op.frame + 1 \in 1 .. MaxFrames
    BY <1>4, OpsAssumption DEF OpsInv, OpsTypeOK
  <2>2. OpsTypeOK' /\ op'.at = "poke" /\ op'.fired = NoCk
    BY <1>3, <1>4, <2>1 DEF OpsInv, OpsTypeOK, Places
  <2>3. Alive => Rests
    BY <1>1, <1>4 DEF OpsInv, HoldInv
  <2> QED
    BY <1>1, <1>4, <2>2, <2>3
       DEF OpsInv, Attends, TrapInv, FiredInv, Reports, HoldInv, Rests, Halted, Alive
<1>5. CASE op' = [op EXCEPT !.at = "left"]
  <2>1. OpsTypeOK' /\ op'.at = "left" /\ op'.fired = NoCk
    BY <1>3, <1>5 DEF OpsInv, OpsTypeOK, Places
  <2> QED
    BY <2>1 DEF OpsInv, Attends, TrapInv, FiredInv, Reports, HoldInv
<1> QED
  BY <1>2, <1>4, <1>5

LEMMA FailsSound ==
    ASSUME OpsInv, TypeOK', Fails
    PROVE  OpsInv'
<1>1. cpu' = "dead" /\ pc' # "wait" /\ op' = op /\ cks' = cks
  BY DEF Fails, RequestFails, Fail, vice
<1>2. Unset' = Unset
  BY <1>1 DEF Unset
<1> QED
  BY <1>1, <1>2 DEF OpsInv, OpsTypeOK, Attends, TrapInv, FiredInv, Reports, HoldInv, Alive

-----------------------------------------------------------------------------
(* What an operation hears is the CPU's last stop, and the checkpoint in   *)
(* its report one that the CPU is parked on.                               *)
Hearing ==
    /\ pc = "wait" /\ pc' \in {"wait", "readline"} /\ UNCHANGED <<cpu, parked, conn>>
    /\ \/ op' = op /\ (pc' = "wait" \/ op.at = "left")
       \/ /\ pc' = "readline" /\ op.at # "left"
          /\ \/ op' = [op EXCEPT !.at = "list"]
             \/ \E ck \in parked \cap op.want :
                  op' = [op EXCEPT !.at = "regs", !.fired = ck]

LEMMA HearsWhat ==
    ASSUME IndInv, HitsInv, OpsInv, Hears
    PROVE  Hearing
<1>0. op.want \subseteq CkIds
  BY DEF OpsInv, OpsTypeOK
<1>1. ASSUME WaitSees, NEW o \in FirstOutcomes, NEW n, NEW ck \in CkIds \cup {NoCk},
             StopAt(o.seen, n), LastHit(o.seen, n, got, ck),
             op' = IF Over THEN op ELSE Heard(ck)
      PROVE  Hearing
  <2>1. pc = "wait" /\ pc' = "readline" /\ UNCHANGED <<cpu, parked, conn>>
    BY <1>1 DEF WaitSees
  <2>2. ck \in CkIds => ck \in parked
    <3>1. n \in 0 .. Len(o.seen)
      BY <1>1 DEF StopAt
    <3> QED
      BY <1>1, <2>1, <3>1, HeardIsParked
  <2> QED
    BY <1>0, <1>1, <2>1, <2>2 DEF Hearing, Over, Heard
<1>2. ASSUME WaitSlice, op' = IF Over \/ pc' = "wait" THEN op ELSE Heard(NoCk)
      PROVE  Hearing
  <2>1. /\ pc = "wait" /\ pc' \in {"wait", "readline"} /\ UNCHANGED <<cpu, parked, conn>>
    BY <1>2 DEF WaitSlice, vice
  <2> QED
    BY <1>0, <1>2, <2>1, NoCkAssumption DEF Hearing, Over, Heard
<1> QED
  BY <1>1, <1>2 DEF Hears

LEMMA HearsSound ==
    ASSUME IndInv, HitsInv, OpsInv, TypeOK', Hears
    PROVE  OpsInv'
<1>1. /\ pc = "wait" /\ pc' \in {"wait", "readline"} /\ UNCHANGED <<cpu, parked, conn>>
      /\ op.at \in {"waiting", "left"}
  BY HearsWhat DEF Hearing, OpsInv, Attends
<1>2. CASE op' = op /\ (pc' = "wait" \/ op.at = "left")
  BY <1>1, <1>2 DEF OpsInv, OpsTypeOK, Attends, TrapInv, FiredInv, Reports, HoldInv, Alive
<1>3. CASE pc' = "readline" /\ op.at # "left" /\ op' = [op EXCEPT !.at = "list"]
  <2>1. OpsTypeOK' /\ op.fired = NoCk
    BY <1>1, <1>3 DEF OpsInv, OpsTypeOK, Places, FiredInv
  <2>2. /\ op'.at = "list" /\ op'.fired = NoCk /\ op'.kind = op.kind
        /\ op'.want = op.want /\ op'.mine = op.mine /\ op'.hit = op.hit
    BY <1>3, <2>1 DEF OpsInv, OpsTypeOK
  <2> QED
    BY <1>1, <1>3, <2>1, <2>2
       DEF OpsInv, Attends, TrapInv, FiredInv, Reports, HoldInv, Alive
<1>4. ASSUME pc' = "readline", op.at # "left", NEW ck \in parked \cap op.want,
             op' = [op EXCEPT !.at = "regs", !.fired = ck]
      PROVE  OpsInv'
  <2>1. parked \subseteq CkIds
    BY DEF OpsInv, OpsTypeOK, TypeOK, ViceTypeOK
  <2>2. OpsTypeOK' /\ op'.at = "regs" /\ op'.fired = ck /\ op'.want = op.want
    BY <1>4, <2>1 DEF OpsInv, OpsTypeOK, Places
  <2>3. Alive => Halted
    BY <1>4, HaltedOrNot DEF IndInv, WireInv
  <2> QED
    BY <1>1, <1>4, <2>2, <2>3
       DEF OpsInv, Attends, TrapInv, FiredInv, Reports, HoldInv, Alive, Halted
<1> QED
  BY <1>2, <1>3, <1>4, HearsWhat DEF Hearing

(* The daemon works on its own, the operation waits.                       *)
LEMMA WorksSound ==
    ASSUME IndInv, OpsInv, TypeOK', Works
    PROVE  OpsInv'
<1>1. op' = op
  BY DEF Works
<1>2. Alive' => Alive
  BY OpsStep, StaysDead DEF Alive, OpsNext
<1>3. OpsTypeOK'
  BY <1>1 DEF OpsInv, OpsTypeOK
<1>4. Attends'
  <2>1. CASE Alive
    BY <1>1, <2>1, WorksWhere DEF OpsInv, Attends
  <2>2. CASE ~Alive
    <3>1. pc' = "wait" => pc = "wait"
      BY WorksWaits
    <3> QED
      BY <1>1, <1>2, <2>2, <3>1 DEF OpsInv, Attends
  <2> QED
    BY <2>1, <2>2
<1>5. Alive' => ~(pc = "readline" /\ conn = "open")
  BY <1>2, WorksWhere
<1>6. TrapInv'
  <2>1. Alive' /\ op.at \in {"top", "waiting"} => parked' = parked
    BY <1>2, <1>5, WorksWhere DEF OpsInv, Attends
  <2> QED
    BY <1>1, <1>2, <1>5, <2>1 DEF OpsInv, TrapInv, Attends
<1>7. FiredInv'
  BY <1>1, <1>2, <1>5 DEF OpsInv, FiredInv, Reports, Attends
<1>8. HoldInv'
  <2>1. Alive' /\ pc' = "readline" /\ state' = STOPPED => Rests'
    BY <1>2, WorksRests
  <2>2. Alive' /\ Rests /\ pc \in {"idle", "readline"} => Rests' /\ pc' = "idle"
    BY <1>2, WorksRests, WorksWhere DEF Rests
  <2> QED
    BY <1>1, <1>2, <2>1, <2>2 DEF OpsInv, HoldInv
<1> QED
  BY <1>3, <1>4, <1>6, <1>7, <1>8 DEF OpsInv

(* A checkpoint fires, or VICE dies.                                       *)
LEMMA EmulatesSound ==
    ASSUME IndInv, OpsInv, TypeOK', Emulates
    PROVE  OpsInv'
<1>1. UNCHANGED <<pc, conn, cont, state>>
  BY DEF Emulates, ViceHits, ViceDies
<1>2. op' = IF op.mine \in parked' THEN [op EXCEPT !.hit = TRUE] ELSE op
  BY DEF Emulates
<1>3. Alive' => Executing /\ parked = {}
  <2>1. ViceDies => ~Alive'
    BY DEF ViceDies, Die, Alive
  <2>2. ViceHits => Executing
    BY DEF ViceHits, Hit
  <2> QED
    BY <2>1, <2>2 DEF Emulates, IndInv, WireInv
<1>4. Alive' => Unset \subseteq Unset'
  <2>1. ASSUME ViceHits PROVE Unset \subseteq Unset'
    <3>1. PICK q \in HitSeqs : cks' = Spent(q)
      BY <2>1 DEF ViceHits, Hit
    <3> QED
      BY <3>1 DEF Unset, Spent
  <2>2. ViceDies => ~Alive'
    BY DEF ViceDies, Die, Alive
  <2> QED
    BY <2>1, <2>2 DEF Emulates
<1>5. ~Halted \/ ~Alive'
  BY <1>3 DEF Halted, Executing
<1>6. NoCk \notin parked'
  BY NoCkAssumption DEF TypeOK, ViceTypeOK
<1>7. OpsTypeOK'
  BY <1>2 DEF OpsInv, OpsTypeOK
<1>8. /\ \A f \in {"kind", "at", "want", "mine", "late", "fired", "frame"} : op'[f] = op[f]
      /\ op.mine \notin parked' => op' = op
      /\ op.mine \in parked' => op'.hit = TRUE
  BY <1>2 DEF OpsInv, OpsTypeOK
<1>9. /\ op'.kind = op.kind /\ op'.at = op.at /\ op'.want = op.want /\ op'.mine = op.mine
      /\ op'.fired = op.fired /\ op'.frame = op.frame
  BY <1>8
<1>10. Alive' => Alive
  BY <1>3 DEF Executing, Alive
<1>11. Attends'
  BY <1>1, <1>9, <1>10 DEF OpsInv, Attends
<1>12. TrapInv'
  <2>1. op.mine = NoCk => op' = op
    BY <1>6, <1>8
  <2>2. Alive' /\ op.mine \notin parked' /\ op.hit /\ op.kind = "call"
          => op.at \notin {"top", "waiting", "list"}
    BY <1>3, <1>10 DEF OpsInv, TrapInv
  <2>3. Alive' => op.kind # "call" \/ op.at # "resume"
    BY <1>5, <1>10 DEF OpsInv, TrapInv
  <2> QED
    BY <1>4, <1>8, <1>9, <1>10, <2>1, <2>2, <2>3 DEF OpsInv, TrapInv
<1>13. FiredInv'
  BY <1>5, <1>9, <1>10 DEF OpsInv, FiredInv, Reports
<1>14. HoldInv'
  BY <1>1, <1>5, <1>9, <1>10 DEF OpsInv, HoldInv, Rests
<1> QED
  BY <1>7, <1>11, <1>12, <1>13, <1>14 DEF OpsInv

-----------------------------------------------------------------------------
LEMMA OpsNextSound ==
    ASSUME IndInv, WaitInv, HitsInv, OpsInv, [OpsNext]_opsVars
    PROVE  OpsInv'
<1>0. TypeOK'
  BY OpsStep, NextKeeps DEF IndInv
<1>1. CASE Begin \/ Leave
  BY <1>0, <1>1, BeginSound, LeaveSound
<1>2. CASE Loses \/ Deadline \/ CallExpires \/ (Terminated /\ UNCHANGED op)
           \/ UNCHANGED opsVars
  BY <1>0, <1>2, PauseSound
<1>3. CASE BreakAdd
  <2>1. op.at \in {"set", "release"}
    BY <1>3 DEF BreakAdd
  <2>2. op.at = "set" => Asks
    BY <1>3 DEF Asks
  <2> QED
    BY <1>0, <1>3, <2>1, <2>2, AsksSound, EndsSound
<1>4. CASE WaitLists \/ Registers \/ CallSetsUp \/ CallTraps \/ CallLists \/ DeletesTrap \/ Pokes
  BY <1>0, <1>4, AsksSound DEF Asks
<1>5. CASE Resumes \/ LastResume \/ AsksStop \/ ConnectsAgain
  BY <1>0, <1>5, ResumesSound, EndsSound, AsksStopSound, ConnectSound
<1>6. CASE HoldRuns \/ HoldGoesOn \/ Fails
  BY <1>0, <1>6, HoldRunsSound, HoldGoesOnSound, FailsSound
<1>7. CASE Hears \/ Works \/ Emulates
  BY <1>0, <1>7, HearsSound, WorksSound, EmulatesSound
<1> QED
  BY <1>1, <1>2, <1>3, <1>4, <1>5, <1>6, <1>7 DEF OpsNext, Operates

LEMMA DaemonHolds == OpsSpec => [](IndInv /\ WaitInv /\ HitsInv)
BY OperationsAreRequests, Inductive, WaitInductive, WaitsHearNoOldHit, PTL

THEOREM OpsInductive == OpsSpec => []OpsInv
<1>1. IndInv /\ WaitInv /\ HitsInv /\ OpsInv /\ [OpsNext]_opsVars => OpsInv'
  BY OpsNextSound
<1> QED
  BY <1>1, OpsStarts, DaemonHolds, PTL DEF OpsSpec

(* The checkpoint that wait_for_break or call_routine reports is one it    *)
(* waits for, and the CPU is halted on it until the operation leaves:      *)
(* never its own list's halt, a leftover breakpoint or an old event, for   *)
(* any checkpoints and however the stream is cut.                          *)
THEOREM ReportsAreParked == OpsSpec => []FiredParked
<1>1. OpsInv => FiredParked
  BY DEF OpsInv, FiredInv, Reports, FiredParked, Alive, Halted
<1> QED
  BY <1>1, OpsInductive, PTL

(* Between two frames of key_hold, from the second on, the machine does not*)
(* execute: no keyboard scan comes between a poke and the run behind it.   *)
THEOREM HoldsAreSteady == OpsSpec => []HoldSteady
<1>1. OpsInv => HoldSteady
  BY DEF OpsInv, HoldInv, Rests, HoldSteady, Alive, Halted, Executing
<1> QED
  BY <1>1, OpsInductive, PTL

-----------------------------------------------------------------------------
(***************************************************************************)
(* A reported hit outlives the operation, when one read returns all that   *)
(* VICE has sent.                                                          *)
(***************************************************************************)

(* The operation has left with its report; its tenure is still to end, or  *)
(* has ended with the session STOPPED.                                     *)
StayInv ==
    Alive /\ op.fired # NoCk /\ op.at = "left" =>
        /\ Halted /\ wire = <<>> /\ parked # {}
        /\ \/ pc = "idle" /\ state = STOPPED
           \/ pc = "readline" /\ conn = "gone"

LEMMA StayStarts == OpsInit => StayInv
BY DEF OpsInit, Operation, StayInv

LEMMA ParkedTenure ==               \* the end of a tenure keeps a park
    ASSUME IndInv, ParkInv', EndTenure, Halted, wire = <<>>, parked # {}
    PROVE  /\ pc' = "idle" /\ state' = STOPPED
           /\ wire' = <<>> /\ parked' = parked
<1>1. PICK o \in PollOutcomes : wire' = o.rest
  BY DEF EndTenure, Restore, Halted
<1>2. wire' = <<>> /\ parked' = parked
  BY <1>1, NothingLeft DEF EndTenure
<1>3. \/ state' = STOPPED /\ pc' = "idle"
      \/ pc' = "restoring"
  BY DEF EndTenure, Restore, Halted, After
<1>4. Len(wire') = 0
  BY <1>2
<1>5. pc' # "restoring"
  BY <1>2, <1>4 DEF ParkInv, EndsInPark
<1> QED
  BY <1>2, <1>3, <1>5

LEMMA StayNext ==
    ASSUME IndInv, HitsInv, OpsInv, OpsInv', ParkInv', StayInv, [OpsNext]_opsVars
    PROVE  StayInv'
<1> SUFFICES ASSUME Alive', op'.fired # NoCk, op'.at = "left"
             PROVE  /\ Halted' /\ wire' = <<>> /\ parked' # {}
                    /\ \/ pc' = "idle" /\ state' = STOPPED
                       \/ pc' = "readline" /\ conn' = "gone"
  BY DEF StayInv
<1>0. Alive
  BY OpsStep, StaysDead DEF Alive
<1> USE DEF OpsInv, OpsTypeOK, To
<1>1. CASE Begin
  BY <1>1 DEF Begin, Operation
<1>2. CASE Leave
  <2>1. op.at = "done" /\ op.fired # NoCk
    <3>1. \/ op.at = "poked" /\ op' = [op EXCEPT !.at = "until"]
          \/ op.at = "done" /\ op' = [op EXCEPT !.at = "left"]
          \/ op' = [op EXCEPT !.at = "left", !.fired = NoCk]
      BY <1>2 DEF Leave
    <3> QED
      BY <3>1
  <2>2. /\ Halted /\ op.fired \in parked /\ wire = <<>> /\ pc = "readline"
    BY <1>0, <2>1 DEF FiredInv, Reports, Attends
  <2> QED
    BY <1>2, <2>2 DEF Leave, ClientLeaves, vice, Halted
<1>3. CASE Loses \/ Deadline \/ CallExpires \/ (Terminated /\ UNCHANGED op)
           \/ UNCHANGED opsVars
  <2>1. UNCHANGED vars
    BY <1>3 DEF Loses, Deadline, CallExpires, Terminated, opsVars, vars
  <2>2. \/ op'.fired = NoCk
        \/ op'.at = "delete"
        \/ op'.at = op.at /\ op'.fired = op.fired
    BY <1>3 DEF Loses, Deadline, CallExpires, opsVars
  <2> QED
    BY <1>0, <2>1, <2>2 DEF StayInv, vars, Halted
<1>4. CASE BreakAdd \/ Asks \/ Resumes \/ LastResume \/ AsksStop \/ HoldRuns
  <2>1. op'.at # "left"
    <3>1. CASE BreakAdd \/ Resumes \/ LastResume \/ AsksStop \/ HoldRuns
      BY <3>1 DEF BreakAdd, Resumes, LastResume, AsksStop, HoldRuns
    <3>2. CASE WaitLists
      BY <3>2 DEF WaitLists
    <3>3. CASE Registers \/ DeletesTrap
      BY <3>3 DEF Registers, DeletesTrap
    <3>4. CASE CallSetsUp \/ CallTraps \/ Pokes
      BY <3>4 DEF CallSetsUp, CallTraps, Pokes
    <3>5. CASE CallLists
      BY <3>5 DEF CallLists
    <3> QED
      BY <1>4, <3>1, <3>2, <3>3, <3>4, <3>5 DEF Asks
  <2> QED
    BY <2>1
<1>5. CASE ConnectsAgain
  BY <1>5 DEF ConnectsAgain
<1>6. CASE HoldGoesOn
  <2>1. op.at = "running" /\ op'.fired = op.fired
    BY <1>6 DEF HoldGoesOn
  <2> QED
    BY <2>1 DEF FiredInv
<1>7. CASE Fails
  BY <1>0, <1>7 DEF Fails, RequestFails, Fail, Alive
<1>8. CASE Hears
  <2>1. pc = "wait" /\ op'.at = "left" => op.at = "left" /\ op' = op
    BY <1>8, HearsWhat DEF Hearing
  <2> QED
    BY <1>0, <1>8, <2>1, HearsWhat DEF Hearing, StayInv
<1>9. CASE Works
  <2>1. op' = op
    BY <1>9 DEF Works
  <2>2. Halted /\ wire = <<>> /\ parked # {} /\ cpu # "dead"
    BY <1>0, <2>1 DEF StayInv, Alive
  <2>3. pc = "readline"
    BY <1>0, <1>9, <2>1, <2>2, WorksWhere DEF StayInv
  <2>4. EndTenure
    BY <1>9, <2>2, <2>3
       DEF Works, Pump, NoticeDeath, RestoreExit, ExitAnswered, ExitLost, CallFails, Fail,
           ReadBatch, RunUntilExpires, RunUntilSees, RunUntilSlice, RunUntilLists,
           RunUntilChecks, RunUntilWaits
  <2>5. cpu' = cpu
    BY <2>4 DEF EndTenure
  <2> QED
    BY <2>2, <2>4, <2>5, ParkedTenure DEF Halted
<1>10. CASE Emulates
  <2>1. op'.at = op.at /\ op'.fired = op.fired
    BY <1>10 DEF Emulates
  <2>2. Halted
    BY <1>0, <2>1 DEF StayInv
  <2> QED
    BY <1>10, <2>2 DEF Emulates, ViceHits, Hit, ViceDies, Die, Executing, Halted, Alive
<1> QED
  BY <1>1, <1>2, <1>3, <1>4, <1>5, <1>6, <1>7, <1>8, <1>9, <1>10
     DEF OpsNext, Operates, Asks

(* After a reported hit the session stays stopped: the end of the tenure,  *)
(* the idle daemon and VICE leave it so, whatever was read when.           *)
THEOREM ReportsStay ==
    ASSUME Prompt, EventCap > 1
    PROVE  OpsSpec => []FiredStays
<1>1. IndInv /\ HitsInv /\ OpsInv /\ OpsInv' /\ ParkInv' /\ StayInv /\ [OpsNext]_opsVars
        => StayInv'
  BY StayNext
<1>2. StayInv => FiredStays
  BY DEF StayInv, FiredStays, Alive, Halted, Over
<1>3. OpsSpec => []ParkInv
  BY OperationsAreRequests, ParksKnown, PTL
<1> QED
  BY <1>1, <1>2, <1>3, StayStarts, DaemonHolds, OpsInductive, PTL DEF OpsSpec
=============================================================================
