------------------------ MODULE PetDaemonStateProofs ------------------------
(***************************************************************************)
(* What the daemon knows of the CPU, on top of the invariant of            *)
(* PetDaemonProofs: wait_for_stop never reports a stop that precedes the   *)
(* client's resume (WaitTruth), no halt is forgotten between two clients   *)
(* (IdleTruth), no park is imagined (NoFalsePark) or resumed away          *)
(* (RestoreSeesParks), and the daemon implements SessionMachine.           *)
(***************************************************************************)
EXTENDS PetDaemonProofs

(* Which request was the last, by the place the daemon is at.              *)
LastInv ==
    /\ pc = "wait" \/ InRun => last = "other"
    /\ pc \in {"exit", "restoring"} /\ cont = "released" => last = "other"
    /\ pc = "exit" /\ cont = "resumed" => last # "command"

(* From the client's resume to the end of its wait; and between a command  *)
(* and the request after it.                                               *)
AwaitsStop == \/ pc = "wait"
              \/ last = "armed" /\ (pc = "readline" \/ (pc = "exit" /\ cont = "resumed"))

Commanded == pc = "readline" /\ last = "command"

(* A STOPPED that the queue holds is VICE's last word: after a command,    *)
(* where the CPU is halted and all is read, resume leaves the queue empty. *)
FreshStops == events \notin Seq(NonStops) => wire = <<>> /\ ~Executing

WaitInv ==
    /\ LastInv
    /\ Commanded => wire = <<>> /\ ~Executing
    /\ AwaitsStop => FreshStops

-----------------------------------------------------------------------------
LEMMA WaitInit == Init => WaitInv
BY DEF Init, WaitInv, LastInv, Commanded, AwaitsStop, InRun

LEMMA WaitEnvironment ==
    ASSUME IndInv, WaitInv, Environment
    PROVE  WaitInv'
<1>1. UNCHANGED <<events, pc, cont, last>>
  BY DEF Environment, ViceHits, ViceReturns, ViceDies, ClientLeaves, Hit, Return, Die
<1>2. \/ Executing
      \/ wire' = wire /\ (~Executing => ~Executing')
  BY DEF Environment, ViceHits, ViceReturns, ViceDies, ClientLeaves,
         Hit, Return, Die, Executing, vice
<1>3. QED
  BY <1>1, <1>2 DEF WaitInv, LastInv, Commanded, AwaitsStop, FreshStops, InRun

LEMMA WaitRequests ==
    ASSUME IndInv, WaitInv, Requests
    PROVE  WaitInv'
<1> USE DEF WaitInv, LastInv, Commanded, AwaitsStop, FreshStops, InRun
<1>1. CASE \/ Command \/ SetCheckpoint \/ DeleteCheckpoint \/ ToggleCheckpoint
           \/ RunUntilZero
  BY <1>1 DEF Command, SetCheckpoint, DeleteCheckpoint, ToggleCheckpoint,
              RunUntilZero, Ask, Transact, Executing
<1>2. CASE Step
  BY <1>2 DEF Step, Ask, StepOnto, Executing
<1>3. CASE Resume
  <2>1. last = "command" => events' = <<>>
    BY <1>3, CollectedNothing DEF Resume, Ask, SendExit
  <2>2. <<>> \in Seq(NonStops)
    BY EmptySeq
  <2>3. QED
    BY <1>3, <2>1, <2>2 DEF Resume, Ask
<1>4. CASE Finish \/ RunUntil \/ Quit
  BY <1>4 DEF Finish, RunUntil, Quit, Ask
<1>5. CASE WaitForStop
  BY <1>5 DEF WaitForStop, Ask, Executing, vice
<1>6. CASE Release
  <2>1. pc' \in {"readline", "restoring"} /\ last' = "other"
    BY <1>6, RestoreKeeps DEF Release, After, Ask
  <2>2. QED
    BY <2>1
<1>7. CASE RequestFails
  BY <1>7 DEF RequestFails, Fail
<1>8. QED
  BY <1>1, <1>2, <1>3, <1>4, <1>5, <1>6, <1>7 DEF Requests

LEMMA WaitExitAnswered ==
    ASSUME IndInv, WaitInv, ExitAnswered
    PROVE  WaitInv'
<1>1. VInv
  BY DEF IndInv, TypeOK, VInv
<1>2. FreshStops => FreshStops'
  BY <1>1, ReadResponseKeeps DEF ExitAnswered, FreshStops
<1>3. pc = "exit" /\ pc' = After(cont) /\ cont' = "none" /\ last' = last
  BY DEF ExitAnswered
<1>4. cont \in Conts \ {"none"}
  BY <1>3 DEF IndInv, TypeOK, ControlInv
<1>5. \/ cont = "resumed" /\ pc' = "readline"
      \/ cont = "released" /\ pc' = "readline"
      \/ cont = "restored" /\ pc' = "idle"
      \/ cont \in {"ru_top", "ru_check"} /\ pc' = cont
  BY <1>3, <1>4 DEF After, Conts
<1>6. QED
  BY <1>2, <1>3, <1>5 DEF WaitInv, LastInv, Commanded, AwaitsStop, InRun

LEMMA WaitDaemon ==
    ASSUME IndInv, WaitInv, Daemon
    PROVE  WaitInv'
<1> USE DEF WaitInv, LastInv, Commanded, AwaitsStop, FreshStops, InRun
<1>1. CASE Pump \/ NoticeDeath
  BY <1>1 DEF Pump, NoticeDeath
<1>2. CASE EndTenure
  <2>1. pc' \in {"idle", "restoring"} /\ (pc' = "restoring" => cont' = "restored")
    BY <1>2, RestoreKeeps DEF EndTenure, After
  <2>2. QED
    BY <2>1
<1>3. CASE RestoreExit
  <2>1. /\ pc = "restoring" /\ cont \in {"released", "restored"} /\ last' = last
    BY <1>3 DEF RestoreExit, IndInv, ControlInv
  <2>2. \/ pc' = "exit" /\ cont' = cont
        \/ pc' = After(cont) /\ cont' = "none"
    BY <1>3 DEF RestoreExit
  <2>3. QED
    BY <2>1, <2>2 DEF After
<1>4. CASE ExitAnswered
  BY <1>4, WaitExitAnswered
<1>5. CASE ExitLost
  <2>1. CASE Fail
    BY <2>1 DEF Fail
  <2>2. CASE /\ cont \in {"released", "restored"} /\ pc' = After(cont)
             /\ cont' = "none" /\ last' = last
    BY <1>5, <2>2 DEF ExitLost, After
  <2>3. QED
    BY <1>5, <2>1, <2>2 DEF ExitLost
<1>6. CASE CallFails
  BY <1>6 DEF CallFails, Fail
<1>7. CASE ReadBatch
  <2>1. events' = <<>> /\ <<>> \in Seq(NonStops) /\ UNCHANGED <<pc, cont, last>>
    BY <1>7, EmptySeq DEF ReadBatch
  <2>2. pc # "readline"
    BY <1>7 DEF ReadBatch
  <2>3. QED
    BY <2>1, <2>2
<1>8. CASE WaitSees \/ WaitSlice
  BY <1>8 DEF WaitSees, WaitSlice, Executing, vice
<1>9. CASE FinishSees \/ FinishTimesOut
  BY <1>9 DEF FinishSees, FinishTimesOut, FinishAnswers, Transact, Executing
<1>10. CASE \/ RunUntilExpires \/ RunUntilWaits \/ RunUntilSlice
            \/ RunUntilLists \/ RunUntilChecks
  BY <1>10 DEF RunUntilExpires, RunUntilWaits, RunUntilSlice, RunUntilLists,
               RunUntilChecks, NextArrival, RunUntilAnswers
<1>11. CASE RunUntilSees
  BY <1>11 DEF RunUntilSees, NextArrival, RunUntilAnswers
<1>12. QED
  BY <1>1, <1>2, <1>3, <1>4, <1>5, <1>6, <1>7, <1>8, <1>9, <1>10, <1>11 DEF Daemon

LEMMA WaitNext ==
    ASSUME IndInv, WaitInv, [Next]_vars
    PROVE  WaitInv'
<1>1. CASE Accept
  BY <1>1 DEF Accept, WaitInv, LastInv, Commanded, AwaitsStop, InRun
<1>2. CASE Terminated \/ UNCHANGED vars
  BY <1>2 DEF Terminated, vars, WaitInv, LastInv, Commanded, AwaitsStop, FreshStops,
              InRun, Executing
<1>3. QED
  BY <1>1, <1>2, WaitEnvironment, WaitRequests, WaitDaemon DEF Next

-----------------------------------------------------------------------------
(* Only a batch with a STOPPED changes state while the daemon waits, and   *)
(* that STOPPED says that the CPU is halted now.                           *)
LEMMA WaitStep ==
    ASSUME IndInv, WaitInv, Next, pc = "wait", state' # state
    PROVE  ~Executing
<1>1. WaitSees
  BY DEF Next, Environment, Requests, Daemon, Terminated, vars,
         ViceHits, ViceReturns, ViceDies, ClientLeaves, Accept,
         Command, SetCheckpoint, DeleteCheckpoint, ToggleCheckpoint, Resume,
         Step, Finish, WaitForStop, RunUntil, RunUntilZero, Release, Quit,
         RequestFails, Ask, Pump, NoticeDeath, EndTenure, RestoreExit,
         ExitAnswered, ExitLost, CallFails, Fail, ReadBatch,
         WaitSlice, FinishSees, FinishTimesOut, RunUntilExpires,
         RunUntilWaits, RunUntilSees, RunUntilSlice, RunUntilLists, RunUntilChecks
<1>2. PICK o \in FirstOutcomes : \E n \in 1 .. Len(o.seen) : StopAt(o.seen, n)
  BY <1>1 DEF WaitSees
<1>3. PICK n \in 1 .. Len(o.seen) : o.seen[n].type = "stopped"
  BY <1>2 DEF StopAt
<1>4. VInv /\ FreshStops
  BY DEF IndInv, TypeOK, VInv, WaitInv, AwaitsStop
<1>5. o.seen \notin Seq(NonStops)
  <2>1. o.seen[n] \notin NonStops
    BY <1>3 DEF NonStops
  <2>2. QED
    BY <2>1, ElementOfSeq
<1>6. QED
  BY <1>4, <1>5, FirstKeeps DEF FreshStops

THEOREM WaitInductive == Spec => []WaitInv
<1>1. IndInv /\ WaitInv /\ [Next]_vars => WaitInv'
  BY WaitNext
<1>2. QED
  BY <1>1, WaitInit, Inductive, PTL DEF Spec

(* A stop that wait_for_stop reports has happened since the client's       *)
(* resume and is still in force, for any constants and any cutting of the  *)
(* stream.                                                                 *)
THEOREM WaitIsTruthful == Spec => WaitTruth
<1>3. IndInv /\ WaitInv /\ [Next]_vars
        => [(pc = "wait" /\ state' # state) => ~Executing]_vars
  BY WaitStep
<1>4. QED
  BY <1>3, WaitInductive, Inductive, PTL DEF Spec, WaitTruth

-----------------------------------------------------------------------------
(***************************************************************************)
(* What the daemon knows of a halt.                                        *)
(***************************************************************************)

(* A checkpoint's hit ends this stream: VICE has halted and says no more.  *)
EndsInPark(s) == /\ Len(s) >= 2
                 /\ s[Len(s)].type = "stopped"
                 /\ s[Len(s) - 1].type = "hit"

(* What a halted CPU may have left unread: nothing, the frames of a park,  *)
(* or the STOPPED that a read has cut off from them.                       *)
Settled(s) == \/ s = <<>>
              \/ ~Prompt /\ Len(s) = 1 /\ s[1].type = "stopped"
              \/ EndsInPark(s)

Halted == cpu = "halted"

HaltInv ==
    /\ cpu = "returning" => pc = "finish"
    /\ Halted /\ pc # "finish" => Settled(wire)
    /\ Halted /\ pc = "exit" => EndsInPark(wire)
    /\ Halted /\ pc = "idle" => state = STOPPED \/ EndsInPark(events \o wire)

-----------------------------------------------------------------------------
LEMMA ParkIsEvidence ==
    ASSUME NEW s \in Seq(Frame), EndsInPark(s)
    PROVE  HitEvidence(s)
<1>1. Len(s) \in Nat /\ Len(s) >= 2
  BY DEF EndsInPark
<1>2. Len(s) - 1 \in 1 .. Len(s) /\ s[Len(s) - 1].type = "hit"
  BY <1>1 DEF EndsInPark
<1>3. \A k \in (Len(s) - 1 + 1) .. Len(s) : s[k].type # "resumed"
  BY <1>1 DEF EndsInPark
<1> QED
  BY <1>2, <1>3 DEF HitEvidence

LEMMA JoinedPark ==
    ASSUME NEW s \in Seq(Frame), NEW t \in Seq(Frame), EndsInPark(t)
    PROVE  EndsInPark(s \o t)
<1>1. /\ Len(s) \in Nat /\ Len(t) \in Nat /\ Len(t) >= 2
      /\ Len(s \o t) = Len(s) + Len(t)
  BY ConcatProperties DEF EndsInPark
<1>2. /\ (s \o t)[Len(s) + Len(t)] = t[Len(t)]
      /\ (s \o t)[Len(s) + Len(t) - 1] = t[Len(t) - 1]
  BY <1>1, ConcatProperties
<1> QED
  BY <1>1, <1>2 DEF EndsInPark

(* A full queue drops its oldest frames; a park is its two latest.         *)
LEMMA KeptPark ==
    ASSUME NEW s \in Seq(Frame), NEW t \in Seq(Frame), EndsInPark(s \o t), EventCap > 1
    PROVE  EndsInPark(Kept(s) \o t)
<1>1. EventCap \in Nat /\ Len(s) \in Nat /\ Len(t) \in Nat /\ Len(s \o t) = Len(s) + Len(t)
  BY EventCapAssumption, ConcatProperties
<1>2. CASE Len(s) <= EventCap
  BY <1>2 DEF Kept
<1>3. CASE Len(s) > EventCap
  <2> DEFINE k == Kept(s)
  <2>1. /\ k \in Seq(Frame) /\ Len(k) = EventCap
        /\ k[EventCap] = s[Len(s)] /\ k[EventCap - 1] = s[Len(s) - 1]
    BY <1>1, <1>3, SubSeqProperties DEF Kept
  <2> HIDE DEF k
  <2> DEFINE a == EventCap
             b == Len(s)
             m == Len(t)
             K == k \o t
             S == s \o t
  <2>2. /\ a \in Nat /\ b \in Nat /\ m \in Nat /\ a > 1 /\ b > a
        /\ Len(K) = a + m /\ Len(S) = b + m
    BY <1>1, <1>3, <2>1, ConcatProperties
  <2>3. /\ \A i \in 1 .. a : K[i] = k[i]
        /\ \A i \in 1 .. b : S[i] = s[i]
        /\ \A i \in 1 .. m : K[a + i] = t[i] /\ S[b + i] = t[i]
    BY <1>1, <2>1, ConcatProperties
  <2>4. /\ k[a] = s[b] /\ k[a - 1] = s[b - 1]
        /\ a \in 1 .. a /\ a - 1 \in 1 .. a /\ b \in 1 .. b /\ b - 1 \in 1 .. b
    BY <2>1, <2>2
  <2>5. S[b + m].type = "stopped" /\ S[b + m - 1].type = "hit"
    BY <2>2 DEF EndsInPark
  <2> HIDE DEF a, b, m, K, S
  <2>6. K[a + m] = S[b + m] /\ K[a + m - 1] = S[b + m - 1]
    <3>1. CASE m = 0
      <4>1. a + m = a /\ b + m = b /\ a + m - 1 = a - 1 /\ b + m - 1 = b - 1
        BY <2>2, <3>1
      <4> QED
        BY <2>3, <2>4, <4>1
    <3>2. CASE m = 1
      <4>1. a + m - 1 = a /\ b + m - 1 = b /\ m \in 1 .. m
        BY <2>2, <3>2
      <4> QED
        BY <2>3, <2>4, <4>1
    <3>3. CASE m > 1
      <4>1. /\ a + m - 1 = a + (m - 1) /\ b + m - 1 = b + (m - 1)
            /\ m \in 1 .. m /\ m - 1 \in 1 .. m
        BY <2>2, <3>3
      <4> QED
        BY <2>3, <4>1
    <3> QED
      BY <2>2, <3>1, <3>2, <3>3
  <2>7. EndsInPark(K)
    <3>1. Len(K) >= 2
      BY <2>2
    <3> QED
      BY <2>2, <2>5, <2>6, <3>1 DEF EndsInPark
  <2> QED
    BY <2>7 DEF k, K
<1> QED
  BY <1>1, <1>2, <1>3

LEMMA HitEndsInPark ==
    ASSUME VInv, NEW q \in HitSeqs, Hit(q)
    PROVE  EndsInPark(wire') /\ wire' \in Seq(Frame)
<1>1. PICK m \in Nat : m >= 1 /\ q \in [1 .. m -> Armed]
  BY MaxSharedAssumption DEF HitSeqs
<1>2. /\ HitFrames(q) \in Seq(Frame)
      /\ \A j \in 1 .. Len(HitFrames(q)) : HitFrames(q)[j].type = "hit"
  BY HitFramesProperties
<1>3. Len(HitFrames(q)) = m
  <2>1. HitFrames(q) \in [1 .. m -> Frame]
    BY <1>1, FrameProperties DEF HitFrames, Armed
  <2> QED
    BY <1>1, <2>1
<1>4. wire \in Seq(Frame) /\ <<Stopped>> \in Seq(Frame) /\ Len(<<Stopped>>) = 1
  BY FrameProperties, SingleProperties DEF VInv, ViceTypeOK
<1>5. /\ wire \o HitFrames(q) \in Seq(Frame)
      /\ Len(wire \o HitFrames(q)) = Len(wire) + m
      /\ (wire \o HitFrames(q))[Len(wire) + m] = HitFrames(q)[m]
  <2> DEFINE h == HitFrames(q)
  <2>1. h \in Seq(Frame) /\ m \in 1 .. Len(h) /\ Len(h) = m /\ Len(wire) \in Nat
    BY <1>1, <1>2, <1>3, <1>4
  <2> HIDE DEF h
  <2>2. /\ wire \o h \in Seq(Frame) /\ Len(wire \o h) = Len(wire) + Len(h)
        /\ \A i \in 1 .. Len(wire) + Len(h) :
              (wire \o h)[i] = IF i <= Len(wire) THEN wire[i] ELSE h[i - Len(wire)]
    BY <1>4, <2>1, ConcatProperties
  <2>3. (wire \o h)[Len(wire) + m] = h[m]
    <3>1. /\ Len(wire) + m \in 1 .. Len(wire) + Len(h)
          /\ ~(Len(wire) + m <= Len(wire)) /\ Len(wire) + m - Len(wire) = m
      BY <1>1, <2>1
    <3> QED
      BY <2>2, <3>1
  <2> QED
    BY <2>1, <2>2, <2>3 DEF h
<1>6. wire' = (wire \o HitFrames(q)) \o <<Stopped>>
  BY <1>2, <1>4, ConcatAssociative DEF Hit
<1>7. /\ wire' \in Seq(Frame) /\ Len(wire') = Len(wire) + m + 1
      /\ wire'[Len(wire) + m + 1] = Stopped
      /\ wire'[Len(wire) + m] = HitFrames(q)[m]
  <2> DEFINE s == wire \o HitFrames(q)
  <2>1. Len(wire) + m \in 1 .. Len(s) /\ 1 \in 1 .. Len(<<Stopped>>)
    BY <1>1, <1>4, <1>5
  <2>2. s \in Seq(Frame) /\ Len(s) = Len(wire) + m
    BY <1>5
  <2> HIDE DEF s
  <2>3. /\ s \o <<Stopped>> \in Seq(Frame) /\ Len(s \o <<Stopped>>) = Len(s) + 1
        /\ (s \o <<Stopped>>)[Len(s) + 1] = Stopped
        /\ (s \o <<Stopped>>)[Len(wire) + m] = s[Len(wire) + m]
    BY <1>4, <2>1, <2>2, ConcatProperties
  <2> QED
    BY <1>5, <1>6, <2>2, <2>3 DEF s
<1> QED
  BY <1>1, <1>2, <1>3, <1>4, <1>7, FrameProperties DEF EndsInPark

(* What is left when a read has taken its share.                           *)
LEMMA CutSettles ==
    ASSUME VInv, Settled(wire), NEW n \in ReadSizes \cup PollSizes
    PROVE  Settled(Beyond(wire, n))
<1>1. wire \in Seq(Frame) /\ n \in 0 .. Len(wire) /\ Len(wire) \in Nat
  BY ReadSizesBound DEF VInv, ViceTypeOK
<1>2. /\ Beyond(wire, n) \in Seq(Frame)
      /\ Len(Beyond(wire, n)) = Len(wire) - n
      /\ \A j \in 1 .. (Len(wire) - n) : Beyond(wire, n)[j] = wire[n + j]
  BY <1>1, CutProperties
<1>3. CASE n = Len(wire)
  BY <1>1, <1>2, <1>3 DEF Settled
<1>4. CASE n = 0
  BY <1>1, <1>2, <1>4 DEF Settled, EndsInPark
<1>5. CASE 0 < n /\ n < Len(wire)
  <2>1. n \in Nat /\ Len(wire) # 0 /\ Len(wire) # 1
    <3> DEFINE w == Len(wire)
    <3>1. w \in Nat /\ n \in 0 .. w /\ 0 < n /\ n < w
      BY <1>1, <1>5
    <3> HIDE DEF w
    <3>2. n \in Nat /\ w # 0 /\ w # 1
      BY <3>1
    <3> QED
      BY <3>2 DEF w
  <2>0. EndsInPark(wire)
    <3>1. wire # <<>>
      BY <2>1
    <3> QED
      BY <2>1, <3>1 DEF Settled
  <2>4. ~Prompt
    BY <1>1, <1>5, PromptAssumption DEF ReadSizes, PollSizes
  <2>2. CASE n = Len(wire) - 1
    <3>1. Len(Beyond(wire, n)) = 1 /\ n + 1 = Len(wire) /\ 1 \in 1 .. (Len(wire) - n)
      BY <1>1, <1>2, <2>1, <2>2
    <3>2. Beyond(wire, n)[1] = wire[n + 1]
      BY <1>2, <3>1
    <3>3. Beyond(wire, n)[1].type = "stopped"
      BY <2>0, <3>1, <3>2 DEF EndsInPark
    <3> QED
      BY <2>4, <3>1, <3>3 DEF Settled
  <2>3. CASE n < Len(wire) - 1
    <3> DEFINE m == Len(wire) - n
    <3>1. /\ m \in Nat /\ m >= 2 /\ m \in 1 .. m /\ m - 1 \in 1 .. m
          /\ n + m = Len(wire) /\ n + (m - 1) = Len(wire) - 1
      BY <1>1, <2>1, <2>3
    <3>2. /\ Beyond(wire, n)[m] = wire[n + m]
          /\ Beyond(wire, n)[m - 1] = wire[n + (m - 1)]
      BY <1>2, <3>1
    <3>3. Len(Beyond(wire, n)) = m
      BY <1>2
    <3> HIDE DEF m
    <3>4. EndsInPark(Beyond(wire, n))
      BY <2>0, <3>1, <3>2, <3>3 DEF EndsInPark
    <3> QED
      BY <3>4 DEF Settled
  <2> QED
    BY <1>1, <1>5, <2>1, <2>2, <2>3
<1> QED
  BY <1>1, <1>3, <1>4, <1>5

LEMMA JoinSplit ==                  \* what is read and what is left
    ASSUME VInv, NEW n \in 0 .. Len(wire)
    PROVE  /\ events \o FirstN(wire, n) \in Seq(Frame)
           /\ Beyond(wire, n) \in Seq(Frame)
           /\ (events \o FirstN(wire, n)) \o Beyond(wire, n) = events \o wire
           /\ n = Len(wire) => /\ Beyond(wire, n) = <<>>
                               /\ FirstN(wire, n) = wire
<1>1. wire \in Seq(Frame) /\ events \in Seq(Frame) /\ Len(wire) \in Nat
  BY DEF VInv, ViceTypeOK
<1>2. /\ FirstN(wire, n) \in Seq(Frame) /\ Beyond(wire, n) \in Seq(Frame)
      /\ Len(FirstN(wire, n)) = n /\ Len(Beyond(wire, n)) = Len(wire) - n
      /\ \A j \in 1 .. n : FirstN(wire, n)[j] = wire[j]
      /\ \A j \in 1 .. (Len(wire) - n) : Beyond(wire, n)[j] = wire[n + j]
  BY <1>1, CutProperties
<1>3. FirstN(wire, n) \o Beyond(wire, n) = wire
  <2> DEFINE f == FirstN(wire, n)
             b == Beyond(wire, n)
             w == Len(wire)
  <2>1. /\ f \in Seq(Frame) /\ b \in Seq(Frame) /\ Len(f) = n /\ Len(b) = w - n
        /\ n \in 0 .. w /\ w \in Nat /\ w = Len(wire)
        /\ \A j \in 1 .. n : f[j] = wire[j]
        /\ \A j \in 1 .. (w - n) : b[j] = wire[n + j]
    BY <1>1, <1>2
  <2> HIDE DEF f, b, w
  <2>2. /\ f \o b \in Seq(Frame) /\ Len(f \o b) = n + (w - n)
        /\ \A i \in 1 .. n + (w - n) : (f \o b)[i] = IF i <= n THEN f[i] ELSE b[i - n]
    BY <2>1, ConcatProperties
  <2>3. n + (w - n) = w
    BY <2>1
  <2>4. \A i \in 1 .. w : (f \o b)[i] = wire[i]
    <3>1. TAKE i \in 1 .. w
    <3>2. CASE i <= n
      BY <2>1, <2>2, <2>3, <3>2
    <3>3. CASE ~(i <= n)
      <4>1. i - n \in 1 .. (w - n) /\ n + (i - n) = i
        BY <2>1, <3>3
      <4>2. b[i - n] = wire[n + (i - n)]
        BY <2>1, <4>1
      <4> QED
        BY <2>2, <2>3, <3>3, <4>1, <4>2
    <3> QED
      BY <3>2, <3>3
  <2>5. f \o b = wire
    BY <1>1, <2>1, <2>2, <2>3, <2>4, SeqEqual
  <2> QED
    BY <2>5 DEF f, b
<1>4. events \o FirstN(wire, n) \in Seq(Frame)
  BY <1>1, <1>2, JoinProperties
<1>5. (events \o FirstN(wire, n)) \o Beyond(wire, n) = events \o wire
  <2>1. (events \o FirstN(wire, n)) \o Beyond(wire, n)
          = events \o (FirstN(wire, n) \o Beyond(wire, n))
    BY <1>1, <1>2, ConcatAssociative
  <2> QED
    BY <1>3, <2>1
<1>6. n = Len(wire) => Beyond(wire, n) = <<>> /\ FirstN(wire, n) = wire
  <2> HAVE n = Len(wire)
  <2>1. Len(Beyond(wire, n)) = 0
    BY <1>1, <1>2
  <2>2. Beyond(wire, n) = <<>>
    BY <1>2, <2>1, EmptySeq
  <2>3. FirstN(wire, n) \o <<>> = FirstN(wire, n)
    BY <1>2, ConcatEmptySeq
  <2> QED
    BY <1>3, <2>2, <2>3
<1> QED
  BY <1>2, <1>4, <1>5, <1>6

(* The pump keeps a park it has not judged, and takes a STOPPED that is    *)
(* the last thing it read.                                                 *)
LEMMA PumpedStop ==
    ASSUME NEW seen \in Seq(Frame), NEW s, PumpedState(seen, s),
           Len(seen) > 0, seen[Len(seen)].type = "stopped"
    PROVE  s = STOPPED
<1>1. Len(seen) \in Nat /\ Len(seen) \in 1 .. Len(seen)
  OBVIOUS
<1>2. PICK j \in 1 .. Len(seen) :
        /\ seen[j].type # "hit"
        /\ \A k \in (j + 1) .. Len(seen) : seen[k].type = "hit"
        /\ s = IF seen[j].type = "stopped" THEN STOPPED ELSE RUNNING
  BY <1>1 DEF PumpedState
<1>3. j = Len(seen)
  <2>1. j < Len(seen) => Len(seen) \in (j + 1) .. Len(seen)
    BY <1>1
  <2>2. ~(j < Len(seen))
    BY <1>2, <2>1
  <2> QED
    BY <1>1, <2>2
<1> QED
  BY <1>2, <1>3

LEMMA PumpKnows ==
    ASSUME VInv, HaltInv, EventCap > 1, Pump, Halted
    PROVE  Settled(wire') /\ (state' = STOPPED \/ EndsInPark(events' \o wire'))
<1>1. PICK n \in PollSizes :
        /\ Beyond(wire, n) # wire
        /\ wire' = Beyond(wire, n)
        /\ events' = Kept(events \o FirstN(wire, n))
        /\ PumpedState(events \o FirstN(wire, n), state')
  <2>1. PICK o \in PollOutcomes : /\ o.rest # wire /\ wire' = o.rest
                                  /\ events' = Kept(o.seen)
                                  /\ PumpedState(o.seen, state')
    BY DEF Pump
  <2>2. PICK n \in PollSizes :
          o = [seen |-> events \o FirstN(wire, n), rest |-> Beyond(wire, n)]
    BY DEF PollOutcomes
  <2>3. o.seen = events \o FirstN(wire, n) /\ o.rest = Beyond(wire, n)
    BY <2>2
  <2> QED
    BY <2>1, <2>3
<1>2. /\ n \in 0 .. Len(wire) /\ wire \in Seq(Frame) /\ events \in Seq(Frame)
      /\ Len(wire) \in Nat
  BY ReadSizesBound DEF VInv, ViceTypeOK
<1>3. /\ events \o FirstN(wire, n) \in Seq(Frame) /\ Beyond(wire, n) \in Seq(Frame)
      /\ (events \o FirstN(wire, n)) \o Beyond(wire, n) = events \o wire
      /\ n = Len(wire) => Beyond(wire, n) = <<>> /\ FirstN(wire, n) = wire
  BY <1>2, JoinSplit
<1>4. pc = "idle"
  BY DEF Pump
<1>5. Settled(wire)
  BY <1>4 DEF HaltInv
<1>6. CASE EndsInPark(events \o wire)
  BY <1>1, <1>3, <1>5, <1>6, KeptPark, CutSettles
<1>7. CASE ~EndsInPark(events \o wire)
  <2>1. ~EndsInPark(wire) /\ state = STOPPED
    BY <1>2, <1>4, <1>7, JoinedPark DEF HaltInv
  <2>2. n # 0
    BY <1>1, <1>2 DEF Beyond
  <2>3. wire # <<>>
    BY <1>2, <2>2
  <2>4. Len(wire) = 1 /\ wire[1].type = "stopped"
    BY <1>5, <2>1, <2>3 DEF Settled
  <2>5. n = 1
    BY <1>2, <2>2, <2>4
  <2>6. events \o FirstN(wire, n) = events \o wire
    BY <1>3, <2>4, <2>5
  <2>7. /\ Len(events \o wire) = Len(events) + 1 /\ Len(events) \in Nat
        /\ (events \o wire)[Len(events) + 1] = wire[1]
    <3>1. Len(events) + 1 \in 1 .. Len(events) + Len(wire)
      BY <1>2, <2>4
    <3>2. ~(Len(events) + 1 <= Len(events)) /\ Len(events) + 1 - Len(events) = 1
      BY <1>2
    <3>3. /\ Len(events \o wire) = Len(events) + Len(wire)
          /\ (events \o wire)[Len(events) + 1]
                = IF Len(events) + 1 <= Len(events) THEN events[Len(events) + 1]
                  ELSE wire[Len(events) + 1 - Len(events)]
      BY <1>2, <3>1, ConcatProperties
    <3> QED
      BY <1>2, <2>4, <3>2, <3>3
  <2>8. Len(events \o wire) > 0 /\ (events \o wire)[Len(events \o wire)].type = "stopped"
    BY <2>4, <2>7
  <2> QED
    BY <1>1, <1>3, <1>5, <2>6, <2>8, PumpedStop, CutSettles
<1> QED
  BY <1>6, <1>7

LEMMA RestSettles ==
    ASSUME VInv, Settled(wire), NEW o \in PollOutcomes \cup FirstOutcomes
    PROVE  Settled(o.rest)
<1>1. CASE \E n \in ReadSizes \cup PollSizes : o.rest = Beyond(wire, n)
  BY <1>1, CutSettles
<1>2. CASE o.rest = wire
  BY <1>2
<1> QED
  BY <1>1, <1>2 DEF PollOutcomes, FirstOutcomes

-----------------------------------------------------------------------------
LEMMA HaltInit == Init => HaltInv
BY DEF Init, HaltInv, Halted

LEMMA EmptiedSettles ==             \* all frames read, within a request
    ASSUME cpu' # "returning", wire' = <<>>, pc' \notin {"exit", "idle"}
    PROVE  HaltInv'
BY DEF HaltInv, Halted, Settled

LEMMA UnhaltedSettles ==
    ASSUME cpu' # "halted", cpu' = "returning" => pc' = "finish"
    PROVE  HaltInv'
BY DEF HaltInv, Halted

LEMMA UnreadSettles ==              \* frames read or not, within a request
    ASSUME VInv, HaltInv, pc # "finish", pc' \notin {"exit", "idle", "finish"},
           cpu' = cpu, \/ wire' = wire
                       \/ \E o \in PollOutcomes \cup FirstOutcomes : wire' = o.rest
    PROVE  HaltInv'
<1>1. Halted => Settled(wire')
  BY RestSettles DEF HaltInv
<1> QED
  BY <1>1 DEF HaltInv, Halted, Settled, EndsInPark

LEMMA HaltEnvironment ==
    ASSUME IndInv, HaltInv, Environment
    PROVE  HaltInv'
<1>0. VInv /\ events \in Seq(Frame)
  BY DEF IndInv, TypeOK, VInv, ViceTypeOK
<1>1. CASE ViceHits
  <2>1. PICK q \in HitSeqs : Hit(q)
    BY <1>1 DEF ViceHits
  <2>2. EndsInPark(wire') /\ wire' \in Seq(Frame) /\ cpu' = "halted" /\ events' = events
    BY <1>0, <2>1, HitEndsInPark DEF Hit
  <2>3. EndsInPark(events' \o wire')
    BY <1>0, <2>2, JoinedPark
  <2> QED
    BY <2>2, <2>3 DEF HaltInv, Halted, Settled
<1>2. CASE ViceReturns
  <2>1. pc' = "finish" /\ cpu' = "halted"
    BY <1>2 DEF ViceReturns, Return, HaltInv
  <2> QED
    BY <2>1 DEF HaltInv
<1>3. CASE ViceDies
  BY <1>3, UnhaltedSettles DEF ViceDies, Die
<1>4. CASE ClientLeaves
  BY <1>4 DEF ClientLeaves, vice, HaltInv, Halted, Settled, EndsInPark
<1> QED
  BY <1>1, <1>2, <1>3, <1>4 DEF Environment

LEMMA HaltRequests ==
    ASSUME IndInv, HaltInv, Requests
    PROVE  HaltInv'
<1>0. VInv
  BY DEF IndInv, TypeOK, VInv
<1>1. CASE \/ Command \/ SetCheckpoint \/ DeleteCheckpoint \/ ToggleCheckpoint
           \/ RunUntilZero \/ Step
  <2>1. cpu' = "halted" /\ wire' = <<>> /\ pc' = "readline"
    BY <1>1 DEF Command, SetCheckpoint, DeleteCheckpoint, ToggleCheckpoint,
                RunUntilZero, Step, Transact, StepOnto, Ask
  <2> QED
    BY <2>1, EmptiedSettles
<1>2. CASE Resume \/ Finish \/ RunUntil \/ Quit
  BY <1>2, UnhaltedSettles DEF Resume, Finish, RunUntil, Quit, SendExit,
                               SendUntilReturn, ExitAfterCommand
<1>3. CASE WaitForStop
  BY <1>0, <1>3, UnreadSettles DEF WaitForStop, Ask, vice
<1>4. CASE Release
  <2>1. pc = "readline" /\ cpu' = cpu /\ pc' \in {"readline", "restoring"}
    BY <1>4, RestoreKeeps DEF Release, After, Ask
  <2>2. \/ wire' = <<>> /\ cpu = "dead"
        \/ \E o \in PollOutcomes : wire' = o.rest
    BY <1>4 DEF Release, Restore
  <2> QED
    BY <1>0, <2>1, <2>2, UnreadSettles, EmptiedSettles
<1>5. CASE RequestFails
  BY <1>5, UnhaltedSettles DEF RequestFails, Fail, vice
<1> QED
  BY <1>1, <1>2, <1>3, <1>4, <1>5 DEF Requests

LEMMA HaltTenure ==
    ASSUME IndInv, HaltInv, EventCap > 1,
           Pump \/ Accept \/ NoticeDeath \/ EndTenure \/ RestoreExit
    PROVE  HaltInv'
<1>0. VInv
  BY DEF IndInv, TypeOK, VInv
<1>1. CASE Pump
  <2>1. pc = "idle" /\ pc' = "idle" /\ cpu' = cpu
    BY <1>1 DEF Pump
  <2>2. cpu # "returning"
    BY <2>1 DEF HaltInv
  <2>3. Halted => Settled(wire') /\ (state' = STOPPED \/ EndsInPark(events' \o wire'))
    BY <1>0, <1>1, PumpKnows
  <2> QED
    BY <2>1, <2>2, <2>3 DEF HaltInv, Halted, Settled, EndsInPark
<1>2. CASE Accept
  BY <1>0, <1>2, UnreadSettles DEF Accept, vice
<1>3. CASE NoticeDeath
  BY <1>3, UnhaltedSettles DEF NoticeDeath, vice
<1>4. CASE EndTenure
  <2>1. pc \in {"readline", "abandoned"} /\ cpu' = cpu
    BY <1>4 DEF EndTenure
  <2>2. CASE cpu = "dead"
    BY <2>1, <2>2, UnhaltedSettles
  <2>3. CASE cpu # "dead"
    <3>1. PICK o \in PollOutcomes : wire' = o.rest
      BY <1>4, <2>3 DEF EndTenure, Restore
    <3>2. pc' = "restoring" \/ (pc' = "idle" /\ state' = STOPPED)
      BY <1>4, <2>3 DEF EndTenure, Restore, After
    <3>3. Halted => Settled(wire')
      BY <1>0, <2>1, <3>1, RestSettles DEF HaltInv
    <3>4. cpu # "returning"
      BY <2>1 DEF HaltInv
    <3> QED
      BY <2>1, <3>2, <3>3, <3>4 DEF HaltInv, Halted, Settled, EndsInPark
  <2> QED
    BY <2>2, <2>3
<1>5. CASE RestoreExit
  BY <1>5, UnhaltedSettles DEF RestoreExit, SendExit
<1> QED
  BY <1>1, <1>2, <1>3, <1>4, <1>5

LEMMA HaltExitAnswered ==
    ASSUME IndInv, HaltInv, EventCap > 1, ExitAnswered
    PROVE  HaltInv' /\ (Halted => EndsInPark(events' \o wire'))
<1>0. VInv /\ cont \in Conts \ {"none"}
  BY DEF IndInv, TypeOK, VInv, ControlInv, ExitAnswered
<1>1. PICK n \in ReadSizes : /\ events' = Kept(events \o FirstN(wire, n))
                            /\ wire' = Beyond(wire, n)
  BY DEF ExitAnswered, ReadResponse
<1>2. n \in 0 .. Len(wire) /\ wire \in Seq(Frame) /\ events \in Seq(Frame)
  BY <1>0, ReadSizesBound DEF VInv, ViceTypeOK
<1>3. /\ events \o FirstN(wire, n) \in Seq(Frame) /\ Beyond(wire, n) \in Seq(Frame)
      /\ (events \o FirstN(wire, n)) \o Beyond(wire, n) = events \o wire
  BY <1>0, <1>2, JoinSplit
<1>4. pc = "exit" /\ cpu' = cpu /\ pc' \notin {"exit", "finish"}
  BY <1>0 DEF ExitAnswered, After, Conts
<1>5. cpu # "returning"
  BY <1>4 DEF HaltInv
<1>6. ASSUME Halted
      PROVE  Settled(wire') /\ EndsInPark(events' \o wire')
  <2>1. EndsInPark(wire) /\ Settled(wire)
    BY <1>4, <1>6 DEF HaltInv, Settled
  <2>2. EndsInPark(events \o wire)
    BY <1>2, <2>1, JoinedPark
  <2>3. EndsInPark(Kept(events \o FirstN(wire, n)) \o Beyond(wire, n))
    BY <1>3, <2>2, KeptPark
  <2> QED
    BY <1>0, <1>1, <2>1, <2>3, CutSettles
<1> QED
  BY <1>4, <1>5, <1>6 DEF HaltInv, Halted, Settled, EndsInPark

LEMMA HaltCalls ==
    ASSUME IndInv, HaltInv,
           \/ ExitLost \/ CallFails \/ ReadBatch \/ WaitSees \/ WaitSlice
           \/ FinishSees \/ FinishTimesOut
    PROVE  HaltInv'
<1>0. VInv
  BY DEF IndInv, TypeOK, VInv
<1>1. CASE ExitLost \/ CallFails
  BY <1>1, UnhaltedSettles DEF ExitLost, CallFails, Fail, vice
<1>2. CASE ReadBatch
  <2>1. /\ pc \in {"wait", "finish", "ru_wait"} /\ UNCHANGED <<cpu, pc>>
        /\ \E o \in FirstOutcomes : wire' = o.rest
    BY <1>2 DEF ReadBatch
  <2>2. CASE pc = "finish"
    BY <2>1, <2>2 DEF HaltInv
  <2>3. CASE pc # "finish"
    BY <1>0, <2>1, <2>3, UnreadSettles
  <2> QED
    BY <2>2, <2>3
<1>3. CASE WaitSees
  BY <1>0, <1>3, UnreadSettles DEF WaitSees
<1>4. CASE WaitSlice
  BY <1>0, <1>4, UnreadSettles DEF WaitSlice, vice
<1>5. CASE FinishSees \/ FinishTimesOut
  BY <1>5, EmptiedSettles DEF FinishSees, FinishTimesOut, FinishAnswers, Transact
<1> QED
  BY <1>1, <1>2, <1>3, <1>4, <1>5

LEMMA HaltRuns ==
    ASSUME IndInv, HaltInv,
           \/ RunUntilExpires \/ RunUntilWaits \/ RunUntilSees \/ RunUntilSlice
           \/ RunUntilLists \/ RunUntilChecks
    PROVE  HaltInv'
<1>0. VInv
  BY DEF IndInv, TypeOK, VInv
<1>1. CASE RunUntilExpires
  BY <1>1, UnhaltedSettles DEF RunUntilExpires, ExitAfterCommand
<1>2. CASE RunUntilWaits \/ RunUntilSlice
  BY <1>0, <1>2, UnreadSettles DEF RunUntilWaits, RunUntilSlice, vice
<1>3. CASE RunUntilSees
  <2>1. PICK o \in FirstOutcomes :
          \/ SendExit(o.rest)
          \/ Transact(<<>>, o.rest) /\ pc' = "readline"
          \/ wire' = o.rest /\ cpu' = cpu /\ pc' = "ru_list"
    BY <1>3 DEF RunUntilSees, RunUntilAnswers
  <2>2. pc = "ru_wait"
    BY <1>3 DEF RunUntilSees
  <2>3. CASE SendExit(o.rest)
    BY <2>3, UnhaltedSettles DEF SendExit
  <2>4. CASE Transact(<<>>, o.rest) /\ pc' = "readline"
    BY <2>4, EmptiedSettles DEF Transact
  <2>5. CASE wire' = o.rest /\ cpu' = cpu /\ pc' = "ru_list"
    BY <1>0, <2>2, <2>5, UnreadSettles
  <2> QED
    BY <2>1, <2>3, <2>4, <2>5
<1>4. CASE RunUntilLists
  <2>1. ExitAfterCommand \/ (Transact(events, wire) /\ pc' = "readline")
    BY <1>4 DEF RunUntilLists, RunUntilAnswers
  <2> QED
    BY <2>1, UnhaltedSettles, EmptiedSettles DEF ExitAfterCommand, Transact
<1>5. CASE RunUntilChecks
  <2>1. \/ UNCHANGED vice /\ pc' = "ru_top"
        \/ Transact(events, wire) /\ pc' = "abandoned"
    BY <1>5 DEF RunUntilChecks
  <2>2. pc = "ru_check"
    BY <1>5 DEF RunUntilChecks
  <2> QED
    BY <1>0, <2>1, <2>2, UnreadSettles, EmptiedSettles DEF Transact, vice
<1> QED
  BY <1>1, <1>2, <1>3, <1>4, <1>5

LEMMA HaltNext ==
    ASSUME IndInv, HaltInv, EventCap > 1, [Next]_vars
    PROVE  HaltInv'
<1>1. CASE Environment \/ Requests
  BY <1>1, HaltEnvironment, HaltRequests
<1>2. CASE Pump \/ Accept \/ NoticeDeath \/ EndTenure \/ RestoreExit
  BY <1>2, HaltTenure
<1>3. CASE ExitAnswered
  BY <1>3, HaltExitAnswered
<1>4. CASE \/ ExitLost \/ CallFails \/ ReadBatch \/ WaitSees \/ WaitSlice
           \/ FinishSees \/ FinishTimesOut
  BY <1>4, HaltCalls
<1>5. CASE \/ RunUntilExpires \/ RunUntilWaits \/ RunUntilSees \/ RunUntilSlice
           \/ RunUntilLists \/ RunUntilChecks
  BY <1>5, HaltRuns
<1>6. CASE UNCHANGED vars
  BY <1>6 DEF vars, HaltInv, Halted, Settled, EndsInPark
<1> QED
  BY <1>1, <1>2, <1>3, <1>4, <1>5, <1>6 DEF Next, Daemon, Terminated

THEOREM HaltsKnown ==
    ASSUME EventCap > 1
    PROVE  Spec => []HaltInv
<1>1. IndInv /\ HaltInv /\ [Next]_vars => HaltInv'
  BY HaltNext
<1>2. QED
  BY <1>1, HaltInit, Inductive, PTL DEF Spec

(* No halt is forgotten between two clients: when the daemon idles and the *)
(* CPU is halted, it knows, or the next poll will see the hit (IdleTruth), *)
(* however the stream is cut and however long the queue is; a queue of one *)
(* frame would drop the hit behind its own STOPPED.                        *)
THEOREM IdlesTruly ==
    ASSUME EventCap > 1
    PROVE  Spec => []IdleTruth
<1>1. IndInv /\ HaltInv => IdleTruth
  <2> SUFFICES ASSUME IndInv, HaltInv, pc = "idle", cpu = "halted", state # STOPPED
               PROVE  HitEvidence(events \o wire)
    BY DEF IdleTruth
  <2>1. events \o wire \in Seq(Frame)
    BY JoinProperties DEF IndInv, TypeOK, ViceTypeOK
  <2>2. EndsInPark(events \o wire)
    BY DEF HaltInv, Halted
  <2> QED
    BY <2>1, <2>2, ParkIsEvidence
<1>2. QED
  BY <1>1, HaltsKnown, Inductive, PTL

-----------------------------------------------------------------------------
(***************************************************************************)
(* What the daemon believes, when one read returns all that VICE has sent. *)
(***************************************************************************)

(* What is known of a CPU that executes: its last word was RESUMED.        *)
Quiet(s) == s = <<>> \/ s[Len(s)].type = "resumed"

(* An executing CPU has no stop to judge and the session is RUNNING; a     *)
(* park that the session has not taken note of is still to be judged, and  *)
(* once _restore has judged, only a later one is there.                    *)
ParkInv ==
    /\ Executing => Quiet(events \o wire)
    /\ Executing /\ pc \notin {"exit", "finish"} => state = RUNNING
    /\ (Halted /\ parked # {} /\ state = RUNNING
          /\ pc \in {"readline", "abandoned", "ru_check", "wait"})
            => EndsInPark(events \o wire)
    /\ parked # {} /\ pc = "restoring" => EndsInPark(wire)

-----------------------------------------------------------------------------
LEMMA QuietJoin ==
    ASSUME NEW s \in Seq(Frame), NEW t \in Seq(Frame)
    PROVE  Quiet(s \o t) <=> IF t = <<>> THEN Quiet(s) ELSE Quiet(t)
<1>1. CASE t = <<>>
  BY <1>1, ConcatEmptySeq
<1>2. CASE t # <<>>
  <2>1. Len(s) \in Nat /\ Len(t) \in Nat /\ Len(t) > 0
    BY <1>2, EmptySeq
  <2>2. /\ Len(s \o t) = Len(s) + Len(t)
        /\ \A i \in 1 .. Len(s) + Len(t) : (s \o t)[i]
              = IF i <= Len(s) THEN s[i] ELSE t[i - Len(s)]
    BY ConcatProperties
  <2>3. /\ Len(s) + Len(t) \in 1 .. Len(s) + Len(t)
        /\ ~(Len(s) + Len(t) <= Len(s)) /\ Len(s) + Len(t) - Len(s) = Len(t)
    BY <2>1
  <2>4. (s \o t)[Len(s \o t)] = t[Len(t)]
    BY <2>2, <2>3
  <2>5. s \o t # <<>>
    <3>1. Len(s \o t) # 0
      BY <2>1, <2>2
    <3> QED
      BY <3>1
  <2> QED
    BY <1>2, <2>4, <2>5 DEF Quiet
<1> QED
  BY <1>1, <1>2

LEMMA KeptQuiet ==
    ASSUME NEW s \in Seq(Frame), NEW t \in Seq(Frame), Quiet(s \o t)
    PROVE  Quiet(Kept(s) \o t)
<1>1. EventCap \in Nat /\ EventCap > 0 /\ Len(s) \in Nat /\ Kept(s) \in Seq(Frame)
  BY EventCapAssumption, KeptProperties
<1>2. Quiet(s) => Quiet(Kept(s))
  <2>1. CASE Len(s) <= EventCap
    BY <2>1 DEF Kept
  <2>2. CASE Len(s) > EventCap
    <3>1. Len(Kept(s)) = EventCap /\ Kept(s)[EventCap] = s[Len(s)]
      BY <1>1, <2>2, SubSeqProperties DEF Kept
    <3>2. Len(s) # 0
      BY <1>1, <2>2
    <3>3. s # <<>>
      BY <3>2
    <3> QED
      BY <3>1, <3>3 DEF Quiet
  <2> QED
    BY <1>1, <2>1, <2>2
<1> QED
  BY <1>1, <1>2, QuietJoin

LEMMA ResumedQuiets ==
    ASSUME NEW s \in Seq(Frame)
    PROVE  Quiet(s \o <<Resumed>>)
<1>1. <<Resumed>> \in Seq(Frame) /\ Len(<<Resumed>>) = 1 /\ <<Resumed>>[1] = Resumed
  BY FrameProperties, SingleProperties
<1>2. <<Resumed>> # <<>> /\ Quiet(<<Resumed>>)
  BY <1>1, FrameProperties DEF Quiet
<1> QED
  BY <1>1, <1>2, QuietJoin

LEMMA OnlyResumedQuiets ==
    ASSUME NEW s \in Seq({Resumed})
    PROVE  Quiet(<<>> \o s)
<1>1. <<>> \o s = s
  BY ConcatEmptySeq
<1>2. s # <<>> => s[Len(s)] = Resumed
  BY EmptySeq, ElementOfSeq
<1> QED
  BY <1>1, <1>2, FrameProperties DEF Quiet

(* A stream that ends in a RESUMED holds no evidence and pumps to RUNNING. *)
LEMMA QuietJudged ==
    ASSUME NEW s \in Seq(Frame), Quiet(s)
    PROVE  /\ ~HitEvidence(s)
           /\ \A t : PumpedState(s, t) => t \in {state, RUNNING}
<1>1. Len(s) \in Nat
  OBVIOUS
<1>2. CASE s = <<>>
  BY <1>2 DEF HitEvidence, PumpedState
<1>3. CASE s # <<>>
  <2>1. Len(s) > 0 /\ Len(s) \in 1 .. Len(s) /\ s[Len(s)].type = "resumed"
    BY <1>1, <1>3, EmptySeq DEF Quiet
  <2>2. \A j \in 1 .. Len(s) : j = Len(s) \/ Len(s) \in (j + 1) .. Len(s)
    BY <1>1
  <2>3. ~HitEvidence(s)
    BY <2>1, <2>2 DEF HitEvidence
  <2>4. ASSUME NEW t, PumpedState(s, t)
        PROVE  t \in {state, RUNNING}
    <3>1. CASE \A j \in 1 .. Len(s) : s[j].type = "hit"
      BY <2>1, <3>1
    <3>2. CASE \E j \in 1 .. Len(s) :
                  /\ s[j].type # "hit"
                  /\ \A k \in (j + 1) .. Len(s) : s[k].type = "hit"
                  /\ t = IF s[j].type = "stopped" THEN STOPPED ELSE RUNNING
      <4>1. PICK j \in 1 .. Len(s) :
                  /\ \A k \in (j + 1) .. Len(s) : s[k].type = "hit"
                  /\ t = IF s[j].type = "stopped" THEN STOPPED ELSE RUNNING
        BY <3>2
      <4>2. j = Len(s)
        BY <2>1, <2>2, <4>1
      <4> QED
        BY <2>1, <4>1, <4>2
    <3> QED
      BY <2>4, <3>1, <3>2 DEF PumpedState
  <2> QED
    BY <2>3, <2>4
<1> QED
  BY <1>2, <1>3

(* With Prompt, a poll reads everything and a read everything or nothing.  *)
LEMMA PromptPoll ==
    ASSUME VInv, Prompt, NEW o \in PollOutcomes
    PROVE  o.seen = events \o wire /\ o.rest = <<>>
<1>1. Len(wire) \in 0 .. Len(wire)
  BY DEF VInv, ViceTypeOK
<1>2. o = [seen |-> events \o FirstN(wire, Len(wire)), rest |-> Beyond(wire, Len(wire))]
  BY DEF PollOutcomes, PollSizes
<1> QED
  BY <1>1, <1>2, JoinSplit

LEMMA PromptFirst ==
    ASSUME VInv, Prompt, NEW o \in FirstOutcomes
    PROVE  \/ events # <<>> /\ o.seen = events /\ o.rest = wire
           \/ events = <<>> /\ o.seen = wire /\ o.rest = <<>>
<1>1. Len(wire) \in 0 .. Len(wire)
  BY DEF VInv, ViceTypeOK
<1>2. CASE events # <<>>
  BY <1>2 DEF FirstOutcomes
<1>3. CASE events = <<>>
  <2>1. o = [seen |-> FirstN(wire, Len(wire)), rest |-> Beyond(wire, Len(wire))]
    BY <1>3 DEF FirstOutcomes, ReadSizes
  <2> QED
    BY <1>1, <1>3, <2>1, JoinSplit
<1> QED
  BY <1>2, <1>3

(* A command reads all, and drops no park it finds.                        *)
LEMMA CollectedPark ==
    ASSUME VInv, EventCap > 1, Halted, EndsInPark(events \o wire)
    PROVE  EndsInPark(Collected(events, wire) \o <<>>)
<1>1. events \o wire \in Seq(Frame) /\ <<>> \in Seq(Frame)
  BY JoinProperties, EmptySeq DEF VInv, ViceTypeOK
<1>2. Collected(events, wire) = Kept(events \o wire)
  BY <1>1, ConcatEmptySeq DEF Collected, Haltings, Executing, Halted
<1>3. (events \o wire) \o <<>> = events \o wire
  BY <1>1, ConcatEmptySeq
<1> QED
  BY <1>1, <1>2, <1>3, KeptPark

-----------------------------------------------------------------------------
LEMMA ParkInit == Init => ParkInv
<1>1. \A s \in {<<>>, <<Resumed>>} : s \in Seq({Resumed})
  BY EmptySeq, SingleProperties
<1> QED
  BY <1>1, OnlyResumedQuiets DEF Init, ParkInv, Halted, Executing, RUNNING

(* After an EXIT, or EXECUTE_UNTIL_RETURN, nothing is left to judge.       *)
LEMMA RestartedParks ==
    ASSUME IndInv', wire' = <<Resumed>>, parked' = {}, pc' \in {"exit", "finish"},
           cpu' # "halted"
    PROVE  ParkInv'
<1>1. Quiet(events' \o <<Resumed>>)
  BY ResumedQuiets DEF IndInv, TypeOK, ViceTypeOK
<1> QED
  BY <1>1 DEF ParkInv, Halted

LEMMA DeadParks ==
    ASSUME cpu' = "dead", pc' # "restoring"
    PROVE  ParkInv'
BY DEF ParkInv, Halted, Executing

LEMMA StoppedParks ==
    ASSUME cpu' = "halted", state' = STOPPED, pc' # "restoring"
    PROVE  ParkInv'
BY DEF ParkInv, Halted, Executing, STOPPED, RUNNING

(* A command within a request, the state left as it was.                   *)
LEMMA CommandParks ==
    ASSUME VInv, ParkInv, EventCap > 1, Transact(events, wire), state' = state,
           pc \in {"readline", "ru_check"}, pc' # "restoring"
    PROVE  ParkInv'
<1>1. parked # {} => Halted
  BY DEF VInv, ViceTypeOK, WireInv, Transact, Halted, Executing, CpuStates
<1>2. /\ cpu' = "halted" /\ wire' = <<>> /\ parked' = parked
      /\ events' = Collected(events, wire)
  BY DEF Transact
<1>3. parked # {} /\ state = RUNNING => EndsInPark(events' \o wire')
  BY <1>1, <1>2, CollectedPark DEF ParkInv
<1> QED
  BY <1>2, <1>3 DEF ParkInv, Executing

(* Nothing read, nothing decided, within a request.                        *)
LEMMA UnreadParks ==
    ASSUME ParkInv, UNCHANGED <<vice, events, state>>, pc \notin {"exit", "finish"},
           pc' # "restoring",
           \/ pc \in {"readline", "abandoned", "ru_check", "wait"}
           \/ pc' \notin {"readline", "abandoned", "ru_check", "wait"}
    PROVE  ParkInv'
BY DEF ParkInv, vice, Halted, Executing, Quiet, EndsInPark

(* _restore judges every frame VICE has sent: a park makes the session     *)
(* STOPPED, and an executing CPU has no park.                              *)
LEMMA RestoreParks ==
    ASSUME VInv, Prompt, ParkInv, pc \in {"readline", "abandoned"},
           NEW next \in {"released", "restored"}, Restore(next),
           UNCHANGED <<cpu, cks, parked>>
    PROVE  ParkInv'
<1>1. After(next) \in {"readline", "idle"}
  BY DEF After
<1>2. CASE cpu = "dead"
  <2>1. pc' = After(next)
    BY <1>2 DEF Restore
  <2> QED
    BY <1>1, <1>2, <2>1, DeadParks
<1>3. CASE cpu # "dead"
  <2> DEFINE s == events \o wire
  <2>1. /\ wire' = <<>> /\ events' = Kept(s) /\ state' = RestoredState(s)
        /\ s \in Seq(Frame)
    <3>1. PICK o \in PollOutcomes : /\ wire' = o.rest /\ events' = Kept(o.seen)
                                    /\ state' = RestoredState(o.seen)
      BY <1>3 DEF Restore
    <3>2. o.seen = s /\ o.rest = <<>>
      BY PromptPoll
    <3>3. s \in Seq(Frame)
      BY JoinProperties DEF VInv, ViceTypeOK
    <3> QED
      BY <3>1, <3>2, <3>3
  <2>2. \/ state' = STOPPED /\ pc' = After(next)
        \/ state' = RUNNING /\ pc' = "restoring"
    BY <1>3 DEF Restore
  <2>3. CASE Executing
    <3>1. Quiet(s) /\ state = RUNNING
      BY <2>3 DEF ParkInv
    <3>2. ~HitEvidence(s)
      BY <2>1, <3>1, QuietJudged
    <3>3. Quiet(Kept(s) \o <<>>)
      BY <2>1, <3>1, KeptQuiet, EmptySeq, ConcatEmptySeq
    <3>4. state' = RUNNING /\ parked = {}
      BY <2>1, <2>3, <3>1, <3>2 DEF RestoredState, VInv, WireInv
    <3> QED
      BY <2>1, <2>3, <3>3, <3>4 DEF ParkInv, Halted, Executing
  <2>4. CASE ~Executing
    <3>1. Halted
      BY <1>3, <2>4 DEF Halted, Executing, VInv, ViceTypeOK, CpuStates
    <3>2. parked # {} => state' = STOPPED
      <4>1. CASE state = STOPPED
        BY <2>1, <4>1 DEF RestoredState
      <4>2. CASE state = RUNNING /\ parked # {}
        <5>1. EndsInPark(s)
          BY <3>1, <4>2 DEF ParkInv
        <5> QED
          BY <2>1, <5>1, ParkIsEvidence DEF RestoredState
      <4>3. CASE parked # {} /\ state \notin {STOPPED, RUNNING}
        BY <2>1, <2>2, <4>3 DEF RestoredState
      <4> QED
        BY <4>1, <4>2, <4>3
    <3>3. pc' = "restoring" => parked' = {}
      BY <1>1, <2>2, <3>2 DEF STOPPED, RUNNING
    <3>4. state' = RUNNING => pc' = "restoring"
      BY <2>2 DEF STOPPED, RUNNING
    <3> QED
      BY <2>4, <3>1, <3>3, <3>4 DEF ParkInv, Halted, Executing
  <2> QED
    BY <2>3, <2>4
<1> QED
  BY <1>2, <1>3

LEMMA ParkEnvironment ==
    ASSUME IndInv, HaltInv, ParkInv, Environment
    PROVE  ParkInv'
<1>0. VInv /\ events \in Seq(Frame)
  BY DEF IndInv, TypeOK, VInv, ViceTypeOK
<1>1. CASE ViceHits
  <2>1. PICK q \in HitSeqs : Hit(q)
    BY <1>1 DEF ViceHits
  <2>2. EndsInPark(wire') /\ wire' \in Seq(Frame) /\ cpu' = "halted" /\ events' = events
    BY <1>0, <2>1, HitEndsInPark DEF Hit
  <2>3. EndsInPark(events' \o wire')
    BY <1>0, <2>2, JoinedPark
  <2> QED
    BY <2>2, <2>3 DEF ParkInv, Executing
<1>2. CASE ViceReturns
  <2>1. pc' = "finish" /\ cpu' = "halted"
    BY <1>2 DEF ViceReturns, Return, HaltInv
  <2> QED
    BY <2>1 DEF ParkInv, Executing
<1>3. CASE ViceDies
  BY <1>3 DEF ViceDies, Die, ParkInv, Executing, Halted, EndsInPark
<1>4. CASE ClientLeaves
  BY <1>4 DEF ClientLeaves, vice, ParkInv, Halted, Executing, Quiet, EndsInPark
<1> QED
  BY <1>1, <1>2, <1>3, <1>4 DEF Environment

LEMMA ParkRequests ==
    ASSUME IndInv, IndInv', ParkInv, Prompt, EventCap > 1, Requests
    PROVE  ParkInv'
<1>0. VInv
  BY DEF IndInv, TypeOK, VInv
<1>1. CASE Command \/ SetCheckpoint \/ DeleteCheckpoint \/ ToggleCheckpoint
  <2>1. Transact(events, wire) /\ state' = state /\ pc = "readline" /\ pc' = "readline"
    BY <1>1 DEF Command, SetCheckpoint, DeleteCheckpoint, ToggleCheckpoint, Ask
  <2> QED
    BY <1>0, <2>1, CommandParks
<1>2. CASE RunUntilZero \/ Step
  BY <1>2, StoppedParks DEF RunUntilZero, Step, Transact, StepOnto, Ask
<1>3. CASE Resume \/ Finish \/ RunUntil
  BY <1>3, RestartedParks DEF Resume, Finish, RunUntil, SendExit,
                               SendUntilReturn, ExitAfterCommand
<1>4. CASE Quit
  BY <1>4, DeadParks DEF Quit
<1>5. CASE WaitForStop
  BY <1>5, UnreadParks DEF WaitForStop, Ask
<1>6. CASE Release
  BY <1>0, <1>6, RestoreParks DEF Release, Ask
<1>7. CASE RequestFails
  BY <1>7, DeadParks DEF RequestFails, Fail, vice
<1> QED
  BY <1>1, <1>2, <1>3, <1>4, <1>5, <1>6, <1>7 DEF Requests

LEMMA ParkTenure ==
    ASSUME IndInv, IndInv', HaltInv, ParkInv, Prompt, EventCap > 1,
           Pump \/ Accept \/ NoticeDeath \/ EndTenure \/ RestoreExit
    PROVE  ParkInv'
<1>0. VInv
  BY DEF IndInv, TypeOK, VInv
<1>1. CASE Pump
  <2> DEFINE s == events \o wire
  <2>1. PICK o \in PollOutcomes : /\ wire' = o.rest /\ events' = Kept(o.seen)
                                  /\ PumpedState(o.seen, state')
    BY <1>1 DEF Pump
  <2>2. o.seen = s /\ o.rest = <<>> /\ s \in Seq(Frame)
    BY <1>0, PromptPoll, JoinProperties DEF VInv, ViceTypeOK
  <2>3. pc = "idle" /\ pc' = "idle" /\ cpu' = cpu
    BY <1>1 DEF Pump
  <2>4. ASSUME Executing
        PROVE  state' = RUNNING /\ Quiet(events' \o wire')
    <3>1. Quiet(s) /\ state = RUNNING
      BY <2>3, <2>4 DEF ParkInv
    <3>2. Quiet(Kept(s) \o <<>>)
      BY <2>2, <3>1, KeptQuiet, EmptySeq, ConcatEmptySeq
    <3>3. state' \in {state, RUNNING}
      <4>1. PumpedState(s, state')
        BY <2>1, <2>2
      <4> QED
        BY <2>2, <3>1, <4>1, QuietJudged
    <3> QED
      BY <2>1, <2>2, <3>1, <3>2, <3>3
  <2> QED
    BY <2>3, <2>4 DEF ParkInv, Halted, Executing
<1>2. CASE Accept
  BY <1>2 DEF Accept, vice, HaltInv, ParkInv, Halted, Executing, Quiet, EndsInPark,
              STOPPED, RUNNING
<1>3. CASE NoticeDeath
  BY <1>3, DeadParks DEF NoticeDeath, vice
<1>4. CASE EndTenure
  BY <1>0, <1>4, RestoreParks DEF EndTenure
<1>5. CASE RestoreExit
  <2>1. CASE SendExit(wire) /\ pc' = "exit"
    BY <2>1, RestartedParks DEF SendExit
  <2>2. CASE cpu = "dead" /\ pc' = After(cont) /\ cpu' = cpu
    <3>1. cont \in {"released", "restored"}
      BY <1>5 DEF RestoreExit, IndInv, ControlInv
    <3> QED
      BY <2>2, <3>1, DeadParks DEF After
  <2> QED
    BY <1>5, <2>1, <2>2 DEF RestoreExit
<1> QED
  BY <1>1, <1>2, <1>3, <1>4, <1>5

LEMMA ParkExitAnswered ==
    ASSUME IndInv, HaltInv, ParkInv, EventCap > 1, ExitAnswered
    PROVE  ParkInv'
<1>0. VInv /\ cont \in Conts \ {"none"}
  BY DEF IndInv, TypeOK, VInv, ControlInv, ExitAnswered
<1>1. PICK n \in ReadSizes : /\ events' = Kept(events \o FirstN(wire, n))
                            /\ wire' = Beyond(wire, n)
  BY DEF ExitAnswered, ReadResponse
<1>2. n \in 0 .. Len(wire)
  BY <1>0, ReadSizesBound
<1>3. /\ events \o FirstN(wire, n) \in Seq(Frame) /\ Beyond(wire, n) \in Seq(Frame)
      /\ (events \o FirstN(wire, n)) \o Beyond(wire, n) = events \o wire
  BY <1>0, <1>2, JoinSplit
<1>4. Executing => Quiet(events' \o wire')
  BY <1>1, <1>3, KeptQuiet DEF ParkInv
<1>5. Halted => EndsInPark(events' \o wire')
  BY HaltExitAnswered
<1>6. pc' # "restoring" /\ cpu' = cpu /\ state' = RUNNING
  BY <1>0 DEF ExitAnswered, After, Conts
<1> QED
  BY <1>4, <1>5, <1>6 DEF ParkInv, Halted, Executing

(* A batch without a STOPPED cannot hold the frames of a park: the park is *)
(* still on the wire.                                                      *)
LEMMA ParkReadBatch ==
    ASSUME IndInv, HaltInv, ParkInv, Prompt, ReadBatch
    PROVE  ParkInv'
<1>0. VInv /\ wire \in Seq(Frame) /\ events \in Seq(Frame)
  BY DEF IndInv, TypeOK, VInv, ViceTypeOK
<1>1. /\ pc \in {"wait", "finish", "ru_wait"} /\ events' = <<>>
      /\ UNCHANGED <<cpu, parked, state, pc>>
  BY DEF ReadBatch
<1>2. PICK o \in FirstOutcomes : NoStop(o.seen) /\ wire' = o.rest
  BY DEF ReadBatch
<1>3. Executing => Quiet(events' \o wire')
  <2> HAVE Executing
  <2>1. o.rest \in Seq({Resumed})
    BY <1>0, FirstKeeps
  <2> QED
    BY <1>1, <1>2, <2>1, OnlyResumedQuiets
<1>4. ASSUME Halted, pc = "wait", parked # {}, state = RUNNING
      PROVE  EndsInPark(events' \o wire')
  <2>1. wire = <<>> \/ EndsInPark(wire)
    BY <1>4 DEF HaltInv, Settled
  <2>2. CASE events = <<>> /\ o.seen = wire
    <3>1. FirstOutcomes = {[seen |-> FirstN(wire, n), rest |-> Beyond(wire, n)] :
                              n \in ReadSizes \ {0}}
      BY <2>2 DEF FirstOutcomes
    <3>2. ReadSizes \ {0} # {}
      BY <3>1
    <3>3. Len(wire) # 0
      BY <3>2 DEF ReadSizes
    <3>4. EndsInPark(wire)
      BY <2>1, <3>3
    <3>5. Len(wire) \in 1 .. Len(wire) /\ wire[Len(wire)].type = "stopped"
      BY <1>0, <3>4 DEF EndsInPark
    <3> QED
      BY <1>2, <2>2, <3>5 DEF NoStop
  <2>3. CASE events # <<>> /\ o.seen = events /\ o.rest = wire
    <3>1. EndsInPark(wire) => EndsInPark(<<>> \o wire)
      BY <1>0, EmptySeq, JoinedPark
    <3>2. CASE wire = <<>>
      <4>1. EndsInPark(events)
        BY <1>0, <1>4, <3>2, ConcatEmptySeq DEF ParkInv
      <4>2. Len(events) \in 1 .. Len(events) /\ events[Len(events)].type = "stopped"
        BY <1>0, <4>1 DEF EndsInPark
      <4> QED
        BY <1>2, <2>3, <4>2 DEF NoStop
    <3> QED
      BY <1>1, <1>2, <2>1, <2>3, <3>1, <3>2
  <2> QED
    BY <1>0, <2>2, <2>3, PromptFirst
<1> QED
  BY <1>1, <1>3, <1>4 DEF ParkInv, Halted, Executing

LEMMA ParkCalls ==
    ASSUME IndInv, WaitInv, HaltInv, ParkInv, Prompt, EventCap > 1,
           \/ ExitLost \/ CallFails \/ WaitSees \/ WaitSlice
           \/ FinishSees \/ FinishTimesOut
    PROVE  ParkInv'
<1>1. CASE ExitLost \/ CallFails
  <2>1. cpu' = "dead" /\ pc' # "restoring"
    BY <1>1 DEF ExitLost, CallFails, Fail, After, vice
  <2> QED
    BY <2>1, DeadParks
<1>2. CASE WaitSees
  <2>1. pc = "wait" /\ state' = STOPPED /\ pc' = "readline" /\ cpu' = cpu
    BY <1>2 DEF WaitSees
  <2>2. ~Executing
    <3>1. Executing => state' # state
      BY <2>1 DEF ParkInv, STOPPED, RUNNING
    <3> QED
      BY <1>2, <2>1, <3>1, WaitStep DEF Next, Daemon
  <2> QED
    BY <2>1, <2>2 DEF ParkInv, Executing, Halted, STOPPED, RUNNING
<1>3. CASE WaitSlice
  BY <1>3, UnreadParks DEF WaitSlice
<1>4. CASE FinishSees \/ FinishTimesOut
  BY <1>4, StoppedParks DEF FinishSees, FinishTimesOut, FinishAnswers, Transact
<1> QED
  BY <1>1, <1>2, <1>3, <1>4

LEMMA ParkRuns ==
    ASSUME IndInv, IndInv', HaltInv, ParkInv, Prompt, EventCap > 1,
           \/ RunUntilExpires \/ RunUntilWaits \/ RunUntilSees \/ RunUntilSlice
           \/ RunUntilLists \/ RunUntilChecks
    PROVE  ParkInv'
<1>0. VInv
  BY DEF IndInv, TypeOK, VInv
<1>1. CASE RunUntilExpires
  BY <1>1, RestartedParks DEF RunUntilExpires, ExitAfterCommand
<1>2. CASE RunUntilWaits \/ RunUntilSlice
  BY <1>2, UnreadParks DEF RunUntilWaits, RunUntilSlice
<1>3. CASE RunUntilSees
  <2>1. PICK o \in FirstOutcomes :
          \/ SendExit(o.rest) /\ NextArrival
          \/ Transact(<<>>, o.rest) /\ RunUntilAnswers
          \/ /\ wire' = o.rest /\ events' = <<>> /\ pc' = "ru_list"
             /\ UNCHANGED <<cpu, parked, state>>
    BY <1>3 DEF RunUntilSees
  <2>2. pc = "ru_wait"
    BY <1>3 DEF RunUntilSees
  <2>3. CASE SendExit(o.rest) /\ NextArrival
    BY <2>3, RestartedParks DEF SendExit, NextArrival
  <2>4. CASE Transact(<<>>, o.rest) /\ RunUntilAnswers
    BY <2>4, StoppedParks DEF Transact, RunUntilAnswers
  <2>5. CASE /\ wire' = o.rest /\ events' = <<>> /\ pc' = "ru_list"
             /\ UNCHANGED <<cpu, parked, state>>
    <3>1. Executing => o.rest \in Seq({Resumed})
      BY <1>0, FirstKeeps
    <3>2. Executing => Quiet(events' \o wire')
      BY <2>5, <3>1, OnlyResumedQuiets
    <3> QED
      BY <2>2, <2>5, <3>2 DEF ParkInv, Executing, Halted
  <2> QED
    BY <2>1, <2>3, <2>4, <2>5
<1>4. CASE RunUntilLists
  <2>1. \/ ExitAfterCommand /\ pc' = "exit"
        \/ Transact(events, wire) /\ RunUntilAnswers
    BY <1>4 DEF RunUntilLists, NextArrival
  <2> QED
    BY <2>1, RestartedParks, StoppedParks DEF ExitAfterCommand, Transact, RunUntilAnswers
<1>5. CASE RunUntilChecks
  <2>1. pc = "ru_check"
    BY <1>5 DEF RunUntilChecks
  <2>2. \/ UNCHANGED <<vice, events, state>> /\ pc' = "ru_top"
        \/ Transact(events, wire) /\ state' = state /\ pc' = "abandoned"
    BY <1>5 DEF RunUntilChecks
  <2> QED
    BY <1>0, <2>1, <2>2, UnreadParks, CommandParks
<1> QED
  BY <1>1, <1>2, <1>3, <1>4, <1>5

LEMMA ParkNext ==
    ASSUME IndInv, WaitInv, HaltInv, ParkInv, Prompt, EventCap > 1, [Next]_vars
    PROVE  ParkInv'
<1>0. IndInv'
  BY NextKeeps
<1>1. CASE Environment \/ Requests
  BY <1>0, <1>1, ParkEnvironment, ParkRequests
<1>2. CASE Pump \/ Accept \/ NoticeDeath \/ EndTenure \/ RestoreExit
  BY <1>0, <1>2, ParkTenure
<1>3. CASE ExitAnswered \/ ReadBatch
  BY <1>3, ParkExitAnswered, ParkReadBatch
<1>4. CASE \/ ExitLost \/ CallFails \/ WaitSees \/ WaitSlice
           \/ FinishSees \/ FinishTimesOut
  BY <1>4, ParkCalls
<1>5. CASE \/ RunUntilExpires \/ RunUntilWaits \/ RunUntilSees \/ RunUntilSlice
           \/ RunUntilLists \/ RunUntilChecks
  BY <1>0, <1>5, ParkRuns
<1>6. CASE UNCHANGED vars
  BY <1>6 DEF vars, ParkInv, Halted, Executing, Quiet, EndsInPark
<1> QED
  BY <1>1, <1>2, <1>3, <1>4, <1>5, <1>6 DEF Next, Daemon, Terminated

THEOREM ParksKnown ==
    ASSUME Prompt, EventCap > 1
    PROVE  Spec => []ParkInv
<1>1. IndInv /\ WaitInv /\ HaltInv /\ ParkInv /\ [Next]_vars => ParkInv'
  BY ParkNext
<1>2. QED
  BY <1>1, ParkInit, Inductive, WaitInductive, HaltsKnown, PTL DEF Spec

(* An idle daemon never believes in a park that is not there (NoFalsePark) *)
(* when every read returns all that VICE has sent.                         *)
THEOREM ParksAreReal ==
    ASSUME Prompt, EventCap > 1
    PROVE  Spec => []NoFalsePark
<1>1. ParkInv => NoFalsePark
  BY DEF ParkInv, NoFalsePark, RUNNING, STOPPED
<1>2. QED
  BY <1>1, ParksKnown, PTL

(* Under the same reading of the stream no hit the daemon had read in the  *)
(* tenure is resumed away by a release or a disconnect (RestoreSeesParks). *)
THEOREM RestoreJudges ==
    ASSUME Prompt, EventCap > 1
    PROVE  Spec => []RestoreSeesParks
<1>1. IndInv /\ ParkInv => RestoreSeesParks
  <2> SUFFICES ASSUME IndInv, ParkInv, pc = "restoring", parked # {}
               PROVE  HitEvidence(wire)
    BY DEF RestoreSeesParks
  <2>1. wire \in Seq(Frame) /\ EndsInPark(wire)
    BY DEF IndInv, TypeOK, ViceTypeOK, ParkInv
  <2> QED
    BY <2>1, ParkIsEvidence
<1>2. QED
  BY <1>1, ParksKnown, Inductive, PTL

-----------------------------------------------------------------------------
(***************************************************************************)
(* The daemon takes only SessionMachine's steps.                           *)
(***************************************************************************)

(* Who is served, by the place the daemon is at; a _restore that reaches   *)
(* its EXIT has found the session RUNNING.                                 *)
Restored == pc \in {"exit", "restoring"} /\ cont = "restored"

TenureInv ==
    /\ pc = "idle" \/ Restored => conn = "none"
    /\ pc \notin {"idle", "exited"} /\ ~Restored => conn # "none"
    /\ pc \in {"exit", "restoring"} /\ cont \in {"restored", "released"}
         => state = RUNNING

-----------------------------------------------------------------------------
LEMMA TenureInit == Init => TenureInv
BY DEF Init, TenureInv, Restored

LEMMA RestoreTenure ==
    ASSUME NEW next \in {"released", "restored"}, Restore(next)
    PROVE  \/ pc' = After(next) /\ cont' = cont /\ state' \in {state, STOPPED}
           \/ pc' = "restoring" /\ cont' = next /\ state' = RUNNING /\ state = RUNNING
BY DEF Restore, RestoredState, RUNNING, STOPPED

LEMMA TenureNext ==
    ASSUME IndInv, TenureInv, [Next]_vars
    PROVE  TenureInv'
<1> USE DEF TenureInv, Restored
<1>1. CASE Environment
  BY <1>1 DEF Environment, ViceHits, ViceReturns, ViceDies, ClientLeaves
<1>2. CASE \/ Command \/ SetCheckpoint \/ DeleteCheckpoint \/ ToggleCheckpoint
           \/ Resume \/ Step \/ Finish \/ WaitForStop \/ RunUntil \/ RunUntilZero
           \/ Quit
  BY <1>2 DEF Command, SetCheckpoint, DeleteCheckpoint, ToggleCheckpoint, Resume,
              Step, Finish, WaitForStop, RunUntil, RunUntilZero, Quit, Ask
<1>3. CASE Release
  <2>1. conn' = "open"
    BY <1>3 DEF Release, Ask
  <2>2. \/ pc' = "readline"
        \/ pc' = "restoring" /\ cont' = "released" /\ state' = RUNNING
    BY <1>3, RestoreTenure DEF Release, After
  <2> QED
    BY <2>1, <2>2
<1>4. CASE EndTenure
  <2>1. conn' = "none"
    BY <1>4 DEF EndTenure
  <2>2. \/ pc' = "idle"
        \/ pc' = "restoring" /\ cont' = "restored" /\ state' = RUNNING
    BY <1>4, RestoreTenure DEF EndTenure, After
  <2> QED
    BY <2>1, <2>2
<1>5. CASE RequestFails \/ CallFails
  BY <1>5 DEF RequestFails, CallFails, Fail
<1>6. CASE Pump \/ Accept \/ NoticeDeath
  BY <1>6 DEF Pump, Accept, NoticeDeath
<1>7. CASE RestoreExit
  <2>1. pc = "restoring" /\ cont \in {"released", "restored"} /\ UNCHANGED <<state, conn>>
    BY <1>7 DEF RestoreExit, IndInv, ControlInv
  <2>2. \/ pc' = "exit" /\ cont' = cont
        \/ pc' = After(cont) /\ cont' = "none"
    BY <1>7 DEF RestoreExit
  <2> QED
    BY <2>1, <2>2 DEF After
<1>8. CASE ExitAnswered \/ ExitLost
  <2>1. pc = "exit" /\ cont \in Conts \ {"none"}
    BY <1>8 DEF ExitAnswered, ExitLost, IndInv, ControlInv, TypeOK
  <2>2. \/ pc' = After(cont) /\ cont' = "none" /\ conn' = conn
        \/ pc' \in {"exited", "idle"} /\ cont' = "none" /\ conn' = "none"
    BY <1>8 DEF ExitAnswered, ExitLost, Fail
  <2> QED
    BY <2>1, <2>2 DEF After, Conts
<1>9. CASE ReadBatch \/ WaitSees \/ WaitSlice \/ FinishSees \/ FinishTimesOut
  BY <1>9 DEF ReadBatch, WaitSees, WaitSlice, FinishSees, FinishTimesOut, FinishAnswers
<1>10. CASE \/ RunUntilExpires \/ RunUntilWaits \/ RunUntilSees \/ RunUntilSlice
            \/ RunUntilLists \/ RunUntilChecks
  BY <1>10 DEF RunUntilExpires, RunUntilWaits, RunUntilSees, RunUntilSlice,
               RunUntilLists, RunUntilChecks, NextArrival, RunUntilAnswers
<1>11. CASE UNCHANGED vars
  BY <1>11 DEF vars
<1> QED
  BY <1>1, <1>2, <1>3, <1>4, <1>5, <1>6, <1>7, <1>8, <1>9, <1>10, <1>11
     DEF Next, Requests, Daemon, Terminated

(* The pump of a stopped session reads nothing that sets it running.       *)
LEMMA PumpStops ==
    ASSUME IndInv, HaltInv, ParkInv, Prompt, Pump
    PROVE  state' \in {state, STOPPED}
<1>0. VInv /\ wire \in Seq(Frame) /\ events \in Seq(Frame) /\ state \in {RUNNING, STOPPED}
  BY DEF IndInv, TypeOK, VInv, ViceTypeOK
<1>1. PICK o \in PollOutcomes : o.rest # wire /\ PumpedState(o.seen, state')
  BY DEF Pump
<1>2. o.seen = events \o wire /\ o.rest = <<>>
  BY <1>0, PromptPoll
<1>3. PumpedState(events \o wire, state')
  BY <1>1, <1>2
<1>4. state' \in {state, RUNNING, STOPPED}
  BY <1>3 DEF PumpedState
<1>5. CASE state = STOPPED
  <2>1. Halted
    BY <1>0, <1>5 DEF Pump, ParkInv, Executing, Halted, VInv, ViceTypeOK, CpuStates,
                      RUNNING, STOPPED
  <2>2. EndsInPark(wire)
    BY <1>1, <1>2, <2>1 DEF HaltInv, Settled, Pump
  <2>3. EndsInPark(events \o wire) /\ events \o wire \in Seq(Frame)
    BY <1>0, <2>2, JoinedPark, JoinProperties
  <2>4. /\ Len(events \o wire) > 0
        /\ (events \o wire)[Len(events \o wire)].type = "stopped"
    BY <2>3 DEF EndsInPark
  <2> QED
    BY <1>3, <2>3, <2>4, PumpedStop
<1> QED
  BY <1>0, <1>4, <1>5

SessionSteps == Session!SNext \/ UNCHANGED Session!svars

(* A step within a tenure that leaves the client be.                       *)
LEMMA Holds ==
    ASSUME pc # "exited", pc' # "exited", conn' = conn, state \in {RUNNING, STOPPED},
           \/ state' \in {state, STOPPED}
           \/ conn # "none" /\ state' = RUNNING
    PROVE  SessionSteps
<1>1. CASE state' = state
  BY <1>1 DEF SessionSteps, Session!svars
<1>2. CASE state = RUNNING /\ state' = STOPPED
  BY <1>2 DEF SessionSteps, Session!SNext, Session!Halt, RUNNING, STOPPED
<1>3. CASE conn # "none" /\ state = STOPPED /\ state' = RUNNING
  BY <1>3 DEF SessionSteps, Session!SNext, Session!Go, RUNNING, STOPPED
<1> QED
  BY <1>1, <1>2, <1>3

LEMMA Ends ==
    ASSUME pc' = "exited"
    PROVE  SessionSteps
BY DEF SessionSteps, Session!SNext, Session!End

LEMMA HandsBack ==
    ASSUME pc # "exited", pc' # "exited", conn = "gone", conn' = "none",
           state' \in {state, STOPPED}
    PROVE  SessionSteps
BY DEF SessionSteps, Session!SNext, Session!HandBack, RUNNING, STOPPED

LEMMA EndsInError ==
    ASSUME TypeOK, pc # "exited", conn # "none", Fail
    PROVE  SessionSteps
<1>1. conn = "open" => pc' = "exited"
  BY DEF Fail
<1>2. conn = "gone" => pc' = "idle" /\ conn' = "none" /\ state' = state
  BY DEF Fail
<1> QED
  BY <1>1, <1>2, Ends, HandsBack DEF TypeOK

LEMMA SessionStep ==
    ASSUME IndInv, HaltInv, ParkInv, TenureInv, Prompt, [Next]_vars
    PROVE  SessionSteps
<1>0. TypeOK /\ state \in {RUNNING, STOPPED} /\ conn \in {"none", "open", "gone"}
  BY DEF IndInv, TypeOK
<1>1. CASE ViceHits \/ ViceReturns \/ ViceDies
  BY <1>1, <1>0 DEF ViceHits, ViceReturns, ViceDies, SessionSteps, Session!svars
<1>2. CASE ClientLeaves
  BY <1>2 DEF ClientLeaves, SessionSteps, Session!SNext, Session!Leave, Session!svars
<1>3. CASE Accept
  <2>1. pc = "idle" /\ conn = "none" /\ conn' = "open" /\ pc' = "readline" /\ state' = state
    BY <1>3 DEF Accept, TenureInv
  <2> QED
    BY <1>0, <2>1 DEF SessionSteps, Session!SNext, Session!Take, RUNNING, STOPPED
<1>4. CASE Quit \/ NoticeDeath
  BY <1>4, Ends DEF Quit, NoticeDeath
<1>5. CASE \/ Command \/ SetCheckpoint \/ DeleteCheckpoint \/ ToggleCheckpoint
           \/ Resume \/ Step \/ Finish \/ WaitForStop \/ RunUntil \/ RunUntilZero
  <2>1. pc = "readline" /\ pc' # "exited" /\ conn' = conn /\ state' \in {state, STOPPED}
    BY <1>5 DEF Command, SetCheckpoint, DeleteCheckpoint, ToggleCheckpoint, Resume,
              Step, Finish, WaitForStop, RunUntil, RunUntilZero, Ask
  <2> QED
    BY <1>0, <2>1, Holds
<1>6. CASE Release
  <2>1. pc = "readline" /\ conn' = conn
    BY <1>6 DEF Release, Ask
  <2>2. pc' # "exited" /\ state' \in {state, STOPPED}
    BY <1>6, RestoreTenure DEF Release, After
  <2> QED
    BY <1>0, <2>1, <2>2, Holds
<1>7. CASE EndTenure
  <2>1. pc # "exited" /\ conn = "gone" /\ conn' = "none"
    BY <1>7 DEF EndTenure
  <2>2. pc' # "exited" /\ state' \in {state, STOPPED}
    BY <1>7, RestoreTenure DEF EndTenure, After
  <2> QED
    BY <2>1, <2>2, HandsBack
<1>8. CASE RequestFails \/ CallFails
  <2>1. pc # "exited" /\ conn # "none" /\ Fail
    BY <1>8 DEF RequestFails, CallFails, TenureInv, Restored
  <2> QED
    BY <1>0, <2>1, EndsInError
<1>9. CASE Pump
  <2>1. pc = "idle" /\ pc' = "idle" /\ conn' = conn
    BY <1>9 DEF Pump
  <2> QED
    BY <1>0, <1>9, <2>1, PumpStops, Holds
<1>10. CASE RestoreExit
  <2>1. pc = "restoring" /\ pc' # "exited" /\ conn' = conn /\ state' = state
    BY <1>10 DEF RestoreExit, IndInv, ControlInv, After
  <2> QED
    BY <1>0, <2>1, Holds
<1>11. CASE ExitAnswered
  <2>1. cont \in Conts \ {"none"} /\ pc = "exit"
    BY <1>11 DEF ExitAnswered, IndInv, ControlInv, TypeOK
  <2>2. pc' # "exited" /\ conn' = conn /\ state' = RUNNING
    BY <1>11, <2>1 DEF ExitAnswered, After, Conts
  <2>3. state = RUNNING \/ conn # "none"
    BY <2>1 DEF TenureInv, Restored
  <2> QED
    BY <1>0, <2>1, <2>2, <2>3, Holds
<1>12. CASE ExitLost
  <2>1. CASE Fail /\ cont \notin {"released", "restored"}
    <3>1. pc # "exited" /\ conn # "none"
      BY <1>12, <2>1 DEF ExitLost, TenureInv, Restored
    <3> QED
      BY <1>0, <2>1, <3>1, EndsInError
  <2>2. CASE /\ cont \in {"released", "restored"} /\ pc' = After(cont)
             /\ UNCHANGED <<state, conn>>
    <3>1. pc # "exited" /\ pc' # "exited"
      BY <1>12, <2>2 DEF ExitLost, After
    <3> QED
      BY <1>0, <2>2, <3>1, Holds
  <2> QED
    BY <1>12, <2>1, <2>2 DEF ExitLost
<1>13. CASE ReadBatch \/ WaitSees \/ WaitSlice \/ FinishSees \/ FinishTimesOut
  <2>1. pc # "exited" /\ pc' # "exited" /\ conn' = conn /\ state' \in {state, STOPPED}
    BY <1>13 DEF ReadBatch, WaitSees, WaitSlice, FinishSees, FinishTimesOut,
                 FinishAnswers
  <2> QED
    BY <1>0, <2>1, Holds
<1>14. CASE \/ RunUntilExpires \/ RunUntilWaits \/ RunUntilSees \/ RunUntilSlice
            \/ RunUntilLists \/ RunUntilChecks
  <2>1. pc # "exited" /\ pc' # "exited" /\ conn' = conn /\ state' \in {state, STOPPED}
    BY <1>14 DEF RunUntilExpires, RunUntilWaits, RunUntilSees, RunUntilSlice,
                 RunUntilLists, RunUntilChecks, NextArrival, RunUntilAnswers
  <2> QED
    BY <1>0, <2>1, Holds
<1>15. CASE UNCHANGED vars
  BY <1>15 DEF vars, SessionSteps, Session!svars
<1> QED
  BY <1>1, <1>2, <1>3, <1>4, <1>5, <1>6, <1>7, <1>8, <1>9, <1>10, <1>11, <1>12,
     <1>13, <1>14, <1>15 DEF Next, Environment, Requests, Daemon, Terminated

(* The daemon implements SessionMachine, for its safety part (the fairness *)
(* that ImplementsSession adds is TLC's): the session stops on its own but *)
(* is set running only while a client holds it, and is handed back as it   *)
(* is, or stopped.                                                         *)
THEOREM SessionHeld ==
    ASSUME Prompt, EventCap > 1
    PROVE  Spec => Session!SInit /\ [][Session!SNext]_(Session!svars)
<1>1. Init => Session!SInit
  BY DEF Init, Session!SInit, RUNNING
<1>2. IndInv /\ TenureInv /\ [Next]_vars => TenureInv'
  BY TenureNext
<1>3. IndInv /\ HaltInv /\ ParkInv /\ TenureInv /\ [Next]_vars
        => [Session!SNext]_(Session!svars)
  BY SessionStep DEF SessionSteps
<1>4. QED
  BY <1>1, <1>2, <1>3, TenureInit, Inductive, HaltsKnown, ParksKnown, PTL DEF Spec
=============================================================================
