--------------------------- MODULE PetDaemonProofs ---------------------------
(***************************************************************************)
(* Proofs about the daemon, for any checkpoints, any count, any queue      *)
(* bound and any cutting of the stream.  First what the wire of a monitor  *)
(* connection can hold, proved of the emulator and of each MonitorClient   *)
(* primitive of ViceMonitor; then IndInv, the inductive invariant.         *)
(***************************************************************************)
EXTENDS PetDaemon, SequenceTheorems, TLAPS

(* The frames without a STOPPED, and those that are no hit of ck.          *)
NonStops    == {f \in Frame : f.type # "stopped"}
Foreign(ck) == {f \in Frame : f.type = "hit" => f.ck # ck}

(* A CPU that executes is parked on nothing and has only announced that it *)
(* runs; a STOPPED that is still on the wire is the last frame on it.      *)
WireInv ==
    /\ Executing => parked = {} /\ wire \in Seq({Resumed})
    /\ \A j \in 1 .. Len(wire) : wire[j].type = "stopped" => j = Len(wire)

VInv == ViceTypeOK /\ WireInv

-----------------------------------------------------------------------------
(* Cutting a stream: what recv() returns and what it leaves.               *)
LEMMA CutProperties ==
    ASSUME NEW S, NEW s \in Seq(S), NEW n \in 0 .. Len(s)
    PROVE  /\ FirstN(s, n) \in Seq(S)
           /\ Beyond(s, n) \in Seq(S)
           /\ Len(FirstN(s, n)) = n
           /\ Len(Beyond(s, n)) = Len(s) - n
           /\ \A j \in 1 .. n : FirstN(s, n)[j] = s[j]
           /\ \A j \in 1 .. (Len(s) - n) : Beyond(s, n)[j] = s[n + j]
BY SubSeqProperties DEF FirstN, Beyond

(* The bounded queue only ever drops frames.                               *)
LEMMA KeptProperties ==
    ASSUME NEW S, NEW s \in Seq(S)
    PROVE  /\ Kept(s) \in Seq(S)
           /\ s = <<>> => Kept(s) = <<>>
BY EventCapAssumption, SubSeqProperties DEF Kept

LEMMA JoinProperties ==
    ASSUME NEW S, NEW s \in Seq(S), NEW t \in Seq(S)
    PROVE  s \o t \in Seq(S)
BY ConcatProperties

LEMMA SingleProperties ==
    ASSUME NEW S, NEW e \in S
    PROVE  /\ <<e>> \in Seq(S)
           /\ Len(<<e>>) = 1
           /\ <<e>>[1] = e
OBVIOUS

(* The frames this model writes by name.                                   *)
LEMMA FrameProperties ==
    /\ Resumed \in Frame /\ Stopped \in Frame
    /\ \A n \in CkIds : HitOf(n) \in Frame
    /\ Resumed \in NonStops
    /\ Stopped.type = "stopped" /\ Resumed.type = "resumed"
    /\ \A ck : Resumed \in Foreign(ck) /\ Stopped \in Foreign(ck)
    /\ \A ck : \A n \in CkIds : n # ck => HitOf(n) \in Foreign(ck)
    /\ {Resumed} \subseteq Frame
BY DEF Resumed, Stopped, HitOf, Frame, NonStops, Foreign

-----------------------------------------------------------------------------
(* Hits put only hits of armed checkpoints on the wire.                    *)
LEMMA HitFramesProperties ==
    ASSUME NEW q \in HitSeqs
    PROVE  /\ HitSet(q) \in SUBSET CkIds
           /\ HitFrames(q) \in Seq(Frame)
           /\ \A j \in 1 .. Len(HitFrames(q)) : HitFrames(q)[j].type = "hit"
           /\ \A ck : ck \notin HitSet(q) => HitFrames(q) \in Seq(Foreign(ck))
<1>1. PICK m \in Nat : q \in [1 .. m -> Armed]
  BY MaxSharedAssumption DEF HitSeqs
<1>2. /\ DOMAIN q = 1 .. m
      /\ \A j \in 1 .. m : q[j] \in CkIds
  BY <1>1 DEF Armed
<1>3. /\ HitFrames(q) \in [1 .. m -> Frame]
      /\ \A j \in 1 .. m : HitFrames(q)[j] = HitOf(q[j])
  BY <1>2, FrameProperties DEF HitFrames
<1>4. HitFrames(q) \in Seq(Frame) /\ Len(HitFrames(q)) = m
  BY <1>1, <1>3
<1>5. \A j \in 1 .. m : HitFrames(q)[j].type = "hit"
  BY <1>3 DEF HitOf
<1>6. ASSUME NEW ck, ck \notin HitSet(q)
      PROVE  HitFrames(q) \in Seq(Foreign(ck))
  <2>1. \A j \in 1 .. m : HitFrames(q)[j] \in Foreign(ck)
    BY <1>2, <1>3, <1>6, FrameProperties DEF HitSet
  <2>2. HitFrames(q) \in [1 .. m -> Foreign(ck)]
    BY <1>3, <2>1
  <2>3. QED
    BY <1>1, <2>2
<1>7. HitSet(q) \in SUBSET CkIds
  BY <1>2 DEF HitSet
<1>8. QED
  BY <1>4, <1>5, <1>6, <1>7

LEMMA SpentType ==
    ASSUME ViceTypeOK, NEW q
    PROVE  Spent(q) \in [CkIds -> CkStates]
BY DEF Spent, ViceTypeOK, CkStates

-----------------------------------------------------------------------------
(* The wire holds a STOPPED only at its end, whatever is put there.        *)
LEMMA EmptyWire ==
    ASSUME wire' = <<>>, cpu' \in {"halted", "dead"}
    PROVE  WireInv'
BY DEF WireInv, Executing

LEMMA ResumedWire ==
    ASSUME wire' = <<Resumed>>, parked' = {}
    PROVE  WireInv'
<1>1. wire' \in Seq({Resumed}) /\ Len(wire') = 1 /\ wire'[1] = Resumed
  BY SingleProperties
<1>2. \A j \in 1 .. Len(wire') : wire'[j].type = "stopped" => j = Len(wire')
  BY <1>1
<1>3. QED
  BY <1>1, <1>2 DEF WireInv

(* Reading a prefix of the wire: what is read and what stays.              *)
LEMMA ReadPrefix ==
    ASSUME VInv, NEW n \in 0 .. Len(wire)
    PROVE  /\ FirstN(wire, n) \in Seq(Frame) /\ Beyond(wire, n) \in Seq(Frame)
           /\ \A j \in 1 .. Len(Beyond(wire, n)) :
                 Beyond(wire, n)[j].type = "stopped" => j = Len(Beyond(wire, n))
           /\ Executing => Beyond(wire, n) \in Seq({Resumed})
           /\ FirstN(wire, n) \notin Seq(NonStops)
                => Beyond(wire, n) = <<>> /\ ~Executing
           /\ \A ck : wire \in Seq(Foreign(ck))
                => /\ FirstN(wire, n) \in Seq(Foreign(ck))
                   /\ Beyond(wire, n) \in Seq(Foreign(ck))
<1> USE DEF VInv, ViceTypeOK
<1>1. /\ FirstN(wire, n) \in Seq(Frame) /\ Beyond(wire, n) \in Seq(Frame)
      /\ Len(FirstN(wire, n)) = n
      /\ Len(Beyond(wire, n)) = Len(wire) - n
      /\ \A j \in 1 .. n : FirstN(wire, n)[j] = wire[j]
      /\ \A j \in 1 .. (Len(wire) - n) : Beyond(wire, n)[j] = wire[n + j]
  BY CutProperties
<1>2. \A j \in 1 .. Len(Beyond(wire, n)) :
        Beyond(wire, n)[j].type = "stopped" => j = Len(Beyond(wire, n))
  <2>1. SUFFICES ASSUME NEW j \in 1 .. Len(Beyond(wire, n)),
                        Beyond(wire, n)[j].type = "stopped"
                 PROVE  j = Len(Beyond(wire, n))
    OBVIOUS
  <2>2. Len(wire) \in Nat /\ n \in Nat /\ j \in Nat /\ Len(Beyond(wire, n)) = Len(wire) - n
    BY <1>1
  <2>3. n + j \in 1 .. Len(wire) /\ Beyond(wire, n)[j] = wire[n + j]
    BY <1>1, <2>2
  <2>4. n + j = Len(wire)
    BY <2>1, <2>3 DEF WireInv
  <2>5. QED
    BY <2>2, <2>4
<1>3. Executing => /\ Beyond(wire, n) \in Seq({Resumed})
                   /\ FirstN(wire, n) \in Seq({Resumed})
  BY CutProperties DEF WireInv
<1>4. ASSUME FirstN(wire, n) \notin Seq(NonStops)
      PROVE  Beyond(wire, n) = <<>> /\ ~Executing
  <2>1. PICK j \in 1 .. n : FirstN(wire, n)[j] \notin NonStops
    <3>1. SUFFICES ASSUME \A j \in 1 .. n : FirstN(wire, n)[j] \in NonStops
                   PROVE  FALSE
      OBVIOUS
    <3>2. FirstN(wire, n) \in [1 .. n -> NonStops]
      BY <1>1, <3>1
    <3>3. QED
      BY <1>4, <3>2
  <2>2. wire[j].type = "stopped"
    BY <1>1, <2>1 DEF NonStops
  <2>3. n = Len(wire)
    BY <2>2 DEF WireInv
  <2>4. Beyond(wire, n) = <<>>
    BY <1>1, <2>3
  <2>5. ~Executing
    BY <1>3, <1>4, SeqMonotonic, FrameProperties
  <2>6. QED
    BY <2>4, <2>5
<1>5. \A ck : wire \in Seq(Foreign(ck))
        => /\ FirstN(wire, n) \in Seq(Foreign(ck))
           /\ Beyond(wire, n) \in Seq(Foreign(ck))
  BY CutProperties
<1>6. QED
  BY <1>1, <1>2, <1>3, <1>4, <1>5

-----------------------------------------------------------------------------
(* Every action of the emulator and every primitive keeps VInv.            *)
LEMMA HitKeeps ==
    ASSUME VInv, NEW q \in HitSeqs, Hit(q)
    PROVE  VInv' /\ (\A ck : ck \notin HitSet(q) /\ wire \in Seq(Foreign(ck))
                                => wire' \in Seq(Foreign(ck)))
<1>1. /\ HitFrames(q) \in Seq(Frame)
      /\ \A j \in 1 .. Len(HitFrames(q)) : HitFrames(q)[j].type = "hit"
      /\ HitSet(q) \in SUBSET CkIds
  BY HitFramesProperties
<1>2. <<Stopped>> \in Seq(Frame)
  BY FrameProperties
<1>3. /\ wire \in Seq({Resumed}) /\ wire \in Seq(Frame)
      /\ \A j \in 1 .. Len(wire) : wire[j].type # "stopped"
  BY FrameProperties DEF VInv, ViceTypeOK, WireInv, Hit
<1>4. wire' = (wire \o HitFrames(q)) \o <<Stopped>>
  BY <1>1, <1>2, <1>3, ConcatAssociative DEF Hit
<1>5. wire \o HitFrames(q) \in Seq(Frame)
  BY <1>1, <1>3, JoinProperties
<1>6. \A j \in 1 .. Len(wire \o HitFrames(q)) :
        (wire \o HitFrames(q))[j].type # "stopped"
  <2>1. SUFFICES ASSUME NEW j \in 1 .. Len(wire \o HitFrames(q))
                 PROVE  (wire \o HitFrames(q))[j].type # "stopped"
    OBVIOUS
  <2>2. CASE j \in 1 .. Len(wire)
    BY <1>1, <1>3, <2>2, ConcatProperties
  <2>3. CASE j \notin 1 .. Len(wire)
    <3>1. /\ j - Len(wire) \in 1 .. Len(HitFrames(q))
          /\ (wire \o HitFrames(q))[j] = HitFrames(q)[j - Len(wire)]
      BY <1>1, <1>3, <2>1, <2>3
    <3>2. QED
      BY <1>1, <3>1
  <2>4. QED
    BY <2>2, <2>3
<1>7. wire' \in Seq(Frame)
  BY <1>2, <1>4, <1>5, JoinProperties
<1>8. \A j \in 1 .. Len(wire') : wire'[j].type = "stopped" => j = Len(wire')
  <2>1. SUFFICES ASSUME NEW j \in 1 .. Len(wire'), j # Len(wire')
                 PROVE  wire'[j].type # "stopped"
    OBVIOUS
  <2>2. /\ Len(<<Stopped>>) = 1
        /\ Len(wire \o HitFrames(q)) \in Nat
        /\ Len(wire') = Len(wire \o HitFrames(q)) + 1
    BY <1>2, <1>4, <1>5, ConcatProperties
  <2>3. j \in 1 .. Len(wire \o HitFrames(q))
    BY <2>1, <2>2
  <2>4. wire'[j] = (wire \o HitFrames(q))[j]
    BY <1>2, <1>4, <1>5, <2>3, <2>2, ConcatProperties
  <2>5. QED
    BY <1>6, <2>3, <2>4
<1>9. ViceTypeOK'
  BY <1>1, <1>7, SpentType DEF VInv, ViceTypeOK, Hit, CpuStates
<1>10. WireInv'
  BY <1>8 DEF WireInv, Hit, Executing
<1>11. \A ck : ck \notin HitSet(q) /\ wire \in Seq(Foreign(ck))
                => wire' \in Seq(Foreign(ck))
  BY <1>4, HitFramesProperties, FrameProperties, JoinProperties, SingleProperties
<1>12. QED
  BY <1>9, <1>10, <1>11 DEF VInv

LEMMA ReturnKeeps ==
    ASSUME VInv, Return
    PROVE  VInv' /\ (\A ck : wire \in Seq(Foreign(ck)) => wire' \in Seq(Foreign(ck)))
<1>1. /\ wire \in Seq({Resumed}) /\ wire \in Seq(Frame)
      /\ \A j \in 1 .. Len(wire) : wire[j].type # "stopped"
  BY FrameProperties DEF VInv, ViceTypeOK, WireInv, Return, Executing
<1>2. wire' = Append(wire, Stopped) /\ Stopped \in Frame
  BY FrameProperties DEF Return
<1>3. /\ wire' \in Seq(Frame) /\ Len(wire') = Len(wire) + 1
      /\ \A j \in 1 .. Len(wire) : wire'[j] = wire[j]
  BY <1>1, <1>2
<1>4. \A j \in 1 .. Len(wire') : wire'[j].type = "stopped" => j = Len(wire')
  <2>1. SUFFICES ASSUME NEW j \in 1 .. Len(wire'), j # Len(wire')
                 PROVE  wire'[j].type # "stopped"
    OBVIOUS
  <2>2. j \in 1 .. Len(wire) /\ wire'[j] = wire[j]
    BY <1>1, <1>3, <2>1
  <2>3. QED
    BY <1>1, <2>2
<1>5. VInv'
  BY <1>3, <1>4 DEF VInv, ViceTypeOK, WireInv, Return, Executing, CpuStates
<1>6. \A ck : wire \in Seq(Foreign(ck)) => wire' \in Seq(Foreign(ck))
  BY <1>2, FrameProperties
<1>7. QED
  BY <1>5, <1>6

LEMMA DieKeeps ==
    ASSUME VInv, Die
    PROVE  VInv'
BY DEF VInv, ViceTypeOK, WireInv, Die, Executing, CpuStates

LEMMA CollectedType ==
    ASSUME NEW queue \in Seq(Frame), NEW pending \in Seq(Frame)
    PROVE  Collected(queue, pending) \in Seq(Frame)
<1>1. Haltings \in Seq(Frame)
  BY FrameProperties, EmptySeq DEF Haltings
<1>2. queue \o pending \o Haltings \in Seq(Frame)
  BY <1>1, JoinProperties
<1>3. QED
  BY <1>2, KeptProperties DEF Collected

(* resume with nothing to read, of a CPU that is halted, collects nothing. *)
LEMMA CollectedNothing ==
    ASSUME ~Executing
    PROVE  Collected(<<>>, <<>>) = <<>>
<1>1. <<>> \o <<>> \o Haltings = <<>>
  BY ConcatEmptySeq, EmptySeq DEF Haltings
<1>2. QED
  BY <1>1, KeptProperties, EmptySeq DEF Collected

LEMMA TransactKeeps ==
    ASSUME VInv, NEW queue \in Seq(Frame), NEW pending \in Seq(Frame),
           Transact(queue, pending), cks' \in [CkIds -> CkStates]
    PROVE  VInv'
<1>1. ViceTypeOK'
  BY CollectedType, EmptySeq DEF VInv, ViceTypeOK, Transact, CpuStates
<1>2. QED
  BY <1>1, EmptyWire DEF VInv, Transact

LEMMA SendExitKeeps ==
    ASSUME VInv, NEW pending \in Seq(Frame),
           SendExit(pending), cks' \in [CkIds -> CkStates]
    PROVE  VInv'
<1>1. <<Resumed>> \in Seq(Frame) /\ <<>> \in Seq(Frame)
  BY FrameProperties
<1>2. ViceTypeOK'
  BY <1>1, CollectedType DEF VInv, ViceTypeOK, SendExit, CpuStates
<1>3. QED
  BY <1>2, ResumedWire DEF VInv, SendExit

LEMMA ExitAfterCommandKeeps ==
    ASSUME VInv, ExitAfterCommand, cks' \in [CkIds -> CkStates]
    PROVE  VInv'
<1>1. <<Resumed>> \in Seq(Frame) /\ <<>> \in Seq(Frame)
  BY FrameProperties
<1>2. ViceTypeOK'
  BY <1>1 DEF VInv, ViceTypeOK, ExitAfterCommand, CpuStates
<1>3. QED
  BY <1>2, ResumedWire DEF VInv, ExitAfterCommand

LEMMA SendUntilReturnKeeps ==
    ASSUME VInv, SendUntilReturn
    PROVE  VInv'
<1>1. <<Resumed>> \in Seq(Frame)
  BY FrameProperties
<1>2. ViceTypeOK'
  BY <1>1, CollectedType DEF VInv, ViceTypeOK, SendUntilReturn, CpuStates
<1>3. QED
  BY <1>2, ResumedWire DEF VInv, SendUntilReturn

LEMMA StepOntoKeeps ==
    ASSUME VInv, NEW q \in HitSeqs \cup {<<>>}, StepOnto(q)
    PROVE  VInv'
<1>1. HitSet(q) \in SUBSET CkIds /\ HitFrames(q) \in Seq(Frame)
  <2>1. CASE q \in HitSeqs
    BY <2>1, HitFramesProperties
  <2>2. CASE q = <<>>
    <3>1. HitSet(q) = {} /\ HitFrames(q) = <<>>
      BY <2>2 DEF HitSet, HitFrames
    <3>2. QED
      BY <3>1, EmptySeq
  <2>3. QED
    BY <2>1, <2>2
<1>2. Haltings \in Seq(Frame) /\ <<Resumed>> \in Seq(Frame) /\ <<Stopped>> \in Seq(Frame)
  BY FrameProperties, EmptySeq DEF Haltings
<1>3. events \o wire \o Haltings \in Seq(Frame)
  BY <1>2, JoinProperties DEF VInv, ViceTypeOK
<1>4. events \o wire \o Haltings \o <<Resumed>> \o HitFrames(q) \o <<Stopped>> \in Seq(Frame)
  BY <1>1, <1>2, <1>3, JoinProperties
<1>5. ViceTypeOK'
  BY <1>1, <1>4, KeptProperties, SpentType, EmptySeq
     DEF VInv, ViceTypeOK, StepOnto, CpuStates
<1>6. QED
  BY <1>5, EmptyWire DEF VInv, StepOnto

-----------------------------------------------------------------------------
(* Reads.  A poll's outcome is what one read of the stream yields.         *)
LEMMA ReadSizesBound ==
    ASSUME VInv
    PROVE  ReadSizes \subseteq 0 .. Len(wire) /\ PollSizes \subseteq 0 .. Len(wire)
<1>1. Len(wire) \in Nat
  BY DEF VInv, ViceTypeOK
<1>2. QED
  BY <1>1, PromptAssumption DEF ReadSizes, PollSizes

LEMMA ReadResponseKeeps ==
    ASSUME VInv, ReadResponse, UNCHANGED <<cpu, cks, parked>>
    PROVE  /\ VInv'
           /\ \A ck : wire \in Seq(Foreign(ck)) /\ events \in Seq(Foreign(ck))
                  => wire' \in Seq(Foreign(ck)) /\ events' \in Seq(Foreign(ck))
           /\ (events \notin Seq(NonStops) => wire = <<>> /\ ~Executing)
                => (events' \notin Seq(NonStops) => wire' = <<>> /\ ~Executing')
<1>1. PICK n \in 0 .. Len(wire) :
        events' = Kept(events \o FirstN(wire, n)) /\ wire' = Beyond(wire, n)
  BY ReadSizesBound DEF ReadResponse
<1>2. wire \in Seq(Frame) /\ events \in Seq(Frame)
  BY DEF VInv, ViceTypeOK
<1>3. ViceTypeOK'
  BY <1>1, <1>2, ReadPrefix, JoinProperties, KeptProperties DEF VInv, ViceTypeOK
<1>4. WireInv'
  BY <1>1, ReadPrefix DEF VInv, WireInv, Executing
<1>5. \A ck : wire \in Seq(Foreign(ck)) /\ events \in Seq(Foreign(ck))
          => wire' \in Seq(Foreign(ck)) /\ events' \in Seq(Foreign(ck))
  BY <1>1, ReadPrefix, JoinProperties, KeptProperties
<1>6. ASSUME events \notin Seq(NonStops) => wire = <<>> /\ ~Executing,
             events' \notin Seq(NonStops)
      PROVE  wire' = <<>> /\ ~Executing'
  <2>1. CASE events \notin Seq(NonStops)
    <3>1. wire = <<>> /\ ~Executing /\ n = 0
      BY <1>1, <1>6, <2>1, EmptySeq
    <3>2. Len(wire') = 0 /\ wire' \in Seq(Frame)
      BY <1>1, <1>2, <3>1, CutProperties, EmptySeq
    <3>3. QED
      BY <3>1, <3>2, EmptySeq DEF Executing
  <2>2. CASE events \in Seq(NonStops)
    <3>1. FirstN(wire, n) \notin Seq(NonStops)
      BY <1>1, <1>6, <2>2, JoinProperties, KeptProperties
    <3>2. QED
      BY <1>1, <3>1, ReadPrefix DEF Executing
  <2>3. QED
    BY <2>1, <2>2
<1>7. QED
  BY <1>3, <1>4, <1>5, <1>6 DEF VInv

(* poll_events(): the frames it empties the queue of may be queued again.  *)
LEMMA PollKeeps ==
    ASSUME VInv, NEW o \in PollOutcomes
    PROVE  /\ o.seen \in Seq(Frame) /\ o.rest \in Seq(Frame)
           /\ \A j \in 1 .. Len(o.rest) : o.rest[j].type = "stopped" => j = Len(o.rest)
           /\ Executing => o.rest \in Seq({Resumed})
<1>1. PICK n \in 0 .. Len(wire) :
        o = [seen |-> events \o FirstN(wire, n), rest |-> Beyond(wire, n)]
  BY ReadSizesBound DEF PollOutcomes
<1>2. wire \in Seq(Frame) /\ events \in Seq(Frame)
  BY DEF VInv, ViceTypeOK
<1>3. /\ o.seen = events \o FirstN(wire, n)
      /\ o.rest = Beyond(wire, n)
  BY <1>1
<1>4. o.seen \in Seq(Frame) /\ o.rest \in Seq(Frame)
  BY <1>2, <1>3, ReadPrefix, JoinProperties
<1>5. QED
  BY <1>3, <1>4, ReadPrefix

(* poll_events(first=True): a STOPPED among the frames seen, if the queue  *)
(* held one only as VICE's last word, is the last frame there was.         *)
LEMMA FirstKeeps ==
    ASSUME VInv, NEW o \in FirstOutcomes
    PROVE  /\ o.seen \in Seq(Frame) /\ o.rest \in Seq(Frame)
           /\ \A j \in 1 .. Len(o.rest) : o.rest[j].type = "stopped" => j = Len(o.rest)
           /\ Executing => o.rest \in Seq({Resumed})
           /\ \A ck : wire \in Seq(Foreign(ck)) /\ events \in Seq(Foreign(ck))
                  => o.seen \in Seq(Foreign(ck)) /\ o.rest \in Seq(Foreign(ck))
           /\ (events \notin Seq(NonStops) => wire = <<>> /\ ~Executing)
                => (o.seen \notin Seq(NonStops) => o.rest = <<>> /\ ~Executing)
<1>1. CASE events # <<>>
  <2>1. o.seen = events /\ o.rest = wire
    BY <1>1 DEF FirstOutcomes
  <2>2. QED
    BY <2>1 DEF VInv, ViceTypeOK, WireInv
<1>2. CASE events = <<>>
  <2>1. PICK n \in 0 .. Len(wire) :
          o = [seen |-> FirstN(wire, n), rest |-> Beyond(wire, n)]
    BY <1>2, ReadSizesBound DEF FirstOutcomes
  <2>2. o.seen = FirstN(wire, n) /\ o.rest = Beyond(wire, n)
    BY <2>1
  <2>3. QED
    BY <2>2, ReadPrefix
<1>3. QED
  BY <1>1, <1>2

-----------------------------------------------------------------------------
(***************************************************************************)
(* The daemon.                                                             *)
(***************************************************************************)

(* wait_for_stop's memory does not outlive the call, and a pending EXIT    *)
(* has a continuation that fits the place it was sent from.                *)
ControlInv ==
    /\ pc \notin {"wait", "finish", "ru_wait"} => got = NoCk
    /\ pc = "exit" => cont # "none"
    /\ pc = "restoring" => cont \in {"released", "restored"}

(* The daemon is inside _run_until's loop.                                 *)
InRun == \/ pc \in {"ru_top", "ru_wait", "ru_list", "ru_check"}
         \/ pc = "exit" /\ cont \in {"ru_top", "ru_check"}

(* Inside the loop, the arrivals are those already counted and the one the *)
(* CPU is parked on; a hit of the checkpoint that is still to be judged    *)
(* means the CPU is parked on it; and a STOPPED in the queue is the last   *)
(* thing VICE has said.                                                    *)
RunFacts ==
    /\ run.ck \in CkIds
    /\ run.i < run.count
    /\ arrivals = run.i + (IF run.ck \in parked THEN 1 ELSE 0)
    /\ run.ck \notin parked => /\ wire \in Seq(Foreign(run.ck))
                              /\ events \in Seq(Foreign(run.ck))
                              /\ got # run.ck
    /\ events \notin Seq(NonStops) => wire = <<>> /\ ~Executing

RunInv == InRun => RunFacts

IndInv == TypeOK /\ WireInv /\ ControlInv /\ RunInv

-----------------------------------------------------------------------------
LEMMA InitInd == Init => IndInv
<1> SUFFICES ASSUME Init PROVE IndInv
  OBVIOUS
<1>1. ViceTypeOK
  <2>1. <<>> \in Seq(Frame) /\ <<Resumed>> \in Seq(Frame)
    BY FrameProperties
  <2>2. QED
    BY <2>1 DEF Init, ViceTypeOK, CpuStates, CkStates
<1>2. WireInv
  <2>1. CASE wire = <<>>
    BY <2>1, EmptySeq DEF Init, WireInv
  <2>2. CASE wire = <<Resumed>>
    BY <2>2, SingleProperties, FrameProperties DEF Init, WireInv
  <2>3. QED
    BY <2>1, <2>2 DEF Init
<1>3. NoRun \in Runs
  BY DEF NoRun, Runs
<1>4. QED
  BY <1>1, <1>2, <1>3 DEF Init, IndInv, TypeOK, PcValues, Conts, ControlInv,
                          RunInv, InRun, RUNNING, STOPPED

(* Steps that leave the emulator's side alone keep what is said of it.     *)
LEMMA StillVice ==
    ASSUME VInv, UNCHANGED <<vice, events>>
    PROVE  VInv'
BY DEF vice, VInv, ViceTypeOK, WireInv, Executing

-----------------------------------------------------------------------------
(* The emulator and the client.                                            *)
LEMMA EnvironmentKeeps ==
    ASSUME IndInv, Environment
    PROVE  IndInv'
<1>1. VInv
  BY DEF IndInv, TypeOK, VInv
<1>2. CASE ViceHits
  <2>1. PICK q \in HitSeqs : /\ Hit(q)
                             /\ arrivals' = Counted(q)
                             /\ UNCHANGED <<state, pc, cont, got, run, conn, last>>
    BY <1>2 DEF ViceHits
  <2>2. VInv' /\ (\A ck : ck \notin HitSet(q) /\ wire \in Seq(Foreign(ck))
                            => wire' \in Seq(Foreign(ck)))
    BY <1>1, <2>1, HitKeeps
  <2>3. /\ parked = {} /\ parked' = HitSet(q) /\ events' = events
        /\ Executing /\ ~Executing'
    BY <2>1 DEF IndInv, WireInv, Hit, Executing
  <2>4. TypeOK'
    BY <2>1, <2>2 DEF IndInv, TypeOK, VInv, Counted
  <2>5. RunInv'
    <3>1. SUFFICES ASSUME InRun' PROVE RunFacts'
      BY DEF RunInv
    <3>2. InRun /\ run.i \in Nat
      BY <2>1, <3>1 DEF InRun, IndInv, TypeOK, Runs
    <3>3. arrivals' = run'.i + (IF run'.ck \in parked' THEN 1 ELSE 0)
      BY <2>1, <2>3, <3>2 DEF IndInv, RunInv, RunFacts, Counted
    <3>4. QED
      BY <2>1, <2>2, <2>3, <3>2, <3>3 DEF IndInv, RunInv, RunFacts
  <2>6. QED
    BY <2>1, <2>2, <2>4, <2>5 DEF IndInv, VInv, ControlInv
<1>3. CASE ViceReturns
  <2>1. VInv' /\ (\A ck : wire \in Seq(Foreign(ck)) => wire' \in Seq(Foreign(ck)))
    BY <1>1, <1>3, ReturnKeeps DEF ViceReturns
  <2>2. /\ parked' = parked /\ events' = events /\ Executing
        /\ UNCHANGED <<state, pc, cont, got, run, arrivals, conn, last>>
    BY <1>3 DEF ViceReturns, Return, Executing
  <2>3. RunInv'
    BY <2>1, <2>2 DEF IndInv, RunInv, RunFacts, InRun
  <2>4. QED
    BY <2>1, <2>2, <2>3 DEF IndInv, VInv, TypeOK, ControlInv
<1>4. CASE ViceDies
  <2>1. /\ VInv' /\ ~Executing'
        /\ UNCHANGED <<parked, wire, events, state, pc, cont, got, run, arrivals, conn, last>>
    BY <1>1, <1>4, DieKeeps DEF ViceDies, Die, Executing
  <2>2. RunInv'
    BY <2>1 DEF IndInv, RunInv, RunFacts, InRun
  <2>3. QED
    BY <2>1, <2>2 DEF IndInv, VInv, TypeOK, ControlInv
<1>5. CASE ClientLeaves
  <2>1. /\ VInv'
        /\ UNCHANGED <<cpu, parked, wire, events, state, pc, cont, got, run, arrivals, last>>
    BY <1>1, <1>5, StillVice DEF ClientLeaves, vice
  <2>2. RunInv'
    BY <2>1 DEF IndInv, RunInv, RunFacts, InRun, Executing
  <2>3. QED
    BY <1>5, <2>1, <2>2 DEF ClientLeaves, IndInv, VInv, TypeOK, ControlInv
<1>6. QED
  BY <1>2, <1>3, <1>4, <1>5 DEF Environment

-----------------------------------------------------------------------------
(* The two ends every request can come to: an error, and _restore.         *)
LEMMA FailKeeps ==
    ASSUME IndInv, Fail
    PROVE  IndInv'
<1>1. VInv'
  BY StillVice DEF IndInv, TypeOK, VInv, Fail
<1>2. NoRun \in Runs
  BY DEF NoRun, Runs
<1>3. QED
  BY <1>1, <1>2 DEF IndInv, TypeOK, VInv, Fail, ControlInv, RunInv, InRun, PcValues, Conts

LEMMA RestoreKeeps ==
    ASSUME IndInv, NEW next \in {"released", "restored"}, Restore(next),
           UNCHANGED <<cpu, cks, parked>>
    PROVE  /\ VInv'
           /\ state' \in {RUNNING, STOPPED}
           /\ pc' \in {After(next), "restoring"}
           /\ pc' = "restoring" => cont' = next
           /\ cont' \in Conts
<1>1. VInv
  BY DEF IndInv, TypeOK, VInv
<1>2. After(next) \in {"readline", "idle"}
  BY DEF After
<1>3. CASE /\ cpu = "dead" /\ wire' = <<>> /\ events' = <<>>
           /\ pc' = After(next) /\ UNCHANGED <<cont, state>>
  <2>1. VInv'
    BY <1>1, <1>3, EmptyWire, EmptySeq DEF VInv, ViceTypeOK
  <2>2. QED
    BY <1>2, <1>3, <2>1 DEF IndInv, TypeOK
<1>4. CASE cpu # "dead"
  <2>1. PICK o \in PollOutcomes : /\ wire' = o.rest
                                  /\ events' = Kept(o.seen)
                                  /\ state' = RestoredState(o.seen)
    BY <1>4 DEF Restore
  <2>2. ViceTypeOK'
    BY <1>1, <2>1, PollKeeps, KeptProperties DEF VInv, ViceTypeOK
  <2>3. WireInv'
    BY <1>1, <2>1, PollKeeps DEF VInv, WireInv, Executing
  <2>4. state' \in {RUNNING, STOPPED}
    BY <2>1 DEF RestoredState, IndInv, TypeOK
  <2>5. \/ pc' = After(next) /\ UNCHANGED cont
        \/ pc' = "restoring" /\ cont' = next
    BY <1>4 DEF Restore
  <2>6. QED
    BY <1>2, <2>2, <2>3, <2>4, <2>5 DEF IndInv, TypeOK, VInv, Conts
<1>5. QED
  BY <1>3, <1>4 DEF Restore

-----------------------------------------------------------------------------
(* A client's requests.                                                    *)
LEMMA RequestsKeep ==
    ASSUME IndInv, Requests
    PROVE  IndInv'
<1> DEFINE Still == UNCHANGED <<state, pc, cont, got, run, arrivals>>
<1>1. /\ VInv /\ TypeOK /\ ControlInv
      /\ events \in Seq(Frame) /\ wire \in Seq(Frame) /\ <<>> \in Seq(Frame)
      /\ NoRun \in Runs
  BY EmptySeq DEF IndInv, TypeOK, VInv, ViceTypeOK, NoRun, Runs
<1>2. ASSUME Transact(events, wire), cks' \in [CkIds -> CkStates], Ask("command"), Still
      PROVE  IndInv'
  <2>1. VInv'
    BY <1>1, <1>2, TransactKeeps
  <2>2. QED
    BY <1>1, <1>2, <2>1 DEF Ask, IndInv, TypeOK, VInv, ControlInv, RunInv, InRun
<1>3. CASE Command
  BY <1>1, <1>2, <1>3 DEF Command, VInv, ViceTypeOK
<1>4. CASE SetCheckpoint
  <2>1. cks' \in [CkIds -> CkStates]
    BY <1>1, <1>4 DEF SetCheckpoint, VInv, ViceTypeOK, CkStates
  <2>2. QED
    BY <1>2, <1>4, <2>1 DEF SetCheckpoint
<1>5. CASE DeleteCheckpoint
  <2>1. cks' \in [CkIds -> CkStates]
    BY <1>1, <1>5 DEF DeleteCheckpoint, VInv, ViceTypeOK, CkStates
  <2>2. QED
    BY <1>2, <1>5, <2>1 DEF DeleteCheckpoint
<1>6. CASE ToggleCheckpoint
  <2>1. cks' \in [CkIds -> CkStates]
    BY <1>1, <1>6 DEF ToggleCheckpoint, VInv, ViceTypeOK, CkStates
  <2>2. QED
    BY <1>2, <1>6, <2>1 DEF ToggleCheckpoint
<1>7. CASE Resume
  <2>1. VInv'
    BY <1>1, <1>7, SendExitKeeps DEF Resume, VInv, ViceTypeOK
  <2>2. QED
    BY <1>1, <1>7, <2>1
       DEF Resume, Ask, IndInv, TypeOK, VInv, ControlInv, RunInv, InRun, PcValues, Conts
<1>8. CASE Step
  <2>1. VInv'
    BY <1>1, <1>8, StepOntoKeeps DEF Step
  <2>2. QED
    BY <1>1, <1>8, <2>1
       DEF Step, Ask, IndInv, TypeOK, VInv, ControlInv, RunInv, InRun
<1>9. CASE Finish
  <2>1. VInv'
    BY <1>1, <1>9, SendUntilReturnKeeps DEF Finish
  <2>2. QED
    BY <1>1, <1>9, <2>1
       DEF Finish, Ask, IndInv, TypeOK, VInv, ControlInv, RunInv, InRun, PcValues
<1>10. CASE WaitForStop
  <2>1. VInv'
    BY <1>1, <1>10, StillVice DEF WaitForStop
  <2>2. QED
    BY <1>1, <1>10, <2>1
       DEF WaitForStop, Ask, IndInv, TypeOK, VInv, ControlInv, RunInv, InRun, PcValues
<1>11. CASE RunUntil
  <2>1. PICK n \in CkIds, count \in 1 .. MaxCount :
          /\ cks' = [cks EXCEPT ![n] = "on"]
          /\ run' = [ck |-> n, i |-> 0, count |-> count]
    BY <1>11 DEF RunUntil
  <2>2. cks' \in [CkIds -> CkStates]
    BY <1>1, <2>1 DEF VInv, ViceTypeOK, CkStates
  <2>3. VInv'
    BY <1>1, <1>11, <2>2, ExitAfterCommandKeeps DEF RunUntil
  <2>4. /\ run' \in Runs /\ run'.ck \in CkIds /\ run'.i = 0 /\ run'.i < run'.count
    BY <2>1, MaxCountAssumption DEF Runs
  <2>5. /\ parked' = {} /\ wire' = <<Resumed>> /\ events' = <<>>
        /\ got' = NoCk /\ arrivals' = 0 /\ pc' = "exit" /\ cont' = "ru_top"
        /\ state' = state /\ conn' = conn /\ last' = "other"
    BY <1>1, <1>11 DEF RunUntil, ExitAfterCommand, Ask, ControlInv
  <2>6. RunFacts'
    <3>1. /\ wire' \in Seq(Foreign(run'.ck)) /\ events' \in Seq(Foreign(run'.ck))
          /\ events' \in Seq(NonStops)
      BY <2>5, FrameProperties, SingleProperties, EmptySeq
    <3>2. got' # run'.ck
      BY <2>4, <2>5, NoCkAssumption
    <3>3. QED
      BY <2>4, <2>5, <3>1, <3>2 DEF RunFacts
  <2>7. QED
    BY <1>1, <2>3, <2>4, <2>5, <2>6
       DEF IndInv, TypeOK, VInv, ControlInv, RunInv, PcValues, Conts
<1>12. CASE RunUntilZero
  <2>1. cks' \in [CkIds -> CkStates]
    BY <1>1, <1>12 DEF RunUntilZero, VInv, ViceTypeOK, CkStates
  <2>2. VInv'
    BY <1>1, <1>12, <2>1, TransactKeeps DEF RunUntilZero
  <2>3. QED
    BY <1>1, <1>12, <2>2
       DEF RunUntilZero, Ask, IndInv, TypeOK, VInv, ControlInv, RunInv, InRun
<1>13. CASE Release
  <2>1. /\ VInv' /\ state' \in {RUNNING, STOPPED}
        /\ pc' \in {"readline", "idle", "restoring"}
        /\ pc' = "restoring" => cont' = "released"
        /\ cont' \in Conts
    BY <1>13, RestoreKeeps DEF Release, After
  <2>2. UNCHANGED <<got, run, arrivals, conn>> /\ last' = "other" /\ got = NoCk
    BY <1>1, <1>13 DEF Release, Ask, ControlInv
  <2>3. QED
    BY <1>1, <2>1, <2>2
       DEF IndInv, TypeOK, VInv, ControlInv, RunInv, InRun, PcValues, Conts
<1>14. CASE Quit
  <2>1. VInv'
    BY <1>1, <1>14 DEF Quit, VInv, ViceTypeOK, WireInv, Executing, CpuStates
  <2>2. QED
    BY <1>1, <1>14, <2>1
       DEF Quit, Ask, IndInv, TypeOK, VInv, ControlInv, RunInv, InRun, PcValues
<1>15. CASE RequestFails
  BY <1>15, FailKeeps DEF RequestFails
<1>16. QED
  BY <1>3, <1>4, <1>5, <1>6, <1>7, <1>8, <1>9, <1>10, <1>11, <1>12, <1>13, <1>14, <1>15
     DEF Requests

-----------------------------------------------------------------------------
(* The daemon's own steps, outside _run_until.                             *)
LEMMA TenureKeeps ==
    ASSUME IndInv, Pump \/ Accept \/ NoticeDeath \/ EndTenure \/ RestoreExit
    PROVE  IndInv'
<1>1. VInv /\ TypeOK /\ ControlInv /\ wire \in Seq(Frame) /\ NoRun \in Runs
  BY DEF IndInv, TypeOK, VInv, ViceTypeOK, NoRun, Runs
<1>2. CASE Pump
  <2>1. PICK o \in PollOutcomes : /\ wire' = o.rest
                                  /\ events' = Kept(o.seen)
                                  /\ PumpedState(o.seen, state')
                                  /\ UNCHANGED <<cpu, cks, parked>>
    BY <1>2 DEF Pump
  <2>2. VInv'
    BY <1>1, <2>1, PollKeeps, KeptProperties DEF VInv, ViceTypeOK, WireInv, Executing
  <2>3. state' \in {RUNNING, STOPPED}
    BY <1>1, <2>1 DEF PumpedState, TypeOK
  <2>4. QED
    BY <1>1, <1>2, <2>2, <2>3
       DEF Pump, IndInv, TypeOK, VInv, ControlInv, RunInv, InRun
<1>3. CASE Accept \/ NoticeDeath
  <2>1. VInv'
    BY <1>1, <1>3, StillVice DEF Accept, NoticeDeath
  <2>2. QED
    BY <1>1, <1>3, <2>1
       DEF Accept, NoticeDeath, IndInv, TypeOK, VInv, ControlInv, RunInv, InRun, PcValues
<1>4. CASE EndTenure
  <2>1. /\ VInv' /\ state' \in {RUNNING, STOPPED}
        /\ pc' \in {"readline", "idle", "restoring"}
        /\ pc' = "restoring" => cont' = "restored"
        /\ cont' \in Conts
    BY <1>4, RestoreKeeps DEF EndTenure, After
  <2>2. /\ UNCHANGED <<got, arrivals, last>> /\ conn' = "none" /\ run' = NoRun
        /\ got = NoCk
    BY <1>1, <1>4 DEF EndTenure, ControlInv
  <2>3. QED
    BY <1>1, <2>1, <2>2
       DEF IndInv, TypeOK, VInv, ControlInv, RunInv, InRun, PcValues, Conts
<1>5. CASE RestoreExit
  <2>1. cont \in {"released", "restored"} /\ pc = "restoring"
    BY <1>1, <1>5 DEF RestoreExit, ControlInv
  <2>2. After(cont) \in {"readline", "idle"}
    BY <2>1 DEF After
  <2>3. VInv'
    <3>1. CASE SendExit(wire)
      BY <1>1, <1>5, <3>1, SendExitKeeps DEF RestoreExit, VInv, ViceTypeOK
    <3>2. CASE UNCHANGED <<cpu, parked, wire, events>>
      BY <1>1, <1>5, <3>2, StillVice DEF RestoreExit, vice
    <3>3. QED
      BY <1>5, <3>1, <3>2 DEF RestoreExit
  <2>4. QED
    BY <1>1, <1>5, <2>1, <2>2, <2>3
       DEF RestoreExit, IndInv, TypeOK, VInv, ControlInv, RunInv, InRun, PcValues, Conts
<1>6. QED
  BY <1>2, <1>3, <1>4, <1>5

LEMMA CallsKeep ==
    ASSUME IndInv, \/ ExitAnswered \/ ExitLost \/ CallFails
                   \/ WaitSees \/ WaitSlice \/ FinishSees \/ FinishTimesOut
    PROVE  IndInv'
<1>1. /\ VInv /\ TypeOK /\ ControlInv
      /\ wire \in Seq(Frame) /\ events \in Seq(Frame) /\ <<>> \in Seq(Frame)
  BY EmptySeq DEF IndInv, TypeOK, VInv, ViceTypeOK
<1>2. CASE ExitAnswered
  <2>1. /\ VInv'
        /\ \A ck : wire \in Seq(Foreign(ck)) /\ events \in Seq(Foreign(ck))
               => wire' \in Seq(Foreign(ck)) /\ events' \in Seq(Foreign(ck))
        /\ (events \notin Seq(NonStops) => wire = <<>> /\ ~Executing)
             => (events' \notin Seq(NonStops) => wire' = <<>> /\ ~Executing')
    BY <1>1, <1>2, ReadResponseKeeps DEF ExitAnswered
  <2>2. /\ pc = "exit" /\ pc' = After(cont) /\ cont' = "none" /\ state' = RUNNING
        /\ UNCHANGED <<parked, got, run, arrivals, conn, last>>
        /\ cont \in Conts \ {"none"} /\ got = NoCk
    BY <1>1, <1>2 DEF ExitAnswered, ControlInv, TypeOK
  <2>3. /\ pc' \in {"readline", "idle", "ru_top", "ru_check"}
        /\ pc' \in {"ru_top", "ru_check"} => InRun
    BY <2>2 DEF After, Conts, InRun
  <2>4. RunInv'
    BY <2>1, <2>2, <2>3 DEF IndInv, RunInv, RunFacts, InRun
  <2>5. QED
    BY <1>1, <2>1, <2>2, <2>3, <2>4
       DEF IndInv, TypeOK, VInv, ControlInv, PcValues, Conts
<1>3. CASE ExitLost
  <2>1. CASE Fail
    BY <2>1, FailKeeps
  <2>2. CASE /\ cont \in {"released", "restored"}
             /\ pc' = After(cont)
             /\ cont' = "none"
             /\ UNCHANGED <<vice, events, state, got, run, arrivals, conn, last>>
    <3>1. VInv' /\ pc' \in {"readline", "idle"}
      BY <1>1, <2>2, StillVice DEF After
    <3>2. got = NoCk
      BY <1>1, <1>3 DEF ExitLost, ControlInv
    <3>3. QED
      BY <1>1, <2>2, <3>1, <3>2
         DEF IndInv, TypeOK, VInv, ControlInv, RunInv, InRun, PcValues, Conts
  <2>3. QED
    BY <1>3, <2>1, <2>2 DEF ExitLost
<1>4. CASE CallFails
  BY <1>4, FailKeeps DEF CallFails
<1>5. CASE WaitSees
  <2>1. PICK o \in FirstOutcomes : wire' = o.rest /\ events' = <<>>
    BY <1>5 DEF WaitSees
  <2>2. VInv'
    BY <1>1, <1>5, <2>1, FirstKeeps DEF WaitSees, VInv, ViceTypeOK, WireInv, Executing
  <2>3. QED
    BY <1>1, <1>5, <2>2
       DEF WaitSees, IndInv, TypeOK, VInv, ControlInv, RunInv, InRun, PcValues
<1>6. CASE WaitSlice
  <2>1. VInv' /\ pc' \in {"wait", "readline"}
    BY <1>1, <1>6, StillVice DEF WaitSlice
  <2>2. QED
    BY <1>1, <1>6, <2>1
       DEF WaitSlice, IndInv, TypeOK, VInv, ControlInv, RunInv, InRun, PcValues
<1>7. ASSUME NEW queue \in Seq(Frame), NEW pending \in Seq(Frame),
             FinishAnswers(queue, pending)
      PROVE  IndInv'
  <2>1. VInv'
    BY <1>1, <1>7, TransactKeeps DEF FinishAnswers, VInv, ViceTypeOK
  <2>2. QED
    BY <1>1, <1>7, <2>1
       DEF FinishAnswers, IndInv, TypeOK, VInv, ControlInv, RunInv, InRun, PcValues
<1>8. CASE FinishSees
  BY <1>1, <1>7, <1>8, FirstKeeps DEF FinishSees
<1>9. CASE FinishTimesOut
  BY <1>1, <1>7, <1>9 DEF FinishTimesOut
<1>10. QED
  BY <1>2, <1>3, <1>4, <1>5, <1>6, <1>8, <1>9

-----------------------------------------------------------------------------
(* What one batch of frames tells _run_until: a STOPPED in it is the last  *)
(* thing VICE has said, and a hit of its own checkpoint means a park there.*)
LEMMA BatchProperties ==
    ASSUME IndInv, InRun, NEW o \in FirstOutcomes, NEW n \in 0 .. Len(o.seen)
    PROVE  /\ StopAt(o.seen, n) => o.rest = <<>> /\ ~Executing
           /\ LastHit(o.seen, n, got, run.ck) => run.ck \in parked
           /\ run.ck \notin parked => o.rest \in Seq(Foreign(run.ck))
<1>1. VInv /\ RunFacts
  BY DEF IndInv, TypeOK, VInv, RunInv
<1>2. o.seen \in Seq(Frame) /\ Len(o.seen) \in Nat
  BY <1>1, FirstKeeps
<1>3. ASSUME StopAt(o.seen, n) PROVE o.rest = <<>> /\ ~Executing
  <2>1. o.seen \notin Seq(NonStops)
    <3>1. n \in 1 .. Len(o.seen) /\ o.seen[n].type = "stopped"
      BY <1>3 DEF StopAt
    <3>2. o.seen[n] \notin NonStops
      BY <3>1 DEF NonStops
    <3>3. QED
      BY <3>1, <3>2, ElementOfSeq
  <2>2. QED
    BY <1>1, <2>1, FirstKeeps DEF RunFacts
<1>4. ASSUME run.ck \notin parked
      PROVE  o.seen \in Seq(Foreign(run.ck)) /\ o.rest \in Seq(Foreign(run.ck))
  BY <1>1, <1>4, FirstKeeps DEF RunFacts
<1>5. ASSUME run.ck \notin parked PROVE ~LastHit(o.seen, n, got, run.ck)
  <2>1. \A j \in 1 .. n : o.seen[j].type = "hit" => o.seen[j].ck # run.ck
    <3>1. \A j \in 1 .. n : o.seen[j] \in Foreign(run.ck)
      BY <1>2, <1>4, <1>5, ElementOfSeq
    <3>2. QED
      BY <3>1 DEF Foreign
  <2>2. got # run.ck
    BY <1>1, <1>5 DEF RunFacts
  <2>3. QED
    BY <2>1, <2>2 DEF LastHit
<1>6. QED
  BY <1>3, <1>4, <1>5

LEMMA ReadBatchKeeps ==
    ASSUME IndInv, ReadBatch
    PROVE  IndInv'
<1>1. /\ VInv /\ TypeOK /\ ControlInv /\ <<>> \in Seq(Frame)
  BY EmptySeq DEF IndInv, TypeOK, VInv
<1>2. PICK o \in FirstOutcomes, ck \in CkIds \cup {NoCk} :
        /\ LastHit(o.seen, Len(o.seen), got, ck)
        /\ got' = ck
        /\ wire' = o.rest
        /\ events' = <<>>
  BY DEF ReadBatch
<1>3. VInv'
  BY <1>1, <1>2, FirstKeeps DEF ReadBatch, VInv, ViceTypeOK, WireInv, Executing
<1>4. RunInv'
  <2>1. SUFFICES ASSUME InRun' PROVE RunFacts'
    BY DEF RunInv
  <2>2. InRun /\ RunFacts
    BY <2>1 DEF ReadBatch, InRun, IndInv, RunInv
  <2>3. Len(o.seen) \in 0 .. Len(o.seen)
    BY <1>1, FirstKeeps
  <2>4. run.ck \notin parked => got' # run.ck /\ wire' \in Seq(Foreign(run.ck))
    BY <1>2, <2>2, <2>3, BatchProperties
  <2>5. <<>> \in Seq(NonStops) /\ <<>> \in Seq(Foreign(run.ck))
    BY EmptySeq
  <2>6. QED
    BY <1>2, <2>2, <2>4, <2>5 DEF RunFacts, ReadBatch
<1>5. QED
  BY <1>1, <1>2, <1>3, <1>4 DEF ReadBatch, IndInv, TypeOK, VInv, ControlInv

-----------------------------------------------------------------------------
(* The two ways _run_until goes on once it has counted an arrival, and the *)
(* fresh EXIT each round of it begins with.                                *)
LEMMA FreshRound ==
    ASSUME IndInv, InRun, VInv', cks' \in [CkIds -> CkStates],
           run'.ck = run.ck, run' \in Runs, run'.i < run'.count,
           arrivals' = arrivals, arrivals' = run'.i,
           parked' = {}, wire' = <<Resumed>>, events' = <<>>, got' = NoCk,
           pc' = "exit", cont' \in {"ru_top", "ru_check"},
           UNCHANGED <<state, conn, last>>
    PROVE  IndInv'
<1>1. /\ wire' \in Seq(Foreign(run'.ck)) /\ events' \in Seq(Foreign(run'.ck))
      /\ events' \in Seq(NonStops)
  BY FrameProperties, SingleProperties, EmptySeq
<1>2. run.ck \in CkIds /\ got' # run'.ck
  BY NoCkAssumption DEF IndInv, RunInv, RunFacts
<1>3. RunFacts'
  BY <1>1, <1>2 DEF RunFacts, IndInv, TypeOK, Runs
<1>4. QED
  BY <1>3 DEF IndInv, TypeOK, VInv, ControlInv, RunInv, PcValues, Conts

LEMMA NextArrivalKeeps ==
    ASSUME IndInv, InRun, run.ck \in parked, NextArrival, VInv',
           parked' = {}, wire' = <<Resumed>>, events' = <<>>
    PROVE  IndInv'
<1>1. RunFacts /\ run \in Runs /\ cks \in [CkIds -> CkStates]
  BY DEF IndInv, RunInv, TypeOK, ViceTypeOK
<1>2. /\ run' = [run EXCEPT !.i = run.i + 1]
      /\ run.i \in Nat /\ run.count \in Nat /\ run.i + 1 < run.count
  BY <1>1 DEF NextArrival, Runs
<1>3. /\ run' \in Runs /\ run'.ck = run.ck /\ run'.i = run.i + 1
      /\ run'.count = run.count
  BY <1>1, <1>2 DEF Runs
<1>4. arrivals' = run'.i /\ arrivals' = arrivals
  BY <1>1, <1>3 DEF RunFacts, NextArrival
<1>5. QED
  BY <1>1, <1>2, <1>3, <1>4, FreshRound DEF NextArrival

LEMMA RunUntilAnswersKeeps ==
    ASSUME IndInv, RunUntilAnswers, VInv'
    PROVE  IndInv'
<1>1. NoRun \in Runs
  BY DEF NoRun, Runs
<1>2. QED
  BY <1>1 DEF RunUntilAnswers, IndInv, TypeOK, VInv, ControlInv, RunInv, InRun, PcValues

LEMMA DeletedType ==
    ASSUME TypeOK
    PROVE  Deleted \in [CkIds -> CkStates]
BY DEF Deleted, TypeOK, ViceTypeOK, CkStates

(* An arrival is counted only when the checkpoint parks the CPU: by event, *)
LEMMA SeesKeeps ==
    ASSUME IndInv, RunUntilSees
    PROVE  IndInv' /\ (pc' = "readline" => arrivals = run.count /\ run.ck \in parked)
<1>1. /\ VInv /\ TypeOK /\ ControlInv /\ RunFacts /\ InRun
      /\ <<>> \in Seq(Frame) /\ run.i \in Nat /\ run.count \in Nat
      /\ cks \in [CkIds -> CkStates]
  BY EmptySeq DEF IndInv, RunInv, InRun, RunUntilSees, TypeOK, VInv, ViceTypeOK, Runs
<1>2. PICK o \in FirstOutcomes, ck \in CkIds \cup {NoCk} :
        /\ \E n \in 1 .. Len(o.seen) : StopAt(o.seen, n) /\ LastHit(o.seen, n, got, ck)
        /\ \/ ck = run.ck /\ SendExit(o.rest) /\ NextArrival
           \/ ck = run.ck /\ Transact(<<>>, o.rest) /\ RunUntilAnswers
           \/ /\ ck # run.ck
              /\ wire' = o.rest
              /\ events' = <<>>
              /\ got' = NoCk
              /\ pc' = "ru_list"
              /\ UNCHANGED <<cpu, cks, parked, state, cont, run, arrivals, conn, last>>
  BY DEF RunUntilSees
<1>3. PICK n \in 1 .. Len(o.seen) : StopAt(o.seen, n) /\ LastHit(o.seen, n, got, ck)
  BY <1>2
<1>4. n \in 0 .. Len(o.seen) /\ o.rest \in Seq(Frame)
  BY <1>1, FirstKeeps
<1>5. /\ o.rest = <<>> /\ ~Executing
      /\ ck = run.ck => run.ck \in parked
  BY <1>1, <1>3, <1>4, BatchProperties
<1>6. CASE ck = run.ck /\ SendExit(o.rest) /\ NextArrival
  <2>1. VInv'
    BY <1>1, <1>4, <1>6, SendExitKeeps DEF NextArrival
  <2>2. parked' = {} /\ wire' = <<Resumed>> /\ events' = <<>>
    BY <1>5, <1>6, CollectedNothing DEF SendExit
  <2>3. pc' # "readline"
    BY <1>6 DEF NextArrival
  <2>4. QED
    BY <1>1, <1>5, <1>6, <2>1, <2>2, <2>3, NextArrivalKeeps
<1>7. CASE ck = run.ck /\ Transact(<<>>, o.rest) /\ RunUntilAnswers
  <2>1. VInv'
    BY <1>1, <1>4, <1>7, TransactKeeps, DeletedType DEF RunUntilAnswers
  <2>2. arrivals = run.count /\ run.ck \in parked
    BY <1>1, <1>5, <1>7 DEF RunUntilAnswers, RunFacts
  <2>3. QED
    BY <1>7, <2>1, <2>2, RunUntilAnswersKeeps
<1>8. CASE /\ ck # run.ck
           /\ wire' = o.rest
           /\ events' = <<>>
           /\ got' = NoCk
           /\ pc' = "ru_list"
           /\ UNCHANGED <<cpu, cks, parked, state, cont, run, arrivals, conn, last>>
  <2>1. VInv'
    BY <1>1, <1>5, <1>8, EmptySeq
       DEF VInv, ViceTypeOK, WireInv, Executing
  <2>2. RunFacts'
    <3>1. /\ wire' \in Seq(Foreign(run.ck)) /\ events' \in Seq(Foreign(run.ck))
          /\ events' \in Seq(NonStops) /\ got' # run.ck
      BY <1>1, <1>5, <1>8, EmptySeq, NoCkAssumption DEF RunFacts
    <3>2. QED
      BY <1>1, <1>8, <3>1 DEF RunFacts
  <2>3. QED
    BY <1>1, <1>8, <2>1, <2>2 DEF IndInv, TypeOK, VInv, ControlInv, RunInv, PcValues
<1>9. QED
  BY <1>2, <1>6, <1>7, <1>8

(* and by the durable flag, which the list command reads.                  *)
LEMMA ListsKeeps ==
    ASSUME IndInv, RunUntilLists
    PROVE  IndInv' /\ (pc' = "readline" => arrivals = run.count /\ run.ck \in parked)
<1>1. /\ VInv /\ TypeOK /\ ControlInv /\ RunFacts /\ InRun
      /\ wire \in Seq(Frame) /\ events \in Seq(Frame)
      /\ run \in Runs /\ run.i \in Nat /\ run.count \in Nat
      /\ cks \in [CkIds -> CkStates]
  BY DEF IndInv, RunInv, InRun, RunUntilLists, TypeOK, VInv, ViceTypeOK, Runs
<1>2. Arrived <=> run.ck \in parked
  BY <1>1 DEF Arrived, RunFacts
<1>3. CASE Arrived /\ ExitAfterCommand /\ NextArrival
  <2>1. VInv'
    BY <1>1, <1>3, ExitAfterCommandKeeps DEF NextArrival
  <2>2. parked' = {} /\ wire' = <<Resumed>> /\ events' = <<>> /\ pc' # "readline"
    BY <1>3 DEF ExitAfterCommand, NextArrival
  <2>3. QED
    BY <1>1, <1>2, <1>3, <2>1, <2>2, NextArrivalKeeps
<1>4. CASE Arrived /\ Transact(events, wire) /\ RunUntilAnswers
  <2>1. VInv'
    BY <1>1, <1>4, TransactKeeps, DeletedType DEF RunUntilAnswers
  <2>2. arrivals = run.count /\ run.ck \in parked
    BY <1>1, <1>2, <1>4 DEF RunUntilAnswers, RunFacts
  <2>3. QED
    BY <1>4, <2>1, <2>2, RunUntilAnswersKeeps
<1>5. CASE /\ ~Arrived /\ ExitAfterCommand
           /\ pc' = "exit" /\ cont' = "ru_check"
           /\ UNCHANGED <<cks, state, got, run, arrivals, conn, last>>
  <2>1. VInv'
    BY <1>1, <1>5, ExitAfterCommandKeeps
  <2>2. /\ parked' = {} /\ wire' = <<Resumed>> /\ events' = <<>>
        /\ got' = NoCk /\ arrivals' = run'.i /\ run'.i < run'.count
    BY <1>1, <1>2, <1>5
       DEF ExitAfterCommand, RunFacts, ControlInv, RunUntilLists
  <2>3. QED
    BY <1>1, <1>5, <2>1, <2>2, FreshRound
<1>6. QED
  BY <1>3, <1>4, <1>5 DEF RunUntilLists

LEMMA RunUntilKeeps ==
    ASSUME IndInv, \/ RunUntilExpires \/ RunUntilWaits
                   \/ RunUntilSlice \/ RunUntilChecks
    PROVE  IndInv'
<1>1. /\ VInv /\ TypeOK /\ ControlInv /\ RunFacts
      /\ wire \in Seq(Frame) /\ events \in Seq(Frame)
      /\ cks \in [CkIds -> CkStates] /\ NoRun \in Runs
  BY DEF IndInv, RunInv, InRun, RunUntilExpires, RunUntilWaits, RunUntilSlice,
         RunUntilChecks, TypeOK, VInv, ViceTypeOK, NoRun, Runs
<1>2. CASE RunUntilExpires
  <2>1. VInv'
    BY <1>1, <1>2, ExitAfterCommandKeeps, DeletedType DEF RunUntilExpires
  <2>2. QED
    BY <1>1, <1>2, <2>1
       DEF RunUntilExpires, IndInv, TypeOK, VInv, ControlInv, RunInv, InRun, PcValues, Conts
<1>3. ASSUME UNCHANGED <<vice, events, state, cont, run, arrivals, conn, last>>,
             pc' \in {"ru_top", "ru_wait", "ru_list"},
             got' = got \/ got' = NoCk,
             pc' # "ru_wait" => got' = NoCk
      PROVE  IndInv'
  <2>1. VInv'
    BY <1>1, <1>3, StillVice
  <2>2. RunFacts'
    BY <1>1, <1>3, NoCkAssumption DEF RunFacts, vice, Executing
  <2>3. QED
    BY <1>1, <1>3, <2>1, <2>2 DEF IndInv, TypeOK, VInv, ControlInv, RunInv, PcValues
<1>4. CASE RunUntilWaits
  BY <1>3, <1>4 DEF RunUntilWaits
<1>5. CASE RunUntilSlice
  BY <1>3, <1>5 DEF RunUntilSlice
<1>6. CASE RunUntilChecks
  <2>1. CASE /\ pc' = "ru_top"
             /\ UNCHANGED <<vice, events, state, cont, got, run, arrivals, conn, last>>
    <3>1. got' = NoCk
      BY <1>1, <1>6, <2>1 DEF RunUntilChecks, ControlInv
    <3>2. QED
      BY <1>3, <2>1, <3>1
  <2>2. CASE /\ Transact(events, wire)
             /\ cks' = Deleted
             /\ pc' = "abandoned"
             /\ arrivals' = 0
             /\ UNCHANGED <<state, cont, got, run, conn, last>>
    <3>1. VInv'
      BY <1>1, <2>2, TransactKeeps, DeletedType
    <3>2. QED
      BY <1>1, <1>6, <2>2, <3>1
         DEF RunUntilChecks, IndInv, TypeOK, VInv, ControlInv, RunInv, InRun, PcValues
  <2>3. QED
    BY <1>6, <2>1, <2>2 DEF RunUntilChecks
<1>7. QED
  BY <1>2, <1>4, <1>5, <1>6

-----------------------------------------------------------------------------
LEMMA StutterKeeps ==
    ASSUME IndInv, UNCHANGED vars
    PROVE  IndInv'
<1>1. VInv'
  BY StillVice DEF IndInv, TypeOK, VInv, vars, vice
<1>2. RunInv'
  BY DEF vars, IndInv, RunInv, RunFacts, InRun, Executing
<1>3. QED
  BY <1>1, <1>2 DEF vars, IndInv, TypeOK, VInv, ControlInv

LEMMA NextKeeps ==
    ASSUME IndInv, [Next]_vars
    PROVE  IndInv'
<1>1. CASE Environment
  BY <1>1, EnvironmentKeeps
<1>2. CASE Requests
  BY <1>2, RequestsKeep
<1>3. CASE Accept
  BY <1>3, TenureKeeps
<1>4. CASE Daemon
  BY <1>4, TenureKeeps, CallsKeep, ReadBatchKeeps, SeesKeeps, ListsKeeps, RunUntilKeeps
     DEF Daemon
<1>5. CASE Terminated \/ UNCHANGED vars
  BY <1>5, StutterKeeps DEF Terminated
<1>6. QED
  BY <1>1, <1>2, <1>3, <1>4, <1>5 DEF Next

THEOREM Inductive == Spec => []IndInv
<1>1. Init => IndInv
  BY InitInd
<1>2. IndInv /\ [Next]_vars => IndInv'
  BY NextKeeps
<1>3. QED
  BY <1>1, <1>2, PTL DEF Spec

(* Every variable keeps its type, for any constants.                       *)
THEOREM TypeCorrect == Spec => []TypeOK
<1>1. IndInv => TypeOK
  BY DEF IndInv
<1>2. QED
  BY <1>1, Inductive, PTL

(* run_until answers "reached" only after exactly count arrivals and with  *)
(* the CPU parked on its checkpoint, for any count, any other checkpoints  *)
(* and however the stream is cut.                                          *)
THEOREM RunUntilIsExact == Spec => RunUntilExact
<1>1. ASSUME IndInv, Next,
             pc \in {"ru_wait", "ru_list"}, pc' = "readline"
      PROVE  arrivals = run.count /\ run.ck \in parked
  <2>1. CASE RunUntilSees \/ RunUntilLists
    BY <1>1, <2>1, SeesKeeps, ListsKeeps
  <2>2. ~(RunUntilSees \/ RunUntilLists) => FALSE
    BY <1>1
       DEF Next, Environment, Requests, Daemon, Terminated, vars,
           ViceHits, ViceReturns, ViceDies, ClientLeaves, Accept,
           Command, SetCheckpoint, DeleteCheckpoint, ToggleCheckpoint, Resume,
           Step, Finish, WaitForStop, RunUntil, RunUntilZero, Release, Quit,
           RequestFails, Ask, Pump, NoticeDeath, EndTenure, RestoreExit,
           ExitAnswered, ExitLost, CallFails, Fail, ReadBatch, WaitSees,
           WaitSlice, FinishSees, FinishTimesOut, RunUntilExpires,
           RunUntilWaits, RunUntilSlice, RunUntilChecks
  <2>3. QED
    BY <2>1, <2>2
<1>2. IndInv /\ [Next]_vars
        => [(pc \in {"ru_wait", "ru_list"} /\ pc' = "readline")
              => (arrivals = run.count /\ run.ck \in parked)]_vars
  BY <1>1
<1>3. QED
  BY <1>2, Inductive, PTL DEF Spec, RunUntilExact
=============================================================================
