------------------------ MODULE SessionRegistryProofs ------------------------
(***************************************************************************)
(* Proofs about the session registry, for any processes and number of      *)
(* attempts.  However commands overlap: types, failed launches and the     *)
(* effect of stop.  Where they do not, with any number of clients: that the*)
(* record, the daemon at the path and the emulator belong together.        *)
(***************************************************************************)
EXTENDS SessionRegistry, TLAPS

\* Places where the client's session object has its emulator's pid.
Stopping == {"killdaemon", "unlinksock", "unlinkrec"}

\* The client is about to hand the emulator it launched to a record.
Keeps(c) ==
    \/ me[c].pc = "await"
    \/ me[c].phase = "launch" /\ me[c].pc \in {"respawn", "ping", "save", "write"}

\* What each client knows about the processes it launched or was told of.
ClientInv(c) ==
    /\ me[c].pc \in Holding => me[c].sess.pid \in Emu
    /\ me[c].pc \in Stopping => emu[me[c].sess.pid] \in {"gone", "dying"}
    /\ \A e \in me[c].kids : ~Keeps(c) \/ e # me[c].sess.pid => emu[e] = "gone"
    /\ me[c].phase = "launch" => me[c].op \in {"start", "ensure"}
    /\ me[c].pc \in {"spawn", "await"} => me[c].phase = "launch"
    /\ me[c].pc \in {"glob", "read", "prune", "spawn", "await"} => me[c].helper = None
    /\ me[c].pc = "ping" => me[c].helper \in Daemon

IndInv == TypeOK /\ \A c \in Client : ClientInv(c)

-----------------------------------------------------------------------------
(* Where a client's own step leaves it.                                    *)

\* Only c's own state changes.
Steps(c) ==
    /\ me' \in [Client -> Clients]
    /\ \A o \in Client \ {c} : me'[o] = me[o]

\* c is at place, in phase ph, and its processes and session are as before.
Lands(c, place, ph) ==
    /\ Steps(c)
    /\ me'[c].pc = place /\ me'[c].phase = ph
    /\ me'[c].op = me[c].op /\ me'[c].sess.pid = me[c].sess.pid
    /\ me'[c].kids = me[c].kids /\ me'[c].helper = me[c].helper

\* c's command has ended.
Rests(c, why) ==
    /\ Steps(c)
    /\ me'[c].pc = "idle" /\ me'[c].phase = "attach"
    /\ me'[c].kids = {} /\ me'[c].answer = why

Answers == {"ok", "nosession", "running", "failed", "error", "noprocess",
            "unreadable", "killed"}

LEMMA Becoming ==
    ASSUME TypeOK, NEW c \in Client, NEW r \in Clients, Becomes(c, r)
    PROVE  Steps(c) /\ me'[c] = r
BY DEF TypeOK, Becomes, Steps

Phases == {"attach", "launch", "monitor", "labels", "loaded"}

LEMMA Updating ==
    ASSUME NEW r \in Clients
    PROVE  /\ \A v \in Pcs : [r EXCEPT !.pc = v] \in Clients
           /\ \A v \in Phases : [r EXCEPT !.phase = v] \in Clients
           /\ \A v \in Ops : [r EXCEPT !.op = v] \in Clients
           /\ \A v \in Prog \cup {None} : [r EXCEPT !.arg = v] \in Clients
           /\ \A v \in Records : [r EXCEPT !.sess = v] \in Clients
           /\ \A v \in SUBSET Emu : [r EXCEPT !.kids = v] \in Clients
           /\ \A v \in Daemon \cup {None} : [r EXCEPT !.helper = v] \in Clients
           /\ \A v \in Daemon \cup {None} : [r EXCEPT !.conn = v] \in Clients
<1>1. \A v \in Pcs : [r EXCEPT !.pc = v] \in Clients
  BY DEF Clients
<1>2. \A v \in Phases : [r EXCEPT !.phase = v] \in Clients
  BY DEF Clients, Phases
<1>3. \A v \in Ops : [r EXCEPT !.op = v] \in Clients
  BY DEF Clients
<1>4. \A v \in Prog \cup {None} : [r EXCEPT !.arg = v] \in Clients
  BY DEF Clients
<1>5. \A v \in Records : [r EXCEPT !.sess = v] \in Clients
  BY DEF Clients
<1>6. \A v \in SUBSET Emu : [r EXCEPT !.kids = v] \in Clients
  BY DEF Clients
<1>7. \A v \in Daemon \cup {None} : [r EXCEPT !.helper = v] \in Clients
  BY DEF Clients
<1>8. \A v \in Daemon \cup {None} : [r EXCEPT !.conn = v] \in Clients
  BY DEF Clients
<1> QED BY <1>1, <1>2, <1>3, <1>4, <1>5, <1>6, <1>7, <1>8

LEMMA IdleIsClient == Idle \in Clients
BY DEF Idle, Clients, NoRecord, Records, Pcs

LEMMA Going ==
    ASSUME TypeOK, NEW c \in Client, NEW place \in Pcs, Goto(c, place)
    PROVE  Lands(c, place, me[c].phase)
<1> DEFINE r == [me[c] EXCEPT !.pc = place]
<1>1. me[c] \in Clients
  BY DEF TypeOK
<1>2. r \in Clients
  BY <1>1 DEF Clients
<1>3. Becomes(c, r)
  BY DEF Goto
<1>4. Steps(c) /\ me'[c] = r
  BY <1>2, <1>3, Becoming
<1>5. /\ r.pc = place /\ r.phase = me[c].phase /\ r.op = me[c].op
      /\ r.sess = me[c].sess /\ r.kids = me[c].kids /\ r.helper = me[c].helper
  BY <1>1 DEF Clients
<1> QED BY <1>4, <1>5 DEF Lands

LEMMA Entering ==
    ASSUME TypeOK, NEW c \in Client, NEW place \in Pcs,
           NEW ph \in {"attach", "launch", "monitor", "labels", "loaded"},
           Enter(c, place, ph)
    PROVE  Lands(c, place, ph)
<1> DEFINE r == [me[c] EXCEPT !.pc = place, !.phase = ph]
<1>1. me[c] \in Clients
  BY DEF TypeOK
<1>2. r \in Clients
  BY <1>1 DEF Clients
<1>3. Becomes(c, r)
  BY DEF Enter
<1>4. Steps(c) /\ me'[c] = r
  BY <1>2, <1>3, Becoming
<1>5. /\ r.pc = place /\ r.phase = ph /\ r.op = me[c].op
      /\ r.sess = me[c].sess /\ r.kids = me[c].kids /\ r.helper = me[c].helper
  BY <1>1 DEF Clients
<1> QED BY <1>4, <1>5 DEF Lands

LEMMA Finishing ==
    ASSUME TypeOK, NEW c \in Client, NEW why \in Answers, End(c, why)
    PROVE  Rests(c, why)
<1> DEFINE r == [Idle EXCEPT !.op = me[c].op, !.answer = why]
<1>1. me[c].op \in Ops \cup {"none"}
  BY DEF TypeOK, Clients
<1>2. r \in Clients
  BY <1>1, IdleIsClient DEF Clients, Answers
<1>3. Steps(c) /\ me'[c] = r
  BY <1>2, Becoming DEF End
<1>4. r.pc = "idle" /\ r.phase = "attach" /\ r.kids = {} /\ r.answer = why
  BY DEF Idle
<1> QED BY <1>3, <1>4 DEF Rests

LEMMA Aborting ==
    ASSUME TypeOK, NEW c \in Client, NEW why \in Answers, Abort(c, why)
    PROVE  \/ me[c].op = "stop" /\ Lands(c, "wait", me[c].phase)
           \/ Rests(c, why)
<1>1. CASE me[c].op = "stop"
  <2> DEFINE r == [me[c] EXCEPT !.pc = "wait", !.conn = None]
  <2>1. me[c] \in Clients
    BY DEF TypeOK
  <2>2. r \in Clients
    BY <2>1 DEF Clients, Pcs
  <2>3. Steps(c) /\ me'[c] = r
    BY <1>1, <2>2, Becoming DEF Abort
  <2>4. /\ r.pc = "wait" /\ r.phase = me[c].phase /\ r.op = me[c].op
        /\ r.sess = me[c].sess /\ r.kids = me[c].kids /\ r.helper = me[c].helper
    BY <2>1 DEF Clients
  <2> QED BY <1>1, <2>3, <2>4 DEF Lands
<1>2. CASE me[c].op # "stop"
  BY <1>2, Finishing DEF Abort
<1> QED BY <1>1, <1>2

-----------------------------------------------------------------------------
(* What a step does to the emulators others know of.                       *)

Known(e) == \E o \in Client : e \in me[o].kids \/ e = me[o].sess.pid

\* An emulator that has ended stays so while a client knows its number, and
\* one that was told to end does nothing else.
Gentle ==
    \A e \in Emu :
        /\ emu[e] = "gone" /\ Known(e) => emu'[e] = "gone"
        /\ emu[e] = "dying" => emu'[e] \in {"gone", "dying"}

Sound(c) == TypeOK' /\ Steps(c) /\ Gentle /\ ClientInv(c)'

\* TypeOK without the clients.
SharedOK ==
    /\ emu \in [Emu -> {"gone", "booting", "up", "dying"}]
    /\ program \in [Emu -> Prog \cup {None}]
    /\ dmn \in [Daemon -> {"gone", "starting", "serving", "quitting"}]
    /\ port \in [Daemon -> Emu \cup {None}]
    /\ path \in Daemon \cup {None}
    /\ file \in {"absent", "torn", "whole"}
    /\ rec \in Records
    /\ writers \in SUBSET Client

LEMMA Still == ASSUME TypeOK, UNCHANGED emu PROVE Gentle
BY DEF Gentle, TypeOK

LEMMA Killing ==
    ASSUME TypeOK, NEW e \in Emu \cup {None}, KillEmulator(e)
    PROVE  /\ Gentle
           /\ emu' \in [Emu -> {"gone", "booting", "up", "dying"}]
           /\ program' \in [Emu -> Prog \cup {None}]
           /\ e \in Emu => emu'[e] = "gone"
           /\ \A o \in Emu : emu[o] = "gone" => emu'[o] = "gone"
BY DEF TypeOK, KillEmulator, Gentle

LEMMA DaemonEnding ==
    ASSUME TypeOK, NEW d \in Daemon \cup {None}, EndDaemon(d)
    PROVE  /\ dmn' \in [Daemon -> {"gone", "starting", "serving", "quitting"}]
           /\ port' \in [Daemon -> Emu \cup {None}]
           /\ d \in Daemon => dmn'[d] = "gone"
BY DEF TypeOK, EndDaemon

LEMMA Resting ==
    ASSUME TypeOK, NEW c \in Client, NEW why, Rests(c, why), SharedOK', Gentle
    PROVE  Sound(c)
<1>1. TypeOK'
  BY DEF TypeOK, SharedOK, Rests, Steps
<1>2. ClientInv(c)'
  BY DEF Rests, ClientInv, Holding, Stopping, Keeps
<1> QED BY <1>1, <1>2 DEF Sound, Rests

\* Past the launch, and away from the places where the emulator is ending.
LEMMA Landing ==
    ASSUME IndInv, NEW c \in Client, ~Keeps(c), me[c].pc \in Holding,
           NEW place \in {"monitor", "reconnect", "respawn", "use", "wait", "sigterm"},
           NEW ph \in {me[c].phase, "monitor"},
           place = "respawn" => ph = "monitor",
           Lands(c, place, ph), SharedOK', Gentle
    PROVE  Sound(c)
<1>1. TypeOK'
  BY DEF TypeOK, SharedOK, Lands, Steps
<1>2. ~Keeps(c)'
  BY DEF Keeps, Lands
<1>3. \A e \in me[c].kids : emu'[e] = "gone"
  <2> SUFFICES ASSUME NEW e \in me[c].kids PROVE emu'[e] = "gone"
    OBVIOUS
  <2>1. e \in Emu
    BY DEF IndInv, TypeOK, Clients
  <2>2. emu[e] = "gone" /\ Known(e)
    BY DEF IndInv, ClientInv, Known
  <2> QED BY <2>1, <2>2 DEF Gentle
<1>4. ClientInv(c)'
  BY <1>2, <1>3 DEF IndInv, ClientInv, Holding, Stopping, Lands
<1> QED BY <1>1, <1>4 DEF Sound, Lands

LEMMA AbortIsSound ==
    ASSUME IndInv, NEW c \in Client, NEW why \in Answers, Abort(c, why),
           me[c].pc \in Holding \cup {"spawn"}, SharedOK', Gentle
    PROVE  Sound(c)
<1>1. CASE Rests(c, why)
  BY <1>1, Resting DEF IndInv
<1>2. CASE me[c].op = "stop" /\ Lands(c, "wait", me[c].phase)
  <2>1. me[c].phase # "launch"
    BY <1>2 DEF IndInv, ClientInv
  <2>2. ~Keeps(c) /\ me[c].pc \in Holding
    BY <2>1 DEF IndInv, ClientInv, Keeps
  <2> QED BY <1>2, <2>2, Landing
<1> QED BY <1>1, <1>2, Aborting DEF IndInv

-----------------------------------------------------------------------------
(* Looking the session up.                                                 *)

LEMMA BeginIsSound ==
    ASSUME IndInv, NEW c \in Client, Begin(c)
    PROVE  Sound(c)
<1>1. PICK op \in Commands[c], p \in Prog \cup {None} :
        Becomes(c, [Idle EXCEPT
                !.pc = "glob", !.op = op, !.arg = p,
                !.phase = IF op = "start" THEN "launch" ELSE "attach"])
  BY DEF Begin
<1> DEFINE r == [Idle EXCEPT
                !.pc = "glob", !.op = op, !.arg = p,
                !.phase = IF op = "start" THEN "launch" ELSE "attach"]
<1>2. op \in Ops
  BY RegistryAssumptions
<1>3. r \in Clients
  <2> DEFINE placed == [Idle EXCEPT !.pc = "glob"]
             asked == [placed EXCEPT !.op = op]
             given == [asked EXCEPT !.arg = p]
  <2>1. placed \in Clients
    BY IdleIsClient, Updating DEF Pcs
  <2>2. asked \in Clients
    BY <1>2, <2>1, Updating
  <2>3. given \in Clients
    BY <2>2, Updating
  <2> QED BY <2>3, Updating DEF Phases
<1>4. Steps(c) /\ me'[c] = r
  BY <1>1, <1>3, Becoming DEF IndInv
<1>5. /\ r.pc = "glob" /\ r.op = op /\ r.kids = {} /\ r.helper = None
      /\ r.phase = IF op = "start" THEN "launch" ELSE "attach"
  BY DEF Idle
<1>6. ClientInv(c)'
  BY <1>4, <1>5 DEF ClientInv, Holding, Stopping, Keeps
<1>7. TypeOK' /\ Gentle
  BY <1>4, Still DEF IndInv, TypeOK, Steps, Begin, world, daemons, record
<1> QED BY <1>4, <1>6, <1>7 DEF Sound

\* The places before an emulator is launched.
LEMMA EarlyLanding ==
    ASSUME IndInv, NEW c \in Client, UNCHANGED world, SharedOK',
           me[c].pc \in {"glob", "read", "prune"},
           NEW place \in {"glob", "read", "prune", "spawn"},
           NEW ph, ph = "launch" => me[c].phase = "launch" \/ me[c].op = "ensure",
           place = "spawn" => ph = "launch",
           Lands(c, place, ph)
    PROVE  Sound(c)
<1>1. TypeOK' /\ Gentle
  BY Still DEF IndInv, TypeOK, SharedOK, Lands, Steps, world
<1>2. ~Keeps(c)
  BY DEF Keeps
<1>3. \A e \in me[c].kids : emu[e] = "gone"
  BY <1>2 DEF IndInv, ClientInv
<1>4. me[c].helper = None /\ (ph = "launch" => me[c].op \in {"start", "ensure"})
  BY DEF IndInv, ClientInv
<1>5. ClientInv(c)'
  BY <1>3, <1>4 DEF ClientInv, Holding, Stopping, Keeps, Lands, world
<1> QED BY <1>1, <1>5 DEF Sound, Lands

LEMMA NothingFoundIsSound ==
    ASSUME IndInv, NEW c \in Client, UNCHANGED world, SharedOK',
           me[c].pc \in {"glob", "read", "prune"}, NothingFound(c)
    PROVE  Sound(c)
<1>1. CASE me[c].phase = "launch"
  <2>1. Goto(c, "spawn")
    BY <1>1 DEF NothingFound
  <2>2. Lands(c, "spawn", "launch")
    BY <1>1, <2>1, Going DEF IndInv, Pcs
  <2> QED BY <1>1, <2>2, EarlyLanding
<1>2. CASE me[c].phase # "launch" /\ me[c].op = "ensure"
  <2>1. Enter(c, "glob", "launch")
    BY <1>2 DEF NothingFound
  <2>2. Lands(c, "glob", "launch")
    BY <2>1, Entering DEF IndInv, Pcs
  <2> QED BY <1>2, <2>2, EarlyLanding
<1>3. CASE me[c].phase # "launch" /\ me[c].op # "ensure"
  <2>1. End(c, "nosession")
    BY <1>3 DEF NothingFound
  <2>2. Rests(c, "nosession") /\ Gentle
    BY <2>1, Finishing, Still DEF IndInv, Answers, world
  <2> QED BY <2>2, Resting DEF IndInv
<1> QED BY <1>1, <1>2, <1>3

LEMMA FoundIsSound ==
    ASSUME IndInv, NEW c \in Client, UNCHANGED <<world, daemons, path, record>>,
           me[c].pc = "read", Alive(rec.pid), Found(c)
    PROVE  Sound(c)
<1>1. SharedOK' /\ Gentle
  BY Still DEF IndInv, TypeOK, SharedOK, world, daemons, record
<1>2. CASE End(c, "running") \/ End(c, "ok")
  <2>1. Rests(c, "running") \/ Rests(c, "ok")
    BY <1>2, Finishing DEF IndInv, Answers
  <2> QED BY <1>1, <2>1, Resting DEF IndInv
<1>3. CASE me[c].phase # "launch" /\ Becomes(c, [me[c] EXCEPT !.sess = rec, !.pc = "monitor"])
  <2> DEFINE r == [me[c] EXCEPT !.sess = rec, !.pc = "monitor"]
  <2>1. me[c] \in Clients /\ rec \in Records
    BY DEF IndInv, TypeOK
  <2>2. r \in Clients
    BY <2>1 DEF Clients, Pcs
  <2>3. Steps(c) /\ me'[c] = r
    BY <1>3, <2>2, Becoming DEF IndInv
  <2>4. /\ r.pc = "monitor" /\ r.sess = rec /\ r.phase = me[c].phase
        /\ r.kids = me[c].kids
    BY <2>1 DEF Clients
  <2>5. rec.pid \in Emu
    BY <2>1 DEF Alive, Records
  <2>6. \A e \in me[c].kids : emu[e] = "gone"
    BY DEF IndInv, ClientInv, Keeps
  <2>7. ClientInv(c)'
    BY <1>3, <2>3, <2>4, <2>5, <2>6 DEF ClientInv, Holding, Stopping, Keeps, world
  <2>8. TypeOK'
    BY <1>1, <2>3 DEF TypeOK, SharedOK, Steps
  <2> QED BY <1>1, <2>3, <2>7, <2>8 DEF Sound
<1> QED BY <1>2, <1>3 DEF Found

LEMMA LookingUpIsSound ==
    ASSUME IndInv, NEW c \in Client, Glob(c) \/ Read(c) \/ Prune(c)
    PROVE  Sound(c)
<1>1. ASSUME UNCHANGED <<world, daemons, path, record>>
      PROVE  SharedOK' /\ Gentle
  BY <1>1, Still DEF IndInv, TypeOK, SharedOK, world, daemons, record
<1>2. CASE Glob(c)
  <2>1. CASE Goto(c, "read")
    <3>1. Lands(c, "read", me[c].phase)
      BY <2>1, Going DEF IndInv, Pcs
    <3> QED BY <1>1, <1>2, <3>1, EarlyLanding DEF Glob, At
  <2>2. CASE NothingFound(c)
    BY <1>1, <1>2, <2>2, NothingFoundIsSound DEF Glob, At
  <2> QED BY <1>2, <2>1, <2>2 DEF Glob
<1>3. CASE Read(c)
  <2>1. CASE End(c, "unreadable")
    <3>1. Rests(c, "unreadable")
      BY <2>1, Finishing DEF IndInv, Answers
    <3> QED BY <1>1, <1>3, <3>1, Resting DEF IndInv, Read
  <2>2. CASE Alive(rec.pid) /\ Found(c)
    BY <1>3, <2>2, FoundIsSound DEF Read, At
  <2>3. CASE Goto(c, "prune")
    <3>1. Lands(c, "prune", me[c].phase)
      BY <2>3, Going DEF IndInv, Pcs
    <3> QED BY <1>1, <1>3, <3>1, EarlyLanding DEF Read, At
  <2> QED BY <1>3, <2>1, <2>2, <2>3 DEF Read
<1>4. CASE Prune(c)
  <2>1. SharedOK'
    BY <1>4 DEF Prune, UnlinkFile, IndInv, TypeOK, SharedOK, world, daemons,
       NoRecord, Records
  <2> QED BY <1>4, <2>1, NothingFoundIsSound DEF Prune, At
<1> QED BY <1>2, <1>3, <1>4

-----------------------------------------------------------------------------
(* Launching.                                                              *)

LEMMA Quiet ==
    ASSUME TypeOK, UNCHANGED <<world, daemons, path, record>>
    PROVE  SharedOK' /\ Gentle
BY Still DEF TypeOK, SharedOK, world, daemons, record

LEMMA SpawnIsSound ==
    ASSUME IndInv, NEW c \in Client, Spawn(c)
    PROVE  Sound(c)
<1> DEFINE after(e) == [me[c] EXCEPT !.pc = "await", !.kids = @ \cup {e},
                                     !.sess = [NoRecord EXCEPT !.pid = e]]
<1>1. PICK e \in Emu :
        /\ FreshEmu(e)
        /\ emu' = [emu EXCEPT ![e] = "booting"]
        /\ Becomes(c, after(e))
  BY DEF Spawn
<1>2. me[c] \in Clients
  BY DEF IndInv, TypeOK
<1>3. me[c].kids \cup {e} \in SUBSET Emu /\ [NoRecord EXCEPT !.pid = e] \in Records
  BY <1>2 DEF Clients, NoRecord, Records
<1>4. after(e) \in Clients
  <2> DEFINE placed == [me[c] EXCEPT !.pc = "await"]
             grown  == [placed EXCEPT !.kids = me[c].kids \cup {e}]
  <2>1. placed \in Clients
    BY <1>2, Updating DEF Pcs
  <2>2. grown \in Clients
    BY <1>3, <2>1, Updating
  <2>3. [grown EXCEPT !.sess = [NoRecord EXCEPT !.pid = e]] \in Clients
    BY <1>3, <2>2, Updating
  <2>4. after(e) = [grown EXCEPT !.sess = [NoRecord EXCEPT !.pid = e]]
    BY <1>2 DEF Clients
  <2> QED BY <2>3, <2>4
<1>5. Steps(c) /\ me'[c] = after(e)
  BY <1>1, <1>4, Becoming DEF IndInv
<1>6. /\ after(e).pc = "await" /\ after(e).sess.pid = e
      /\ after(e).kids = me[c].kids \cup {e}
      /\ after(e).phase = me[c].phase /\ after(e).op = me[c].op
      /\ after(e).helper = me[c].helper
  BY <1>2 DEF Clients, NoRecord
<1>7. Gentle
  BY <1>1 DEF Gentle, Known, FreshEmu, IndInv, TypeOK
<1>8. \A o \in me[c].kids : o \in Emu /\ emu[o] = "gone" /\ o # e
  BY <1>1, <1>2 DEF IndInv, ClientInv, Keeps, Spawn, At, FreshEmu, Clients
<1>9. ClientInv(c)'
  BY <1>1, <1>5, <1>6, <1>8
  DEF IndInv, TypeOK, ClientInv, Keeps, Holding, Stopping, Spawn, At
<1>10. TypeOK'
  BY <1>1, <1>5 DEF IndInv, TypeOK, Steps, Spawn, daemons, record
<1> QED BY <1>5, <1>7, <1>9, <1>10 DEF Sound

LEMMA PopenFailsIsSound ==
    ASSUME IndInv, NEW c \in Client, PopenFails(c)
    PROVE  Sound(c)
<1>1. SharedOK' /\ Gentle
  BY Quiet DEF IndInv, PopenFails
<1> QED BY <1>1, AbortIsSound DEF PopenFails, At, Answers, Holding, Pcs

LEMMA AttemptFailsIsSound ==
    ASSUME IndInv, NEW c \in Client, AttemptFails(c)
    PROVE  Sound(c) /\ \A e \in me[c].kids : emu'[e] = "gone"
<1>1. me[c].pc = "await" /\ me[c].sess.pid \in Emu /\ me[c].kids \in SUBSET Emu
  BY DEF AttemptFails, At, IndInv, TypeOK, Clients, ClientInv, Holding, Pcs
<1>2. /\ Gentle /\ emu'[me[c].sess.pid] = "gone"
      /\ \A o \in Emu : emu[o] = "gone" => emu'[o] = "gone"
      /\ SharedOK'
  BY <1>1, Killing DEF AttemptFails, IndInv, TypeOK, SharedOK, daemons, record
<1>3. \A e \in me[c].kids : emu'[e] = "gone"
  BY <1>1, <1>2 DEF IndInv, ClientInv
<1>4. CASE End(c, "failed")
  <2>1. Rests(c, "failed")
    BY <1>4, Finishing DEF IndInv, Answers
  <2> QED BY <1>2, <1>3, <2>1, Resting DEF IndInv
<1>5. CASE Goto(c, "spawn")
  <2>1. Lands(c, "spawn", me[c].phase)
    BY <1>5, Going DEF IndInv, Pcs
  <2>2. ClientInv(c)'
    BY <1>1, <1>3, <2>1 DEF IndInv, ClientInv, Holding, Stopping, Lands
  <2>3. TypeOK'
    BY <1>2, <2>1 DEF TypeOK, SharedOK, Lands, Steps
  <2> QED BY <1>2, <1>3, <2>1, <2>2, <2>3 DEF Sound, Lands
<1> QED BY <1>4, <1>5 DEF AttemptFails

\* From one place to the next with nothing else changed, the emulator the
\* client launched still its own to keep.
LEMMA Passing ==
    ASSUME IndInv, NEW c \in Client, NEW place \in {"respawn", "save", "write"},
           me[c].pc \in Holding, Keeps(c) \/ me[c].phase # "launch",
           UNCHANGED emu, SharedOK',
           Lands(c, place, me[c].phase)
    PROVE  Sound(c)
<1>1. TypeOK' /\ Gentle
  BY Still DEF IndInv, TypeOK, SharedOK, Lands, Steps
<1>2. Keeps(c)' <=> Keeps(c)
  BY DEF IndInv, ClientInv, Keeps, Lands
<1>3. ClientInv(c)'
  BY <1>2 DEF IndInv, ClientInv, Holding, Stopping, Lands
<1> QED BY <1>1, <1>3 DEF Sound, Lands

LEMMA MonitorAnswersIsSound ==
    ASSUME IndInv, NEW c \in Client, MonitorAnswers(c)
    PROVE  Sound(c)
<1>1. Lands(c, "respawn", me[c].phase)
  BY Going DEF IndInv, MonitorAnswers, Pcs
<1>2. me[c].pc \in Holding /\ Keeps(c)
  BY DEF MonitorAnswers, At, Holding, Pcs, Keeps
<1> QED BY <1>1, <1>2, Quiet, Passing DEF IndInv, MonitorAnswers, world

LEMMA BreakerTripsIsSound ==
    ASSUME IndInv, NEW c \in Client, BreakerTrips(c)
    PROVE  Sound(c)
<1>1. SharedOK' /\ Gentle
  BY Quiet DEF IndInv, BreakerTrips
<1> QED BY <1>1, AbortIsSound DEF BreakerTrips, At, Answers, Holding, Pcs

-----------------------------------------------------------------------------
(* The daemon and the record.                                              *)

LEMMA SpawnDaemonIsSound ==
    ASSUME IndInv, NEW c \in Client, SpawnDaemon(c)
    PROVE  Sound(c)
<1> DEFINE after(d) == [me[c] EXCEPT !.pc = "ping", !.helper = d]
<1>1. PICK d \in Daemon :
        /\ dmn' = [dmn EXCEPT ![d] = "starting"]
        /\ port' = [port EXCEPT ![d] = me[c].sess.pid]
        /\ Becomes(c, after(d))
  BY DEF SpawnDaemon
<1>2. me[c] \in Clients /\ me[c].sess.pid \in Emu
  BY DEF SpawnDaemon, At, IndInv, TypeOK, ClientInv, Holding, Pcs
<1>3. after(d) \in Clients
  <2>1. [me[c] EXCEPT !.pc = "ping"] \in Clients
    BY <1>2, Updating DEF Pcs
  <2> QED BY <2>1, Updating
<1>4. Steps(c) /\ me'[c] = after(d)
  BY <1>1, <1>3, Becoming DEF IndInv
<1>5. /\ after(d).pc = "ping" /\ after(d).phase = me[c].phase
      /\ after(d).op = me[c].op /\ after(d).sess = me[c].sess
      /\ after(d).kids = me[c].kids /\ after(d).helper = d
  BY <1>2 DEF Clients
<1>6. TypeOK' /\ Gentle
  BY <1>1, <1>2, <1>4, Still
  DEF SpawnDaemon, IndInv, TypeOK, Steps, world, record
<1>7. Keeps(c)' <=> Keeps(c)
  BY <1>4, <1>5 DEF Keeps, SpawnDaemon, At
<1>8. ClientInv(c)'
  BY <1>2, <1>4, <1>5, <1>7
  DEF IndInv, ClientInv, Holding, Stopping, SpawnDaemon, world
<1> QED BY <1>4, <1>6, <1>8 DEF Sound

LEMMA PingAnsweredIsSound ==
    ASSUME IndInv, NEW c \in Client, PingAnswered(c)
    PROVE  Sound(c)
<1> DEFINE known == [me[c].sess EXCEPT !.daemon = me[c].helper]
           after == [me[c] EXCEPT !.pc = "save", !.sess = known]
<1>1. me[c] \in Clients /\ me[c].helper \in Daemon
  BY DEF PingAnswered, At, IndInv, TypeOK, ClientInv
<1>2. known \in Records /\ known.pid = me[c].sess.pid
  BY <1>1 DEF Clients, Records
<1>3. after \in Clients
  <2>1. [me[c] EXCEPT !.pc = "save"] \in Clients
    BY <1>1, Updating DEF Pcs
  <2> HIDE DEF known
  <2> QED BY <1>2, <2>1, Updating
<1>4. Steps(c) /\ me'[c] = after
  BY <1>3, Becoming DEF IndInv, PingAnswered
<1>5. /\ after.pc = "save" /\ after.phase = me[c].phase /\ after.op = me[c].op
      /\ after.sess = known /\ after.kids = me[c].kids
      /\ after.helper = me[c].helper
  <2> HIDE DEF known
  <2> QED BY <1>1 DEF Clients
<1>6. Lands(c, "save", me[c].phase)
  BY <1>2, <1>4, <1>5 DEF Lands
<1>7. me[c].pc \in Holding /\ (Keeps(c) \/ me[c].phase # "launch")
  BY DEF PingAnswered, At, Holding, Pcs, Keeps
<1> QED BY <1>6, <1>7, Quiet, Passing DEF IndInv, PingAnswered, world

LEMMA PingFailsIsSound ==
    ASSUME IndInv, NEW c \in Client, PingFails(c)
    PROVE  /\ Sound(c)
           /\ me[c].phase = "launch" =>
                 /\ \A e \in me[c].kids : emu'[e] = "gone"
                 /\ dmn'[me[c].helper] = "gone"
           /\ me[c].phase # "launch" /\ me'[c].pc = "idle" =>
                 me'[c].answer # "failed"
<1>1. /\ me[c].pc = "ping" /\ me[c].helper \in Daemon
      /\ me[c].sess.pid \in Emu /\ me[c].kids \in SUBSET Emu
  BY DEF PingFails, At, IndInv, TypeOK, Clients, ClientInv, Holding, Pcs
<1>2. /\ dmn' \in [Daemon -> {"gone", "starting", "serving", "quitting"}]
      /\ port' \in [Daemon -> Emu \cup {None}]
      /\ dmn'[me[c].helper] = "gone"
  BY <1>1, DaemonEnding DEF IndInv, PingFails
<1>3. CASE me[c].phase = "launch"
  <2>1. KillEmulator(me[c].sess.pid) /\ End(c, "failed")
    BY <1>3 DEF PingFails
  <2>2. /\ Gentle /\ emu'[me[c].sess.pid] = "gone"
        /\ \A o \in Emu : emu[o] = "gone" => emu'[o] = "gone"
        /\ SharedOK'
    BY <1>1, <1>2, <2>1, Killing DEF PingFails, IndInv, TypeOK, SharedOK, record
  <2>3. \A e \in me[c].kids : emu'[e] = "gone"
    BY <1>1, <2>2 DEF IndInv, ClientInv
  <2>4. Rests(c, "failed")
    BY <2>1, Finishing DEF IndInv, Answers
  <2> QED BY <1>2, <1>3, <2>2, <2>3, <2>4, Resting DEF IndInv
<1>4. CASE me[c].phase # "launch"
  <2>1. UNCHANGED world /\ Abort(c, "error")
    BY <1>4 DEF PingFails
  <2>2. SharedOK' /\ Gentle
    BY <1>2, <2>1, Still DEF PingFails, IndInv, TypeOK, SharedOK, world, record
  <2>3. Sound(c)
    BY <1>1, <2>1, <2>2, AbortIsSound DEF Answers, Holding, Pcs
  <2>4. me'[c].pc = "idle" => me'[c].answer # "failed"
    BY <2>1, Aborting DEF IndInv, Answers, Rests, Lands
  <2> QED BY <1>4, <2>3, <2>4
<1> QED BY <1>3, <1>4

LEMMA RecordLoadedIsSound ==
    ASSUME IndInv, NEW c \in Client, RecordLoaded(c), ~Keeps(c),
           me[c].pc \in Holding, SharedOK', Gentle
    PROVE  Sound(c)
<1> DEFINE noted == [me[c].sess EXCEPT !.prog = me[c].arg]
           placed == [me[c] EXCEPT !.pc = "save"]
           phased == [placed EXCEPT !.phase = "loaded"]
           left   == [phased EXCEPT !.conn = None]
           after  == [left EXCEPT !.sess = noted]
<1>1. me[c] \in Clients
  BY DEF IndInv, TypeOK
<1>2. noted \in Records /\ noted.pid = me[c].sess.pid
  BY <1>1 DEF Clients, Records
<1>3. placed \in Clients
  BY <1>1, Updating DEF Pcs
<1>4. phased \in Clients
  BY <1>3, Updating DEF Phases
<1>5. left \in Clients
  BY <1>4, Updating
<1>6. after \in Clients
  <2> HIDE DEF noted
  <2> QED BY <1>2, <1>5, Updating
<1>7. Becomes(c, after)
  BY DEF RecordLoaded
<1>8. Steps(c) /\ me'[c] = after
  BY <1>6, <1>7, Becoming DEF IndInv
<1>9. /\ after.pc = "save" /\ after.phase = "loaded" /\ after.op = me[c].op
      /\ after.sess = noted /\ after.kids = me[c].kids
  <2> HIDE DEF noted
  <2> QED BY <1>1 DEF Clients
<1>10. TypeOK'
  BY <1>8 DEF TypeOK, SharedOK, Steps
<1>11. \A e \in me[c].kids : emu'[e] = "gone"
  BY <1>1 DEF IndInv, ClientInv, Gentle, Known, Clients
<1>12. ClientInv(c)'
  <2> HIDE DEF after, noted
  <2> QED BY <1>2, <1>8, <1>9, <1>11 DEF IndInv, ClientInv, Holding, Stopping, Keeps
<1> QED BY <1>8, <1>10, <1>12 DEF Sound

LEMMA SavingIsSound ==
    ASSUME IndInv, NEW c \in Client, SaveOpen(c) \/ SaveWrite(c)
    PROVE  Sound(c)
<1>1. me[c] \in Clients /\ me[c].sess \in Records
  BY DEF IndInv, TypeOK, Clients
<1>2. CASE SaveOpen(c)
  <2>1. SharedOK'
    BY <1>2 DEF SaveOpen, IndInv, TypeOK, SharedOK, world, daemons, NoRecord, Records
  <2>2. Lands(c, "write", me[c].phase)
    BY <1>2, Going DEF IndInv, SaveOpen, Pcs
  <2>3. me[c].pc \in Holding /\ (Keeps(c) \/ me[c].phase # "launch")
    BY <1>2 DEF SaveOpen, At, Holding, Pcs, Keeps
  <2> QED BY <1>2, <2>1, <2>2, <2>3, Passing DEF SaveOpen, world
<1>3. CASE SaveWrite(c)
  <2>1. SharedOK'
    BY <1>1, <1>3 DEF SaveWrite, Written, IndInv, TypeOK, SharedOK, world, daemons,
       NoRecord, Records
  <2>2. Gentle
    BY <1>3, Still DEF IndInv, SaveWrite, world
  <2>3. me[c].pc \in Holding
    BY <1>3 DEF SaveWrite, At, Holding, Pcs
  <2>4. CASE me[c].phase = "monitor" /\ Goto(c, "reconnect")
    <3>1. Lands(c, "reconnect", me[c].phase)
      BY <2>4, Going DEF IndInv, Pcs
    <3>2. ~Keeps(c)
      BY <1>3, <2>4 DEF Keeps, SaveWrite, At
    <3> QED BY <2>1, <2>2, <2>3, <3>1, <3>2, Landing
  <2>5. CASE me[c].phase = "labels" /\ RecordLoaded(c)
    <3>1. ~Keeps(c)
      BY <1>3, <2>5 DEF Keeps, SaveWrite, At
    <3> QED BY <2>1, <2>2, <2>3, <2>5, <3>1, RecordLoadedIsSound
  <2>6. CASE End(c, "ok")
    <3>1. Rests(c, "ok")
      BY <2>6, Finishing DEF IndInv, Answers
    <3> QED BY <2>1, <2>2, <3>1, Resting DEF IndInv
  <2> QED BY <1>3, <2>4, <2>5, <2>6 DEF SaveWrite
<1> QED BY <1>2, <1>3

-----------------------------------------------------------------------------
(* Using the session.                                                      *)

LEMMA ConnectingIsSound ==
    ASSUME IndInv, NEW c \in Client, Connect(c) \/ ConnectFails(c)
    PROVE  Sound(c)
<1>1. me[c].pc \in {"monitor", "reconnect"} /\ me[c].pc \in Holding
  BY DEF Connect, ConnectFails, At, Holding, Pcs
<1>2. SharedOK' /\ Gentle /\ ~Keeps(c)
  BY <1>1, Quiet DEF IndInv, Connect, ConnectFails, Keeps
<1>3. CASE Connect(c)
  <2> DEFINE after == [me[c] EXCEPT !.pc = "use", !.conn = path]
  <2>1. me[c] \in Clients /\ path \in Daemon \cup {None}
    BY DEF IndInv, TypeOK
  <2>2. [me[c] EXCEPT !.pc = "use"] \in Clients
    BY <2>1, Updating DEF Pcs
  <2>3. after \in Clients
    BY <2>1, <2>2, Updating
  <2>4. Steps(c) /\ me'[c] = after
    BY <1>3, <2>3, Becoming DEF IndInv, Connect
  <2>5. /\ after.pc = "use" /\ after.phase = me[c].phase /\ after.op = me[c].op
        /\ after.sess = me[c].sess /\ after.kids = me[c].kids
        /\ after.helper = me[c].helper
    BY <2>1 DEF Clients
  <2>6. Lands(c, "use", me[c].phase)
    BY <2>4, <2>5 DEF Lands
  <2> QED BY <1>1, <1>2, <2>6, Landing
<1>4. CASE Enter(c, "respawn", "monitor")
  <2>1. Lands(c, "respawn", "monitor")
    BY <1>4, Entering DEF IndInv, Pcs
  <2> QED BY <1>1, <1>2, <2>1, Landing
<1>5. CASE Abort(c, "error")
  BY <1>1, <1>2, <1>5, AbortIsSound DEF Answers
<1> QED BY <1>3, <1>4, <1>5 DEF ConnectFails

LEMMA Effecting ==
    ASSUME IndInv, NEW c \in Client, At(c, "use"), UNCHANGED <<port, path, record>>,
           Effect(c) \/ UNCHANGED <<world, dmn>>
    PROVE  SharedOK' /\ Gentle
<1>1. me[c].arg \in Prog \cup {None}
  BY DEF IndInv, TypeOK, Clients
<1>2. CASE Effect(c)
  <2>1. CASE me[c].op = "stop"
    BY <1>2, <2>1 DEF Effect, IndInv, TypeOK, SharedOK, Gentle, record
  <2>2. CASE me[c].op # "stop"
    BY <1>1, <1>2, <2>2, Still DEF Effect, IndInv, TypeOK, SharedOK, record
  <2> QED BY <2>1, <2>2
<1>3. CASE UNCHANGED <<world, dmn>>
  BY <1>3, Still DEF IndInv, TypeOK, SharedOK, record, world
<1> QED BY <1>2, <1>3

LEMMA UsingIsSound ==
    ASSUME IndInv, NEW c \in Client, Use(c) \/ UseFails(c)
    PROVE  Sound(c)
<1>1. me[c].pc \in Holding /\ ~Keeps(c)
  BY DEF Use, UseFails, At, Holding, Pcs, Keeps
<1>2. SharedOK' /\ Gentle
  BY Effecting DEF Use, UseFails
<1>3. CASE Abort(c, "ok") \/ Abort(c, "error")
  BY <1>1, <1>2, <1>3, AbortIsSound DEF Answers
<1>4. CASE RecordLoaded(c)
  BY <1>1, <1>2, <1>4, RecordLoadedIsSound
<1>5. CASE End(c, "ok")
  <2>1. Rests(c, "ok")
    BY <1>5, Finishing DEF IndInv, Answers
  <2> QED BY <1>2, <2>1, Resting DEF IndInv
<1>6. CASE Becomes(c, [me[c] EXCEPT !.pc = "save", !.phase = "labels", !.conn = None])
  <2> DEFINE placed == [me[c] EXCEPT !.pc = "save"]
             phased == [placed EXCEPT !.phase = "labels"]
             after  == [phased EXCEPT !.conn = None]
  <2>1. me[c] \in Clients
    BY DEF IndInv, TypeOK
  <2>2. placed \in Clients
    BY <2>1, Updating DEF Pcs
  <2>3. phased \in Clients
    BY <2>2, Updating DEF Phases
  <2>4. after \in Clients
    BY <2>3, Updating
  <2>5. Becomes(c, after)
    BY <1>6
  <2>6. Steps(c) /\ me'[c] = after
    BY <2>4, <2>5, Becoming DEF IndInv
  <2>7. /\ after.pc = "save" /\ after.phase = "labels" /\ after.op = me[c].op
        /\ after.sess = me[c].sess /\ after.kids = me[c].kids
    BY <2>1 DEF Clients
  <2>8. \A e \in me[c].kids : emu'[e] = "gone"
    BY <1>1, <1>2, <2>1 DEF IndInv, ClientInv, Gentle, Known, Clients
  <2>9. ClientInv(c)'
    <3> HIDE DEF after
    <3> QED BY <1>1, <2>6, <2>7, <2>8 DEF IndInv, ClientInv, Holding, Stopping, Keeps
  <2>10. TypeOK'
    BY <1>2, <2>6 DEF TypeOK, SharedOK, Steps
  <2> QED BY <1>2, <2>6, <2>9, <2>10 DEF Sound
<1> QED BY <1>3, <1>4, <1>5, <1>6 DEF Use, UseFails

-----------------------------------------------------------------------------
(* Stopping.                                                               *)

LEMMA StoppingLanding ==
    ASSUME IndInv, NEW c \in Client, me[c].pc \in Holding, ~Keeps(c),
           NEW place \in Stopping, Lands(c, place, me[c].phase),
           SharedOK', Gentle,
           emu'[me[c].sess.pid] \in {"gone", "dying"}
    PROVE  Sound(c)
<1>1. TypeOK'
  BY DEF TypeOK, SharedOK, Lands, Steps
<1>2. \A e \in me[c].kids : emu'[e] = "gone"
  BY DEF IndInv, ClientInv, Gentle, Known, TypeOK, Clients
<1>3. ClientInv(c)'
  BY <1>2 DEF IndInv, ClientInv, Holding, Stopping, Lands
<1> QED BY <1>1, <1>3 DEF Sound, Lands

LEMMA StopWaitsIsSound ==
    ASSUME IndInv, NEW c \in Client, StopWaits(c)
    PROVE  Sound(c)
<1>1. me[c].pc \in Holding /\ ~Keeps(c) /\ SharedOK' /\ Gentle
  BY Quiet DEF IndInv, StopWaits, At, Holding, Pcs, Keeps
<1>2. me[c].sess.pid \in Emu
  BY <1>1 DEF IndInv, ClientInv
<1>3. CASE Alive(me[c].sess.pid)
  <2>1. Goto(c, "sigterm")
    BY <1>3 DEF StopWaits
  <2>2. Lands(c, "sigterm", me[c].phase)
    BY <2>1, Going DEF IndInv, Pcs
  <2> QED BY <1>1, <2>2, Landing
<1>4. CASE ~Alive(me[c].sess.pid)
  <2>1. Goto(c, "killdaemon")
    BY <1>4 DEF StopWaits
  <2>2. Lands(c, "killdaemon", me[c].phase)
    BY <2>1, Going DEF IndInv, Pcs
  <2>3. emu'[me[c].sess.pid] = "gone"
    BY <1>2, <1>4, RegistryAssumptions DEF Alive, StopWaits, world
  <2> QED BY <1>1, <2>2, <2>3, StoppingLanding DEF Stopping
<1> QED BY <1>3, <1>4

LEMMA TerminateIsSound ==
    ASSUME IndInv, NEW c \in Client, Terminate(c)
    PROVE  Sound(c)
<1>1. me[c].pc \in Holding /\ ~Keeps(c) /\ me[c].sess.pid \in Emu
  BY DEF IndInv, ClientInv, Terminate, At, Holding, Pcs, Keeps
<1>2. CASE Signal(me[c].sess.pid) /\ Alive(me[c].sess.pid) /\ Goto(c, "killdaemon")
  <2>1. Lands(c, "killdaemon", me[c].phase)
    BY <1>2, Going DEF IndInv, Pcs
  <2>2. SharedOK' /\ Gentle /\ emu'[me[c].sess.pid] = "dying"
    BY <1>1, <1>2 DEF Terminate, Signal, Alive, IndInv, TypeOK, SharedOK, Gentle,
       daemons, record
  <2> QED BY <1>1, <2>1, <2>2, StoppingLanding DEF Stopping
<1>3. CASE UNCHANGED emu /\ End(c, "noprocess")
  <2>1. SharedOK' /\ Gentle
    BY <1>3, Still DEF Terminate, IndInv, TypeOK, SharedOK, daemons, record
  <2>2. Rests(c, "noprocess")
    BY <1>3, Finishing DEF IndInv, Answers
  <2> QED BY <2>1, <2>2, Resting DEF IndInv
<1> QED BY <1>2, <1>3 DEF Terminate

LEMMA CleaningIsSound ==
    ASSUME IndInv, NEW c \in Client,
           KillDaemon(c) \/ UnlinkSocket(c) \/ UnlinkRecord(c)
    PROVE  Sound(c)
<1>1. /\ me[c].pc \in Holding /\ ~Keeps(c)
      /\ emu[me[c].sess.pid] \in {"gone", "dying"}
  BY DEF IndInv, ClientInv, KillDaemon, UnlinkSocket, UnlinkRecord, At,
     Stopping, Holding, Pcs, Keeps
<1>2. UNCHANGED emu /\ Gentle
  BY Still DEF IndInv, KillDaemon, UnlinkSocket, UnlinkRecord, world
<1>3. CASE KillDaemon(c)
  <2>1. me[c].sess.daemon \in Daemon \cup {None}
    BY DEF IndInv, TypeOK, Clients, Records
  <2>2. /\ dmn' \in [Daemon -> {"gone", "starting", "serving", "quitting"}]
        /\ port' \in [Daemon -> Emu \cup {None}]
    BY <1>3, <2>1, DaemonEnding DEF KillDaemon, IndInv, TypeOK, daemons
  <2>3. SharedOK'
    BY <1>3, <2>2 DEF KillDaemon, IndInv, TypeOK, SharedOK, world, record
  <2>4. Lands(c, "unlinksock", me[c].phase)
    BY <1>3, Going DEF IndInv, KillDaemon, Pcs
  <2> QED BY <1>1, <1>2, <2>3, <2>4, StoppingLanding DEF Stopping
<1>4. CASE UnlinkSocket(c)
  <2>1. SharedOK'
    BY <1>4 DEF UnlinkSocket, IndInv, TypeOK, SharedOK, world, daemons, record
  <2>2. Lands(c, "unlinkrec", me[c].phase)
    BY <1>4, Going DEF IndInv, UnlinkSocket, Pcs
  <2> QED BY <1>1, <1>2, <2>1, <2>2, StoppingLanding DEF Stopping
<1>5. CASE UnlinkRecord(c)
  <2>1. SharedOK'
    BY <1>5 DEF UnlinkRecord, UnlinkFile, IndInv, TypeOK, SharedOK, world, daemons,
       NoRecord, Records
  <2>2. Rests(c, "ok")
    BY <1>5, Finishing DEF IndInv, UnlinkRecord, Answers
  <2> QED BY <1>2, <2>1, <2>2, Resting DEF IndInv
<1> QED BY <1>3, <1>4, <1>5

LEMMA KilledIsSound ==
    ASSUME IndInv, NEW c \in Client, Killed(c)
    PROVE  Sound(c)
<1>1. SharedOK' /\ Gentle
  BY Still DEF Killed, IndInv, TypeOK, SharedOK, world, daemons
<1>2. Rests(c, "killed")
  BY Finishing DEF IndInv, Killed, Answers
<1> QED BY <1>1, <1>2, Resting DEF IndInv

-----------------------------------------------------------------------------
(* Every step keeps the invariant.                                         *)

LEMMA ContinueIsSound ==
    ASSUME IndInv, NEW c \in Client, Begin(c) \/ Continue(c) \/ Killed(c)
    PROVE  Sound(c)
BY BeginIsSound, LookingUpIsSound, SpawnIsSound, PopenFailsIsSound,
   AttemptFailsIsSound, MonitorAnswersIsSound, BreakerTripsIsSound,
   SpawnDaemonIsSound, PingAnsweredIsSound, PingFailsIsSound, SavingIsSound,
   ConnectingIsSound, UsingIsSound, StopWaitsIsSound, TerminateIsSound,
   CleaningIsSound, KilledIsSound
   DEF Continue

\* Daemons and emulators that move by themselves.
LEMMA WorldIsSound ==
    ASSUME IndInv,
           \/ \E d \in Daemon : DaemonStep(d) \/ DaemonCrashes(d)
           \/ \E e \in Emu : Boots(e) \/ Dies(e)
    PROVE  TypeOK' /\ Gentle /\ UNCHANGED me
<1>1. ASSUME NEW d \in Daemon, DaemonUp(d)
      PROVE  TypeOK' /\ Gentle /\ UNCHANGED me
  BY <1>1, Still DEF DaemonUp, Bind, IndInv, TypeOK, world, record
<1>2. ASSUME NEW d \in Daemon, DaemonGivesUp(d) \/ DaemonCrashes(d) \/ DaemonExits(d)
      PROVE  TypeOK' /\ Gentle /\ UNCHANGED me
  <2>1. /\ dmn' \in [Daemon -> {"gone", "starting", "serving", "quitting"}]
        /\ port' \in [Daemon -> Emu \cup {None}]
    BY <1>2, DaemonEnding DEF DaemonGivesUp, DaemonCrashes, DaemonExits, IndInv
  <2> QED BY <1>2, <2>1, Still
      DEF DaemonGivesUp, DaemonCrashes, DaemonExits, IndInv, TypeOK, world, record
<1>3. ASSUME NEW e \in Emu, Boots(e)
      PROVE  TypeOK' /\ Gentle /\ UNCHANGED me
  BY <1>3 DEF Boots, IndInv, TypeOK, Gentle, daemons, record
<1>4. ASSUME NEW e \in Emu, Dies(e)
      PROVE  TypeOK' /\ Gentle /\ UNCHANGED me
  BY <1>4, Killing DEF Dies, IndInv, TypeOK, daemons, record
<1> QED BY <1>1, <1>2, <1>3, <1>4 DEF DaemonStep

\* A client that does not move keeps what it knows.
LEMMA Others ==
    ASSUME IndInv, NEW o \in Client, me'[o] = me[o], Gentle
    PROVE  ClientInv(o)'
<1>1. Keeps(o)' <=> Keeps(o)
  BY DEF Keeps
<1>2. ASSUME NEW e \in me[o].kids, emu[e] = "gone"
      PROVE  emu'[e] = "gone"
  BY <1>2 DEF IndInv, TypeOK, Clients, Gentle, Known
<1>3. ASSUME me[o].pc \in Stopping
      PROVE  emu'[me[o].sess.pid] \in {"gone", "dying"}
  <2>1. me[o].sess.pid \in Emu /\ Known(me[o].sess.pid)
    BY <1>3 DEF IndInv, ClientInv, Stopping, Holding, Pcs, Known
  <2> QED BY <1>3, <2>1 DEF IndInv, ClientInv, Gentle
<1> QED BY <1>1, <1>2, <1>3 DEF IndInv, ClientInv

LEMMA Initially == Init => IndInv
BY DEF Init, IndInv, TypeOK, ClientInv, Keeps, Holding, Stopping, Idle, Clients,
   Records, NoRecord, Pcs

LEMMA Inductive == IndInv /\ [Next]_vars => IndInv'
<1> SUFFICES ASSUME IndInv, [Next]_vars PROVE IndInv'
  OBVIOUS
<1>1. ASSUME NEW c \in Client, Begin(c) \/ Continue(c) \/ Killed(c)
      PROVE  IndInv'
  <2>1. Sound(c)
    BY <1>1, ContinueIsSound
  <2>2. \A o \in Client \ {c} : ClientInv(o)'
    BY <2>1, Others DEF Sound, Steps
  <2> QED BY <2>1, <2>2 DEF Sound, IndInv
<1>2. CASE \/ \E d \in Daemon : DaemonStep(d) \/ DaemonCrashes(d)
           \/ \E e \in Emu : Boots(e) \/ Dies(e)
  <2>1. TypeOK' /\ Gentle /\ UNCHANGED me
    BY <1>2, WorldIsSound
  <2> QED BY <2>1, Others DEF IndInv
<1>3. CASE UNCHANGED vars
  BY <1>3 DEF IndInv, TypeOK, ClientInv, Keeps, vars, world, daemons, record
<1> QED BY <1>1, <1>2, <1>3 DEF Next

LEMMA Always == Spec => []IndInv
BY Initially, Inductive, PTL DEF Spec

(* Types: no interleaving of commands, crashes and dying processes leaves a*)
(* value the code does not know.                                           *)
THEOREM TypeCorrect == Spec => []TypeOK
<1>1. IndInv => TypeOK
  BY DEF IndInv
<1> QED BY <1>1, Always, PTL

(* A stop that is about to return has ended its emulator, or told it to    *)
(* end, however many clients use the session (session.py:425).             *)
THEOREM StopIsEffective == Spec => []StopStops
<1>1. IndInv => StopStops
  BY DEF IndInv, ClientInv, StopStops, Stopping, At
<1> QED BY <1>1, Always, PTL

-----------------------------------------------------------------------------
(* Failed launches.                                                        *)

\* A client that comes to rest has ended its command; only a failed attempt and
\* a failed first ping end one as "failed", and only a bad file as "unreadable".
Ending(c) ==
    \E why \in Answers :
        /\ End(c, why)
        /\ why = "failed" => AttemptFails(c) \/ PingFails(c)
        /\ why = "unreadable" => me[c].pc = "read" /\ file # "whole"

LEMMA CommandsEnd ==
    ASSUME IndInv, NEW c \in Client, Begin(c) \/ Continue(c) \/ Killed(c)
    PROVE  me'[c].pc = "idle" => Ending(c)
<1> DEFINE Fine == me'[c].pc = "idle" => Ending(c)
<1> SUFFICES Fine
  OBVIOUS
<1> USE DEF Becomes
<1>1. me \in [Client -> Clients] /\ me[c] \in Clients
  BY DEF IndInv, TypeOK
<1>2. ASSUME NEW place \in Pcs \ {"idle"},
             Goto(c, place) \/ \E ph \in Phases : Enter(c, place, ph)
      PROVE  Fine
  BY <1>2, Going, Entering DEF IndInv, Lands, Phases
<1>3. ASSUME NEW why \in Answers \ {"failed", "unreadable"}, End(c, why) \/ Abort(c, why)
      PROVE  Fine
  <2>1. CASE End(c, why)
    BY <2>1 DEF Ending
  <2>2. CASE Abort(c, why) /\ me[c].op = "stop"
    BY <1>1, <2>2 DEF Abort, Clients
  <2> QED BY <1>3, <2>1, <2>2 DEF Abort
<1>r. ASSUME RecordLoaded(c)
      PROVE  Fine
  BY <1>1, <1>r DEF RecordLoaded, Clients
<1>4. CASE Begin(c)
  BY <1>1, <1>4 DEF Begin, Idle
<1>5. CASE Glob(c)
  BY <1>2, <1>3, <1>5 DEF Glob, NothingFound, Pcs, Phases, Answers
<1>6. CASE Read(c)
  <2>1. CASE file # "whole"
    BY <1>6, <2>1 DEF Read, At, Ending, Answers
  <2>2. CASE file = "whole"
    BY <1>1, <1>2, <1>3, <1>6, <2>2 DEF Read, Found, Pcs, Phases, Answers, Clients
  <2> QED BY <2>1, <2>2
<1>7. CASE Prune(c)
  BY <1>2, <1>3, <1>7 DEF Prune, NothingFound, Pcs, Phases, Answers
<1>8. CASE Spawn(c)
  BY <1>1, <1>8 DEF Spawn, Clients
<1>9. CASE PopenFails(c) \/ BreakerTrips(c)
  BY <1>3, <1>9 DEF PopenFails, BreakerTrips, Answers
<1>10. CASE MonitorAnswers(c) \/ SaveOpen(c)
  BY <1>2, <1>10 DEF MonitorAnswers, SaveOpen, Pcs
<1>11. CASE SpawnDaemon(c)
  BY <1>1, <1>11 DEF SpawnDaemon, Clients
<1>12. CASE PingAnswered(c)
  BY <1>1, <1>12 DEF PingAnswered, Clients
<1>13. CASE SaveWrite(c)
  BY <1>2, <1>3, <1>r, <1>13 DEF SaveWrite, Pcs, Answers
<1>14. CASE Connect(c)
  BY <1>1, <1>14 DEF Connect, Clients
<1>15. CASE ConnectFails(c)
  BY <1>2, <1>3, <1>15 DEF ConnectFails, Pcs, Phases, Answers
<1>16. CASE Use(c)
  <2>1. CASE Becomes(c, [me[c] EXCEPT !.pc = "save", !.phase = "labels", !.conn = None])
    BY <1>1, <2>1 DEF Clients
  <2>2. CASE RecordLoaded(c)
    BY <2>2, <1>r
  <2>3. CASE Abort(c, "ok") \/ End(c, "ok")
    BY <2>3, <1>3 DEF Answers
  <2> QED BY <1>16, <2>1, <2>2, <2>3 DEF Use
<1>17. CASE UseFails(c)
  BY <1>3, <1>17 DEF UseFails, Answers
<1>18. CASE StopWaits(c) \/ Terminate(c) \/ KillDaemon(c) \/ UnlinkSocket(c)
  BY <1>2, <1>3, <1>18 DEF StopWaits, Terminate, KillDaemon, UnlinkSocket, Pcs, Answers
<1>19. CASE UnlinkRecord(c) \/ Killed(c)
  BY <1>3, <1>19 DEF UnlinkRecord, Killed, Answers
<1>20. CASE AttemptFails(c)
  BY <1>1, <1>2, <1>20 DEF AttemptFails, Ending, Pcs, Answers
<1>21. CASE PingFails(c)
  BY <1>1, <1>21 DEF PingFails, Abort, Ending, Answers, Clients
<1> HIDE DEF Fine
<1> QED BY <1>4, <1>5, <1>6, <1>7, <1>8, <1>9, <1>10, <1>11, <1>12, <1>13, <1>14,
           <1>15, <1>16, <1>17, <1>18, <1>19, <1>20, <1>21 DEF Continue

LEMMA Unfailing ==
    ASSUME IndInv, NEW c \in Client, Begin(c) \/ Continue(c) \/ Killed(c),
           ~AttemptFails(c), ~PingFails(c)
    PROVE  me'[c].pc = "idle" => me'[c].answer # "failed"
BY CommandsEnd, Finishing DEF IndInv, Ending, Rests

LEMMA FailureIsClean ==
    ASSUME IndInv, [Next]_vars, NEW c \in Client
    PROVE  FailsClean(c)
<1> SUFFICES ASSUME Ends(c, "failed")
             PROVE  /\ \A e \in me[c].kids : emu'[e] = "gone"
                    /\ me[c].helper # None => dmn'[me[c].helper] = "gone"
  BY DEF FailsClean
<1>1. me'[c] # me[c] /\ me'[c].pc = "idle" /\ me'[c].answer = "failed"
  BY DEF Ends, At
<1>2. Begin(c) \/ Continue(c) \/ Killed(c)
  <2>1. ASSUME NEW o \in Client \ {c}, Begin(o) \/ Continue(o) \/ Killed(o)
        PROVE  FALSE
    BY <1>1, <2>1, ContinueIsSound DEF Sound, Steps
  <2>2. ~ \/ \E d \in Daemon : DaemonStep(d) \/ DaemonCrashes(d)
          \/ \E e \in Emu : Boots(e) \/ Dies(e)
    BY <1>1, WorldIsSound
  <2>3. ~UNCHANGED vars
    BY <1>1 DEF vars
  <2> QED BY <2>1, <2>2, <2>3 DEF Next
<1>3. AttemptFails(c) \/ PingFails(c)
  BY <1>1, <1>2, Unfailing
<1>4. CASE AttemptFails(c)
  <2>1. me[c].helper = None
    BY <1>4 DEF AttemptFails, At, IndInv, ClientInv
  <2> QED BY <1>4, <2>1, AttemptFailsIsSound
<1>5. CASE PingFails(c)
  BY <1>1, <1>5, PingFailsIsSound
<1> QED BY <1>3, <1>4, <1>5

(* A failed launch ends every emulator and the daemon it has started,      *)
(* whatever the other clients, and the processes themselves, do meanwhile  *)
(* (session.py:337, 349, 357).                                             *)
THEOREM FailedLaunchIsClean == Spec => FailedLaunchClean
<1>1. IndInv /\ [Next]_vars => [\A c \in Client : FailsClean(c)]_vars
  BY FailureIsClean
<1> QED BY <1>1, Always, PTL DEF Spec, FailedLaunchClean

-----------------------------------------------------------------------------
(* Commands that do not overlap.  Between the steps of one only emulators  *)
(* end, and daemons come up and end; so what the record, its session and   *)
(* the processes say of one another holds from command to command, and from*)
(* client to client.                                                       *)

\* Where the record file, and not a Session object, stands for the session.
Outside    == Pcs \ Holding
Session(c) == IF me[c].pc \in Outside THEN rec ELSE me[c].sess
Saving     == {"save", "write"}

\* The record is whole but in a save, and empty where there is none.
FileInv(c) ==
    /\ me[c].pc = "write" => file = "torn" /\ writers = {c}
    /\ me[c].pc # "write" => file # "torn" /\ writers = {}
    /\ IF file = "whole" THEN rec.pid \in Emu ELSE rec = NoRecord
    /\ me[c].pc \in {"read", "prune"} => file = "whole"
    /\ me[c].pc = "prune" => ~Alive(rec.pid)
    /\ me[c].pc = "spawn" => file = "absent"

\* A launch has no record and no daemon yet; anyone else's session is the
\* one that is recorded.
SessionInv(c) ==
    /\ Launching(c) => me[c].pc \in {"await", "respawn", "ping", "save", "write"}
    /\ Launching(c) /\ me[c].pc # "write" => file = "absent"
    /\ Launching(c) /\ me[c].pc \in {"await", "respawn", "ping"} => me[c].sess.daemon = None
    /\ Launching(c) /\ me[c].pc \in {"await", "respawn"} => me[c].helper = None
    /\ me[c].pc \in {"respawn", "ping"} => me[c].phase \in {"launch", "monitor"}
    /\ me[c].pc \in Holding \ Saving /\ ~Launching(c) => file = "whole" /\ rec = me[c].sess
    /\ me[c].pc = "save" /\ ~Launching(c) => file = "whole"
    /\ me[c].pc = "save" /\ me[c].phase \in {"labels", "loaded"} =>
           rec.pid = me[c].sess.pid /\ rec.daemon = me[c].sess.daemon
    /\ me[c].pc \in Saving => me[c].phase # "attach"
    /\ me[c].pc \in Outside => me[c].phase \in {"attach", "launch"}
    /\ me[c].conn # None <=> me[c].pc = "use"

\* No emulator but the session's runs that was not told to end.
EmulatorInv(c) ==
    \A e \in Emu : emu[e] \in {"booting", "up"} => e = Session(c).pid

\* The daemon that may run, if any.
Running(c) ==
    IF me[c].pc = "ping" THEN me[c].helper
    ELSE IF me[c].pc \in {"respawn", "unlinksock", "unlinkrec"} THEN None
    ELSE Session(c).daemon

\* A daemon that has yet to notice that its emulator, and its record, is gone.
Leftover(c, d) ==
    file = "absent" /\ me[c].pc \in Outside /\ dmn[d] # "starting" /\ ~Alive(port[d])

\* A daemon that a killed stop has told to quit, beside the one that is to
\* take its place.
Quits(c, d) ==
    /\ dmn[d] = "quitting" /\ me[c].pc \in {"respawn", "ping"}
    /\ d = me[c].sess.daemon /\ port[d] = me[c].sess.pid

\* Whatever daemon serves is the session's, and at the path.
DaemonInv(c) ==
    \A d \in Daemon :
        /\ dmn[d] # "gone" => \/ d = Running(c) /\ port[d] = Session(c).pid
                              \/ Leftover(c, d)
                              \/ Quits(c, d)
        /\ dmn[d] \in {"serving", "quitting"} => path = d
        /\ dmn[d] = "starting" => me[c].pc = "ping"
        /\ dmn[d] = "quitting" => ~Alive(port[d]) \/ emu[port[d]] = "dying"

\* The program a command is about to record is the one that runs.
ProgramInv(c) ==
    /\ me[c].phase \in {"labels", "loaded"} =>
           /\ me[c].op \in {"run", "load"} /\ me[c].pc \in Saving
           /\ Alive(me[c].sess.pid) => program[me[c].sess.pid] = me[c].arg
    /\ me[c].phase = "loaded" => me[c].sess.prog = me[c].arg
    /\ me[c].pc \in {"wait", "sigterm", "killdaemon", "unlinksock", "unlinkrec"} =>
           me[c].op = "stop"
    /\ /\ me[c].pc = "idle" /\ me[c].op = "run" /\ me[c].answer = "ok"
       /\ file = "whole" /\ Alive(rec.pid)
       => rec.prog = program[rec.pid]

\* What holds of the session's world where c gives, or gave, the last command.
Serial(c) ==
    FileInv(c) /\ SessionInv(c) /\ EmulatorInv(c) /\ DaemonInv(c) /\ ProgramInv(c)

\* Between its commands a client refers to no process.
AtRest(c) ==
    me[c].pc = "idle" /\ me[c].sess = NoRecord /\ me[c].helper = None /\ me[c].conn = None
Alone(c) == \A o \in Client \ {c} : AtRest(o)

\* Lands and Rests again, with what a client knows besides.
Moved(c, place, ph) ==
    /\ me'[c].pc = place /\ me'[c].phase = ph
    /\ me'[c].op = me[c].op /\ me'[c].arg = me[c].arg /\ me'[c].sess = me[c].sess
    /\ me'[c].helper = me[c].helper /\ me'[c].conn = me[c].conn
Departs(c, why) ==
    /\ me'[c].pc = "idle" /\ me'[c].phase = "attach" /\ me'[c].op = me[c].op
    /\ me'[c].answer = why /\ me'[c].conn = None

LEMMA Moving ==
    ASSUME TypeOK, NEW c \in Client, NEW place, Goto(c, place)
    PROVE  Moved(c, place, me[c].phase)
BY DEF TypeOK, Clients, Goto, Becomes, Moved

LEMMA MovingPhase ==
    ASSUME TypeOK, NEW c \in Client, NEW place, NEW ph, Enter(c, place, ph)
    PROVE  Moved(c, place, ph)
BY DEF TypeOK, Clients, Enter, Becomes, Moved

LEMMA EndingAt ==
    ASSUME TypeOK, NEW c \in Client, NEW why, End(c, why)
    PROVE  Departs(c, why)
BY DEF TypeOK, Clients, End, Becomes, Departs, Idle

LEMMA GivingUp ==
    ASSUME TypeOK, NEW c \in Client, NEW why, Abort(c, why)
    PROVE  \/ /\ me[c].op = "stop" /\ me'[c].pc = "wait" /\ me'[c].phase = me[c].phase
              /\ me'[c].op = me[c].op /\ me'[c].arg = me[c].arg /\ me'[c].sess = me[c].sess
              /\ me'[c].helper = me[c].helper /\ me'[c].conn = None
           \/ me[c].op # "stop" /\ Departs(c, why)
<1>1. CASE me[c].op = "stop"
  <2> DEFINE r == [me[c] EXCEPT !.pc = "wait", !.conn = None]
  <2>1. me'[c] = r
    BY <1>1 DEF Abort, Becomes, TypeOK
  <2>2. /\ r.pc = "wait" /\ r.phase = me[c].phase /\ r.op = me[c].op /\ r.arg = me[c].arg
        /\ r.sess = me[c].sess /\ r.helper = me[c].helper /\ r.conn = None
    BY DEF TypeOK, Clients
  <2> QED BY <1>1, <2>1, <2>2
<1>2. CASE me[c].op # "stop"
  BY <1>2, EndingAt DEF Abort
<1> QED BY <1>1, <1>2

LEMMA WorldSerial ==
    ASSUME IndInv, NEW c \in Client, Serial(c),
           \/ \E d \in Daemon : DaemonStep(d) \/ DaemonCrashes(d)
           \/ \E e \in Emu : Boots(e) \/ Dies(e)
    PROVE  Serial(c)'
<1> USE DEF Serial, Alive
<1>t. me[c] \in Clients /\ TypeOK /\ ClientInv(c) /\ None \notin Emu /\ None \notin Daemon
  BY RegistryAssumptions DEF IndInv, TypeOK
<1>m. UNCHANGED <<me, file, rec, writers>>
  BY DEF DaemonStep, DaemonCrashes, DaemonUp, DaemonGivesUp, DaemonExits, Boots, Dies, record
<1>s. Session(c)' = Session(c) /\ Running(c)' = Running(c)
  BY <1>m DEF Session, Running
<1>a. ASSUME NEW e \in Emu, emu[e] = "gone"
      PROVE  emu'[e] = "gone"
  BY <1>a, <1>t DEF DaemonStep, DaemonCrashes, DaemonUp, DaemonGivesUp, DaemonExits, Boots,
     Dies, world, KillEmulator, TypeOK
<1>p. \A e \in Emu : emu'[e] # "gone" => program'[e] = program[e]
  BY <1>t DEF DaemonStep, DaemonCrashes, DaemonUp, DaemonGivesUp, DaemonExits, Boots, Dies,
     world, KillEmulator, TypeOK
<1>r. \A e \in Emu : emu'[e] \in {"booting", "up"} => emu[e] \in {"booting", "up"}
  BY <1>t DEF DaemonStep, DaemonCrashes, DaemonUp, DaemonGivesUp, DaemonExits, Boots, Dies,
     world, KillEmulator, TypeOK
<1>1. FileInv(c)'
  BY <1>m, <1>a, <1>t DEF FileInv, TypeOK, Records
<1>2. SessionInv(c)'
  BY <1>m DEF SessionInv, Launching
<1>3. EmulatorInv(c)'
  BY <1>r, <1>s DEF EmulatorInv
<1>5. ProgramInv(c)'
  BY <1>m, <1>a, <1>p, <1>t DEF ProgramInv, TypeOK, Clients, Records
<1>4. DaemonInv(c)'
  <2>1. ASSUME NEW d \in Daemon, DaemonUp(d) PROVE DaemonInv(c)'
    <3>1. dmn[d] = "starting" /\ dmn' = [dmn EXCEPT ![d] = "serving"] /\ path' = d
          /\ UNCHANGED <<emu, port>>
      BY <2>1 DEF DaemonUp, Bind, world
    <3>2. me[c].pc = "ping" /\ me[c].pc \notin Outside
      BY <3>1 DEF DaemonInv, Outside, Holding, Pcs
    <3>6. d = Running(c) /\ port[d] = Session(c).pid
      BY <3>1, <3>2 DEF DaemonInv, Leftover, Quits
    <3>7. \A o \in Daemon : port[o] = port[d] => dmn[o] = "starting"
      BY <2>1 DEF DaemonUp
    <3>3. \A o \in Daemon : dmn[o] # "gone" => o = d
      <4> SUFFICES ASSUME NEW o \in Daemon, dmn[o] # "gone", Quits(c, o) PROVE FALSE
        BY <3>2, <3>6 DEF DaemonInv, Leftover
      <4> QED BY <3>2, <3>6, <3>7 DEF Quits, Session
    <3>4. \A o \in Daemon \ {d} : dmn'[o] = "gone"
      BY <3>1, <3>3, <1>t DEF TypeOK
    <3>5. dmn'[d] = "serving"
      BY <3>1, <1>t DEF TypeOK
    <3> QED BY <3>1, <3>2, <3>4, <3>5, <3>6, <1>s DEF DaemonInv
  <2>2. ASSUME NEW d \in Daemon, DaemonGivesUp(d) PROVE DaemonInv(c)'
    BY <2>2, <1>t, <1>m, <1>s DEF DaemonGivesUp, EndDaemon, DaemonInv, Leftover, Quits, TypeOK, world
  <2>3. ASSUME NEW d \in Daemon, DaemonCrashes(d) PROVE DaemonInv(c)'
    BY <2>3, <1>t, <1>m, <1>s DEF DaemonCrashes, EndDaemon, DaemonInv, Leftover, Quits, TypeOK, world
  <2>4. ASSUME NEW d \in Daemon, DaemonExits(d) PROVE DaemonInv(c)'
    BY <2>4, <1>t, <1>m, <1>s DEF DaemonExits, Ended, EndDaemon, DaemonInv, Leftover, Quits,
       TypeOK, world
  <2>5. ASSUME NEW e \in Emu, Boots(e) \/ Dies(e) PROVE DaemonInv(c)'
    <3>1. UNCHANGED <<dmn, port, path>>
      BY <2>5 DEF Boots, Dies, daemons
    <3>2. \A x \in Emu : emu[x] = "dying" => emu'[x] \in {"gone", "dying"}
      BY <2>5, <1>t DEF Boots, Dies, KillEmulator, TypeOK
    <3> QED BY <3>1, <3>2, <1>a, <1>t, <1>m, <1>s DEF DaemonInv, Leftover, Quits, TypeOK
  <2> QED BY <2>1, <2>2, <2>3, <2>4, <2>5 DEF DaemonStep
<1> QED BY <1>1, <1>2, <1>3, <1>4, <1>5

\* A step of c that others do not see.
Silent == UNCHANGED <<world, daemons, path, record>>

\* The next command may be another client's.
LEMMA BeginSerial ==
    ASSUME IndInv, NEW c \in Client, Serial(c), me[c].pc = "idle",
           NEW b \in Client, AtRest(b), Begin(b)
    PROVE  Serial(b)'
<1> USE DEF Serial, Alive, Silent, world, daemons, record
<1>t. me[b] \in Clients /\ me[c] \in Clients /\ TypeOK
  BY DEF IndInv, TypeOK
<1>1. /\ me'[b].pc = "glob" /\ me'[b].phase \in {"launch", "attach"} /\ me'[b].conn = None
      /\ Silent
  BY <1>t DEF Begin, Becomes, Idle, TypeOK
<1>s. Session(c) = rec /\ Session(b)' = rec /\ Running(c) = rec.daemon /\ Running(b)' = rec.daemon
  BY <1>1, <1>t DEF Session, Running, Outside, Holding, Pcs
<1>2. FileInv(b)'
  BY <1>1, <1>t DEF FileInv
<1>3. SessionInv(b)'
  BY <1>1, <1>t DEF SessionInv, Launching, Holding, Saving
<1>4. EmulatorInv(b)'
  BY <1>1, <1>s DEF EmulatorInv
<1>5. DaemonInv(b)'
  BY <1>1, <1>t, <1>s DEF DaemonInv, Leftover, Quits, Outside, Holding, Pcs
<1>6. ProgramInv(b)'
  BY <1>1, <1>t DEF ProgramInv
<1> QED BY <1>2, <1>3, <1>4, <1>5, <1>6

\* From one place outside a session to another, or to the end.
LEMMA OutsideSerial ==
    ASSUME IndInv, NEW c \in Client, Serial(c), me[c].pc \in Outside, Silent,
           me'[c].pc \in {"idle", "glob", "read", "prune", "spawn"},
           me'[c].phase \in {"attach", "launch"}, me'[c].conn = None,
           me'[c].pc \in {"read", "prune"} => file = "whole",
           me'[c].pc = "prune" => ~Alive(rec.pid),
           me'[c].pc = "spawn" => file = "absent",
           me'[c].pc = "idle" /\ me'[c].answer = "ok" => me'[c].op # "run"
    PROVE  Serial(c)'
<1> USE DEF Serial, Alive, Silent, world, daemons, record
<1>t. me[c] \in Clients /\ TypeOK /\ ClientInv(c)
  BY DEF IndInv, TypeOK
<1>o. me'[c].pc \in Outside /\ me[c].pc # "write" /\ me'[c].pc # "write"
  BY DEF Outside, Holding, Pcs
<1>s. Session(c) = rec /\ Session(c)' = rec /\ Running(c) = rec.daemon /\ Running(c)' = rec.daemon
  BY <1>o, <1>t DEF Session, Running, Outside, Holding, Pcs
<1>2. FileInv(c)'
  BY <1>o, <1>t DEF FileInv
<1>3. SessionInv(c)'
  BY <1>o, <1>t DEF SessionInv, Launching, Outside, Holding, Saving
<1>4. EmulatorInv(c)'
  BY <1>s DEF EmulatorInv
<1>5. DaemonInv(c)'
  BY <1>o, <1>t, <1>s DEF DaemonInv, Leftover, Quits, Outside, Holding, Pcs
<1>6. ProgramInv(c)'
  BY <1>t DEF ProgramInv
<1> QED BY <1>2, <1>3, <1>4, <1>5, <1>6

LEMMA LookingUpSerial ==
    ASSUME IndInv, NEW c \in Client, Serial(c), Glob(c) \/ Read(c)
    PROVE  Serial(c)'
<1>t. me[c] \in Clients /\ TypeOK /\ ClientInv(c)
  BY DEF IndInv, TypeOK
<1>p. me[c].pc \in {"glob", "read"} /\ me[c].pc \in Outside /\ Silent
  BY DEF Glob, Read, At, Silent, Outside, Holding, Pcs
<1>c. me[c].conn = None /\ me[c].phase \in {"attach", "launch"} /\ file # "torn"
  BY <1>p, <1>t DEF Serial, SessionInv, ProgramInv, FileInv, Clients, Saving
<1>1. CASE Glob(c)
  <2>1. CASE file = "absent" /\ NothingFound(c)
    <3>1. CASE me[c].phase = "launch"
      BY <1>p, <1>c, <1>t, <2>1, <3>1, Moving, OutsideSerial DEF NothingFound, Moved
    <3>2. CASE me[c].phase # "launch" /\ me[c].op = "ensure"
      BY <1>p, <1>c, <1>t, <2>1, <3>2, MovingPhase, OutsideSerial DEF NothingFound, Moved
    <3>3. CASE me[c].phase # "launch" /\ me[c].op # "ensure"
      BY <1>p, <1>c, <1>t, <2>1, <3>3, EndingAt, OutsideSerial DEF NothingFound, Departs
    <3> QED BY <3>1, <3>2, <3>3
  <2>2. CASE file = "whole" /\ Goto(c, "read")
    BY <1>p, <1>c, <1>t, <2>2, Moving, OutsideSerial DEF Moved
  <2> QED BY <1>1, <1>c, <2>1, <2>2, <1>t DEF Glob, TypeOK
<1>2. CASE Read(c) /\ ~Alive(rec.pid)
  <2>1. file = "whole" /\ Goto(c, "prune")
    BY <1>2, <1>p, <1>c DEF Read, Serial, FileInv, At
  <2> QED BY <1>p, <1>c, <1>t, <1>2, <2>1, Moving, OutsideSerial DEF Moved
<1>3. CASE Read(c) /\ Alive(rec.pid) /\ (me[c].phase = "launch" \/ me[c].op = "ensure")
  <2>1. file = "whole" /\ \E why \in {"running", "ok"} :
                              End(c, why) /\ (why = "ok" => me[c].op = "ensure")
    BY <1>3, <1>p DEF Read, Serial, FileInv, At, Found
  <2> QED BY <1>p, <1>c, <1>t, <1>3, <2>1, EndingAt, OutsideSerial DEF Departs
<1>4. CASE Read(c) /\ Alive(rec.pid) /\ me[c].phase # "launch" /\ me[c].op # "ensure"
  <2> USE DEF Serial, Alive, Silent, world, daemons, record
  <2>1. file = "whole" /\ Becomes(c, [me[c] EXCEPT !.sess = rec, !.pc = "monitor"])
    BY <1>4, <1>p DEF Read, FileInv, At, Found
  <2>2. /\ me'[c].pc = "monitor" /\ me'[c].phase = me[c].phase /\ me'[c].op = me[c].op
        /\ me'[c].sess = rec /\ me'[c].conn = None
    BY <1>t, <1>c, <2>1 DEF TypeOK, Clients, Becomes
  <2>s. Session(c) = rec /\ Session(c)' = rec /\ Running(c) = rec.daemon /\ Running(c)' = rec.daemon
    BY <1>p, <2>2, <1>t DEF Session, Running, Outside, Holding, Pcs
  <2>3. FileInv(c)'
    BY <1>p, <2>2, <1>t DEF FileInv
  <2>4. SessionInv(c)'
    BY <1>c, <1>4, <1>p, <2>1, <2>2, <1>t DEF SessionInv, Launching, Holding, Saving
  <2>5. EmulatorInv(c)'
    BY <1>p, <2>s DEF EmulatorInv
  <2>6. DaemonInv(c)'
    <3>1. \A d \in Daemon : dmn[d] # "gone" => d = Running(c) /\ port[d] = rec.pid
      BY <1>p, <2>1, <2>s DEF DaemonInv, Leftover, Quits
    <3> QED BY <1>p, <1>4, <3>1, <1>t, <2>s, <2>2 DEF DaemonInv
  <2>7. ProgramInv(c)'
    BY <1>c, <1>4, <2>2, <1>t DEF ProgramInv
  <2> QED BY <2>3, <2>4, <2>5, <2>6, <2>7
<1> QED BY <1>1, <1>2, <1>3, <1>4

LEMMA PruneSerial ==
    ASSUME IndInv, NEW c \in Client, Serial(c), Prune(c)
    PROVE  Serial(c)'
<1> USE DEF Serial, Alive, world, daemons
<1>t. me[c] \in Clients /\ TypeOK /\ ClientInv(c) /\ None \notin Emu
  BY RegistryAssumptions DEF IndInv, TypeOK
<1>p. /\ me[c].pc = "prune" /\ me[c].pc \in Outside /\ ~Alive(rec.pid) /\ file = "whole"
      /\ UNCHANGED <<world, daemons, path>> /\ file' = "absent" /\ rec' = NoRecord /\ writers' = {}
  BY DEF Prune, At, Outside, Holding, Pcs, FileInv, UnlinkFile
<1>c. me[c].conn = None /\ me[c].phase \in {"attach", "launch"}
  BY <1>p, <1>t DEF SessionInv, ProgramInv, Clients, Saving
<1>1. /\ me'[c].pc \in {"spawn", "glob", "idle"} /\ me'[c].phase \in {"attach", "launch"}
      /\ me'[c].conn = None /\ (me'[c].pc = "idle" => me'[c].answer = "nosession")
  BY <1>t, <1>c, Moving, MovingPhase, EndingAt DEF Prune, NothingFound, Moved, Departs
<1>o. me'[c].pc \in Outside
  BY <1>1 DEF Outside, Holding, Pcs
<1>s. Session(c) = rec /\ Session(c)' = NoRecord /\ Running(c) = rec.daemon
  BY <1>p, <1>o DEF Session, Running, Outside, Holding, Pcs
<1>2. FileInv(c)'
  BY <1>1, <1>p DEF FileInv
<1>3. SessionInv(c)'
  BY <1>o, <1>1, <1>p, <1>t DEF SessionInv, Launching, Outside, Holding, Saving
<1>4. EmulatorInv(c)'
  BY <1>p, <1>s, <1>t DEF EmulatorInv, TypeOK
<1>5. DaemonInv(c)'
  BY <1>o, <1>p, <1>t, <1>s DEF DaemonInv, Leftover, Quits
<1>6. ProgramInv(c)'
  BY <1>1 DEF ProgramInv
<1> QED BY <1>2, <1>3, <1>4, <1>5, <1>6

\* Where a command that uses its session may fail.
Using == {"monitor", "respawn", "reconnect", "use", "ping"}

\* The daemons stay as they are, but for the one the command has started.
HelperGone(c) ==
    \A d \in Daemon : dmn'[d] # "gone" =>
        dmn'[d] = dmn[d] /\ port'[d] = port[d] /\ (me[c].pc = "ping" => d # me[c].helper)

\* The command fails: its session stays recorded.
LEMMA LeavingSerial ==
    ASSUME IndInv, NEW c \in Client, Serial(c), NEW why,
           me[c].pc \in Using, ~Launching(c), Departs(c, why), why # "ok",
           UNCHANGED <<emu, path, record>>,
           HelperGone(c)
    PROVE  Serial(c)'
<1> USE DEF Serial, Alive, record
<1>t. me[c] \in Clients /\ TypeOK /\ ClientInv(c) /\ None \notin Daemon
  BY RegistryAssumptions DEF IndInv, TypeOK
<1>p. file = "whole" /\ rec = me[c].sess /\ me[c].pc \in Holding \ Saving /\ me[c].pc # "write"
  BY DEF SessionInv, Using, Holding, Saving, Pcs
<1>e. /\ me'[c].pc = "idle" /\ me'[c].phase = "attach"
      /\ me'[c].answer # "ok" /\ me'[c].conn = None
  BY DEF Departs
<1>o. me'[c].pc \in Outside /\ me[c].pc \notin Outside
  BY <1>e, <1>p DEF Outside, Holding, Pcs
<1>s. Session(c) = rec /\ Session(c)' = rec /\ Running(c)' = rec.daemon
      /\ (me[c].pc \notin {"ping", "respawn"} => Running(c) = rec.daemon)
      /\ (me[c].pc = "respawn" => Running(c) = None)
  BY <1>p, <1>o, <1>e DEF Session, Running, Using
<1>2. FileInv(c)'
  BY <1>p, <1>e DEF FileInv
<1>3. SessionInv(c)'
  BY <1>e DEF SessionInv, Launching, Holding, Saving
<1>4. EmulatorInv(c)'
  BY <1>s DEF EmulatorInv
<1>5. DaemonInv(c)'
  <2>1. ASSUME NEW d \in Daemon, dmn'[d] # "gone"
        PROVE  d = rec.daemon /\ port[d] = rec.pid /\ dmn[d] # "starting"
    <3>1. dmn[d] # "gone" /\ (me[c].pc = "ping" => d # me[c].helper)
      BY <2>1 DEF HelperGone
    <3>2. d # Running(c) => Quits(c, d)
      BY <3>1, <1>o DEF DaemonInv, Leftover
    <3>3. CASE Quits(c, d)
      BY <3>3, <1>p DEF Quits
    <3>4. CASE d = Running(c) /\ ~Quits(c, d)
      <4>1. me[c].pc \notin {"ping", "respawn"}
        BY <3>1, <3>4, <1>t DEF Running
      <4> QED BY <4>1, <3>1, <3>4, <1>o, <1>s DEF DaemonInv, Leftover
    <3> QED BY <3>2, <3>3, <3>4
  <2> QED BY <2>1, <1>s DEF DaemonInv, HelperGone
<1>6. ProgramInv(c)'
  BY <1>e DEF ProgramInv
<1> QED BY <1>2, <1>3, <1>4, <1>5, <1>6

\* A stop goes on without the daemon.
LEMMA WaitingSerial ==
    ASSUME IndInv, NEW c \in Client, Serial(c),
           me[c].pc \in Using, me[c].op = "stop",
           me'[c].pc = "wait", me'[c].phase = me[c].phase, me'[c].op = "stop",
           me'[c].sess = me[c].sess, me'[c].conn = None,
           UNCHANGED <<emu, program, path, record>>,
           HelperGone(c)
    PROVE  Serial(c)'
<1> USE DEF Serial, Alive, record
<1>t. me[c] \in Clients /\ TypeOK /\ ClientInv(c) /\ None \notin Daemon
  BY RegistryAssumptions DEF IndInv, TypeOK
<1>l. me[c].phase # "launch" /\ ~Launching(c)
  BY <1>t DEF ClientInv, Launching
<1>p. file = "whole" /\ rec = me[c].sess /\ me[c].pc \in Holding \ Saving /\ me[c].pc # "write"
      /\ me'[c].pc \in Holding
  BY <1>l DEF SessionInv, Using, Holding, Saving, Pcs
<1>o. me'[c].pc \notin Outside /\ me[c].pc \notin Outside
  BY <1>p DEF Outside
<1>s. Session(c) = rec /\ Session(c)' = rec /\ Running(c)' = rec.daemon
      /\ (me[c].pc \notin {"ping", "respawn"} => Running(c) = rec.daemon)
      /\ (me[c].pc = "respawn" => Running(c) = None)
  BY <1>p, <1>o DEF Session, Running, Using
<1>2. FileInv(c)'
  BY <1>p DEF FileInv
<1>3. SessionInv(c)'
  BY <1>l, <1>p, <1>o DEF SessionInv, Launching, Saving
<1>4. EmulatorInv(c)'
  BY <1>s DEF EmulatorInv
<1>5. DaemonInv(c)'
  <2>1. ASSUME NEW d \in Daemon, dmn'[d] # "gone"
        PROVE  d = rec.daemon /\ port[d] = rec.pid /\ dmn[d] # "starting"
    <3>1. dmn[d] # "gone" /\ (me[c].pc = "ping" => d # me[c].helper)
      BY <2>1 DEF HelperGone
    <3>2. d # Running(c) => Quits(c, d)
      BY <3>1, <1>o DEF DaemonInv, Leftover
    <3>3. CASE Quits(c, d)
      BY <3>3, <1>p DEF Quits
    <3>4. CASE d = Running(c) /\ ~Quits(c, d)
      <4>1. me[c].pc \notin {"ping", "respawn"}
        BY <3>1, <3>4, <1>t DEF Running
      <4> QED BY <4>1, <3>1, <3>4, <1>o, <1>s DEF DaemonInv, Leftover
    <3> QED BY <3>2, <3>3, <3>4
  <2> QED BY <2>1, <1>s DEF DaemonInv, HelperGone
<1>6. ProgramInv(c)'
  BY <1>p DEF ProgramInv, Using, Saving
<1> QED BY <1>2, <1>3, <1>4, <1>5, <1>6

LEMMA AbortSerial ==
    ASSUME IndInv, NEW c \in Client, Serial(c), NEW why, why # "ok",
           me[c].pc \in Using, ~Launching(c), Abort(c, why),
           UNCHANGED <<emu, program, path, record>>,
           HelperGone(c)
    PROVE  Serial(c)'
BY GivingUp, LeavingSerial, WaitingSerial DEF IndInv

\* Before an emulator is started none runs, and no daemon.
LEMMA SpawnSerial ==
    ASSUME IndInv, NEW c \in Client, Serial(c), Prompt, Spawn(c)
    PROVE  Serial(c)'
<1> USE DEF Serial, Alive
<1>t. me[c] \in Clients /\ TypeOK /\ ClientInv(c) /\ None \notin Emu /\ None \notin Daemon
  BY RegistryAssumptions DEF IndInv, TypeOK
<1>p. /\ me[c].pc = "spawn" /\ me[c].pc \in Outside /\ file = "absent" /\ rec = NoRecord
      /\ UNCHANGED <<program, daemons, path, record>> /\ DaemonsSettled
      /\ me[c].phase = "launch" /\ me[c].helper = None /\ me[c].conn = None
  BY <1>t DEF Spawn, At, Outside, Holding, Pcs, FileInv, SessionInv, ClientInv
<1>u. UNCHANGED <<dmn, port, file, rec, writers, path>>
  BY <1>p DEF daemons, record
<1>s. Session(c) = NoRecord /\ Running(c) = None
  BY <1>p DEF Session, Running, NoRecord
<1>1. PICK e \in Emu :
        /\ emu' = [emu EXCEPT ![e] = "booting"]
        /\ Becomes(c, [me[c] EXCEPT !.pc = "await", !.kids = @ \cup {e},
                !.sess = [NoRecord EXCEPT !.pid = e]])
  BY DEF Spawn
<1>2. /\ me'[c].pc = "await" /\ me'[c].phase = "launch" /\ me'[c].helper = None
      /\ me'[c].conn = None /\ me'[c].sess = [NoRecord EXCEPT !.pid = e]
      /\ me'[c].op = me[c].op
  BY <1>1, <1>t, <1>p DEF TypeOK, Clients, Becomes
<1>3. me'[c].sess.pid = e /\ me'[c].sess.daemon = None
  BY <1>2 DEF NoRecord
<1>o. me'[c].pc \notin Outside /\ me'[c].pc \in Holding
  BY <1>2 DEF Outside, Holding, Pcs
<1>d. \A d \in Daemon : dmn'[d] = "gone"
  BY <1>u, <1>p, <1>s, <1>t DEF DaemonInv, Leftover, Quits, DaemonsSettled, TypeOK
<1>4. FileInv(c)'
  BY <1>u, <1>p, <1>2 DEF FileInv
<1>5. SessionInv(c)'
  BY <1>u, <1>p, <1>2, <1>3, <1>o DEF SessionInv, Launching, Saving
<1>6. EmulatorInv(c)'
  <2>1. Session(c)'.pid = e
    BY <1>3, <1>o DEF Session
  <2>2. \A x \in Emu : emu[x] \notin {"booting", "up"}
    BY <1>s, <1>t DEF EmulatorInv, NoRecord
  <2> QED BY <2>1, <2>2, <1>1, <1>t DEF EmulatorInv, TypeOK
<1>7. DaemonInv(c)'
  BY <1>d DEF DaemonInv
<1>8. ProgramInv(c)'
  BY <1>2 DEF ProgramInv
<1> QED BY <1>4, <1>5, <1>6, <1>7, <1>8

\* Enough process numbers for a daemon beside a socket file left at the path.
Spare == \A d : \E o \in Daemon : o # d

LEMMA PopenFailsSerial ==
    ASSUME IndInv, NEW c \in Client, Alone(c), Serial(c), Spare, PopenFails(c)
    PROVE  Serial(c)'
<1>t. me[c] \in Clients /\ TypeOK /\ ClientInv(c) /\ None \notin Emu /\ None \notin Daemon
  BY RegistryAssumptions DEF IndInv, TypeOK
<1>u. Silent /\ Abort(c, "noprocess")
  BY DEF PopenFails, Silent
<1>1. CASE me[c].pc = "spawn"
  <2>1. me[c].op # "stop" /\ me[c].pc \in Outside
    BY <1>1, <1>t DEF ClientInv, Outside, Holding, Pcs
  <2>2. Departs(c, "noprocess")
    BY <2>1, <1>t, <1>u, GivingUp
  <2> QED BY <2>1, <2>2, <1>u, OutsideSerial DEF Departs
<1>2. CASE me[c].pc = "respawn" /\ ~Launching(c)
  BY <1>2, <1>u, <1>t, AbortSerial DEF Using, Silent, world, daemons, HelperGone
<1>3. CASE me[c].pc = "respawn" /\ Launching(c)
  <2>2. rec = NoRecord /\ me[c].sess.daemon = None /\ me[c].helper = None /\ me[c].conn = None
    BY <1>3 DEF Serial, FileInv, SessionInv
  <2>1. \A d \in Daemon : dmn[d] = "gone"
    BY <1>3, <1>t, <2>2 DEF Serial, DaemonInv, Running, Leftover, Quits, Launching, Outside, TypeOK
  <2>3. PICK d \in Daemon : d # path
    BY DEF Spare
  <2>4. FreshDaemon(d)
    BY <2>1, <2>2, <2>3, <1>t DEF FreshDaemon, NoRecord, Alone, AtRest
  <2> QED BY <1>3, <2>4 DEF PopenFails, At
<1> QED BY <1>1, <1>2, <1>3 DEF PopenFails, At

LEMMA AttemptFailsSerial ==
    ASSUME IndInv, NEW c \in Client, Serial(c), AttemptFails(c)
    PROVE  Serial(c)'
<1> USE DEF Serial, Alive
<1>t. me[c] \in Clients /\ TypeOK /\ ClientInv(c) /\ None \notin Emu /\ None \notin Daemon
  BY RegistryAssumptions DEF IndInv, TypeOK
<1>p. /\ me[c].pc = "await" /\ me[c].pc \in Holding /\ me[c].pc \notin Outside
      /\ KillEmulator(me[c].sess.pid)
      /\ UNCHANGED <<daemons, path, record>>
      /\ me[c].phase = "launch" /\ me[c].conn = None /\ me[c].sess.pid \in Emu
  BY <1>t DEF AttemptFails, At, Outside, Holding, Pcs, SessionInv, ClientInv
<1>f. file = "absent" /\ rec = NoRecord /\ me[c].sess.daemon = None
  BY <1>p DEF SessionInv, Launching, FileInv
<1>u. UNCHANGED <<dmn, port, file, rec, writers, path>>
  BY <1>p DEF daemons, record
<1>1. (me'[c].pc = "spawn" /\ Moved(c, "spawn", "launch")) \/ Departs(c, "failed")
  BY <1>t, <1>p, Moving, EndingAt DEF AttemptFails, Moved
<1>2. /\ me'[c].pc \in {"spawn", "idle"} /\ me'[c].phase \in {"attach", "launch"}
      /\ me'[c].conn = None /\ (me'[c].pc = "idle" => me'[c].answer = "failed")
  BY <1>1, <1>p DEF Moved, Departs
<1>o. me'[c].pc \in Outside
  BY <1>2 DEF Outside, Holding, Pcs
<1>s. Session(c) = me[c].sess /\ Session(c)' = NoRecord
  BY <1>p, <1>o, <1>u, <1>f DEF Session
<1>d. \A d \in Daemon : dmn'[d] = "gone"
  BY <1>u, <1>p, <1>s, <1>f, <1>t DEF DaemonInv, Leftover, Quits, Running
<1>4. FileInv(c)'
  BY <1>u, <1>f, <1>2, <1>p DEF FileInv
<1>5. SessionInv(c)'
  BY <1>2, <1>o DEF SessionInv, Launching, Saving, Outside, Holding, Pcs
<1>6. EmulatorInv(c)'
  BY <1>p, <1>s, <1>t DEF EmulatorInv, KillEmulator, TypeOK
<1>7. DaemonInv(c)'
  BY <1>d DEF DaemonInv
<1>8. ProgramInv(c)'
  BY <1>2 DEF ProgramInv
<1> QED BY <1>4, <1>5, <1>6, <1>7, <1>8

LEMMA MonitorAnswersSerial ==
    ASSUME IndInv, NEW c \in Client, Serial(c), MonitorAnswers(c)
    PROVE  Serial(c)'
<1> USE DEF Serial, Alive
<1>t. me[c] \in Clients /\ TypeOK /\ ClientInv(c)
  BY DEF IndInv, TypeOK
<1>p. /\ me[c].pc = "await" /\ me[c].pc \in Holding /\ me[c].pc \notin Outside
      /\ UNCHANGED <<emu, program, dmn, port, path, file, rec, writers>>
      /\ me[c].phase = "launch" /\ me[c].conn = None
      /\ me[c].sess.daemon = None /\ me[c].helper = None /\ file = "absent"
  BY <1>t DEF MonitorAnswers, At, Outside, Holding, Pcs, SessionInv, ClientInv, Launching,
     world, daemons, record
<1>1. Moved(c, "respawn", "launch")
  BY <1>t, <1>p, Moving DEF MonitorAnswers
<1>o. me'[c].pc \notin Outside /\ me'[c].pc \in Holding
  BY <1>1 DEF Moved, Outside, Holding, Pcs
<1>s. Session(c) = me[c].sess /\ Session(c)' = me[c].sess
  BY <1>1, <1>p, <1>o DEF Session, Moved
<1>d. \A d \in Daemon : dmn'[d] = "gone"
  BY <1>p, <1>s, <1>t, RegistryAssumptions DEF DaemonInv, Leftover, Quits, Running
<1>4. FileInv(c)'
  BY <1>p, <1>1 DEF FileInv, Moved
<1>5. SessionInv(c)'
  BY <1>1, <1>o, <1>p DEF Moved, SessionInv, Launching, Saving
<1>6. EmulatorInv(c)'
  BY <1>p, <1>s DEF EmulatorInv
<1>7. DaemonInv(c)'
  BY <1>d DEF DaemonInv
<1>8. ProgramInv(c)'
  BY <1>1 DEF ProgramInv, Moved
<1> QED BY <1>4, <1>5, <1>6, <1>7, <1>8

LEMMA BreakerTripsSerial ==
    ASSUME IndInv, NEW c \in Client, Serial(c), BreakerTrips(c)
    PROVE  Serial(c)'
BY AbortSerial DEF BreakerTrips, At, Launching, Using, world, daemons, HelperGone

LEMMA SpawnDaemonSerial ==
    ASSUME IndInv, NEW c \in Client, Serial(c), SpawnDaemon(c)
    PROVE  Serial(c)'
<1> USE DEF Serial, Alive
<1>t. me[c] \in Clients /\ TypeOK /\ ClientInv(c) /\ None \notin Emu /\ None \notin Daemon
  BY RegistryAssumptions DEF IndInv, TypeOK
<1>p. /\ me[c].pc = "respawn" /\ me[c].pc \in Holding /\ me[c].pc \notin Outside
      /\ UNCHANGED <<emu, program, path, file, rec, writers>>
      /\ me[c].phase \in {"launch", "monitor"} /\ me[c].conn = None
  BY <1>t DEF SpawnDaemon, At, Outside, Holding, Pcs, SessionInv, world, record
<1>1. PICK d \in Daemon :
        /\ FreshDaemon(d)
        /\ dmn' = [dmn EXCEPT ![d] = "starting"]
        /\ port' = [port EXCEPT ![d] = me[c].sess.pid]
        /\ Becomes(c, [me[c] EXCEPT !.pc = "ping", !.helper = d])
  BY DEF SpawnDaemon
<1>2. /\ me'[c].pc = "ping" /\ me'[c].phase = me[c].phase /\ me'[c].op = me[c].op
      /\ me'[c].helper = d /\ me'[c].conn = None /\ me'[c].sess = me[c].sess
  BY <1>1, <1>t, <1>p DEF TypeOK, Clients, Becomes
<1>o. me'[c].pc \notin Outside /\ me'[c].pc \in Holding
  BY <1>2 DEF Outside, Holding, Pcs
<1>s. Session(c) = me[c].sess /\ Session(c)' = me[c].sess /\ Running(c) = None /\ Running(c)' = d
  BY <1>2, <1>p, <1>o DEF Session, Running
<1>d. \A o \in Daemon : dmn[o] # "gone" => Quits(c, o)
  BY <1>p, <1>s, <1>t DEF DaemonInv, Leftover
<1>4. FileInv(c)'
  BY <1>p, <1>2 DEF FileInv
<1>5. SessionInv(c)'
  BY <1>2, <1>o, <1>p DEF SessionInv, Launching, Saving
<1>6. EmulatorInv(c)'
  BY <1>p, <1>s DEF EmulatorInv
<1>7. DaemonInv(c)'
  <2>1. dmn[d] = "gone" /\ dmn'[d] = "starting" /\ port'[d] = me[c].sess.pid
    BY <1>1, <1>t DEF FreshDaemon, TypeOK
  <2>2. ASSUME NEW o \in Daemon \ {d}, dmn'[o] # "gone"
        PROVE  Quits(c, o) /\ Quits(c, o)' /\ dmn'[o] = "quitting" /\ port'[o] = port[o]
    <3>1. dmn'[o] = dmn[o] /\ port'[o] = port[o]
      BY <1>1, <1>t DEF TypeOK
    <3> QED BY <3>1, <2>2, <1>d, <1>2 DEF Quits
  <2> QED BY <2>1, <2>2, <1>2, <1>p, <1>s DEF DaemonInv, Quits
<1>8. ProgramInv(c)'
  BY <1>2, <1>p DEF ProgramInv
<1> QED BY <1>4, <1>5, <1>6, <1>7, <1>8

LEMMA PingAnsweredSerial ==
    ASSUME IndInv, NEW c \in Client, Serial(c), PingAnswered(c)
    PROVE  Serial(c)'
<1> USE DEF Serial, Alive
<1>t. me[c] \in Clients /\ TypeOK /\ ClientInv(c) /\ None \notin Emu /\ None \notin Daemon
  BY RegistryAssumptions DEF IndInv, TypeOK
<1>p. /\ me[c].pc = "ping" /\ me[c].pc \in Holding /\ me[c].pc \notin Outside
      /\ UNCHANGED <<emu, program, dmn, port, path, file, rec, writers>>
      /\ me[c].phase \in {"launch", "monitor"} /\ me[c].conn = None
      /\ path \in Daemon /\ dmn[path] = "serving" /\ me[c].helper \in Daemon
  BY <1>t DEF PingAnswered, At, Outside, Holding, Pcs, SessionInv, ClientInv, Reaches,
     world, daemons, record, TypeOK
<1>1. /\ me'[c].pc = "save" /\ me'[c].phase = me[c].phase /\ me'[c].op = me[c].op
      /\ me'[c].conn = None
      /\ me'[c].sess = [me[c].sess EXCEPT !.daemon = me[c].helper]
  BY <1>t, <1>p DEF PingAnswered, TypeOK, Clients, Becomes
<1>2. me'[c].sess.pid = me[c].sess.pid /\ me'[c].sess.daemon = me[c].helper
  BY <1>1, <1>t DEF Clients, Records
<1>o. me'[c].pc \notin Outside /\ me'[c].pc \in Holding
  BY <1>1 DEF Outside, Holding, Pcs
<1>s. /\ Session(c).pid = me[c].sess.pid /\ Session(c)'.pid = me[c].sess.pid
      /\ Running(c) = me[c].helper /\ Running(c)' = me[c].helper
  BY <1>1, <1>2, <1>p, <1>o DEF Session, Running
<1>d. \A d \in Daemon : dmn[d] # "gone" =>
          /\ d = me[c].helper /\ port[d] = me[c].sess.pid
          /\ dmn[d] = "serving" /\ path = d
  <2>1. \A d \in Daemon : dmn[d] # "gone" => d = me[c].helper /\ port[d] = me[c].sess.pid
    <3>1. \A d \in Daemon : ~Quits(c, d)
      BY <1>p DEF DaemonInv, Quits
    <3> QED BY <3>1, <1>p, <1>s DEF DaemonInv, Leftover
  <2>2. path = me[c].helper
    BY <2>1, <1>p
  <2> QED BY <2>1, <2>2, <1>p
<1>4. FileInv(c)'
  BY <1>p, <1>1 DEF FileInv
<1>5. SessionInv(c)'
  BY <1>1, <1>o, <1>p DEF SessionInv, Launching, Saving
<1>6. EmulatorInv(c)'
  BY <1>p, <1>s DEF EmulatorInv
<1>7. DaemonInv(c)'
  BY <1>d, <1>p, <1>s DEF DaemonInv
<1>8. ProgramInv(c)'
  BY <1>1, <1>p DEF ProgramInv
<1> QED BY <1>4, <1>5, <1>6, <1>7, <1>8

LEMMA PingFailsSerial ==
    ASSUME IndInv, NEW c \in Client, Serial(c), PingFails(c)
    PROVE  Serial(c)'
<1> USE DEF Serial, Alive
<1>t. me[c] \in Clients /\ TypeOK /\ ClientInv(c) /\ None \notin Emu /\ None \notin Daemon
  BY RegistryAssumptions DEF IndInv, TypeOK
<1>p. /\ me[c].pc = "ping" /\ me[c].pc \in Holding /\ me[c].pc \notin Outside
      /\ UNCHANGED <<path, record>> /\ EndDaemon(me[c].helper)
      /\ me[c].phase \in {"launch", "monitor"} /\ me[c].conn = None
      /\ me[c].sess.pid \in Emu
  BY <1>t DEF PingFails, At, Outside, Holding, Pcs, SessionInv, ClientInv
<1>1. CASE me[c].phase = "launch"
  <2>1. KillEmulator(me[c].sess.pid) /\ Departs(c, "failed")
    BY <1>1, <1>t, EndingAt DEF PingFails
  <2>2. file = "absent" /\ rec = NoRecord /\ UNCHANGED <<file, rec, writers>>
    BY <1>1, <1>p DEF SessionInv, Launching, FileInv, record
  <2>o. me'[c].pc \in Outside
    BY <2>1 DEF Departs, Outside, Holding, Pcs
  <2>s. Session(c) = me[c].sess /\ Session(c)' = NoRecord
    BY <1>p, <2>o, <2>2 DEF Session
  <2>4. FileInv(c)'
    BY <2>1, <2>2, <1>p DEF FileInv, Departs
  <2>5. SessionInv(c)'
    BY <2>1 DEF SessionInv, Launching, Saving, Holding, Departs
  <2>6. EmulatorInv(c)'
    BY <1>p, <2>1, <2>s, <1>t DEF EmulatorInv, KillEmulator, TypeOK
  <2>7. DaemonInv(c)'
    <3>1. \A d \in Daemon : ~Quits(c, d)
      BY <1>1, <1>p, <1>t DEF SessionInv, Launching, Quits
    <3>2. \A d \in Daemon : dmn'[d] = "gone"
      BY <3>1, <1>p, <1>t DEF DaemonInv, Leftover, Running, EndDaemon, TypeOK
    <3> QED BY <3>2 DEF DaemonInv
  <2>8. ProgramInv(c)'
    BY <2>1 DEF ProgramInv, Departs
  <2> QED BY <2>4, <2>5, <2>6, <2>7, <2>8
<1>2. CASE me[c].phase = "monitor"
  <2>1. UNCHANGED world /\ Abort(c, "error")
    BY <1>2 DEF PingFails
  <2>2. HelperGone(c)
    BY <1>p, <1>t DEF HelperGone, EndDaemon, TypeOK
  <2> QED BY <1>2, <1>p, <2>1, <2>2, AbortSerial DEF Using, Launching, world
<1> QED BY <1>p, <1>1, <1>2

LEMMA SaveOpenSerial ==
    ASSUME IndInv, NEW c \in Client, Serial(c), SaveOpen(c)
    PROVE  Serial(c)'
<1> USE DEF Serial, Alive
<1>t. me[c] \in Clients /\ TypeOK /\ ClientInv(c)
  BY DEF IndInv, TypeOK
<1>p. /\ me[c].pc = "save" /\ me[c].pc \in Holding /\ me[c].pc \notin Outside
      /\ UNCHANGED <<emu, program, dmn, port, path>>
      /\ file' = "torn" /\ rec' = NoRecord /\ writers' = {c}
      /\ me[c].conn = None
  BY <1>t DEF SaveOpen, At, Outside, Holding, Pcs, SessionInv, FileInv, world, daemons
<1>1. Moved(c, "write", me[c].phase)
  BY <1>t, Moving DEF SaveOpen
<1>o. me'[c].pc \notin Outside /\ me'[c].pc \in Holding
  BY <1>1 DEF Moved, Outside, Holding, Pcs
<1>s. /\ Session(c) = me[c].sess /\ Session(c)' = me[c].sess
      /\ Running(c) = me[c].sess.daemon /\ Running(c)' = me[c].sess.daemon
  BY <1>1, <1>p, <1>o DEF Session, Running, Moved
<1>4. FileInv(c)'
  BY <1>p, <1>1 DEF FileInv, Moved
<1>5. SessionInv(c)'
  BY <1>1, <1>o, <1>p DEF Moved, SessionInv, Launching, Saving
<1>6. EmulatorInv(c)'
  BY <1>p, <1>s DEF EmulatorInv
<1>7. DaemonInv(c)'
  BY <1>p, <1>o, <1>s, <1>1 DEF DaemonInv, Leftover, Quits, Moved
<1>8. ProgramInv(c)'
  BY <1>1, <1>p DEF ProgramInv, Moved, Saving
<1> QED BY <1>4, <1>5, <1>6, <1>7, <1>8

LEMMA SaveWriteSerial ==
    ASSUME IndInv, NEW c \in Client, Serial(c), SaveWrite(c)
    PROVE  Serial(c)'
<1> USE DEF Serial, Alive
<1>t. me[c] \in Clients /\ TypeOK /\ ClientInv(c)
  BY DEF IndInv, TypeOK
<1>p. /\ me[c].pc = "write" /\ me[c].pc \in Holding /\ me[c].pc \notin Outside
      /\ UNCHANGED <<emu, program, dmn, port, path>>
      /\ file' = "whole" /\ rec' = me[c].sess /\ writers' = {}
      /\ me[c].conn = None /\ me[c].phase \in {"launch", "monitor", "labels", "loaded"}
      /\ me[c].sess.pid \in Emu
  BY <1>t DEF ClientInv, SaveWrite, Written, At, Outside, Holding, Pcs, SessionInv,
     FileInv, Saving,
     Clients, world, daemons
<1>s. Session(c) = me[c].sess /\ Running(c) = me[c].sess.daemon
  BY <1>p DEF Session, Running
<1>d. \A d \in Daemon : dmn[d] # "gone" =>
        d = me[c].sess.daemon /\ port[d] = me[c].sess.pid /\ dmn[d] # "starting"
  BY <1>p, <1>s, <1>t DEF DaemonInv, Leftover, Quits, TypeOK
<1>1. \/ me[c].phase = "monitor" /\ Moved(c, "reconnect", "monitor")
      \/ /\ me[c].phase = "labels" /\ me[c].op = "run" /\ me'[c].pc = "save"
         /\ me'[c].phase = "loaded" /\ me'[c].op = "run" /\ me'[c].arg = me[c].arg
         /\ me'[c].conn = None
         /\ me'[c].sess = [me[c].sess EXCEPT !.prog = me[c].arg]
      \/ /\ me[c].phase # "monitor" /\ ~(me[c].phase = "labels" /\ me[c].op = "run")
         /\ Departs(c, "ok")
  <2>1. CASE me[c].phase = "monitor"
    BY <2>1, <1>t, Moving DEF SaveWrite
  <2>2. CASE me[c].phase = "labels" /\ me[c].op = "run"
    <3> DEFINE t == [me[c].sess EXCEPT !.prog = me[c].arg]
               r == [me[c] EXCEPT !.pc = "save", !.phase = "loaded", !.conn = None, !.sess = t]
    <3>1. me'[c] = r
      BY <2>2, <1>t DEF SaveWrite, RecordLoaded, Becomes, TypeOK
    <3> HIDE DEF t
    <3>2. /\ r.pc = "save" /\ r.phase = "loaded" /\ r.op = me[c].op /\ r.arg = me[c].arg
          /\ r.conn = None /\ r.sess = t
      BY <1>t DEF Clients
    <3> QED BY <2>2, <3>1, <3>2 DEF t
  <2>3. CASE me[c].phase # "monitor" /\ ~(me[c].phase = "labels" /\ me[c].op = "run")
    BY <2>3, <1>t, EndingAt DEF SaveWrite
  <2> QED BY <2>1, <2>2, <2>3
<1>2. CASE me[c].phase = "monitor" /\ Moved(c, "reconnect", "monitor")
  <2>o. me'[c].pc \notin Outside /\ me'[c].pc \in Holding
    BY <1>2 DEF Moved, Outside, Holding, Pcs
  <2>s. Session(c)' = me[c].sess /\ Running(c)' = me[c].sess.daemon
    BY <1>2, <2>o DEF Session, Running, Moved
  <2>4. FileInv(c)'
    BY <1>p, <1>2 DEF FileInv, Moved
  <2>5. SessionInv(c)'
    BY <1>2, <2>o, <1>p DEF Moved, SessionInv, Launching, Saving
  <2>6. EmulatorInv(c)'
    BY <1>p, <1>s, <2>s DEF EmulatorInv
  <2>7. DaemonInv(c)'
    BY <1>p, <1>d, <2>s DEF DaemonInv
  <2>8. ProgramInv(c)'
    BY <1>2, <1>p DEF ProgramInv, Moved, Saving
  <2> QED BY <2>4, <2>5, <2>6, <2>7, <2>8
<1>3. CASE /\ me[c].phase = "labels" /\ me[c].op = "run" /\ me'[c].pc = "save"
           /\ me'[c].phase = "loaded" /\ me'[c].op = "run" /\ me'[c].arg = me[c].arg
           /\ me'[c].conn = None
           /\ me'[c].sess = [me[c].sess EXCEPT !.prog = me[c].arg]
  <2>1. /\ me'[c].sess.pid = me[c].sess.pid /\ me'[c].sess.daemon = me[c].sess.daemon
        /\ me'[c].sess.prog = me[c].arg
    BY <1>3, <1>t DEF Clients, Records
  <2>o. me'[c].pc \notin Outside /\ me'[c].pc \in Holding
    BY <1>3 DEF Outside, Holding, Pcs
  <2>s. Session(c)'.pid = me[c].sess.pid /\ Running(c)' = me[c].sess.daemon
    BY <1>3, <2>1, <2>o DEF Session, Running
  <2>4. FileInv(c)'
    BY <1>p, <1>3 DEF FileInv
  <2>5. SessionInv(c)'
    BY <1>3, <2>o, <1>p DEF SessionInv, Launching, Saving
  <2>6. EmulatorInv(c)'
    BY <1>p, <1>s, <2>s DEF EmulatorInv
  <2>7. DaemonInv(c)'
    BY <1>p, <1>d, <2>s DEF DaemonInv
  <2>8. ProgramInv(c)'
    BY <1>3, <2>1, <1>p DEF ProgramInv, Saving
  <2> QED BY <2>4, <2>5, <2>6, <2>7, <2>8
<1>4. CASE /\ me[c].phase # "monitor" /\ ~(me[c].phase = "labels" /\ me[c].op = "run")
           /\ Departs(c, "ok")
  <2>o. me'[c].pc \in Outside
    BY <1>4 DEF Departs, Outside, Holding, Pcs
  <2>s. Session(c)' = me[c].sess /\ Running(c)' = me[c].sess.daemon
    BY <1>4, <2>o, <1>p DEF Session, Running, Departs
  <2>4. FileInv(c)'
    BY <1>p, <1>4 DEF FileInv, Departs
  <2>5. SessionInv(c)'
    BY <1>4 DEF SessionInv, Launching, Saving, Holding, Departs
  <2>6. EmulatorInv(c)'
    BY <1>p, <1>s, <2>s DEF EmulatorInv
  <2>7. DaemonInv(c)'
    BY <1>p, <1>d, <2>s DEF DaemonInv
  <2>8. ProgramInv(c)'
    <3>1. me[c].op = "run" => me[c].phase = "loaded"
      BY <1>4, <1>p, <1>t DEF ClientInv
    <3> QED BY <3>1, <1>4, <1>p DEF ProgramInv, Departs
  <2> QED BY <2>4, <2>5, <2>6, <2>7, <2>8
<1> QED BY <1>1, <1>2, <1>3, <1>4

LEMMA ConnectSerial ==
    ASSUME IndInv, NEW c \in Client, Serial(c), Connect(c)
    PROVE  Serial(c)'
<1> USE DEF Serial, Alive
<1>t. me[c] \in Clients /\ TypeOK /\ ClientInv(c) /\ None \notin Daemon
  BY RegistryAssumptions DEF IndInv, TypeOK
<1>p. /\ me[c].pc \in {"monitor", "reconnect"}
      /\ me[c].pc \in Holding \ Saving /\ me[c].pc \notin Outside
      /\ UNCHANGED <<emu, program, dmn, port, path, file, rec, writers>>
      /\ path \in Daemon /\ ~Launching(c)
  BY <1>t DEF Connect, At, Outside, Holding, Pcs, SessionInv, Reaches, Saving,
     world, daemons, record, TypeOK
<1>1. /\ me'[c].pc = "use" /\ me'[c].phase = me[c].phase /\ me'[c].op = me[c].op
      /\ me'[c].conn = path /\ me'[c].sess = me[c].sess
  BY <1>t, <1>p DEF Connect, TypeOK, Clients, Becomes
<1>o. me'[c].pc \notin Outside /\ me'[c].pc \in Holding
  BY <1>1 DEF Outside, Holding, Pcs
<1>f. file = "whole" /\ rec = me[c].sess /\ me[c].phase # "launch"
  BY <1>p DEF SessionInv, Launching
<1>s. /\ Session(c) = me[c].sess /\ Session(c)' = me[c].sess
      /\ Running(c) = me[c].sess.daemon /\ Running(c)' = me[c].sess.daemon
  BY <1>1, <1>p, <1>o DEF Session, Running
<1>4. FileInv(c)'
  BY <1>p, <1>1 DEF FileInv
<1>5. SessionInv(c)'
  BY <1>1, <1>o, <1>p, <1>f, <1>t DEF SessionInv, Launching, Saving
<1>6. EmulatorInv(c)'
  BY <1>p, <1>s DEF EmulatorInv
<1>7. DaemonInv(c)'
  BY <1>p, <1>o, <1>s, <1>1 DEF DaemonInv, Leftover, Quits
<1>8. ProgramInv(c)'
  BY <1>1, <1>p DEF ProgramInv, Saving
<1> QED BY <1>4, <1>5, <1>6, <1>7, <1>8

LEMMA ConnectFailsSerial ==
    ASSUME IndInv, NEW c \in Client, Alone(c), Serial(c), ConnectFails(c)
    PROVE  Serial(c)'
<1> USE DEF Serial, Alive
<1>t. me[c] \in Clients /\ TypeOK /\ ClientInv(c) /\ None \notin Daemon
  BY RegistryAssumptions DEF IndInv, TypeOK
<1>p. /\ me[c].pc \in {"monitor", "reconnect"}
      /\ me[c].pc \in Holding \ Saving /\ me[c].pc \notin Outside
      /\ UNCHANGED <<emu, program, dmn, port, path, file, rec, writers>>
      /\ ~Launching(c) /\ me[c].conn = None
  BY <1>t DEF ConnectFails, At, Outside, Holding, Pcs, SessionInv, Saving,
     world, daemons, record
<1>f. file = "whole" /\ rec = me[c].sess /\ me[c].phase # "launch"
  BY <1>p DEF SessionInv, Launching
<1>1. CASE me[c].pc = "reconnect"
  <2>1. Abort(c, "error")
    BY <1>1 DEF ConnectFails, At
  <2> QED BY <1>1, <1>p, <2>1, AbortSerial DEF Using, record, HelperGone
<1>2. CASE me[c].pc = "monitor"
  <2>1. Moved(c, "respawn", "monitor")
    BY <1>2, <1>t, MovingPhase DEF ConnectFails, At
  <2>o. me'[c].pc \notin Outside /\ me'[c].pc \in Holding
    BY <2>1 DEF Moved, Outside, Holding, Pcs
  <2>s. Session(c) = me[c].sess /\ Session(c)' = me[c].sess
    BY <2>1, <1>p, <2>o DEF Session, Moved
  <2>d. \A d \in Daemon : dmn[d] # "gone" =>
            dmn[d] = "quitting" /\ d = me[c].sess.daemon /\ port[d] = me[c].sess.pid
    <3>1. ~(path # None /\ dmn[path] = "serving")
      BY DEF ConnectFails, Reaches, Alone, AtRest
    <3>2. \A d \in Daemon : dmn[d] # "gone" => dmn[d] = "quitting"
      BY <3>1, <1>2, <1>p, <1>t DEF DaemonInv, TypeOK
    <3> QED BY <3>2, <1>2, <1>p, <2>s DEF DaemonInv, Leftover, Quits, Running
  <2>4. FileInv(c)'
    BY <1>p, <2>1 DEF FileInv, Moved
  <2>5. SessionInv(c)'
    BY <2>1, <2>o, <1>p, <1>f DEF SessionInv, Launching, Saving, Moved
  <2>6. EmulatorInv(c)'
    BY <1>p, <2>s DEF EmulatorInv
  <2>7. DaemonInv(c)'
    BY <2>d, <2>1, <1>p DEF DaemonInv, Quits, Moved
  <2>8. ProgramInv(c)'
    BY <2>1, <1>p DEF ProgramInv, Saving, Moved
  <2> QED BY <2>4, <2>5, <2>6, <2>7, <2>8
<1> QED BY <1>p, <1>1, <1>2

\* A client that uses its session asks its own emulator.
LEMMA EffectIsOwn ==
    ASSUME IndInv, NEW c \in Client, Serial(c), me[c].pc = "use", Effect(c)
    PROVE  /\ me[c].conn = me[c].sess.daemon /\ me[c].conn \in Daemon
           /\ port[me[c].conn] = me[c].sess.pid /\ me[c].sess.pid \in Emu
           /\ emu[me[c].sess.pid] = "up" /\ dmn[me[c].conn] = "serving"
           /\ me[c].op = "stop" =>
                /\ emu' = [emu EXCEPT ![me[c].sess.pid] = "dying"]
                /\ dmn' = [dmn EXCEPT ![me[c].conn] = "quitting"]
                /\ UNCHANGED program
           /\ me[c].op # "stop" =>
                /\ program' = [program EXCEPT ![me[c].sess.pid] = me[c].arg]
                /\ UNCHANGED <<emu, dmn>>
<1>t. me[c] \in Clients /\ TypeOK /\ ClientInv(c) /\ None \notin Daemon
  BY RegistryAssumptions DEF IndInv, TypeOK
<1>1. me[c].pc \in Holding /\ me[c].pc \notin Outside
  BY DEF Outside, Holding, Pcs
<1>2. me[c].conn \in Daemon /\ me[c].sess.pid \in Emu
  BY <1>1, <1>t DEF Serial, SessionInv, Clients, ClientInv
<1>3. Session(c) = me[c].sess /\ Running(c) = me[c].sess.daemon
  BY <1>1 DEF Session, Running
<1>4. dmn[me[c].conn] = "serving"
  BY DEF Effect
<1>5. me[c].conn = me[c].sess.daemon /\ port[me[c].conn] = me[c].sess.pid
  BY <1>1, <1>2, <1>3, <1>4 DEF Serial, DaemonInv, Leftover, Quits
<1> QED BY <1>2, <1>4, <1>5 DEF Effect

LEMMA QuitSerial ==
    ASSUME IndInv, NEW c \in Client, NEW why, Serial(c), me[c].pc = "use", me[c].op = "stop",
           Effect(c), Abort(c, why), UNCHANGED <<port, path, record>>
    PROVE  Serial(c)'
<1> USE DEF Serial, Alive
<1>t. me[c] \in Clients /\ TypeOK /\ ClientInv(c) /\ None \notin Daemon
  BY RegistryAssumptions DEF IndInv, TypeOK
<1>1. /\ me'[c].pc = "wait" /\ me'[c].phase = me[c].phase /\ me'[c].op = me[c].op
      /\ me'[c].sess = me[c].sess /\ me'[c].conn = None
  BY <1>t, GivingUp
<1>e. /\ me[c].conn = me[c].sess.daemon /\ me[c].conn \in Daemon
      /\ me[c].sess.pid \in Emu
      /\ emu' = [emu EXCEPT ![me[c].sess.pid] = "dying"]
      /\ dmn' = [dmn EXCEPT ![me[c].conn] = "quitting"]
      /\ UNCHANGED program
  BY EffectIsOwn
<1>o. /\ me[c].pc \notin Outside /\ me[c].pc \in Holding \ Saving
      /\ me'[c].pc \notin Outside /\ me'[c].pc \in Holding
  BY <1>1 DEF Outside, Holding, Pcs, Saving
<1>l. me[c].phase # "launch" /\ ~Launching(c)
  BY <1>t DEF ClientInv, Launching
<1>f. file = "whole" /\ rec = me[c].sess /\ UNCHANGED <<file, rec, writers>>
  BY <1>o, <1>l DEF SessionInv, record
<1>s. /\ Session(c) = me[c].sess /\ Session(c)' = me[c].sess
      /\ Running(c) = me[c].sess.daemon /\ Running(c)' = me[c].sess.daemon
  BY <1>1, <1>o DEF Session, Running
<1>2. FileInv(c)'
  BY <1>1, <1>f DEF FileInv
<1>3. SessionInv(c)'
  BY <1>1, <1>o, <1>l, <1>f DEF SessionInv, Launching, Saving
<1>4. EmulatorInv(c)'
  BY <1>e, <1>s, <1>t DEF EmulatorInv, TypeOK
<1>5. DaemonInv(c)'
  <2>1. \A d \in Daemon : dmn[d] # "gone" =>
            d = me[c].sess.daemon /\ port[d] = me[c].sess.pid /\ path = d
    BY <1>o, <1>s, <1>t DEF DaemonInv, Leftover, Quits, TypeOK
  <2>2. dmn[me[c].conn] = "serving"
    BY DEF Effect
  <2> QED BY <2>1, <2>2, <1>1, <1>e, <1>s, <1>t DEF DaemonInv, TypeOK
<1>6. ProgramInv(c)'
  BY <1>1, <1>o DEF ProgramInv, Saving
<1> QED BY <1>2, <1>3, <1>4, <1>5, <1>6

LEMMA UseFailsSerial ==
    ASSUME IndInv, NEW c \in Client, Serial(c), UseFails(c)
    PROVE  Serial(c)'
<1>t. TypeOK /\ me[c].pc = "use" /\ me[c].pc \in Using /\ UNCHANGED <<port, path, record>>
      /\ Abort(c, "error")
  BY DEF UseFails, At, Using, IndInv
<1>l. ~Launching(c)
  BY <1>t DEF Serial, SessionInv
<1>1. CASE UNCHANGED <<world, dmn>>
  BY <1>1, <1>t, <1>l, AbortSerial DEF world, HelperGone
<1>2. CASE Effect(c) /\ me[c].op = "stop"
  BY <1>2, <1>t, QuitSerial
<1>3. CASE Effect(c) /\ me[c].op # "stop"
  <2>1. UNCHANGED <<emu, dmn>>
    BY <1>3, <1>t, EffectIsOwn
  <2>2. Departs(c, "error")
    BY <1>3, <1>t, GivingUp
  <2> QED BY <2>1, <2>2, <1>t, <1>l, LeavingSerial DEF HelperGone
<1> QED BY <1>1, <1>2, <1>3 DEF UseFails

LEMMA UseSerial ==
    ASSUME IndInv, NEW c \in Client, Serial(c), Use(c)
    PROVE  Serial(c)'
<1> USE DEF Serial, Alive
<1>t. me[c] \in Clients /\ TypeOK /\ ClientInv(c) /\ None \notin Daemon
  BY RegistryAssumptions DEF IndInv, TypeOK
<1>p. me[c].pc = "use" /\ Effect(c) /\ UNCHANGED <<port, path, record>>
  BY DEF Use, At
<1>o. me[c].pc \notin Outside /\ me[c].pc \in Holding \ Saving
  BY <1>p DEF Outside, Holding, Pcs, Saving
<1>f. ~Launching(c) /\ file = "whole" /\ rec = me[c].sess /\ UNCHANGED <<file, rec, writers>>
      /\ writers = {}
  BY <1>o, <1>p DEF SessionInv, FileInv, record
<1>s. Session(c) = me[c].sess /\ Running(c) = me[c].sess.daemon
  BY <1>o, <1>p DEF Session, Running
<1>d. \A d \in Daemon : dmn[d] # "gone" =>
          d = me[c].sess.daemon /\ port[d] = me[c].sess.pid /\ dmn[d] # "starting"
  BY <1>o, <1>p, <1>s, <1>t DEF DaemonInv, Leftover, Quits, TypeOK
<1>1. CASE me[c].op = "stop" /\ Abort(c, "ok")
  BY <1>1, <1>p, QuitSerial
<1>2. CASE /\ me[c].op \in {"run", "load"}
           /\ Becomes(c, [me[c] EXCEPT !.pc = "save", !.phase = "labels", !.conn = None])
  <2>e. program' = [program EXCEPT ![me[c].sess.pid] = me[c].arg]
        /\ UNCHANGED <<emu, dmn>> /\ me[c].sess.pid \in Emu
    BY <1>2, <1>p, EffectIsOwn
  <2>1. /\ me'[c].pc = "save" /\ me'[c].phase = "labels" /\ me'[c].op = me[c].op
        /\ me'[c].arg = me[c].arg /\ me'[c].sess = me[c].sess /\ me'[c].conn = None
    BY <1>2, <1>t DEF Becomes, TypeOK, Clients
  <2>o. me'[c].pc \notin Outside /\ me'[c].pc \in Holding
    BY <2>1 DEF Outside, Holding, Pcs
  <2>s. Session(c)' = me[c].sess /\ Running(c)' = me[c].sess.daemon
    BY <2>1, <2>o DEF Session, Running
  <2>2. FileInv(c)'
    BY <2>1, <1>f DEF FileInv
  <2>3. SessionInv(c)'
    BY <2>1, <2>o, <1>f DEF SessionInv, Launching, Saving
  <2>4. EmulatorInv(c)'
    BY <2>e, <2>s, <1>s DEF EmulatorInv
  <2>5. DaemonInv(c)'
    BY <2>e, <2>s, <1>d, <1>p DEF DaemonInv
  <2>6. ProgramInv(c)'
    BY <1>2, <2>1, <2>e, <1>t DEF ProgramInv, Saving, TypeOK
  <2> QED BY <2>2, <2>3, <2>4, <2>5, <2>6
<1>3. CASE me[c].op = "run" /\ RecordLoaded(c)
  <2>e. program' = [program EXCEPT ![me[c].sess.pid] = me[c].arg]
        /\ UNCHANGED <<emu, dmn>> /\ me[c].sess.pid \in Emu
    BY <1>3, <1>p, EffectIsOwn
  <2>1. /\ me'[c].pc = "save" /\ me'[c].phase = "loaded" /\ me'[c].op = me[c].op
        /\ me'[c].arg = me[c].arg /\ me'[c].conn = None
        /\ me'[c].sess = [me[c].sess EXCEPT !.prog = me[c].arg]
    <3> DEFINE t == [me[c].sess EXCEPT !.prog = me[c].arg]
               r == [me[c] EXCEPT !.pc = "save", !.phase = "loaded", !.conn = None, !.sess = t]
    <3>1. me'[c] = r
      BY <1>3, <1>t DEF RecordLoaded, Becomes, TypeOK
    <3> HIDE DEF t
    <3>2. /\ r.pc = "save" /\ r.phase = "loaded" /\ r.op = me[c].op /\ r.arg = me[c].arg
          /\ r.conn = None /\ r.sess = t
      BY <1>t DEF Clients
    <3> QED BY <3>1, <3>2 DEF t
  <2>r. /\ me'[c].sess.pid = me[c].sess.pid /\ me'[c].sess.daemon = me[c].sess.daemon
        /\ me'[c].sess.prog = me[c].arg
    BY <2>1, <1>t DEF Clients, Records
  <2>o. me'[c].pc \notin Outside /\ me'[c].pc \in Holding
    BY <2>1 DEF Outside, Holding, Pcs
  <2>s. Session(c)'.pid = me[c].sess.pid /\ Running(c)' = me[c].sess.daemon
    BY <2>1, <2>r, <2>o DEF Session, Running
  <2>2. FileInv(c)'
    BY <2>1, <1>f DEF FileInv
  <2>3. SessionInv(c)'
    BY <2>1, <2>o, <1>f DEF SessionInv, Launching, Saving
  <2>4. EmulatorInv(c)'
    BY <2>e, <2>s, <1>s DEF EmulatorInv
  <2>5. DaemonInv(c)'
    BY <2>e, <2>s, <1>d, <1>p DEF DaemonInv
  <2>6. ProgramInv(c)'
    BY <1>3, <2>1, <2>r, <2>e, <1>t DEF ProgramInv, Saving, TypeOK
  <2> QED BY <2>2, <2>3, <2>4, <2>5, <2>6
<1>4. CASE me[c].op = "load" /\ End(c, "ok")
  <2>e. UNCHANGED <<emu, dmn>>
    BY <1>4, <1>p, EffectIsOwn
  <2>1. Departs(c, "ok")
    BY <1>4, <1>t, EndingAt
  <2>o. me'[c].pc \in Outside
    BY <2>1 DEF Departs, Outside, Holding, Pcs
  <2>s. Session(c)' = me[c].sess /\ Running(c)' = me[c].sess.daemon
    BY <2>1, <2>o, <1>f DEF Session, Running, Departs
  <2>2. FileInv(c)'
    BY <2>1, <1>f DEF FileInv, Departs
  <2>3. SessionInv(c)'
    BY <2>1 DEF SessionInv, Launching, Saving, Holding, Departs
  <2>4. EmulatorInv(c)'
    BY <2>e, <2>s, <1>s DEF EmulatorInv
  <2>5. DaemonInv(c)'
    BY <2>e, <2>s, <1>d, <1>p DEF DaemonInv
  <2>6. ProgramInv(c)'
    BY <1>4, <2>1 DEF ProgramInv, Departs
  <2> QED BY <2>2, <2>3, <2>4, <2>5, <2>6
<1> QED BY <1>1, <1>2, <1>3, <1>4 DEF Use

\* A step of stop that leaves the daemons alone.
LEMMA StopWaitsSerial ==
    ASSUME IndInv, NEW c \in Client, Serial(c), StopWaits(c)
    PROVE  Serial(c)'
<1> USE DEF Serial, Alive
<1>t. me[c] \in Clients /\ TypeOK /\ ClientInv(c) /\ None \notin Daemon
  BY RegistryAssumptions DEF IndInv, TypeOK
<1>p. /\ me[c].pc \in {"monitor", "wait"} /\ me[c].op = "stop"
      /\ UNCHANGED <<emu, program, dmn, port, path, file, rec, writers>>
  BY DEF StopWaits, At, ProgramInv, world, daemons, record
<1>o. me[c].pc \notin Outside /\ me[c].pc \in Holding \ Saving
  BY <1>p DEF Outside, Holding, Pcs, Saving
<1>f. /\ me[c].phase # "launch" /\ file = "whole" /\ rec = me[c].sess /\ writers = {}
      /\ me[c].conn = None
  BY <1>o, <1>p, <1>t DEF ClientInv, SessionInv, Launching, FileInv
<1>1. \E place \in {"sigterm", "killdaemon"} : Moved(c, place, me[c].phase)
  BY <1>t, Moving DEF StopWaits
<1>2. me'[c].pc \notin Outside /\ me'[c].pc \in Holding
  BY <1>1 DEF Moved, Outside, Holding, Pcs
<1>s. /\ Session(c) = me[c].sess /\ Session(c)' = me[c].sess
      /\ Running(c) = me[c].sess.daemon /\ Running(c)' = me[c].sess.daemon
  BY <1>1, <1>2, <1>o, <1>p DEF Session, Running, Moved
<1>4. FileInv(c)'
  BY <1>p, <1>f, <1>1 DEF FileInv, Moved
<1>5. SessionInv(c)'
  BY <1>1, <1>2, <1>f, <1>p DEF SessionInv, Launching, Saving, Moved
<1>6. EmulatorInv(c)'
  BY <1>p, <1>s DEF EmulatorInv
<1>7. DaemonInv(c)'
  <2>1. \A d \in Daemon : dmn[d] # "gone" =>
            d = me[c].sess.daemon /\ port[d] = me[c].sess.pid /\ dmn[d] # "starting" /\ path = d
    BY <1>o, <1>p, <1>s, <1>t DEF DaemonInv, Leftover, Quits, TypeOK
  <2> QED BY <2>1, <1>1, <1>p, <1>s DEF DaemonInv, Moved
<1>8. ProgramInv(c)'
  BY <1>1, <1>p, <1>o DEF ProgramInv, Moved, Saving
<1> QED BY <1>4, <1>5, <1>6, <1>7, <1>8

LEMMA TerminateSerial ==
    ASSUME IndInv, NEW c \in Client, Serial(c), Terminate(c)
    PROVE  Serial(c)'
<1> USE DEF Serial, Alive
<1>t. me[c] \in Clients /\ TypeOK /\ ClientInv(c) /\ None \notin Daemon
  BY RegistryAssumptions DEF IndInv, TypeOK
<1>p. /\ me[c].pc = "sigterm" /\ me[c].op = "stop"
      /\ UNCHANGED <<program, dmn, port, path, file, rec, writers>>
  BY DEF Terminate, At, ProgramInv, daemons, record
<1>o. me[c].pc \notin Outside /\ me[c].pc \in Holding \ Saving
  BY <1>p DEF Outside, Holding, Pcs, Saving
<1>f. /\ me[c].phase # "launch" /\ file = "whole" /\ rec = me[c].sess /\ writers = {}
      /\ me[c].conn = None /\ me[c].sess.pid \in Emu
  BY <1>o, <1>p, <1>t DEF ClientInv, SessionInv, Launching, FileInv
<1>s. Session(c) = me[c].sess /\ Running(c) = me[c].sess.daemon
  BY <1>o, <1>p DEF Session, Running
<1>d. \A d \in Daemon : dmn[d] # "gone" =>
          d = me[c].sess.daemon /\ port[d] = me[c].sess.pid /\ dmn[d] # "starting" /\ path = d
  BY <1>o, <1>p, <1>s, <1>t DEF DaemonInv, Leftover, Quits, TypeOK
<1>1. CASE Alive(me[c].sess.pid)
  <2>1. Moved(c, "killdaemon", me[c].phase) /\ emu' = [emu EXCEPT ![me[c].sess.pid] = "dying"]
    BY <1>1, <1>t, Moving DEF Terminate, Signal
  <2>2. me'[c].pc \notin Outside /\ me'[c].pc \in Holding
    BY <2>1 DEF Moved, Outside, Holding, Pcs
  <2>s. Session(c)' = me[c].sess /\ Running(c)' = me[c].sess.daemon
    BY <2>1, <2>2 DEF Session, Running, Moved
  <2>4. FileInv(c)'
    BY <1>p, <1>f, <2>1 DEF FileInv, Moved
  <2>5. SessionInv(c)'
    BY <2>1, <2>2, <1>f, <1>p DEF SessionInv, Launching, Saving, Moved
  <2>6. EmulatorInv(c)'
    BY <2>1, <1>s, <2>s, <1>t DEF EmulatorInv, TypeOK
  <2>7. DaemonInv(c)'
    BY <1>d, <2>1, <1>p, <2>s DEF DaemonInv, Moved
  <2>8. ProgramInv(c)'
    BY <2>1, <1>p, <1>o DEF ProgramInv, Moved, Saving
  <2> QED BY <2>4, <2>5, <2>6, <2>7, <2>8
<1>2. CASE ~Alive(me[c].sess.pid)
  <2>1. Departs(c, "noprocess") /\ UNCHANGED emu
    BY <1>2, <1>t, EndingAt DEF Terminate
  <2>2. me'[c].pc \in Outside
    BY <2>1 DEF Departs, Outside, Holding, Pcs
  <2>s. Session(c)' = me[c].sess /\ Running(c)' = me[c].sess.daemon
    BY <2>1, <2>2, <1>f, <1>p DEF Session, Running, Departs
  <2>4. FileInv(c)'
    BY <1>p, <1>f, <2>1 DEF FileInv, Departs
  <2>5. SessionInv(c)'
    BY <2>1 DEF SessionInv, Launching, Saving, Holding, Departs
  <2>6. EmulatorInv(c)'
    BY <2>1, <1>s, <2>s DEF EmulatorInv
  <2>7. DaemonInv(c)'
    BY <1>d, <1>2, <2>1, <2>2, <1>p, <2>s DEF DaemonInv
  <2>8. ProgramInv(c)'
    BY <2>1 DEF ProgramInv, Departs
  <2> QED BY <2>4, <2>5, <2>6, <2>7, <2>8
<1> QED BY <1>1, <1>2

LEMMA CleaningSerial ==
    ASSUME IndInv, NEW c \in Client, Serial(c), KillDaemon(c) \/ UnlinkSocket(c)
    PROVE  Serial(c)'
<1> USE DEF Serial, Alive
<1>t. me[c] \in Clients /\ TypeOK /\ ClientInv(c) /\ None \notin Daemon
  BY RegistryAssumptions DEF IndInv, TypeOK
<1>p. /\ me[c].pc \in {"killdaemon", "unlinksock"} /\ me[c].op = "stop"
      /\ UNCHANGED <<emu, program, file, rec, writers>>
  BY DEF KillDaemon, UnlinkSocket, At, ProgramInv, world, record
<1>o. me[c].pc \notin Outside /\ me[c].pc \in Holding \ Saving
  BY <1>p DEF Outside, Holding, Pcs, Saving
<1>f. /\ me[c].phase # "launch" /\ file = "whole" /\ rec = me[c].sess /\ writers = {}
      /\ me[c].conn = None
  BY <1>o, <1>p, <1>t DEF ClientInv, SessionInv, Launching, FileInv
<1>1. \E place \in {"unlinksock", "unlinkrec"} : Moved(c, place, me[c].phase)
  BY <1>t, Moving DEF KillDaemon, UnlinkSocket
<1>2. me'[c].pc \notin Outside /\ me'[c].pc \in Holding
  BY <1>1 DEF Moved, Outside, Holding, Pcs
<1>s. Session(c) = me[c].sess /\ Session(c)' = me[c].sess
  BY <1>1, <1>2, <1>o DEF Session, Moved
<1>d. \A d \in Daemon : dmn'[d] = "gone"
  <2>1. CASE KillDaemon(c)
    <3>1. \A d \in Daemon : dmn[d] # "gone" => d = me[c].sess.daemon
      BY <2>1, <1>o, <1>s DEF KillDaemon, At, DaemonInv, Leftover, Quits, Running
    <3> QED BY <2>1, <3>1, <1>t DEF KillDaemon, EndDaemon, daemons, TypeOK
  <2>2. CASE UnlinkSocket(c)
    BY <2>2, <1>o, <1>t DEF UnlinkSocket, At, DaemonInv, Leftover, Quits, Running, daemons
  <2> QED BY <2>1, <2>2
<1>4. FileInv(c)'
  BY <1>p, <1>f, <1>1 DEF FileInv, Moved
<1>5. SessionInv(c)'
  BY <1>1, <1>2, <1>f, <1>p DEF SessionInv, Launching, Saving, Moved
<1>6. EmulatorInv(c)'
  BY <1>p, <1>s DEF EmulatorInv
<1>7. DaemonInv(c)'
  BY <1>d DEF DaemonInv
<1>8. ProgramInv(c)'
  BY <1>1, <1>p, <1>o DEF ProgramInv, Moved, Saving
<1> QED BY <1>4, <1>5, <1>6, <1>7, <1>8

LEMMA UnlinkRecordSerial ==
    ASSUME IndInv, NEW c \in Client, Serial(c), UnlinkRecord(c)
    PROVE  Serial(c)'
<1> USE DEF Serial, Alive
<1>t. me[c] \in Clients /\ TypeOK /\ ClientInv(c) /\ None \notin Daemon /\ None \notin Emu
  BY RegistryAssumptions DEF IndInv, TypeOK
<1>p. /\ me[c].pc = "unlinkrec" /\ me[c].op = "stop" /\ Departs(c, "ok")
      /\ UNCHANGED <<emu, program, dmn, port, path>>
      /\ file' = "absent" /\ rec' = NoRecord /\ writers' = {}
      /\ emu[me[c].sess.pid] \in {"gone", "dying"}
  BY <1>t, EndingAt DEF UnlinkRecord, UnlinkFile, At, ProgramInv, ClientInv, Stopping,
     world, daemons
<1>o. me[c].pc \notin Outside /\ me'[c].pc \in Outside
  BY <1>p DEF Departs, Outside, Holding, Pcs
<1>s. Session(c) = me[c].sess /\ Session(c)' = NoRecord
  BY <1>o, <1>p DEF Session
<1>4. FileInv(c)'
  BY <1>p DEF FileInv, Departs
<1>5. SessionInv(c)'
  BY <1>p DEF SessionInv, Launching, Saving, Holding, Departs
<1>6. EmulatorInv(c)'
  BY <1>p, <1>s, <1>t DEF EmulatorInv
<1>7. DaemonInv(c)'
  BY <1>o, <1>p, <1>t DEF DaemonInv, Leftover, Quits, Running
<1>8. ProgramInv(c)'
  BY <1>p DEF ProgramInv, Departs
<1> QED BY <1>4, <1>5, <1>6, <1>7, <1>8

\* Killed anywhere else, a client leaves to the next command what a record names.
LEMMA KilledSerial ==
    ASSUME IndInv, NEW c \in Client, Serial(c), Killed(c), ~Exposed(c)
    PROVE  Serial(c)'
<1> USE DEF Serial, Alive
<1>t. me[c] \in Clients /\ TypeOK /\ ClientInv(c) /\ None \notin Daemon
  BY RegistryAssumptions DEF IndInv, TypeOK
<1>1. Departs(c, "killed") /\ UNCHANGED <<emu, program, dmn, port, path, file, rec, writers>>
  BY <1>t, EndingAt DEF Killed, Exposed, FileInv, world, daemons
<1>2. CASE me[c].pc \in Outside
  BY <1>1, <1>2, OutsideSerial DEF Departs, Silent, world, daemons, record
<1>3. CASE me[c].pc \notin Outside
  <2>p. me[c].pc \in Holding /\ ~Launching(c) /\ me[c].pc \notin {"ping", "write"}
    BY <1>t, <1>3 DEF Clients, Outside, Exposed
  <2>f. file = "whole" /\ rec.pid = me[c].sess.pid /\ rec.daemon = me[c].sess.daemon
    <3>1. CASE me[c].pc = "save"
      <4>1. me[c].phase \in {"labels", "loaded"}
        BY <2>p, <3>1, <1>t DEF SessionInv, Saving, Exposed, Launching, Clients
      <4> QED BY <2>p, <3>1, <4>1 DEF SessionInv
    <3>2. CASE me[c].pc # "save"
      BY <2>p, <3>2 DEF SessionInv, Saving
    <3> QED BY <3>1, <3>2
  <2>o. me'[c].pc \in Outside
    BY <1>1 DEF Departs, Outside, Holding, Pcs
  <2>s. Session(c) = me[c].sess /\ Session(c)' = rec /\ Running(c)' = rec.daemon
    BY <1>1, <1>3, <2>o DEF Session, Running, Departs
  <2>2. FileInv(c)'
    BY <1>1, <2>p DEF FileInv, Departs
  <2>3. SessionInv(c)'
    BY <1>1 DEF SessionInv, Launching, Holding, Saving, Departs
  <2>4. EmulatorInv(c)'
    BY <1>1, <2>f, <2>s DEF EmulatorInv
  <2>5. DaemonInv(c)'
    <3>1. \A d \in Daemon : dmn[d] # "gone" =>
              d = rec.daemon /\ port[d] = rec.pid /\ dmn[d] # "starting"
      BY <1>3, <1>t, <2>p, <2>f, <2>s DEF DaemonInv, Leftover, Quits, Running
    <3> QED BY <1>1, <3>1, <2>s DEF DaemonInv
  <2>6. ProgramInv(c)'
    BY <1>1 DEF ProgramInv, Departs
  <2> QED BY <2>2, <2>3, <2>4, <2>5, <2>6
<1> QED BY <1>2, <1>3

\* What the theorems on commands that do not overlap assume of the constants.
Peaceful == Client # {} /\ Prompt /\ Spare

LEMMA ContinueSerial ==
    ASSUME IndInv, Peaceful, Spared, NEW c \in Client, Alone(c), Serial(c),
           Continue(c) \/ Killed(c)
    PROVE  Serial(c)'
BY LookingUpSerial, PruneSerial, SpawnSerial, PopenFailsSerial,
   AttemptFailsSerial, MonitorAnswersSerial, BreakerTripsSerial, SpawnDaemonSerial,
   PingAnsweredSerial, PingFailsSerial, SaveOpenSerial, SaveWriteSerial,
   ConnectSerial, ConnectFailsSerial, UseSerial, UseFailsSerial, StopWaitsSerial,
   TerminateSerial, CleaningSerial, UnlinkRecordSerial, KilledSerial
   DEF Continue, Peaceful, Spared

LEMMA IdleWaits ==
    ASSUME NEW c \in Client, me[c].pc = "idle"
    PROVE  ~Continue(c) /\ ~Killed(c)
BY DEF Continue, Killed, At, Glob, Read, Prune, Spawn, PopenFails, AttemptFails,
   MonitorAnswers, BreakerTrips, SpawnDaemon, PingAnswered, PingFails, SaveOpen, SaveWrite,
   Connect, ConnectFails, Use, UseFails, StopWaits, Terminate, KillDaemon, UnlinkSocket,
   UnlinkRecord

LEMMA SerialStarts ==
    ASSUME NEW c \in Client, Init
    PROVE  Serial(c)
<1>1. me[c] = Idle /\ me[c].pc = "idle" /\ me[c].pc \in Outside /\ me[c].conn = None
      /\ me[c].phase = "attach" /\ me[c].op = "none"
  BY DEF Init, Idle, Outside, Holding, Pcs
<1>2. FileInv(c) /\ SessionInv(c)
  BY <1>1 DEF Init, FileInv, SessionInv, Launching, Saving, Holding
<1>3. EmulatorInv(c) /\ DaemonInv(c)
  BY DEF Init, EmulatorInv, DaemonInv
<1>4. ProgramInv(c)
  BY <1>1 DEF ProgramInv
<1> QED BY <1>2, <1>3, <1>4 DEF Serial

LEMMA SerialStill ==
    ASSUME NEW c \in Client, Serial(c), UNCHANGED vars
    PROVE  Serial(c)'
<1>1. UNCHANGED <<emu, program, dmn, port, path, file, rec, writers, me>>
  BY DEF vars, world, daemons, record
<1>2. FileInv(c)' /\ SessionInv(c)'
  BY <1>1 DEF Serial, FileInv, SessionInv, Launching, Alive
<1>3. EmulatorInv(c)'
  BY <1>1 DEF Serial, EmulatorInv, Session
<1>4. DaemonInv(c)'
  BY <1>1 DEF Serial, DaemonInv, Session, Running, Leftover, Quits, Alive
<1>5. ProgramInv(c)'
  BY <1>1 DEF Serial, ProgramInv, Alive
<1> QED BY <1>2, <1>3, <1>4, <1>5 DEF Serial

\* A command leaves its client at rest.
AllRest == \A c \in Client : me[c].pc = "idle" => AtRest(c)

LEMMA RestIsKept ==
    ASSUME IndInv, AllRest, [Next]_vars
    PROVE  AllRest'
<1> SUFFICES ASSUME NEW c \in Client, me'[c].pc = "idle" PROVE AtRest(c)'
  BY DEF AllRest
<1>1. CASE me'[c] = me[c]
  BY <1>1 DEF AllRest, AtRest
<1>2. CASE Begin(c) \/ Continue(c) \/ Killed(c)
  <2>1. PICK why \in Answers : End(c, why)
    BY <1>2, CommandsEnd DEF Ending
  <2> QED BY <2>1 DEF End, Becomes, Idle, AtRest, IndInv, TypeOK
<1>3. ASSUME NEW o \in Client \ {c}, Begin(o) \/ Continue(o) \/ Killed(o)
      PROVE  me'[c] = me[c]
  BY <1>3, ContinueIsSound DEF Sound, Steps
<1>4. ASSUME \/ \E d \in Daemon : DaemonStep(d) \/ DaemonCrashes(d)
             \/ \E e \in Emu : Boots(e) \/ Dies(e)
      PROVE  me'[c] = me[c]
  BY <1>4, WorldIsSound
<1>5. UNCHANGED vars => me'[c] = me[c]
  BY DEF vars
<1> QED BY <1>1, <1>2, <1>3, <1>4, <1>5 DEF Next

\* The world as the last client left it.
OneWorld == \E c \in Client : Serial(c) /\ Alone(c)

LEMMA TurnsKeepOneWorld ==
    ASSUME IndInv, AllRest, Peaceful, OneWorld, Turns', [Next]_vars, [Spared]_vars
    PROVE  OneWorld'
<1>1. PICK c \in Client : Serial(c) /\ Alone(c)
  BY DEF OneWorld
<1>2. AllRest'
  BY RestIsKept
<1>3. ASSUME NEW o \in Client, Begin(o)
      PROVE  OneWorld'
  <2>1. Steps(o) /\ me[o].pc = "idle" /\ me'[o].pc = "glob"
    <3>1. Steps(o) /\ me[o].pc = "idle" /\ TypeOK
      BY <1>3, BeginIsSound DEF Sound, Begin, At, IndInv
    <3> QED BY <1>3, <3>1 DEF Begin, Becomes, Idle, TypeOK
  <2>2. \A x \in Client \ {o} : me'[x].pc = "idle" /\ me[x].pc = "idle"
    BY <2>1 DEF Turns, At, Steps
  <2>3. Alone(o)'
    BY <1>2, <2>2 DEF AllRest, Alone
  <2>4. me[c].pc = "idle" /\ AtRest(o)
    BY <2>1, <2>2 DEF AllRest
  <2>5. Serial(o)'
    BY <1>1, <1>3, <2>4, BeginSerial
  <2> QED BY <2>3, <2>5 DEF OneWorld
<1>4. ASSUME NEW o \in Client, Continue(o) \/ Killed(o)
      PROVE  OneWorld'
  <2>1. o = c
    BY <1>1, <1>4, IdleWaits DEF Alone, AtRest
  <2>2. Steps(c)
    BY <1>4, <2>1, ContinueIsSound DEF Sound
  <2>3. Alone(c)'
    BY <1>1, <2>2 DEF Alone, AtRest, Steps
  <2>4. Serial(c)'
    <3>1. CASE Spared
      BY <1>1, <1>4, <2>1, <3>1, ContinueSerial
    <3>2. CASE UNCHANGED vars
      BY <1>1, <3>2, SerialStill
    <3> QED BY <3>1, <3>2
  <2> QED BY <2>3, <2>4 DEF OneWorld
<1>5. CASE \/ \E d \in Daemon : DaemonStep(d) \/ DaemonCrashes(d)
           \/ \E e \in Emu : Boots(e) \/ Dies(e)
  <2>1. Serial(c)' /\ UNCHANGED me
    BY <1>1, <1>5, WorldSerial, WorldIsSound
  <2> QED BY <1>1, <2>1 DEF OneWorld, Alone, AtRest
<1>6. CASE UNCHANGED vars
  <2>1. Serial(c)' /\ UNCHANGED me
    BY <1>1, <1>6, SerialStill DEF vars
  <2> QED BY <1>1, <2>1 DEF OneWorld, Alone, AtRest
<1> QED BY <1>3, <1>4, <1>5, <1>6 DEF Next

LEMMA OneWorldStarts ==
    ASSUME Init, Peaceful
    PROVE  AllRest /\ OneWorld
<1>1. \A c \in Client : AtRest(c)
  BY DEF Init, Idle, AtRest
<1>2. PICK c \in Client : TRUE
  BY DEF Peaceful
<1> QED BY <1>1, <1>2, SerialStarts DEF AllRest, OneWorld, Alone

LEMMA OneWorldHolds ==
    ASSUME Peaceful
    PROVE  Spec /\ []Turns /\ KillsDoNoHarm => [](IndInv /\ OneWorld)
<1>1. Init => IndInv /\ AllRest /\ OneWorld
  BY Initially, OneWorldStarts
<1>2. IndInv /\ AllRest /\ OneWorld /\ Turns' /\ [Next]_vars /\ [Spared]_vars
          => IndInv' /\ AllRest' /\ OneWorld'
  BY Inductive, RestIsKept, TurnsKeepOneWorld
<1> QED BY <1>1, <1>2, PTL DEF Spec, KillsDoNoHarm

(* Where commands do not overlap, whoever gives them, every emulator that  *)
(* was not told to end is between two commands the one the record names    *)
(* (Findable), whatever failed, timed out or died before: no command leaves*)
(* an emulator nobody can find (session.py:273-445).                       *)
THEOREM NothingIsLost ==
    ASSUME Peaceful
    PROVE  Spec /\ []Turns /\ KillsDoNoHarm => []Findable
<1>1. IndInv /\ OneWorld => Findable
  <2> SUFFICES ASSUME IndInv, NEW c \in Client, Serial(c), At(c, "idle"), NEW e \in Emu,
                      emu[e] \in {"booting", "up"}
               PROVE  file = "whole" /\ rec.pid = e
    BY DEF Findable, OneWorld
  <2>1. rec.pid = e
    BY DEF Serial, EmulatorInv, Session, Outside, Holding, Pcs, At
  <2> QED BY <2>1, RegistryAssumptions DEF Serial, FileInv, NoRecord
<1> QED BY <1>1, OneWorldHolds, PTL

(* The daemon a client is connected to serves the emulator of the client's *)
(* own session, and never that of a session before it, another client's    *)
(* included (OwnVice; session.py:384-420).                                 *)
THEOREM DaemonsAreOwn ==
    ASSUME Peaceful
    PROVE  Spec /\ []Turns /\ KillsDoNoHarm => []OwnVice
<1>1. IndInv /\ OneWorld => OwnVice
  <2> SUFFICES ASSUME IndInv, NEW c \in Client, Serial(c),
                      me[c].conn # None, dmn[me[c].conn] = "serving"
               PROVE  port[me[c].conn] = me[c].sess.pid
    BY DEF OwnVice, OneWorld, Alone, AtRest
  <2>1. me[c].pc = "use" /\ me[c].pc \notin Outside /\ me[c].conn \in Daemon
    BY DEF Serial, SessionInv, Outside, Holding, Pcs, IndInv, TypeOK, Clients
  <2> QED BY <2>1 DEF Serial, DaemonInv, Leftover, Quits, Session
<1> QED BY <1>1, OneWorldHolds, PTL

(* A daemon that holds the one monitor slot of a living emulator is at the *)
(* socket path, where the next command finds it, whoever gives it          *)
(* (Reachable; session.py:403-420).                                        *)
THEOREM DaemonsAreReached ==
    ASSUME Peaceful
    PROVE  Spec /\ []Turns /\ KillsDoNoHarm => []Reachable
<1>1. OneWorld => Reachable
  BY DEF Serial, DaemonInv, Reachable, OneWorld
<1> QED BY <1>1, OneWorldHolds, PTL

(* Once a pet run has answered, the record names the program that the      *)
(* living emulator runs, whoever ran what before it (RecordsProgram;       *)
(* session.py:229-235).                                                    *)
THEOREM ProgramsAreRecorded ==
    ASSUME Peaceful
    PROVE  Spec /\ []Turns /\ KillsDoNoHarm => []RecordsProgram
<1>1. IndInv /\ OneWorld => RecordsProgram
  <2> SUFFICES ASSUME IndInv, NEW c \in Client, Serial(c), me[c].pc = "idle",
                      me[c].op = "run", me[c].answer = "ok",
                      file = "whole", emu[rec.pid] = "up"
               PROVE  rec.prog = program[rec.pid]
    BY DEF RecordsProgram, OneWorld, At
  <2>1. rec.pid # None
    BY RegistryAssumptions DEF Serial, FileInv
  <2> QED BY <2>1 DEF Serial, ProgramInv, Alive
<1> QED BY <1>1, OneWorldHolds, PTL

(* docs/cli.md:90 holds where commands do not overlap: a session's name has*)
(* one emulator that runs (OnePet; session.py:274-382).  Two ensure        *)
(* commands that do overlap refute it.                                     *)
THEOREM NamesAreUnique ==
    ASSUME Peaceful
    PROVE  Spec /\ []Turns /\ KillsDoNoHarm => []OnePet
<1>1. OneWorld => OnePet
  BY DEF OneWorld, Serial, EmulatorInv, OnePet
<1> QED BY <1>1, OneWorldHolds, PTL

\* No command that ended has found a file it could not read.
AllReadable == \A c \in Client : me[c].pc = "idle" => me[c].answer # "unreadable"

LEMMA ReadableIsKept ==
    ASSUME IndInv, OneWorld, AllReadable, [Next]_vars
    PROVE  AllReadable'
<1> SUFFICES ASSUME NEW c \in Client, me'[c].pc = "idle"
             PROVE  me'[c].answer # "unreadable"
  BY DEF AllReadable
<1>1. CASE me'[c] = me[c]
  BY <1>1 DEF AllReadable
<1>2. CASE Begin(c) \/ Continue(c) \/ Killed(c)
  <2>1. PICK why \in Answers :
          End(c, why) /\ (why = "unreadable" => me[c].pc = "read" /\ file # "whole")
    BY <1>2, CommandsEnd DEF Ending
  <2>2. me'[c].answer = why
    BY <2>1, EndingAt DEF IndInv, Departs
  <2>3. me[c].pc = "read" => file = "whole"
    BY DEF OneWorld, Serial, FileInv, Alone, AtRest
  <2> QED BY <2>1, <2>2, <2>3
<1>3. ASSUME NEW o \in Client \ {c}, Begin(o) \/ Continue(o) \/ Killed(o)
      PROVE  me'[c] = me[c]
  BY <1>3, ContinueIsSound DEF Sound, Steps
<1>4. ASSUME \/ \E d \in Daemon : DaemonStep(d) \/ DaemonCrashes(d)
             \/ \E e \in Emu : Boots(e) \/ Dies(e)
      PROVE  me'[c] = me[c]
  BY <1>4, WorldIsSound
<1>5. UNCHANGED vars => me'[c] = me[c]
  BY DEF vars
<1> QED BY <1>1, <1>2, <1>3, <1>4, <1>5 DEF Next

(* SKILL.md:166 holds where commands do not overlap and none is killed: no *)
(* stop and no start trips over the record, whatever failed before         *)
(* (WedgeRecovers; session.py:213-223, 255-270).                           *)
THEOREM RecordsAreReadable ==
    ASSUME Peaceful
    PROVE  Spec /\ []Turns /\ KillsDoNoHarm => []WedgeRecovers
<1>1. Init => AllReadable
  BY DEF Init, Idle, AllReadable
<1>2. IndInv /\ OneWorld /\ AllReadable /\ [Next]_vars => AllReadable'
  BY ReadableIsKept
<1>3. AllReadable => WedgeRecovers
  BY DEF AllReadable, WedgeRecovers, At
<1> QED BY <1>1, <1>2, <1>3, OneWorldHolds, PTL DEF Spec
=============================================================================
