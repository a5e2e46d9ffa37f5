--------------------------- MODULE FrontendsProofs ---------------------------
(***************************************************************************)
(* For every set of processes, every repertoire of well-formed scripts and *)
(* every number of passes of a loop: no inspection sets a stopped machine  *)
(* running; a test leaves no emulator; the variables keep their types, and *)
(* an answer that a call accepts is its own.  In this order below.         *)
(***************************************************************************)
EXTENDS Frontends, MachineDataProofs, FiniteSetTheorems

(* The calls a stage may make, and those that may set the machine running. *)
Calls(stage) == {stage.body[i].call : i \in 1 .. Len(stage.body)} \cup {stage.finally}
Runners      == {"resume", "run_until"}

Calm(stage) == Calls(stage) \cap Runners = {}

(* Records with the fields that conn and a job have.                       *)
IsConn(x) == x = [open |-> x.open, by |-> x.by, stage |-> x.stage, requests |-> x.requests,
                  answers |-> x.answers]
Fields    == {"script", "k", "at", "phase", "out", "id", "poisoned", "slices"}
IsJob(j)  == j = [f \in Fields |-> j[f]]

(* A job that is under way is at a stage of a script it may run; while it  *)
(* calls, at one of the calls of a tenure or at its finally verb.          *)
Sound(c, j) ==
    /\ IsJob(j) /\ j.id \in Nat
    /\ j.phase \notin {"done", "failed"} =>
        /\ j.script \in Repertoire[c]
        /\ j.k \in 1 .. Len(j.script.stages)
    /\ j.phase = "open" => j.at = 1
    /\ j.phase \in {"call", "await"} => j.at = 0 \/ j.at \in 1 .. Len(Current(j).body)

Settled(c, j) == Sound(c, j) /\ j.phase \in {"open", "done", "failed"}

(* The inductive invariant: whatever is queued on the connection is a call *)
(* of the stage it was opened for, also when nobody waits for it any more; *)
(* and a process that calls on it is at that stage.                        *)
Queued ==
    /\ IsConn(conn)
    /\ conn.requests \in Seq([id : Nat, method : Calls(conn.stage)])

Held ==
    \A c \in Client :
        Mine(c) /\ job[c].phase \in {"call", "await"} => conn.stage = Current(job[c])

Jobs ==
    /\ job = [c \in Client |-> job[c]]
    /\ \A c \in Client : Sound(c, job[c])

IInv == Queued /\ Held /\ Jobs

-----------------------------------------------------------------------------
(* The control flow of a script stays inside it.                           *)
LEMMA Scripts ==
    ASSUME NEW c \in Client, NEW s \in Repertoire[c]
    PROVE  /\ Len(s.stages) \in Nat \ {0}
           /\ s.cleanup \in Nat \ {0} /\ s.report \in Nat \ {0}
           /\ \A k \in 1 .. Len(s.stages) : s.stages[k].polls \in 0 .. k
  BY RepertoireAssumption DEF WellFormed

LEMMA Bodies ==
    ASSUME NEW c \in Client, NEW s \in Repertoire[c], NEW k \in 1 .. Len(s.stages)
    PROVE  LET stage == s.stages[k]  n == Len(s.stages[k].body)
           IN  /\ n \in Nat
               /\ stage.kind = "tenure" => n # 0
               /\ \A i \in 1 .. n : stage.body[i].next \cup stage.body[i].last
                                        \subseteq {Done} \cup 1 .. n
  BY RepertoireAssumption DEF WellFormed

LEMMA NewJob ==
    ASSUME NEW s, NEW out
    PROVE  /\ IsJob(At(s, out)) /\ At(s, out).script = s /\ At(s, out).id = 0
           /\ At(s, out).phase = "done" /\ At(s, out).out = out
  BY Zenon DEF At, IsJob, Fields

LEMMA Entered ==
    ASSUME NEW j, IsJob(j), NEW k
    PROVE  LET e == [j EXCEPT !.k = k, !.at = 1, !.phase = "open", !.id = 0, !.poisoned = FALSE]
           IN  IsJob(e) /\ e.script = j.script /\ e.k = k /\ e.at = 1 /\ e.phase = "open" /\ e.id = 0
  BY Zenon DEF IsJob, Fields

LEMMA OverIsSettled ==
    ASSUME NEW c \in Client, NEW out
    PROVE  /\ Settled(c, Idle)
           /\ Settled(c, [At(Nothing, out) EXCEPT !.phase = "failed"])
<1>1. Settled(c, Idle)
  BY NewJob DEF Settled, Sound, Idle
<1> DEFINE j == At(Nothing, out)
           f == [j EXCEPT !.phase = "failed"]
<1>a. IsJob(j) /\ j.id = 0
  BY NewJob
<1> HIDE DEF j
<1>2. IsJob(f) /\ f.phase = "failed" /\ f.id = 0
  BY <1>a, Zenon DEF IsJob, Fields
<1> HIDE DEF f
<1>3. Settled(c, f)
  BY <1>2 DEF Settled, Sound
<1> QED
  BY <1>1, <1>3 DEF f, j

LEMMA EnterSettles ==
    ASSUME NEW c \in Client, NEW j, IsJob(j), j.script \in Repertoire[c], NEW k \in Nat \ {0}
    PROVE  Settled(c, Enter(j, k))
<1>1. CASE k > Len(j.script.stages)
  BY <1>1, OverIsSettled DEF Enter
<1>2. CASE ~(k > Len(j.script.stages))
  <2> DEFINE e == [j EXCEPT !.k = k, !.at = 1, !.phase = "open", !.id = 0, !.poisoned = FALSE]
  <2>1. Enter(j, k) = e
    BY <1>2, Zenon DEF Enter
  <2>2. k \in 1 .. Len(j.script.stages)
    BY <1>2, Scripts
  <2>3. IsJob(e) /\ e.script = j.script /\ e.k = k /\ e.at = 1 /\ e.phase = "open" /\ e.id = 0
    BY Entered, Zenon
  <2> HIDE DEF e
  <2>4. Settled(c, e)
    BY <2>2, <2>3 DEF Settled, Sound
  <2> QED
    BY <2>1, <2>4
<1> QED
  BY <1>1, <1>2

LEMMA Revised ==
    ASSUME NEW j, IsJob(j), NEW x, NEW e
    PROVE  LET both == [j EXCEPT !.slices = x, !.out = e]
               out  == [j EXCEPT !.out = e]
               pass == [j EXCEPT !.slices = x]
           IN  /\ IsJob(both) /\ both.script = j.script /\ both.k = j.k
               /\ IsJob(out) /\ out.script = j.script /\ out.k = j.k
               /\ IsJob(pass) /\ pass.script = j.script /\ pass.k = j.k
  BY Zenon DEF IsJob, Fields

LEMMA OnwardSettles ==
    ASSUME NEW c \in Client, NEW j, IsJob(j), j.script \in Repertoire[c], j.k \in Nat
    PROVE  Settled(c, Onward(j))
<1> DEFINE i == IF Loops(Current(j)) THEN [j EXCEPT !.slices = 0] ELSE j
<1>1. IsJob(i) /\ i.script \in Repertoire[c]
  BY Revised
<1>2. j.k + 1 \in Nat \ {0}
  OBVIOUS
<1>3. Onward(j) = Enter(i, j.k + 1)
  BY DEF Onward
<1> HIDE DEF i
<1> QED
  BY <1>1, <1>2, <1>3, EnterSettles

LEMMA RaisedSettles ==
    ASSUME NEW c \in Client, NEW j, IsJob(j), j.script \in Repertoire[c],
           j.k \in Nat, NEW e
    PROVE  Settled(c, Raised(j, e))
<1> DEFINE ok   == [j EXCEPT !.out = "ok"]
           both == [j EXCEPT !.slices = 0, !.out = e]
           k    == IF 1 < j.k /\ j.k < j.script.cleanup THEN j.script.cleanup
                   ELSE Len(j.script.stages) + 1
<1>1. IsJob(ok) /\ ok.script = j.script /\ ok.k = j.k /\ IsJob(both) /\ both.script = j.script
  BY Zenon DEF IsJob, Fields
<1>2. k \in Nat \ {0}
  BY Scripts
<1>3. Raised(j, e) = IF e \in Current(j).catches THEN Onward(ok) ELSE Enter(both, k)
  BY DEF Raised
<1> HIDE DEF ok, both, k
<1>4. Settled(c, Onward(ok))
  BY <1>1, OnwardSettles
<1>5. Settled(c, Enter(both, k))
  BY <1>1, <1>2, EnterSettles
<1> QED
  BY <1>3, <1>4, <1>5

LEMMA LateSettles ==
    ASSUME NEW c \in Client, NEW j, IsJob(j), j.script \in Repertoire[c]
    PROVE  Settled(c, Late(j))
<1> DEFINE ok   == [j EXCEPT !.slices = 0, !.out = "ok"]
           late == [j EXCEPT !.slices = 0, !.out = "late"]
           k    == IF j.k < j.script.cleanup THEN j.script.cleanup
                   ELSE Len(j.script.stages) + 1
<1>1. IsJob(ok) /\ ok.script = j.script /\ IsJob(late) /\ late.script = j.script
  BY Zenon DEF IsJob, Fields
<1>2. k \in Nat \ {0} /\ j.script.report \in Nat \ {0}
  BY Scripts
<1>3. Late(j) = IF Current(j).late = "report" THEN Enter(ok, j.script.report)
                ELSE Enter(late, k)
  BY DEF Late
<1> HIDE DEF ok, late, k
<1>4. Settled(c, Enter(ok, j.script.report)) /\ Settled(c, Enter(late, k))
  BY <1>1, <1>2, EnterSettles
<1> QED
  BY <1>3, <1>4

LEMMA AfterSettles ==
    ASSUME NEW c \in Client, NEW j, Sound(c, j), j.phase \notin {"done", "failed"},
           NEW nxt \in After(j)
    PROVE  Settled(c, nxt)
<1>1. /\ IsJob(j) /\ j.script \in Repertoire[c] /\ j.k \in 1 .. Len(j.script.stages)
      /\ j.k \in Nat
  BY DEF Sound
<1>2. nxt \in {Raised(j, j.out), Late(j), Onward(j), Again(j, j.k + 1 - Current(j).polls)}
  BY DEF After
<1>3. CASE nxt = Again(j, j.k + 1 - Current(j).polls)
  <2> DEFINE pass == [j EXCEPT !.slices = j.slices + 1]
             k == j.k + 1 - Current(j).polls
  <2>1. IsJob(pass) /\ pass.script = j.script
    BY <1>1, Revised
  <2>2. Current(j).polls \in 0 .. j.k
    BY <1>1, Scripts DEF Current
  <2>3. k \in Nat \ {0}
    BY <1>1, <2>2
  <2>4. Again(j, k) = Enter(pass, k)
    BY DEF Again
  <2> HIDE DEF pass, k
  <2>5. Settled(c, Enter(pass, k))
    BY <1>1, <2>1, <2>3, EnterSettles
  <2> QED
    BY <1>3, <2>4, <2>5 DEF k
<1> QED
  BY <1>1, <1>2, <1>3, RaisedSettles, LateSettles, OnwardSettles

(* The end of a body: the job stays at its stage, with its finally verb or *)
(* nothing left to call.                                                   *)
LEMMA UnwindStays ==
    ASSUME NEW c \in Client, NEW j, Sound(c, j), j.phase \in {"call", "await"}, NEW out
    PROVE  /\ Sound(c, Unwind(j, out))
           /\ Unwind(j, out).script = j.script /\ Unwind(j, out).k = j.k
           /\ Unwind(j, out).out = out
           /\ Unwind(j, out).phase = "close"
                \/ (Unwind(j, out).phase = "call" /\ Current(j).finally # "none")
<1> DEFINE phase == IF Current(j).finally = "none" \/ j.at = 0 THEN "close" ELSE "call"
           u == [j EXCEPT !.at = 0, !.out = out, !.phase = phase]
<1>1. IsJob(j) /\ j.id \in Nat /\ j.script \in Repertoire[c] /\ j.k \in 1 .. Len(j.script.stages)
  BY DEF Sound
<1>2. Unwind(j, out) = u
  BY Zenon DEF Unwind
<1>3. phase = "close" \/ (phase = "call" /\ Current(j).finally # "none")
  OBVIOUS
<1> HIDE DEF phase
<1>4. /\ IsJob(u) /\ u.script = j.script /\ u.k = j.k /\ u.id = j.id
      /\ u.at = 0 /\ u.phase = phase /\ u.out = out
  BY <1>1, Zenon DEF IsJob, Fields
<1> HIDE DEF u
<1>5. Sound(c, u)
  BY <1>1, <1>3, <1>4 DEF Sound
<1> QED
  BY <1>2, <1>3, <1>4, <1>5

LEMMA NextCall ==
    ASSUME NEW c \in Client, NEW j, Sound(c, j), j.phase = "await", j.at # 0,
           NEW n \in Followers(j), n # Done,
           NEW next, IsJob(next), next.script = j.script, next.k = j.k, next.id = j.id,
           next.at = n, next.phase = "call"
    PROVE  Sound(c, next)
<1>1. /\ j.id \in Nat /\ j.script \in Repertoire[c] /\ j.k \in 1 .. Len(j.script.stages)
      /\ j.at \in 1 .. Len(Current(j).body)
  BY DEF Sound
<1>2. n \in Current(j).body[j.at].next \cup Current(j).body[j.at].last
  BY DEF Followers
<1>3. n \in 1 .. Len(Current(j).body)
  BY <1>1, <1>2, Bodies DEF Current
<1>4. Current(next) = Current(j)
  BY DEF Current
<1> QED
  BY <1>1, <1>3, <1>4 DEF Sound

-----------------------------------------------------------------------------
(* A process changes its own job only.                                     *)
LEMMA Going ==
    ASSUME Jobs, NEW c \in Client, NEW nxt, Sound(c, nxt), Go(c, nxt)
    PROVE  /\ Jobs'
           /\ job'[c] = nxt
           /\ \A d \in Client : d # c => job'[d] = job[d]
<1>1. job' = [d \in Client |-> IF d = c THEN nxt ELSE job[d]]
  BY Zenon DEF Jobs, Go
<1>2. job'[c] = nxt /\ \A d \in Client : d # c => job'[d] = job[d]
  BY <1>1, Zenon
<1>3. job' = [d \in Client |-> job'[d]]
  BY <1>1, Zenon
<1>4. \A d \in Client : Sound(d, job'[d])
  BY <1>2, Zenon DEF Jobs
<1> QED
  BY <1>2, <1>3, <1>4, Zenon DEF Jobs

(* A process that stops calling holds nothing.                             *)
LEMMA Settles ==
    ASSUME IInv, Queued', NEW c \in Client, NEW nxt, Settled(c, nxt), Go(c, nxt),
           conn'.by = {} \/ (conn'.by = conn.by /\ conn'.stage = conn.stage)
    PROVE  IInv'
<1>1. Jobs' /\ job'[c] = nxt /\ \A d \in Client : d # c => job'[d] = job[d]
  BY Going, Zenon DEF IInv, Settled
<1>2. nxt.phase \notin {"call", "await"}
  BY DEF Settled
<1>3. Held'
  <2> SUFFICES ASSUME NEW d \in Client, conn'.by = {d}, job'[d].phase \in {"call", "await"}
               PROVE  conn'.stage = Current(job'[d])
    BY Zenon DEF Held, Mine, Current
  <2>1. d # c
    BY <1>1, <1>2
  <2>2. conn'.by # {}
    OBVIOUS
  <2> QED
    BY <1>1, <2>1, <2>2, Zenon DEF IInv, Held, Mine
<1> QED
  BY <1>1, <1>3, Zenon DEF IInv

(* One that goes on calling does so at the same stage.                     *)
LEMMA Stays ==
    ASSUME IInv, Queued', NEW c \in Client, NEW nxt, Sound(c, nxt), Go(c, nxt),
           job[c].phase \in {"call", "await"},
           nxt.script = job[c].script, nxt.k = job[c].k,
           conn'.by = conn.by, conn'.stage = conn.stage
    PROVE  IInv'
<1>1. Jobs' /\ job'[c] = nxt /\ \A d \in Client : d # c => job'[d] = job[d]
  BY Going, Zenon DEF IInv
<1>2. Current(nxt) = Current(job[c])
  BY DEF Current
<1>3. Held'
  <2> SUFFICES ASSUME NEW d \in Client, conn'.by = {d}, job'[d].phase \in {"call", "await"}
               PROVE  conn'.stage = Current(job'[d])
    BY Zenon DEF Held, Mine, Current
  <2>1. CASE d = c
    BY <1>1, <1>2, <2>1, Zenon DEF IInv, Held, Mine
  <2>2. CASE d # c
    BY <1>1, <2>2, Zenon DEF IInv, Held, Mine
  <2> QED
    BY <2>1, <2>2
<1> QED
  BY <1>1, <1>3, Zenon DEF IInv

(* Nobody holds a connection that is gone.                                 *)
LEMMA NoneHeld == Queued /\ conn' = NoConn => Queued' /\ conn'.by = {}
  BY EmptySeq DEF Queued, IsConn, NoConn

LEMMA SameQueue == Queued /\ UNCHANGED conn =>
                       Queued' /\ conn'.by = conn.by /\ conn'.stage = conn.stage
  BY DEF Queued, IsConn, Calls

LEMMA DaemonOnly ==
    ASSUME IInv, Queued', UNCHANGED job,
           conn'.by = {} \/ (conn'.by = conn.by /\ conn'.stage = conn.stage)
    PROVE  IInv'
<1>1. Jobs'
  BY DEF IInv, Jobs, Sound, Current, IsJob
<1>2. Held'
  <2> SUFFICES ASSUME NEW d \in Client, conn'.by = {d}, job'[d].phase \in {"call", "await"}
               PROVE  conn'.stage = Current(job'[d])
    BY Zenon DEF Held, Mine, Current
  <2>1. conn'.by # {}
    OBVIOUS
  <2> QED
    BY <2>1, Zenon DEF IInv, Held, Mine
<1> QED
  BY <1>1, <1>2, Zenon DEF IInv

-----------------------------------------------------------------------------
(* Each action keeps the invariant.                                        *)
LEMMA UnderWay ==
    ASSUME IInv, NEW c \in Client
    PROVE  /\ Sound(c, job[c]) /\ IsJob(job[c]) /\ job[c].id \in Nat
           /\ job[c].phase \notin {"done", "failed"} =>
                /\ job[c].script \in Repertoire[c]
                /\ job[c].k \in 1 .. Len(job[c].script.stages) /\ job[c].k \in Nat
  BY DEF IInv, Jobs, Sound

LEMMA BeginKeeps ==
    ASSUME IInv, NEW c \in Client, Begin(c)
    PROVE  IInv'
<1>1. PICK s \in Repertoire[c] : Go(c, Enter(At(s, "ok"), 1))
  BY Zenon DEF Begin
<1>2. IsJob(At(s, "ok")) /\ At(s, "ok").script \in Repertoire[c]
  BY NewJob
<1>3. Settled(c, Enter(At(s, "ok"), 1))
  BY <1>2, EnterSettles
<1>4. Queued' /\ conn'.by = conn.by /\ conn'.stage = conn.stage
  BY SameQueue DEF Begin, IInv
<1> QED
  BY <1>1, <1>3, <1>4, Settles, Zenon

LEMMA ExitKeeps ==
    ASSUME IInv, NEW c \in Client, Exit(c)
    PROVE  IInv'
<1>1. Queued' /\ conn'.by = conn.by /\ conn'.stage = conn.stage
  BY SameQueue DEF Exit, IInv
<1> QED
  BY <1>1, OverIsSettled, Settles, Zenon DEF Exit

LEMMA LaunchKeeps ==
    ASSUME IInv, NEW c \in Client, LaunchSession(c)
    PROVE  IInv'
<1>1. Go(c, Onward(job[c])) \/ Go(c, Raised(job[c], "session"))
  BY DEF LaunchSession
<1>2. Settled(c, Onward(job[c])) /\ Settled(c, Raised(job[c], "session"))
  BY UnderWay, OnwardSettles, RaisedSettles DEF LaunchSession
<1>3. Queued' /\ conn'.by = conn.by /\ conn'.stage = conn.stage
  BY SameQueue DEF LaunchSession, IInv
<1> QED
  BY <1>1, <1>2, <1>3, Settles, Zenon

LEMMA KillKeeps ==
    ASSUME IInv, NEW c \in Client, KillSession(c)
    PROVE  IInv'
<1>1. Go(c, Onward(job[c]))
  BY DEF KillSession
<1>2. Settled(c, Onward(job[c]))
  BY UnderWay, OnwardSettles DEF KillSession
<1>3. Queued' /\ conn'.by = {}
  BY NoneHeld DEF KillSession, IInv
<1> QED
  BY <1>1, <1>2, <1>3, Settles, Zenon

LEMMA ConnectFailsKeeps ==
    ASSUME IInv, NEW c \in Client, ConnectFails(c)
    PROVE  IInv'
<1>1. Go(c, Raised(job[c], "session"))
  BY DEF ConnectFails
<1>2. Settled(c, Raised(job[c], "session"))
  BY UnderWay, RaisedSettles DEF ConnectFails
<1>3. Queued' /\ conn'.by = conn.by /\ conn'.stage = conn.stage
  BY SameQueue DEF ConnectFails, IInv
<1> QED
  BY <1>1, <1>2, <1>3, Settles, Zenon

LEMMA CloseKeeps ==
    ASSUME IInv, NEW c \in Client, Close(c)
    PROVE  IInv'
<1>1. PICK nxt \in After(job[c]) : Go(c, nxt)
  BY Zenon DEF Close
<1>2. job[c].phase \notin {"done", "failed"}
  BY DEF Close
<1>3. Settled(c, nxt)
  BY <1>2, UnderWay, AfterSettles
<1>4. Queued' /\ conn'.by = conn.by /\ conn'.stage = conn.stage
  BY DEF Close, IInv, Queued, IsConn, Calls
<1> QED
  BY <1>1, <1>3, <1>4, Settles, Zenon

LEMMA ConnectKeeps ==
    ASSUME IInv, NEW c \in Client, Connect(c)
    PROVE  IInv'
<1> DEFINE j == job[c]
           nxt == [job[c] EXCEPT !.phase = "call"]
<1>1. /\ IsJob(job[c]) /\ job[c].id \in Nat /\ job[c].script \in Repertoire[c]
      /\ job[c].k \in 1 .. Len(job[c].script.stages) /\ job[c].at = 1
      /\ job[c].phase = "open" /\ Current(job[c]).kind = "tenure" /\ Go(c, nxt)
  BY UnderWay DEF Connect, Sound
<1>2. /\ conn'.by = {c} /\ conn'.stage = Current(job[c]) /\ conn'.requests = <<>>
      /\ IsConn(conn')
  BY DEF Connect, NoConn, IsConn
<1>3. Queued'
  BY <1>2, EmptySeq DEF Queued, IsConn
<1>4. /\ IsJob(nxt) /\ nxt.script = job[c].script /\ nxt.k = job[c].k /\ nxt.id = job[c].id
      /\ nxt.at = 1 /\ nxt.phase = "call"
  BY <1>1, Zenon DEF IsJob, Fields
<1>5. 1 \in 1 .. Len(Current(job[c]).body)
  BY <1>1, Bodies DEF Current
<1> HIDE DEF nxt
<1>6. Current(nxt) = Current(job[c])
  BY <1>4 DEF Current
<1>7. Sound(c, nxt)
  BY <1>1, <1>4, <1>5, <1>6 DEF Sound
<1>8. Jobs' /\ job'[c] = nxt
  BY <1>1, <1>7, Going, Zenon DEF IInv
<1>9. Held'
  <2> SUFFICES ASSUME NEW d \in Client, conn'.by = {d}
               PROVE  conn'.stage = Current(job'[d])
    BY Zenon DEF Held, Mine, Current
  <2>1. d = c
    BY <1>2
  <2> QED
    BY <1>2, <1>6, <1>8, <2>1
<1> QED
  BY <1>3, <1>8, <1>9 DEF IInv

LEMMA CallKeeps ==
    ASSUME IInv, NEW c \in Client, Call(c)
    PROVE  IInv'
<1> DEFINE next == [job[c] EXCEPT !.phase = "await", !.id = job[c].id + 1]
           request == [id |-> job[c].id + 1, method |-> Method(job[c])]
<1>1. /\ Sound(c, job[c]) /\ IsJob(job[c]) /\ job[c].id \in Nat /\ job[c].phase = "call"
      /\ job[c].script \in Repertoire[c] /\ job[c].k \in 1 .. Len(job[c].script.stages)
      /\ job[c].at = 0 \/ job[c].at \in 1 .. Len(Current(job[c]).body)
  BY UnderWay DEF Call, Sound
<1>2. /\ IsJob(next) /\ next.script = job[c].script /\ next.k = job[c].k
      /\ next.id = job[c].id + 1 /\ next.at = job[c].at /\ next.phase = "await"
  BY <1>1, Zenon DEF IsJob, Fields
<1>3. Go(c, next) \/ Go(c, Unwind(job[c], "os"))
  BY Zenon DEF Call
<1>4. Queued' /\ conn'.by = conn.by /\ conn'.stage = conn.stage
  <2>1. CASE ~Mine(c)
    BY <2>1, SameQueue DEF Call, IInv
  <2>2. CASE Mine(c)
    <3> DEFINE R == [id : Nat, method : Calls(conn.stage)]
    <3>1. conn' = [conn EXCEPT !.requests = Append(conn.requests, request)]
      BY <2>2, Zenon DEF Call
    <3>2. Method(job[c]) \in Calls(conn.stage)
      BY <1>1, <2>2 DEF IInv, Held, Method, Calls
    <3>3. request \in R
      BY <1>1, <3>2
    <3>4. IsConn(conn) /\ conn.requests \in Seq(R)
      BY DEF IInv, Queued
    <3> HIDE DEF request
    <3>5. Append(conn.requests, request) \in Seq(R)
      BY <3>3, <3>4, AppendProperties, Zenon
    <3>6. /\ IsConn(conn') /\ conn'.by = conn.by /\ conn'.stage = conn.stage
          /\ conn'.requests = Append(conn.requests, request)
      BY <3>1, <3>4 DEF IsConn
    <3> QED
      BY <3>5, <3>6, Zenon DEF Queued, Calls
  <2> QED
    BY <2>1, <2>2
<1> HIDE DEF next
<1>5. Current(next) = Current(job[c])
  BY <1>2 DEF Current
<1>6. Sound(c, next)
  BY <1>1, <1>2, <1>5 DEF Sound
<1>7. CASE Go(c, next)
  BY <1>1, <1>2, <1>4, <1>6, <1>7, Stays, Zenon
<1>8. CASE Go(c, Unwind(job[c], "os"))
  <2>1. /\ Sound(c, Unwind(job[c], "os"))
        /\ Unwind(job[c], "os").script = job[c].script /\ Unwind(job[c], "os").k = job[c].k
    BY <1>1, UnwindStays
  <2> QED
    BY <1>1, <1>4, <1>8, <2>1, Stays, Zenon
<1> QED
  BY <1>3, <1>7, <1>8

(* An answer ends the body, or leads to another of its calls.              *)
LEMMA AnsweredLeads ==
    ASSUME NEW c \in Client, Answered(c)
    PROVE  \/ \E out : Go(c, Unwind(job[c], out))
           \/ job[c].at # 0 /\ \E m : \E n \in Followers(job[c]) :
                  n # Done /\ Go(c, [job[c] EXCEPT !.at = n, !.phase = "call", !.slices = m])
<1> SUFFICES ASSUME ~\E out : Go(c, Unwind(job[c], out))
             PROVE  job[c].at # 0 /\ \E m : \E n \in Followers(job[c]) :
                        n # Done /\ Go(c, [job[c] EXCEPT !.at = n, !.phase = "call", !.slices = m])
  BY Zenon
<1>1. /\ job[c].at # 0
      /\ \E n \in Followers(job[c]) :
            IF n = Done THEN Go(c, Unwind(job[c], "ok"))
            ELSE Go(c, [job[c] EXCEPT !.at = n, !.phase = "call",
                          !.slices = IF n <= job[c].at THEN @ + 1 ELSE @])
  BY DEF Answered
<1> QED
  BY <1>1, Zenon

LEMMA AnsweredKeeps ==
    ASSUME IInv, NEW c \in Client, Answered(c)
    PROVE  IInv'
<1>1. Sound(c, job[c]) /\ job[c].phase = "await"
  BY UnderWay DEF Answered
<1>2. Queued' /\ conn'.by = conn.by /\ conn'.stage = conn.stage
  <2>1. conn' = [conn EXCEPT !.answers = Tail(conn.answers)]
    BY Zenon DEF Answered
  <2> QED
    BY <2>1 DEF IInv, Queued, IsConn, Calls
<1>3. CASE \E out : Go(c, Unwind(job[c], out))
  <2>1. PICK out : Go(c, Unwind(job[c], out))
    BY <1>3, Zenon
  <2>2. /\ Sound(c, Unwind(job[c], out))
        /\ Unwind(job[c], out).script = job[c].script /\ Unwind(job[c], out).k = job[c].k
    BY <1>1, UnwindStays
  <2> QED
    BY <1>1, <1>2, <2>1, <2>2, Stays, Zenon
<1>4. CASE job[c].at # 0 /\ \E m : \E n \in Followers(job[c]) :
              n # Done /\ Go(c, [job[c] EXCEPT !.at = n, !.phase = "call", !.slices = m])
  <2>0. PICK m : \E n \in Followers(job[c]) :
              n # Done /\ Go(c, [job[c] EXCEPT !.at = n, !.phase = "call", !.slices = m])
    BY <1>4, Zenon
  <2>1. PICK n \in Followers(job[c]) :
              n # Done /\ Go(c, [job[c] EXCEPT !.at = n, !.phase = "call", !.slices = m])
    BY <2>0, Zenon
  <2> DEFINE nxt == [job[c] EXCEPT !.at = n, !.phase = "call", !.slices = m]
  <2>2. Go(c, nxt) /\ IsJob(job[c])
    BY <2>1, UnderWay
  <2>3. job[c].at # 0 /\ n \in Followers(job[c]) /\ n # Done
    BY <1>4, <2>1, Zenon
  <2>4. /\ IsJob(nxt) /\ nxt.script = job[c].script /\ nxt.k = job[c].k /\ nxt.id = job[c].id
        /\ nxt.at = n /\ nxt.phase = "call"
    BY <2>2, Zenon DEF IsJob, Fields
  <2> HIDE DEF nxt
  <2>5. Sound(c, nxt)
    BY <1>1, <2>3, <2>4, NextCall
  <2> QED
    BY <1>1, <1>2, <2>2, <2>4, <2>5, Stays, Zenon
<1> QED
  BY <1>3, <1>4, AnsweredLeads, Zenon

LEMMA GivenUpKeeps ==
    ASSUME IInv, NEW c \in Client, TimesOut(c) \/ Lost(c)
    PROVE  IInv'
<1> DEFINE deaf == [job[c] EXCEPT !.poisoned = TRUE]
<1>1. Sound(c, job[c]) /\ IsJob(job[c]) /\ job[c].phase = "await"
  BY UnderWay DEF TimesOut, Lost
<1>2. Queued' /\ conn'.by = conn.by /\ conn'.stage = conn.stage
  BY SameQueue DEF TimesOut, Lost, IInv
<1>3. /\ IsJob(deaf) /\ deaf.script = job[c].script /\ deaf.k = job[c].k
      /\ deaf.id = job[c].id /\ deaf.at = job[c].at /\ deaf.phase = "await"
  BY <1>1, Zenon DEF IsJob, Fields
<1>4. Go(c, Unwind(deaf, "os")) \/ Go(c, Unwind(job[c], "os"))
  BY Zenon DEF TimesOut, Lost
<1> HIDE DEF deaf
<1>5. Current(deaf) = Current(job[c])
  BY <1>3 DEF Current
<1>6. Sound(c, deaf)
  BY <1>1, <1>3, <1>5 DEF Sound
<1>7. /\ Sound(c, Unwind(deaf, "os"))
      /\ Unwind(deaf, "os").script = job[c].script /\ Unwind(deaf, "os").k = job[c].k
  BY <1>3, <1>6, UnwindStays
<1>8. /\ Sound(c, Unwind(job[c], "os"))
      /\ Unwind(job[c], "os").script = job[c].script /\ Unwind(job[c], "os").k = job[c].k
  BY <1>1, UnwindStays
<1> QED
  BY <1>1, <1>2, <1>4, <1>7, <1>8, Stays, Zenon

LEMMA InterruptKeeps ==
    ASSUME IInv, NEW c \in Client, Interrupt(c)
    PROVE  IInv'
<1>1. Queued' /\ conn'.by = conn.by /\ conn'.stage = conn.stage
  BY SameQueue DEF Interrupt, IInv
<1>2. CASE job[c].phase = "open"
  <2>1. Go(c, Raised(job[c], "interrupt"))
    BY <1>2 DEF Interrupt
  <2>2. Settled(c, Raised(job[c], "interrupt"))
    BY <1>2, UnderWay, RaisedSettles
  <2> QED
    BY <1>1, <2>1, <2>2, Settles, Zenon
<1>3. CASE job[c].phase = "await"
  <2>1. Go(c, Unwind(job[c], "interrupt"))
    BY <1>3 DEF Interrupt
  <2>2. /\ Sound(c, Unwind(job[c], "interrupt"))
        /\ Unwind(job[c], "interrupt").script = job[c].script
        /\ Unwind(job[c], "interrupt").k = job[c].k
    BY <1>3, UnderWay, UnwindStays
  <2> QED
    BY <1>1, <1>3, <2>1, <2>2, Stays, Zenon
<1> QED
  BY <1>2, <1>3 DEF Interrupt

LEMMA ServeKeeps == IInv /\ Serve => IInv'
<1> SUFFICES ASSUME IInv, Serve PROVE IInv'
  OBVIOUS
<1> DEFINE R == [id : Nat, method : Calls(conn.stage)]
<1>1. IsConn(conn) /\ conn.requests \in Seq(R) /\ conn.requests # <<>>
  BY DEF IInv, Queued, Serve
<1>2. Tail(conn.requests) \in Seq(R) /\ <<>> \in Seq(R)
  BY <1>1, HeadTailProperties, EmptySeq, Zenon
<1>3. /\ IsConn(conn') /\ conn'.by = conn.by /\ conn'.stage = conn.stage
      /\ conn'.requests = Tail(conn.requests) \/ conn'.requests = <<>>
  BY <1>1 DEF IsConn, Serve
<1>4. Queued'
  BY <1>2, <1>3, Zenon DEF Queued, Calls
<1> QED
  BY <1>3, <1>4, DaemonOnly DEF Serve

LEMMA OthersKeep == IInv /\ (ServeQuit \/ EndTenure \/ Parks \/ EmulatorDies \/ UNCHANGED vars) => IInv'
<1> SUFFICES ASSUME IInv, ServeQuit \/ EndTenure \/ Parks \/ EmulatorDies \/ UNCHANGED vars
             PROVE  IInv'
  OBVIOUS
<1>1. CASE conn' = NoConn /\ UNCHANGED job
  BY <1>1, NoneHeld, DaemonOnly DEF IInv
<1>2. CASE UNCHANGED <<conn, job>>
  BY <1>2, SameQueue, DaemonOnly DEF IInv
<1> QED
  BY <1>1, <1>2 DEF ServeQuit, EndTenure, Parks, EmulatorDies, vars

LEMMA InitIInv == Init => IInv
<1> SUFFICES ASSUME Init PROVE IInv
  OBVIOUS
<1>1. Queued
  BY EmptySeq DEF Init, Queued, NoConn, IsConn
<1>2. Held
  BY DEF Init, Held, Mine, NoConn
<1>3. Jobs
  <2>1. \A c \in Client : Sound(c, Idle)
    BY OverIsSettled DEF Settled
  <2> QED
    BY <2>1 DEF Init, Jobs
<1> QED
  BY <1>1, <1>2, <1>3 DEF IInv

LEMMA NextIInv == IInv /\ [Next]_vars => IInv'
<1> SUFFICES ASSUME IInv, [Next]_vars PROVE IInv'
  OBVIOUS
<1>1. CASE \E c \in Client : Begin(c) \/ Acts(c) \/ Interrupt(c)
  <2> SUFFICES ASSUME NEW c \in Client, Begin(c) \/ Acts(c) \/ Interrupt(c) PROVE IInv'
    BY <1>1
  <2> QED
    BY BeginKeeps, LaunchKeeps, KillKeeps, ConnectKeeps, ConnectFailsKeeps, CallKeeps,
       AnsweredKeeps, GivenUpKeeps, CloseKeeps, ExitKeeps, InterruptKeeps, Zenon DEF Acts
<1> QED
  BY <1>1, ServeKeeps, OthersKeep DEF Next, Daemon

THEOREM Inductive == Spec => []IInv
  BY InitIInv, NextIInv, PTL DEF Spec

-----------------------------------------------------------------------------
(* Inspections make no call that could set the machine running.            *)
LEMMA CalmObserve ==
    ASSUME NEW methods, Len(methods) \in Nat,
           \A i \in 1 .. Len(methods) : methods[i] \notin Runners
    PROVE  Calm(Observe(methods))
<1> DEFINE n == Len(methods)
           body == Straight(methods)
<1>1. body = [i \in 1 .. n |-> Loop(methods[i], IF i = n THEN {Done} ELSE {i + 1},
                                    IF i = n THEN {Done} ELSE {i + 1})]
  BY DEF Straight, Do
<1>2. Len(body) = n
  BY <1>1
<1>3. \A i \in 1 .. n : body[i].call = methods[i]
  BY <1>1 DEF Loop
<1>4. Observe(methods).body = body /\ Observe(methods).finally = "release"
  BY DEF Observe, Tenure, Stage
<1>5. "release" \notin Runners
  BY DEF Runners
<1> HIDE DEF body
<1> QED
  BY <1>2, <1>3, <1>4, <1>5 DEF Calm, Calls

LEMMA CalmQueries ==
    ASSUME NEW m \in {"memory_read", "memory_write", "registers", "set_register", "keyboard_feed",
                      "checkpoint_set", "checkpoint_list", "checkpoint_delete",
                      "checkpoint_toggle", "display"}
    PROVE  Calm(Observe(<<m>>))
<1>1. Len(<<m>>) = 1 /\ <<m>>[1] = m /\ m \notin Runners
  BY DEF Runners
<1> HIDE DEF Runners
<1> QED
  BY <1>1, CalmObserve

LEMMA CalmPairs ==
    /\ Calm(Observe(<<"display", "palette">>))
    /\ Calm(Observe(<<"checkpoint_set", "condition_set">>))
    /\ Calm(identify)
<1>1. Calm(Observe(<<"display", "palette">>))
  <2> DEFINE m == <<"display", "palette">>
  <2>1. Len(m) = 2 /\ m[1] \notin Runners /\ m[2] \notin Runners
    BY DEF Runners
  <2> HIDE DEF m
  <2> QED
    BY <2>1, CalmObserve DEF m
<1>2. Calm(Observe(<<"checkpoint_set", "condition_set">>))
  <2> DEFINE m == <<"checkpoint_set", "condition_set">>
  <2>1. Len(m) = 2 /\ m[1] \notin Runners /\ m[2] \notin Runners
    BY DEF Runners
  <2> HIDE DEF m
  <2> QED
    BY <2>1, CalmObserve DEF m
<1>3. Calm(identify)
  <2> DEFINE m == <<"resource_get", "resource_get", "resource_get",
                    "memory_read", "memory_read", "memory_read">>
  <2>1. Len(m) = 6 /\ m[1] \notin Runners /\ m[2] \notin Runners /\ m[3] \notin Runners
            /\ m[4] \notin Runners /\ m[5] \notin Runners /\ m[6] \notin Runners
    BY DEF Runners
  <2> HIDE DEF m
  <2>2. Calm(Observe(m))
    BY <2>1, CalmObserve
  <2> QED
    BY <2>2 DEF m, identify
<1> QED
  BY <1>1, <1>2, <1>3

LEMMA CalmLoops ==
    /\ Calm(clear_checkpoints)
    /\ Calm(machine_state)
    /\ Calm(Tenure(<<Loop("memory_write", {1, Done}, {Done})>>, "release"))
<1>1. Calm(clear_checkpoints)
  BY DEF clear_checkpoints, Tenure, Stage, Do, Loop, Calm, Calls, Runners
<1>2. Calm(machine_state)
  BY DEF machine_state, Quietly, Bare, Tenure, Straight, Stage, Do, Loop, Calm, Calls, Runners
<1>3. Calm(Tenure(<<Loop("memory_write", {1, Done}, {Done})>>, "release"))
  BY DEF Tenure, Stage, Do, Loop, Calm, Calls, Runners
<1> QED
  BY <1>1, <1>2, <1>3

(* What is added around a stage changes none of its calls.                 *)
LEMMA CalmAround ==
    ASSUME NEW methods, Calm(Observe(methods)), NEW l
    PROVE  /\ Calm(Poll(Observe(methods)))
           /\ Calm([Poll(Observe(methods)) EXCEPT !.late = l])
           /\ Calm([Observe(methods) EXCEPT !.late = l])
           /\ Calm([Judged(Observe(methods)) EXCEPT !.late = l])
<1> DEFINE body == Straight(methods)
<1>1. Observe(methods) = [kind |-> "tenure", body |-> body, finally |-> "release",
                          catches |-> {}, polls |-> 0, judged |-> FALSE, late |-> "end"]
  BY DEF Observe, Tenure, Stage
<1> HIDE DEF body
<1>2. \A stage : stage.body = body /\ stage.finally = "release" => Calm(stage)
  BY <1>1 DEF Calm, Calls
<1>3. /\ Poll(Observe(methods)).body = body /\ Poll(Observe(methods)).finally = "release"
      /\ [Poll(Observe(methods)) EXCEPT !.late = l].body = body
      /\ [Poll(Observe(methods)) EXCEPT !.late = l].finally = "release"
      /\ [Observe(methods) EXCEPT !.late = l].body = body
      /\ [Observe(methods) EXCEPT !.late = l].finally = "release"
      /\ [Judged(Observe(methods)) EXCEPT !.late = l].body = body
      /\ [Judged(Observe(methods)) EXCEPT !.late = l].finally = "release"
  BY <1>1 DEF Poll, Judged
<1> QED
  BY <1>2, <1>3, Zenon

(* A property of one stage, or of two, for the scripts made of them.       *)
Quiet(s) == \A i \in 1 .. Len(s.stages) : Calm(s.stages[i])

LEMMA QuietScripts ==
    ASSUME NEW a, Calm(a), NEW b, Calm(b)
    PROVE  /\ \A s \in Only(a) : Quiet(s)
           /\ Quiet(Script(<<a>>))
           /\ Quiet(Script(<<a, b>>))
  BY DEF Only, Script, Quiet

LEMMA CalmReading ==
    /\ Calm(read_screen) /\ Calm(wait_for_text) /\ Calm(wait_for_mem)
    /\ \A s \in {step_key, step_poke, step_wait} \cup step_assert :
        Calm([s EXCEPT !.late = "report"])
<1>1. Calm(read_screen) /\ Calm(wait_for_text) /\ Calm(wait_for_mem)
  BY CalmQueries, CalmAround, Zenon DEF read_screen, wait_for_text, wait_for_mem
<1>2. Calm([step_key EXCEPT !.late = "report"]) /\ Calm([step_poke EXCEPT !.late = "report"])
  BY CalmQueries, CalmAround, Zenon DEF step_key, step_poke
<1>3. Calm([step_wait EXCEPT !.late = "report"])
  BY CalmQueries, CalmAround, Zenon DEF step_wait
<1>4. \A s \in step_assert : Calm([s EXCEPT !.late = "report"])
  BY CalmQueries, CalmAround, Zenon DEF step_assert
<1> QED
  BY <1>1, <1>2, <1>3, <1>4, Zenon

LEMMA InspectionsAreQuiet == \A s \in Inspections : Quiet(s)
<1>1. \A S \in {screen_cmd, pet_screen_text, pet_screenshot} : \A s \in S : Quiet(s)
  <2>1. /\ Quiet(Script(<<read_screen>>)) /\ \A s \in Only(read_screen) : Quiet(s)
        /\ Quiet(Script(<<Observe(<<"display", "palette">>)>>))
        /\ \A s \in Only(Observe(<<"display", "palette">>)) : Quiet(s)
    BY CalmPairs, CalmReading, QuietScripts, Zenon
  <2> QED
    BY <2>1, Zenon DEF screen_cmd, pet_screen_text, pet_screenshot
<1>2. \A S \in {status_cmd, pet_status, reg, pet_reg_get} : \A s \in S : Quiet(s)
  <2>1. Calm(machine_state) /\ Calm(Observe(<<"registers">>))
    BY CalmLoops, CalmQueries, Zenon
  <2>2. /\ \A s \in Only(machine_state) : Quiet(s)
        /\ Quiet(Script(<<Observe(<<"registers">>), machine_state>>))
    BY <2>1, QuietScripts, Zenon
  <2> QED
    BY <2>2, Zenon DEF status_cmd, pet_status, reg, pet_reg_get
<1>3. \A S \in {mem_read, mem_get, mem_find, rom_disasm, pet_screen_codes, pet_mem_read,
                pet_mem_find, pet_rom_disasm} : \A s \in S : Quiet(s)
  BY CalmQueries, QuietScripts, Zenon
     DEF mem_read, mem_get, mem_find, rom_disasm, pet_screen_codes, pet_mem_read,
         pet_mem_find, pet_rom_disasm
<1>4. \A S \in {mem_write, pet_mem_write, reg_set, pet_reg_set} : \A s \in S : Quiet(s)
  BY CalmLoops, CalmQueries, QuietScripts, Zenon DEF mem_write, pet_mem_write, reg_set, pet_reg_set
<1>5. \A S \in {basic_type, key_type, pet_basic_type, pet_key_type} : \A s \in S : Quiet(s)
  BY CalmQueries, QuietScripts, Zenon DEF basic_type, key_type, pet_basic_type, pet_key_type
<1>6. \A S \in {break_list, break_remove, break_enable, break_disable, watch_add,
                pet_break_list, pet_break_remove, pet_watch_add} : \A s \in S : Quiet(s)
  BY CalmQueries, QuietScripts, Zenon
     DEF break_list, break_remove, break_enable, break_disable, watch_add,
         pet_break_list, pet_break_remove, pet_watch_add
<1>7. \A S \in {break_add, pet_break_add} : \A s \in S : Quiet(s)
  BY CalmPairs, CalmQueries, QuietScripts, Zenon DEF break_add, pet_break_add
<1>8. \A S \in {break_clear, watch_clear, pet_break_clear, pet_watch_clear} : \A s \in S : Quiet(s)
  BY CalmLoops, QuietScripts, Zenon DEF break_clear, watch_clear, pet_break_clear, pet_watch_clear
<1>9. \A S \in {pet_wait_text, pet_wait_mem, rom_info, pet_rom_info} : \A s \in S : Quiet(s)
  BY CalmPairs, CalmReading, QuietScripts, Zenon DEF pet_wait_text, pet_wait_mem, rom_info, pet_rom_info
<1> QED
  <2> SUFFICES ASSUME NEW s, s \in Inspections PROVE Quiet(s)
    OBVIOUS
  <2> QED
    BY <1>1, <1>2, <1>3, <1>4, <1>5, <1>6, <1>7, <1>8, <1>9 DEF Inspections

LEMMA ObservingIsCalm == \A stage \in Observing : Calm(stage)
<1> DEFINE A == UNION {{s.stages[i] : i \in 1 .. Len(s.stages)} : s \in Inspections}
           B == {[s EXCEPT !.late = "report"] :
                    s \in {step_key, step_poke, step_wait} \cup step_assert}
           C == {read_screen, wait_for_text}
<1>1. Observing = A \cup B \cup C
  BY Zenon DEF Observing
<1>2. \A stage \in A : Calm(stage)
  <2> TAKE stage \in A
  <2>1. PICK s \in Inspections : stage \in {s.stages[i] : i \in 1 .. Len(s.stages)}
    BY Zenon
  <2> QED
    BY <2>1, InspectionsAreQuiet, Zenon DEF Quiet
<1>3. \A stage \in B : Calm(stage)
  <2> TAKE stage \in B
  <2>1. PICK s \in {step_key, step_poke, step_wait} \cup step_assert :
            stage = [s EXCEPT !.late = "report"]
    BY Zenon
  <2> QED
    BY <2>1, CalmReading, Zenon
<1>4. \A stage \in C : Calm(stage)
  BY CalmReading, Zenon
<1> HIDE DEF A, B, C
<1> QED
  BY <1>1, <1>2, <1>3, <1>4

(* Only a client's call sets a stopped machine running, and no call of an  *)
(* inspection does, however late it is served (Undisturbed).               *)
LEMMA OnlyRunnersRun == Serve /\ mode = "stopped" /\ mode' = "running" =>
                            Head(conn.requests).method \in Runners
  BY DEF Serve, Effects, Becomes, Runners

THEOREM InspectionsDisturbNothing == Spec => Undisturbed
<1>1. IInv /\ [Next]_vars =>
        [mode = "stopped" /\ mode' = "running" => conn.stage \notin Observing]_vars
  <2> SUFFICES ASSUME IInv, Next, mode = "stopped", mode' = "running"
               PROVE  conn.stage \notin Observing
    BY DEF vars
  <2>1. Serve
    BY DEF Next, Begin, Acts, Interrupt, Daemon, Parks, EmulatorDies, LaunchSession, KillSession,
           Connect, ConnectFails, Call, Answered, TimesOut, Lost, Close, Exit, ServeQuit, EndTenure
  <2>2. Head(conn.requests).method \in Runners
    BY <2>1, OnlyRunnersRun
  <2>3. conn.requests \in Seq([id : Nat, method : Calls(conn.stage)]) /\ conn.requests # <<>>
    BY <2>1 DEF IInv, Queued, Serve
  <2>4. Head(conn.requests) \in [id : Nat, method : Calls(conn.stage)]
    BY <2>3, HeadTailProperties, Zenon
  <2>5. ~Calm(conn.stage)
    BY <2>2, <2>4 DEF Calm
  <2> QED
    BY <2>5, ObservingIsCalm
<1> QED
  BY <1>1, Inductive, PTL DEF Spec, Undisturbed

-----------------------------------------------------------------------------
(***************************************************************************)
(* A test that got its emulator has none when it returns, for every set of *)
(* processes and every repertoire whose tests end by stopping.             *)
(***************************************************************************)
Quits == [id : Nat, method : {"quit"}]

(* A connection opened to quit carries that one request, and no answer:    *)
(* the daemon ends before it could send one.                               *)
QuitsAlone ==
    conn.stage = quitting => conn.answers = <<>> /\ conn.requests \in Seq(Quits)

(* What is left of a test once it quits: the quit fails in no way that is  *)
(* not swallowed, and behind it there are the signals only.                *)
AtStop(j) == IsTest(j.script) /\ j.k = j.script.cleanup

Ends(j) ==
    /\ Current(j) = quitting /\ j.phase \in {"call", "await"} => j.at = 1
    /\ AtStop(j) /\ j.phase = "close" => j.out \in {"ok", "os"}
    /\ Current(j).kind = "kill" => j.phase \in {"open", "done", "failed"}

StopInv == IInv /\ QuitsAlone /\ \A c \in Client : Ends(job[c])

-----------------------------------------------------------------------------
LEMMA QuittingIs ==
    /\ quitting.kind = "tenure" /\ quitting.finally = "none"
    /\ Len(quitting.body) = 1 /\ quitting.body[1].call = "quit"
    /\ quitting.polls = 0 /\ quitting.judged = FALSE
    /\ quitting.catches = {"os", "session"}
  BY DEF quitting, Quietly, Bare, Tenure, Straight, Stage, Do, Loop

LEMMA TestIs ==
    ASSUME NEW c \in Client, NEW s \in Repertoire[c], IsTest(s)
    PROVE  LET n == s.cleanup
           IN  /\ n \in Nat \ {0} /\ Len(s.stages) = n + 1
               /\ s.stages[n] = quitting /\ s.stages[n + 1].kind = "kill"
               /\ s.report \in Nat \ {0} /\ s.report <= n
  BY TestsAssumption, Scripts DEF Stops

(* A job that enters a stage has nothing to answer for there.              *)
LEMMA SettledEnds ==
    ASSUME NEW c \in Client, NEW nxt, Settled(c, nxt)
    PROVE  Ends(nxt)
  BY DEF Settled, Ends

(* While a test has a stage before it, it goes on to it.                   *)
LEMMA EntersInside ==
    ASSUME NEW c \in Client, NEW j, IsJob(j), j.script \in Repertoire[c], NEW k \in Nat,
           k <= Len(j.script.stages)
    PROVE  ~Over(Enter(j, k))
<1> DEFINE e == [j EXCEPT !.k = k, !.at = 1, !.phase = "open", !.id = 0, !.poisoned = FALSE]
<1>1. ~(k > Len(j.script.stages))
  BY Scripts
<1>2. Enter(j, k) = e
  BY <1>1, Zenon DEF Enter
<1>3. e.phase = "open"
  BY Entered, Zenon
<1> HIDE DEF e
<1> QED
  BY <1>2, <1>3 DEF Over

LEMMA OnwardGoesOn ==
    ASSUME NEW c \in Client, NEW j, IsJob(j), j.script \in Repertoire[c], j.k \in Nat,
           IsTest(j.script), j.k <= j.script.cleanup
    PROVE  ~Over(Onward(j))
<1> DEFINE i == IF Loops(Current(j)) THEN [j EXCEPT !.slices = 0] ELSE j
<1>1. IsJob(i) /\ i.script = j.script
  BY Revised
<1>2. j.k + 1 \in Nat /\ j.k + 1 <= Len(j.script.stages)
  BY TestIs
<1>3. Onward(j) = Enter(i, j.k + 1)
  BY DEF Onward
<1> HIDE DEF i
<1> QED
  BY <1>1, <1>2, <1>3, EntersInside

LEMMA RaisedGoesOn ==
    ASSUME NEW c \in Client, NEW j, IsJob(j), j.script \in Repertoire[c], j.k \in Nat,
           IsTest(j.script), NEW e,
           (1 < j.k /\ j.k < j.script.cleanup) \/ (AtStop(j) /\ e \in {"os", "session"})
    PROVE  ~Over(Raised(j, e))
<1> DEFINE ok   == [j EXCEPT !.out = "ok"]
           both == [j EXCEPT !.slices = 0, !.out = e]
           k    == IF 1 < j.k /\ j.k < j.script.cleanup THEN j.script.cleanup
                   ELSE Len(j.script.stages) + 1
<1>1. IsJob(ok) /\ ok.script = j.script /\ ok.k = j.k /\ IsJob(both) /\ both.script = j.script
  BY Zenon DEF IsJob, Fields
<1>2. Raised(j, e) = IF e \in Current(j).catches THEN Onward(ok) ELSE Enter(both, k)
  BY DEF Raised
<1>3. j.script.cleanup \in Nat /\ j.script.cleanup <= Len(j.script.stages)
  BY TestIs
<1>4. AtStop(j) => Current(j).catches = {"os", "session"}
  BY TestIs, QuittingIs DEF AtStop, Current
<1>5. e \in Current(j).catches \/ (k \in Nat /\ k <= Len(j.script.stages))
  BY <1>3, <1>4
<1>6. j.k <= j.script.cleanup
  BY <1>3 DEF AtStop
<1> HIDE DEF ok, both, k
<1>7. ~Over(Onward(ok))
  BY <1>1, <1>6, OnwardGoesOn
<1>8. k \in Nat /\ k <= Len(j.script.stages) => ~Over(Enter(both, k))
  BY <1>1, EntersInside
<1> QED
  BY <1>2, <1>5, <1>7, <1>8

LEMMA LateGoesOn ==
    ASSUME NEW c \in Client, NEW j, IsJob(j), j.script \in Repertoire[c], j.k \in Nat,
           IsTest(j.script), j.k < j.script.cleanup
    PROVE  ~Over(Late(j))
<1> DEFINE ok   == [j EXCEPT !.slices = 0, !.out = "ok"]
           late == [j EXCEPT !.slices = 0, !.out = "late"]
<1>1. IsJob(ok) /\ ok.script = j.script /\ IsJob(late) /\ late.script = j.script
  BY Zenon DEF IsJob, Fields
<1>2. /\ j.script.cleanup \in Nat /\ j.script.cleanup <= Len(j.script.stages)
      /\ j.script.report \in Nat /\ j.script.report <= Len(j.script.stages)
  BY TestIs
<1>3. Late(j) = IF Current(j).late = "report" THEN Enter(ok, j.script.report)
                ELSE Enter(late, j.script.cleanup)
  BY DEF Late
<1> HIDE DEF ok, late
<1>4. ~Over(Enter(ok, j.script.report)) /\ ~Over(Enter(late, j.script.cleanup))
  BY <1>1, <1>2, EntersInside
<1> QED
  BY <1>3, <1>4

LEMMA AfterGoesOn ==
    ASSUME NEW c \in Client, NEW j, Sound(c, j), j.phase = "close", Ends(j),
           IsTest(j.script), 1 < j.k, NEW nxt \in After(j)
    PROVE  ~Over(nxt)
<1>1. /\ IsJob(j) /\ j.script \in Repertoire[c] /\ j.k \in 1 .. Len(j.script.stages)
      /\ j.k \in Nat
  BY DEF Sound
<1>2. CASE j.k < j.script.cleanup
  <2>1. nxt \in {Raised(j, j.out), Late(j), Onward(j), Again(j, j.k + 1 - Current(j).polls)}
    BY DEF After
  <2>2. CASE nxt = Again(j, j.k + 1 - Current(j).polls)
    <3> DEFINE pass == [j EXCEPT !.slices = j.slices + 1]
               k == j.k + 1 - Current(j).polls
    <3>1. IsJob(pass) /\ pass.script = j.script
      BY <1>1, Revised
    <3>2. Current(j).polls \in 0 .. j.k
      BY <1>1, Scripts DEF Current
    <3>3. k \in Nat /\ k <= Len(j.script.stages)
      <4>1. j.script.cleanup \in Nat /\ Len(j.script.stages) = j.script.cleanup + 1
        BY <1>1, TestIs
      <4> QED
        BY <1>1, <1>2, <3>2, <4>1
    <3>4. Again(j, k) = Enter(pass, k)
      BY DEF Again
    <3> HIDE DEF pass, k
    <3>5. ~Over(Enter(pass, k))
      BY <1>1, <3>1, <3>3, EntersInside
    <3> QED
      BY <2>2, <3>4, <3>5 DEF k
  <2>3. j.k <= j.script.cleanup
    BY <1>1, <1>2, TestIs
  <2> QED
    BY <1>1, <1>2, <2>1, <2>2, <2>3, RaisedGoesOn, LateGoesOn, OnwardGoesOn
<1>3. CASE ~(j.k < j.script.cleanup)
  <2>1. j.k = j.script.cleanup \/ j.k = j.script.cleanup + 1
    BY <1>1, <1>3, TestIs
  <2>2. Current(j).kind # "kill"
    BY DEF Ends
  <2>3. AtStop(j) /\ Current(j) = quitting
    BY <1>1, <2>1, <2>2, TestIs DEF AtStop, Current
  <2>4. j.out \in {"ok", "os"}
    BY <2>3 DEF Ends
  <2>5. CASE j.out = "os"
    <3>1. nxt = Raised(j, "os")
      BY <2>5 DEF After, Errors
    <3> QED
      BY <1>1, <2>3, <3>1, RaisedGoesOn
  <2>6. CASE j.out = "ok"
    <3>1. nxt = Onward(j)
      BY <2>3, <2>6, QuittingIs DEF After, Errors
    <3>2. j.k <= j.script.cleanup
      BY <1>1, <2>3 DEF AtStop
    <3> QED
      BY <1>1, <3>1, <3>2, OnwardGoesOn
  <2> QED
    BY <2>4, <2>5, <2>6
<1> QED
  BY <1>2, <1>3

-----------------------------------------------------------------------------
(* The invariant is kept: first by what a process does to its own job.     *)
LEMMA OneEnds ==
    ASSUME StopInv, NEW c \in Client, NEW nxt, Sound(c, nxt), Go(c, nxt), Ends(nxt)
    PROVE  \A d \in Client : Ends(job'[d])
<1>1. job'[c] = nxt /\ \A d \in Client : d # c => job'[d] = job[d]
  BY Going, Zenon DEF StopInv, IInv
<1> QED
  BY <1>1, Zenon DEF StopInv

LEMMA EnteringEnds ==
    ASSUME StopInv, NEW c \in Client, NEW nxt, Settled(c, nxt), Go(c, nxt)
    PROVE  \A d \in Client : Ends(job'[d])
<1>1. Sound(c, nxt) /\ Ends(nxt)
  BY SettledEnds DEF Settled
<1> QED
  BY <1>1, OneEnds, Zenon

(* A call given up while quitting is one that is swallowed.                *)
LEMMA UnwindEnds ==
    ASSUME NEW c \in Client, NEW j, Sound(c, j), j.phase \in {"call", "await"}, Ends(j), NEW out,
           AtStop(j) => out = "os"
    PROVE  Ends(Unwind(j, out))
<1> DEFINE u == Unwind(j, out)
<1>1. /\ u.script = j.script /\ u.k = j.k /\ u.out = out
      /\ u.phase = "close" \/ (u.phase = "call" /\ Current(j).finally # "none")
  BY UnwindStays
<1> HIDE DEF u
<1>2. Current(u) = Current(j) /\ (AtStop(u) <=> AtStop(j))
  BY <1>1 DEF Current, AtStop
<1>3. Current(j).kind # "kill"
  BY DEF Ends
<1>4. Ends(u)
  BY <1>1, <1>2, <1>3, QuittingIs DEF Ends
<1> QED
  BY <1>4 DEF u

LEMMA Untouched == QuitsAlone /\ UNCHANGED conn => QuitsAlone'
  BY DEF QuitsAlone

LEMMA LaunchIsNoQuit == NoConn.stage # quitting
  BY QuittingIs DEF NoConn, Launch, Stage

LEMMA Fresh == conn' = NoConn => QuitsAlone'
  BY LaunchIsNoQuit DEF QuitsAlone

LEMMA EntersKeep ==
    ASSUME StopInv, NEW c \in Client,
           Begin(c) \/ Exit(c) \/ LaunchSession(c) \/ KillSession(c) \/ ConnectFails(c) \/ Close(c)
    PROVE  StopInv'
<1>1. IInv'
  BY BeginKeeps, ExitKeeps, LaunchKeeps, KillKeeps, ConnectFailsKeeps, CloseKeeps, Zenon DEF StopInv
<1>2. QuitsAlone'
  <2>1. CASE conn' = NoConn
    BY <2>1, Fresh
  <2>2. CASE UNCHANGED conn
    BY <2>2, Untouched DEF StopInv
  <2>3. CASE conn' = [conn EXCEPT !.open = FALSE]
    BY <2>3 DEF StopInv, IInv, Queued, IsConn, QuitsAlone
  <2> QED
    BY <2>1, <2>2, <2>3
       DEF Begin, Exit, LaunchSession, KillSession, ConnectFails, Close
<1>3. \E nxt : Settled(c, nxt) /\ Go(c, nxt)
  <2>0. IInv
    BY DEF StopInv
  <2>1. CASE Begin(c)
    <3>1. PICK s \in Repertoire[c] : Go(c, Enter(At(s, "ok"), 1))
      BY <2>1, Zenon DEF Begin
    <3>2. Settled(c, Enter(At(s, "ok"), 1))
      BY NewJob, EnterSettles
    <3> QED
      BY <3>1, <3>2, Zenon
  <2>2. CASE Exit(c)
    BY <2>2, OverIsSettled, Zenon DEF Exit
  <2>3. CASE LaunchSession(c) \/ KillSession(c) \/ ConnectFails(c)
    <3>1. Go(c, Onward(job[c])) \/ Go(c, Raised(job[c], "session"))
      BY <2>3 DEF LaunchSession, KillSession, ConnectFails
    <3>2. Settled(c, Onward(job[c])) /\ Settled(c, Raised(job[c], "session"))
      BY <2>0, <2>3, UnderWay, OnwardSettles, RaisedSettles
         DEF LaunchSession, KillSession, ConnectFails
    <3> QED
      BY <3>1, <3>2, Zenon
  <2>4. CASE Close(c)
    <3>1. PICK nxt \in After(job[c]) : Go(c, nxt)
      BY <2>4, Zenon DEF Close
    <3>2. job[c].phase \notin {"done", "failed"}
      BY <2>4 DEF Close
    <3>3. Settled(c, nxt)
      BY <2>0, <3>2, UnderWay, AfterSettles
    <3> QED
      BY <3>1, <3>3, Zenon
  <2> QED
    BY <2>1, <2>2, <2>3, <2>4
<1>4. \A d \in Client : Ends(job'[d])
  BY <1>3, EnteringEnds, Zenon
<1> QED
  BY <1>1, <1>2, <1>4, Zenon DEF StopInv

LEMMA AtStopQuits ==
    ASSUME StopInv, NEW c \in Client, job[c].phase \notin {"done", "failed"}, AtStop(job[c])
    PROVE  Current(job[c]) = quitting
<1>1. job[c].script \in Repertoire[c]
  BY UnderWay DEF StopInv
<1> QED
  BY <1>1, TestIs DEF AtStop, Current

LEMMA ConnectEnds ==
    ASSUME StopInv, NEW c \in Client, Connect(c)
    PROVE  StopInv'
<1> DEFINE nxt == [job[c] EXCEPT !.phase = "call"]
<1>1. IInv' /\ IInv
  BY ConnectKeeps DEF StopInv
<1>2. /\ IsJob(job[c]) /\ job[c].at = 1 /\ job[c].phase = "open"
      /\ Current(job[c]).kind = "tenure" /\ Go(c, nxt)
  BY <1>1, UnderWay DEF Connect, Sound
<1>3. /\ nxt.script = job[c].script /\ nxt.k = job[c].k /\ nxt.at = 1 /\ nxt.phase = "call"
  BY <1>2, Zenon DEF IsJob, Fields
<1>4. QuitsAlone'
  BY EmptySeq DEF Connect, NoConn, QuitsAlone
<1> HIDE DEF nxt
<1>5. Ends(nxt)
  BY <1>2, <1>3 DEF Ends, Current
<1>6. job'[c] = nxt /\ \A d \in Client : d # c => job'[d] = job[d]
  BY <1>1, <1>2, Zenon DEF IInv, Jobs, Go
<1>7. \A d \in Client : Ends(job'[d])
  BY <1>5, <1>6, Zenon DEF StopInv
<1> QED
  BY <1>1, <1>4, <1>7, Zenon DEF StopInv

LEMMA CallEnds ==
    ASSUME StopInv, NEW c \in Client, Call(c)
    PROVE  StopInv'
<1> DEFINE next == [job[c] EXCEPT !.phase = "await", !.id = job[c].id + 1]
           request == [id |-> job[c].id + 1, method |-> Method(job[c])]
<1>1. IInv' /\ IInv
  BY CallKeeps DEF StopInv
<1>2. /\ Sound(c, job[c]) /\ IsJob(job[c]) /\ job[c].id \in Nat /\ job[c].phase = "call"
      /\ Ends(job[c])
  BY <1>1, UnderWay DEF Call, StopInv
<1>3. /\ next.script = job[c].script /\ next.k = job[c].k
      /\ next.at = job[c].at /\ next.phase = "await"
  BY <1>2, Zenon DEF IsJob, Fields
<1>4. Go(c, next) \/ Go(c, Unwind(job[c], "os"))
  BY Zenon DEF Call
<1>5. QuitsAlone'
  <2>1. CASE ~Mine(c)
    BY <2>1, Untouched DEF Call, StopInv
  <2>2. CASE Mine(c)
    <3>1. conn' = [conn EXCEPT !.requests = Append(conn.requests, request)]
      BY <2>2, Zenon DEF Call
    <3>2. /\ conn'.stage = conn.stage /\ conn'.answers = conn.answers
          /\ conn'.requests = Append(conn.requests, request)
      BY <1>1, <3>1 DEF IInv, Queued, IsConn
    <3> SUFFICES ASSUME conn.stage = quitting
                 PROVE  Append(conn.requests, request) \in Seq(Quits) /\ conn.answers = <<>>
      BY <3>2, Zenon DEF QuitsAlone
    <3>3. Current(job[c]) = quitting
      BY <1>1, <1>2, <2>2 DEF IInv, Held
    <3>4. Method(job[c]) = "quit"
      BY <1>2, <3>3, QuittingIs DEF Ends, Method
    <3>5. request \in Quits
      BY <1>2, <3>4 DEF Quits
    <3> HIDE DEF request
    <3> QED
      BY <3>5, AppendProperties, Zenon DEF StopInv, QuitsAlone
  <2> QED
    BY <2>1, <2>2
<1> HIDE DEF next
<1>6. Ends(next)
  BY <1>2, <1>3 DEF Ends, Current
<1>7. Ends(Unwind(job[c], "os"))
  BY <1>2, UnwindEnds
<1>8. \A nxt : Go(c, nxt) => job'[c] = nxt /\ \A d \in Client : d # c => job'[d] = job[d]
  BY <1>1, Zenon DEF IInv, Jobs, Go
<1>9. \A d \in Client : Ends(job'[d])
  BY <1>4, <1>6, <1>7, <1>8, Zenon DEF StopInv
<1> QED
  BY <1>1, <1>5, <1>9, Zenon DEF StopInv

LEMMA AnsweredEnds ==
    ASSUME StopInv, NEW c \in Client, Answered(c)
    PROVE  StopInv'
<1>1. IInv' /\ IInv
  BY AnsweredKeeps DEF StopInv
<1>2. Sound(c, job[c]) /\ IsJob(job[c]) /\ job[c].phase = "await" /\ Ends(job[c])
  BY <1>1, UnderWay DEF Answered, StopInv
<1>3. conn.stage = Current(job[c]) /\ conn.answers # <<>>
  BY <1>1, <1>2 DEF Answered, IInv, Held
<1>4. Current(job[c]) # quitting /\ ~AtStop(job[c])
  BY <1>2, <1>3, AtStopQuits DEF StopInv, QuitsAlone
<1>5. QuitsAlone'
  <2>1. conn' = [conn EXCEPT !.answers = Tail(conn.answers)]
    BY Zenon DEF Answered
  <2>2. conn'.stage = conn.stage
    BY <1>1, <2>1 DEF IInv, Queued, IsConn
  <2> QED
    BY <1>3, <1>4, <2>2 DEF QuitsAlone
<1>6. \A nxt : Go(c, nxt) => job'[c] = nxt /\ \A d \in Client : d # c => job'[d] = job[d]
  BY <1>1, Zenon DEF IInv, Jobs, Go
<1>7. Ends(job'[c])
  <2>1. CASE \E out : Go(c, Unwind(job[c], out))
    <3>1. PICK out : Go(c, Unwind(job[c], out))
      BY <2>1, Zenon
    <3>2. Ends(Unwind(job[c], out))
      BY <1>2, <1>4, UnwindEnds
    <3> QED
      BY <1>6, <3>1, <3>2, Zenon
  <2>2. CASE \E m : \E n \in Followers(job[c]) :
              n # Done /\ Go(c, [job[c] EXCEPT !.at = n, !.phase = "call", !.slices = m])
    <3>1. PICK m, n : Go(c, [job[c] EXCEPT !.at = n, !.phase = "call", !.slices = m])
      BY <2>2, Zenon
    <3> DEFINE nxt == [job[c] EXCEPT !.at = n, !.phase = "call", !.slices = m]
    <3>2. nxt.script = job[c].script /\ nxt.k = job[c].k /\ nxt.phase = "call"
      BY <1>2, Zenon DEF IsJob, Fields
    <3>3. job'[c] = nxt
      BY <1>6, <3>1, Zenon
    <3> HIDE DEF nxt
    <3>4. Ends(nxt)
      BY <1>2, <1>4, <3>2 DEF Ends, Current
    <3> QED
      BY <3>3, <3>4
  <2> QED
    BY <2>1, <2>2, AnsweredLeads, Zenon
<1>8. \A d \in Client : Ends(job'[d])
  <2>1. \A d \in Client : d # c => job'[d] = job[d]
    BY <1>6, AnsweredLeads, Zenon
  <2> QED
    BY <1>7, <2>1, Zenon DEF StopInv
<1> QED
  BY <1>1, <1>5, <1>8, Zenon DEF StopInv

LEMMA GivenUpEnds ==
    ASSUME StopInv, NEW c \in Client, TimesOut(c) \/ Lost(c)
    PROVE  /\ StopInv'
           /\ job'[c].phase \in {"call", "close"}
<1> DEFINE deaf == [job[c] EXCEPT !.poisoned = TRUE]
<1>1. IInv' /\ IInv
  BY GivenUpKeeps DEF StopInv
<1>2. /\ Sound(c, job[c]) /\ IsJob(job[c]) /\ job[c].phase = "await" /\ Ends(job[c])
      /\ QuitsAlone'
  BY <1>1, UnderWay, Untouched DEF TimesOut, Lost, StopInv
<1>3. /\ IsJob(deaf) /\ deaf.script = job[c].script /\ deaf.k = job[c].k
      /\ deaf.id = job[c].id /\ deaf.at = job[c].at /\ deaf.phase = "await"
  BY <1>2, Zenon DEF IsJob, Fields
<1>4. Go(c, Unwind(deaf, "os")) \/ Go(c, Unwind(job[c], "os"))
  BY Zenon DEF TimesOut, Lost
<1> HIDE DEF deaf
<1>5. Sound(c, deaf) /\ Ends(deaf)
  BY <1>2, <1>3 DEF Sound, Ends, Current
<1>6. /\ Ends(Unwind(deaf, "os")) /\ Unwind(deaf, "os").phase \in {"call", "close"}
      /\ Ends(Unwind(job[c], "os")) /\ Unwind(job[c], "os").phase \in {"call", "close"}
  BY <1>2, <1>3, <1>5, UnwindEnds, UnwindStays
<1>7. \A nxt : Go(c, nxt) => job'[c] = nxt /\ \A d \in Client : d # c => job'[d] = job[d]
  BY <1>1, Zenon DEF IInv, Jobs, Go
<1>8. Ends(job'[c]) /\ job'[c].phase \in {"call", "close"}
        /\ \A d \in Client : d # c => job'[d] = job[d]
  BY <1>4, <1>6, <1>7, Zenon
<1>9. \A d \in Client : Ends(job'[d])
  BY <1>8, Zenon DEF StopInv
<1> QED
  BY <1>1, <1>2, <1>8, <1>9, Zenon DEF StopInv

LEMMA InterruptEnds ==
    ASSUME StopInv, NEW c \in Client, Interrupt(c)
    PROVE  StopInv'
<1>1. IInv' /\ IInv
  BY InterruptKeeps DEF StopInv
<1>2. QuitsAlone'
  BY Untouched DEF Interrupt, StopInv
<1>3. CASE job[c].phase = "open"
  <2>1. Go(c, Raised(job[c], "interrupt"))
    BY <1>3 DEF Interrupt
  <2>2. Settled(c, Raised(job[c], "interrupt"))
    BY <1>1, <1>3, UnderWay, RaisedSettles
  <2>3. \A d \in Client : Ends(job'[d])
    BY <2>1, <2>2, EnteringEnds, Zenon
  <2> QED
    BY <1>1, <1>2, <2>3, Zenon DEF StopInv
<1>4. CASE job[c].phase = "await"
  <2>1. Go(c, Unwind(job[c], "interrupt"))
    BY <1>4 DEF Interrupt
  <2>2. Sound(c, job[c]) /\ Ends(job[c]) /\ job[c].k \in Nat
    BY <1>1, <1>4, UnderWay DEF StopInv
  <2>3. ~AtStop(job[c])
    BY <2>2 DEF AtStop, Interrupt
  <2>4. Ends(Unwind(job[c], "interrupt")) /\ Sound(c, Unwind(job[c], "interrupt"))
    BY <1>4, <2>2, <2>3, UnwindEnds, UnwindStays
  <2>5. \A d \in Client : Ends(job'[d])
    BY <2>1, <2>4, OneEnds, Zenon
  <2> QED
    BY <1>1, <1>2, <2>5, Zenon DEF StopInv
<1> QED
  BY <1>3, <1>4 DEF Interrupt

(* The daemon's own steps: it serves nothing but quit on such a connection. *)
LEMMA DaemonEnds ==
    ASSUME StopInv, Daemon \/ Parks \/ EmulatorDies \/ UNCHANGED vars
    PROVE  StopInv'
<1>1. IInv' /\ IInv
  BY ServeKeeps, OthersKeep DEF StopInv, Daemon
<1>2. UNCHANGED job
  BY DEF Daemon, Serve, ServeQuit, EndTenure, Parks, EmulatorDies, vars
<1>3. \A d \in Client : Ends(job'[d])
  BY <1>2, Zenon DEF StopInv
<1>4. QuitsAlone'
  <2>1. CASE conn' = NoConn
    BY <2>1, Fresh
  <2>2. CASE UNCHANGED conn
    BY <2>2, Untouched DEF StopInv
  <2>3. CASE Serve
    <3>1. conn'.stage = conn.stage
      BY <1>1, <2>3 DEF IInv, Queued, IsConn, Serve
    <3>2. conn.stage # quitting
      <4> SUFFICES ASSUME conn.stage = quitting PROVE FALSE
        OBVIOUS
      <4>1. conn.requests \in Seq(Quits) /\ conn.requests # <<>>
        BY <2>3 DEF StopInv, QuitsAlone, Serve
      <4>2. Head(conn.requests) \in Quits
        BY <4>1, HeadTailProperties, Zenon
      <4> QED
        BY <2>3, <4>2 DEF Quits, Serve
    <3> QED
      BY <3>1, <3>2 DEF QuitsAlone
  <2> QED
    BY <2>1, <2>2, <2>3 DEF Daemon, ServeQuit, EndTenure, Parks, EmulatorDies, vars
<1> QED
  BY <1>1, <1>3, <1>4, Zenon DEF StopInv

LEMMA InitStopInv == Init => StopInv
<1> SUFFICES ASSUME Init PROVE StopInv
  OBVIOUS
<1>1. QuitsAlone
  BY LaunchIsNoQuit DEF Init, QuitsAlone
<1>2. \A c \in Client : Ends(Idle)
  BY OverIsSettled, SettledEnds
<1>3. \A c \in Client : Ends(job[c])
  BY <1>2 DEF Init
<1> QED
  BY <1>1, <1>3, InitIInv, Zenon DEF StopInv

LEMMA NextStopInv == StopInv /\ [Next]_vars => StopInv'
<1> SUFFICES ASSUME StopInv, [Next]_vars PROVE StopInv'
  OBVIOUS
<1>1. CASE \E c \in Client : Begin(c) \/ Acts(c) \/ Interrupt(c)
  <2> SUFFICES ASSUME NEW c \in Client, Begin(c) \/ Acts(c) \/ Interrupt(c) PROVE StopInv'
    BY <1>1
  <2> QED
    BY EntersKeep, ConnectEnds, CallEnds, AnsweredEnds, GivenUpEnds, InterruptEnds, Zenon DEF Acts
<1> QED
  BY <1>1, DaemonEnds DEF Next

-----------------------------------------------------------------------------
(* A step that ends a test which got past its launch is its last signal.   *)
LEMMA OnlyKillEnds ==
    ASSUME StopInv, NEW c \in Client, Begin(c) \/ Acts(c) \/ Interrupt(c),
           ~Over(job[c]), Over(job'[c]), IsTest(job[c].script), job[c].k > 1
    PROVE  KillSession(c)
<1>1. /\ Sound(c, job[c]) /\ IsJob(job[c]) /\ job[c].script \in Repertoire[c] /\ IInv
      /\ job[c].k \in 1 .. Len(job[c].script.stages) /\ job[c].k \in Nat /\ Ends(job[c])
  BY UnderWay DEF StopInv, Over
<1>2. \A nxt : Go(c, nxt) => job'[c] = nxt
  BY <1>1, Zenon DEF IInv, Jobs, Go
<1>3. /\ job[c].script.cleanup \in Nat
      /\ Len(job[c].script.stages) = job[c].script.cleanup + 1
      /\ job[c].script.stages[job[c].script.cleanup] = quitting
      /\ job[c].script.stages[job[c].script.cleanup + 1].kind = "kill"
  BY <1>1, TestIs
<1>4. \/ 1 < job[c].k /\ job[c].k < job[c].script.cleanup
      \/ AtStop(job[c]) /\ Current(job[c]) = quitting
      \/ Current(job[c]).kind = "kill"
  <2>1. CASE job[c].k < job[c].script.cleanup
    BY <1>1, <2>1
  <2>2. CASE job[c].k = job[c].script.cleanup
    <3>1. AtStop(job[c])
      BY <2>2 DEF AtStop
    <3>2. Current(job[c]) = quitting
      BY <1>3, <2>2 DEF Current
    <3> QED
      BY <3>1, <3>2
  <2>3. CASE job[c].k = job[c].script.cleanup + 1
    <3>1. Current(job[c]).kind = "kill"
      BY <1>3, <2>3 DEF Current
    <3> QED
      BY <3>1
  <2> QED
    BY <1>1, <1>3, <2>1, <2>2, <2>3
<1>5. ~Begin(c) /\ ~Exit(c)
  BY DEF Begin, Exit, Over
<1>6. ~LaunchSession(c)
  <2> SUFFICES ASSUME LaunchSession(c) PROVE FALSE
    OBVIOUS
  <2>1. 1 < job[c].k /\ job[c].k < job[c].script.cleanup
    BY <1>4, QuittingIs DEF LaunchSession
  <2>2. job[c].k <= job[c].script.cleanup
    BY <1>1, <1>3, <2>1
  <2>3. ~Over(Onward(job[c])) /\ ~Over(Raised(job[c], "session"))
    BY <1>1, <2>1, <2>2, OnwardGoesOn, RaisedGoesOn
  <2>4. Go(c, Onward(job[c])) \/ Go(c, Raised(job[c], "session"))
    BY DEF LaunchSession
  <2> QED
    BY <1>2, <2>3, <2>4, Zenon
<1>7. ~ConnectFails(c)
  <2> SUFFICES ASSUME ConnectFails(c) PROVE FALSE
    OBVIOUS
  <2>1. (1 < job[c].k /\ job[c].k < job[c].script.cleanup) \/ AtStop(job[c])
    BY <1>4 DEF ConnectFails
  <2>2. ~Over(Raised(job[c], "session"))
    BY <1>1, <2>1, RaisedGoesOn
  <2> QED
    BY <1>2, <2>2, Zenon DEF ConnectFails
<1>8. ~Close(c)
  <2> SUFFICES ASSUME Close(c) PROVE FALSE
    OBVIOUS
  <2>1. PICK nxt \in After(job[c]) : Go(c, nxt)
    BY Zenon DEF Close
  <2>2. ~Over(nxt)
    BY <1>1, AfterGoesOn DEF Close
  <2> QED
    BY <1>2, <2>1, <2>2, Zenon
<1>9. ~Interrupt(c)
  <2> SUFFICES ASSUME Interrupt(c) PROVE FALSE
    OBVIOUS
  <2>1. ~Over(Raised(job[c], "interrupt"))
    BY <1>1, RaisedGoesOn DEF Interrupt
  <2>2. job[c].phase = "await" => ~Over(Unwind(job[c], "interrupt"))
    BY <1>1, UnwindStays DEF Over
  <2>3. Go(c, Raised(job[c], "interrupt"))
          \/ (job[c].phase = "await" /\ Go(c, Unwind(job[c], "interrupt")))
    BY DEF Interrupt
  <2> QED
    BY <1>2, <2>1, <2>2, <2>3, Zenon
<1>10. ~TimesOut(c) /\ ~Lost(c)
  BY GivenUpEnds DEF Over
<1>11. ~Connect(c)
  <2> SUFFICES ASSUME Connect(c) PROVE FALSE
    OBVIOUS
  <2>1. job'[c] = [job[c] EXCEPT !.phase = "call"]
    BY <1>2, Zenon DEF Connect
  <2>2. job'[c].phase = "call"
    BY <1>1, <2>1, Zenon DEF IsJob, Fields
  <2> QED
    BY <2>2 DEF Over
<1>12. ~Call(c)
  <2> SUFFICES ASSUME Call(c) PROVE FALSE
    OBVIOUS
  <2>1. job'[c] = [job[c] EXCEPT !.phase = "await", !.id = job[c].id + 1]
          \/ job'[c] = Unwind(job[c], "os")
    BY <1>2, Zenon DEF Call
  <2>2. [job[c] EXCEPT !.phase = "await", !.id = job[c].id + 1].phase = "await"
    BY <1>1, Zenon DEF IsJob, Fields
  <2>3. Unwind(job[c], "os").phase \in {"call", "close"}
    BY <1>1, UnwindStays DEF Call
  <2> QED
    BY <2>1, <2>2, <2>3 DEF Over
<1>13. ~Answered(c)
  <2> SUFFICES ASSUME Answered(c) PROVE FALSE
    OBVIOUS
  <2>1. (\E out : job'[c] = Unwind(job[c], out))
          \/ \E m, n : job'[c] = [job[c] EXCEPT !.at = n, !.phase = "call", !.slices = m]
    BY <1>2, AnsweredLeads, Zenon
  <2>2. \A out : Unwind(job[c], out).phase \in {"call", "close"}
    <3> TAKE out
    <3>1. job[c].phase \in {"call", "await"}
      BY DEF Answered
    <3> QED
      BY <1>1, <3>1, UnwindStays
  <2>3. \A m, n : [job[c] EXCEPT !.at = n, !.phase = "call", !.slices = m].phase = "call"
    BY <1>1, Zenon DEF IsJob, Fields
  <2> QED
    BY <2>1, <2>2, <2>3, Zenon DEF Over
<1> QED
  BY <1>5, <1>6, <1>7, <1>8, <1>9, <1>10, <1>11, <1>12, <1>13, Zenon DEF Acts

(* A test that got its emulator has none when it returns (TestsCleanUp):   *)
(* whatever fails, it comes to its quit, whose failures are swallowed, and *)
(* to its signals.                                                         *)
THEOREM TestsLeaveNoEmulator == Spec => TestsCleanUp
<1>1. StopInv /\ [Next]_vars =>
        [\A c \in Client :
            /\ ~Over(job[c]) /\ Over(job'[c])
            /\ IsTest(job[c].script) /\ job[c].k > 1
            => mode' = "none"]_vars
  <2> SUFFICES ASSUME StopInv, Next, NEW c \in Client, ~Over(job[c]), Over(job'[c]),
                      IsTest(job[c].script), job[c].k > 1
               PROVE  mode' = "none"
    BY DEF vars
  <2>1. CASE \E d \in Client : Begin(d) \/ Acts(d) \/ Interrupt(d)
    <3>1. PICK d \in Client : Begin(d) \/ Acts(d) \/ Interrupt(d)
      BY <2>1
    <3>2. d = c
      <4>1. \E nxt : Go(d, nxt)
        BY <3>1, Zenon DEF Begin, Acts, Interrupt, LaunchSession, KillSession, Connect,
              ConnectFails, Call, Answered, TimesOut, Lost, Close, Exit
      <4>2. d # c => job'[c] = job[c]
        BY <4>1, Zenon DEF StopInv, IInv, Jobs, Go
      <4> QED
        BY <4>2 DEF Over
    <3>3. KillSession(c)
      BY <3>1, <3>2, OnlyKillEnds
    <3> QED
      BY <3>3 DEF KillSession
  <2>2. CASE Daemon \/ Parks \/ EmulatorDies
    <3>1. UNCHANGED job
      BY <2>2 DEF Daemon, Serve, ServeQuit, EndTenure, Parks, EmulatorDies
    <3> QED
      BY <3>1 DEF Over
  <2> QED
    BY <2>1, <2>2 DEF Next
<1>2. Spec => []StopInv
  BY InitStopInv, NextStopInv, PTL DEF Spec
<1> QED
  BY <1>1, <1>2, PTL DEF Spec, TestsCleanUp
-----------------------------------------------------------------------------
(***************************************************************************)
(* The answer a call returns is its own, whatever earlier calls left in    *)
(* the stream; and every variable keeps its type, the queues their bound   *)
(* of two and every loop its deadline.                                     *)
(***************************************************************************)
Outs == {"ok", "late"} \cup Errors

(* Where a body may be once its deadline has passed.                       *)
Spent(body) == CHOOSE spent \in SUBSET (1 .. Len(body)) : EndsFrom(spent, body)

Timely(j) ==
    j.phase \in {"call", "await"} /\ j.at # 0 /\ j.slices = MaxSlices =>
        j.at \in Spent(Current(j).body)

(* A process whose read has timed out has its finally verb left at most.   *)
Deaf(j) == j.poisoned = FALSE \/ j.phase = "close" \/ (j.phase = "call" /\ j.at = 0)

Tidy(j) == j.out \in Outs /\ j.slices \in 0 .. MaxSlices

Fit(j) ==
    /\ Tidy(j) /\ j.poisoned \in BOOLEAN /\ Deaf(j) /\ Timely(j)
    /\ j.phase \in {"done", "open", "call", "await", "close", "failed"}
    /\ Over(j) => j.script = Nothing /\ j.k = 0

Load(x) == Len(x.requests) + Len(x.answers)

Stream(x) ==
    /\ IsConn(x) /\ x.open \in BOOLEAN
    /\ x.by = {} \/ \E c \in Client : x.by = {c}
    /\ x.requests \in Seq([id : Nat, method : Calls(x.stage)])
    /\ x.answers \in Seq([id : Nat, out : {"ok", "late", "err"}, method : Calls(x.stage)])
    /\ Load(x) <= 2

(* What is on the stream while a process calls: at most what its body and  *)
(* its finally verb have sent, and under the number it waits for, only the *)
(* call it waits for.                                                      *)
Follows(m, j) == m.id <= j.id /\ (j.phase = "await" /\ m.id = j.id => m.method = Method(j))

Room(j) == (IF j.phase = "await" THEN 1 ELSE 0) + (IF j.at = 0 THEN 1 ELSE 0)

Awaits(x, j) ==
    /\ \A i \in 1 .. Len(x.requests) : Follows(x.requests[i], j)
    /\ \A i \in 1 .. Len(x.answers) : Follows(x.answers[i], j)
    /\ Load(x) <= Room(j)

Talking ==
    \A c \in Client : Mine(c) /\ job[c].phase \in {"call", "await"} => Awaits(conn, job[c])

TalkInv == IInv /\ Stream(conn) /\ Talking /\ \A c \in Client : Fit(job[c])

-----------------------------------------------------------------------------
(* The control flow keeps a job's books.                                   *)
LEMMA SpentEnds ==
    ASSUME NEW c \in Client, NEW s \in Repertoire[c], NEW k \in 1 .. Len(s.stages)
    PROVE  EndsFrom(Spent(s.stages[k].body), s.stages[k].body)
<1>1. \E spent \in SUBSET (1 .. Len(s.stages[k].body)) : EndsFrom(spent, s.stages[k].body)
  BY RepertoireAssumption, Zenon DEF WellFormed
<1> QED
  BY <1>1, Zenon DEF Spent

LEMMA EndedFits ==
    ASSUME NEW x, x.script = Nothing, x.k = 0, x.phase \in {"done", "failed"}, x.slices = 0,
           x.poisoned = FALSE, x.out \in Outs
    PROVE  Fit(x)
<1>1. x.slices \in 0 .. MaxSlices
  BY FrontendsAssumption
<1>2. Tidy(x) /\ Deaf(x) /\ Timely(x)
  BY <1>1 DEF Tidy, Deaf, Timely
<1> QED
  BY <1>2 DEF Fit

LEMMA EnterFits ==
    ASSUME NEW j, IsJob(j), Tidy(j), NEW k
    PROVE  Fit(Enter(j, k))
<1>1. CASE k > Len(j.script.stages)
  <2> DEFINE i == At(Nothing, "ok")
             o == At(Nothing, j.out)
             f == [o EXCEPT !.phase = "failed"]
  <2>1. Enter(j, k) = IF j.out = "ok" THEN i ELSE f
    BY <1>1, Zenon DEF Enter, Idle
  <2>2. /\ i.script = Nothing /\ i.k = 0 /\ i.phase = "done" /\ i.out = "ok" /\ i.slices = 0
        /\ i.poisoned = FALSE
    BY Zenon DEF At
  <2>3. /\ f.script = Nothing /\ f.k = 0 /\ f.phase = "failed" /\ f.out = j.out /\ f.slices = 0
        /\ f.poisoned = FALSE
    BY Zenon DEF At
  <2> HIDE DEF i, f
  <2>4. Fit(i)
    BY <2>2, EndedFits DEF Outs
  <2>5. Fit(f)
    BY <2>3, EndedFits DEF Tidy
  <2> QED
    BY <2>1, <2>4, <2>5
<1>2. CASE ~(k > Len(j.script.stages))
  <2> DEFINE e == [j EXCEPT !.k = k, !.at = 1, !.phase = "open", !.id = 0, !.poisoned = FALSE]
  <2>1. Enter(j, k) = e
    BY <1>2, Zenon DEF Enter
  <2>2. e.phase = "open" /\ e.out = j.out /\ e.slices = j.slices /\ e.poisoned = FALSE
    BY Zenon DEF IsJob, Fields
  <2> HIDE DEF e
  <2>3. Fit(e)
    BY <2>2 DEF Fit, Tidy, Deaf, Timely, Over
  <2> QED
    BY <2>1, <2>3
<1> QED
  BY <1>1, <1>2

LEMMA OverFits ==
    ASSUME NEW out \in Outs
    PROVE  Fit(Idle) /\ Fit([At(Nothing, out) EXCEPT !.phase = "failed"])
<1> DEFINE o == At(Nothing, out)
           f == [o EXCEPT !.phase = "failed"]
<1>1. /\ Idle.script = Nothing /\ Idle.k = 0 /\ Idle.phase = "done" /\ Idle.out = "ok"
      /\ Idle.slices = 0 /\ Idle.poisoned = FALSE
  BY Zenon DEF Idle, At
<1>2. /\ f.script = Nothing /\ f.k = 0 /\ f.phase = "failed" /\ f.out = out /\ f.slices = 0
      /\ f.poisoned = FALSE
  BY Zenon DEF At
<1> HIDE DEF f
<1>3. Fit(Idle) /\ Fit(f)
  BY <1>1, <1>2, EndedFits DEF Outs
<1> QED
  BY <1>3 DEF f

(* The changes of the books on the way: a loop begins anew, ends as `e`.   *)
LEMMA Booked ==
    ASSUME NEW j, IsJob(j), Tidy(j), NEW e \in Outs
    PROVE  LET both == [j EXCEPT !.slices = 0, !.out = e]
               out  == [j EXCEPT !.out = e]
               anew == [j EXCEPT !.slices = 0]
           IN  /\ IsJob(both) /\ Tidy(both)
               /\ IsJob(out) /\ Tidy(out)
               /\ IsJob(anew) /\ Tidy(anew)
<1> DEFINE both == [j EXCEPT !.slices = 0, !.out = e]
           out  == [j EXCEPT !.out = e]
           anew == [j EXCEPT !.slices = 0]
<1>0. MaxSlices \in Nat
  BY FrontendsAssumption
<1>1. /\ IsJob(both) /\ both.slices = 0 /\ both.out = e
      /\ IsJob(out) /\ out.slices = j.slices /\ out.out = e
      /\ IsJob(anew) /\ anew.slices = 0 /\ anew.out = j.out
  BY Zenon DEF IsJob, Fields
<1> HIDE DEF both, out, anew
<1>2. Tidy(both) /\ Tidy(out) /\ Tidy(anew)
  BY <1>0, <1>1 DEF Tidy
<1> QED
  BY <1>1, <1>2 DEF both, out, anew

LEMMA OnwardFits ==
    ASSUME NEW j, IsJob(j), Tidy(j)
    PROVE  Fit(Onward(j))
<1> DEFINE i == IF Loops(Current(j)) THEN [j EXCEPT !.slices = 0] ELSE j
<1>1. "ok" \in Outs
  BY DEF Outs
<1>2. IsJob(i) /\ Tidy(i)
  BY <1>1, Booked
<1>3. Onward(j) = Enter(i, j.k + 1)
  BY DEF Onward
<1> HIDE DEF i
<1> QED
  BY <1>2, <1>3, EnterFits

LEMMA RaisedFits ==
    ASSUME NEW j, IsJob(j), Tidy(j), NEW e \in Outs
    PROVE  Fit(Raised(j, e))
<1> DEFINE ok   == [j EXCEPT !.out = "ok"]
           both == [j EXCEPT !.slices = 0, !.out = e]
           k    == IF 1 < j.k /\ j.k < j.script.cleanup THEN j.script.cleanup
                   ELSE Len(j.script.stages) + 1
<1>1. "ok" \in Outs
  BY DEF Outs
<1>2. IsJob(ok) /\ Tidy(ok) /\ IsJob(both) /\ Tidy(both)
  BY <1>1, Booked
<1>3. Raised(j, e) = IF e \in Current(j).catches THEN Onward(ok) ELSE Enter(both, k)
  BY DEF Raised
<1> HIDE DEF ok, both, k
<1> QED
  BY <1>2, <1>3, OnwardFits, EnterFits

LEMMA LateFits ==
    ASSUME NEW j, IsJob(j), Tidy(j)
    PROVE  Fit(Late(j))
<1> DEFINE ok   == [j EXCEPT !.slices = 0, !.out = "ok"]
           late == [j EXCEPT !.slices = 0, !.out = "late"]
           k    == IF j.k < j.script.cleanup THEN j.script.cleanup
                   ELSE Len(j.script.stages) + 1
<1>1. "ok" \in Outs /\ "late" \in Outs
  BY DEF Outs
<1>2. IsJob(ok) /\ Tidy(ok) /\ IsJob(late) /\ Tidy(late)
  BY <1>1, Booked
<1>3. Late(j) = IF Current(j).late = "report" THEN Enter(ok, j.script.report)
                ELSE Enter(late, k)
  BY DEF Late
<1> HIDE DEF ok, late, k
<1> QED
  BY <1>2, <1>3, EnterFits

LEMMA AfterFits ==
    ASSUME NEW j, IsJob(j), Tidy(j), NEW nxt \in After(j)
    PROVE  Fit(nxt)
<1>1. \/ nxt \in {Raised(j, j.out), Late(j), Onward(j)}
      \/ nxt = Again(j, j.k + 1 - Current(j).polls) /\ j.slices < MaxSlices
  BY DEF After
<1>2. CASE nxt = Again(j, j.k + 1 - Current(j).polls) /\ j.slices < MaxSlices
  <2> DEFINE pass == [j EXCEPT !.slices = j.slices + 1]
             k == j.k + 1 - Current(j).polls
  <2>1. IsJob(pass) /\ pass.slices = j.slices + 1 /\ pass.out = j.out
    BY Zenon DEF IsJob, Fields
  <2>2. Again(j, k) = Enter(pass, k)
    BY DEF Again
  <2> HIDE DEF pass, k
  <2>3. Tidy(pass)
    BY <1>2, <2>1, FrontendsAssumption DEF Tidy
  <2>4. Fit(Enter(pass, k))
    BY <2>1, <2>3, EnterFits
  <2> QED
    BY <1>2, <2>2, <2>4 DEF k
<1>3. j.out \in Outs
  BY DEF Tidy
<1> QED
  BY <1>1, <1>2, <1>3, RaisedFits, LateFits, OnwardFits

LEMMA UnwindFits ==
    ASSUME NEW j, IsJob(j), Tidy(j), j.poisoned \in BOOLEAN, NEW out \in Outs
    PROVE  /\ Fit(Unwind(j, out))
           /\ Unwind(j, out).at = 0 /\ Unwind(j, out).id = j.id
           /\ Unwind(j, out).out = out
           /\ Unwind(j, out).phase = "close" \/ (Unwind(j, out).phase = "call" /\ j.at # 0)
<1> DEFINE phase == IF Current(j).finally = "none" \/ j.at = 0 THEN "close" ELSE "call"
           u == [j EXCEPT !.at = 0, !.out = out, !.phase = phase]
<1>1. Unwind(j, out) = u
  BY Zenon DEF Unwind
<1>2. phase = "close" \/ (phase = "call" /\ j.at # 0)
  OBVIOUS
<1> HIDE DEF phase
<1>3. /\ u.id = j.id /\ u.at = 0 /\ u.phase = phase /\ u.out = out /\ u.slices = j.slices
      /\ u.poisoned = j.poisoned
  BY Zenon DEF IsJob, Fields
<1> HIDE DEF u
<1>4. Fit(u)
  BY <1>2, <1>3 DEF Fit, Tidy, Deaf, Timely, Over
<1> QED
  BY <1>1, <1>2, <1>3, <1>4

-----------------------------------------------------------------------------
(* How a step keeps the invariant, by what it does to the stream.          *)
LEMMA Talker ==
    ASSUME TalkInv, NEW c \in Client
    PROVE  /\ IInv /\ Sound(c, job[c]) /\ IsJob(job[c]) /\ Fit(job[c]) /\ Tidy(job[c])
           /\ job[c].poisoned \in BOOLEAN /\ job[c].id \in Nat
  BY UnderWay DEF TalkInv, Fit

LEMMA Changed ==
    ASSUME TalkInv, NEW c \in Client, NEW nxt, Go(c, nxt)
    PROVE  job'[c] = nxt /\ \A d \in Client : d # c => job'[d] = job[d]
  BY Zenon DEF TalkInv, IInv, Jobs, Go

LEMMA StreamStays == Stream(conn) /\ UNCHANGED conn => Stream(conn)'
  BY DEF Stream, IsConn, Load, Calls

LEMMA SameStream ==
    ASSUME NEW x, Stream(x), NEW y, IsConn(y), y.open \in BOOLEAN, y.by = x.by,
           y.stage = x.stage, y.requests = x.requests, y.answers = x.answers
    PROVE  Stream(y)
<1>1. Load(y) <= 2
  BY DEF Load, Stream
<1> QED
  BY <1>1, Zenon DEF Stream

LEMMA NoStream == conn' = NoConn => Stream(conn)' /\ conn'.by = {}
<1> SUFFICES ASSUME conn' = NoConn PROVE Stream(conn)' /\ conn'.by = {}
  OBVIOUS
<1>1. /\ conn'.open = FALSE /\ conn'.by = {} /\ conn'.requests = <<>> /\ conn'.answers = <<>>
      /\ IsConn(conn')
  BY DEF NoConn, IsConn
<1>2. Load(conn') <= 2
  BY <1>1 DEF Load
<1> QED
  BY <1>1, <1>2, EmptySeq, Zenon DEF Stream, IsConn, Load, Calls

(* The process stops calling: what it left on the stream is nobody's.      *)
LEMMA StopsTalking ==
    ASSUME TalkInv, IInv', Stream(conn)', NEW c \in Client, NEW nxt, Go(c, nxt),
           Settled(c, nxt), Fit(nxt),
           \/ conn'.by = {}
           \/ conn'.by = conn.by /\ conn'.requests = conn.requests /\ conn'.answers = conn.answers
    PROVE  TalkInv'
<1>1. job'[c] = nxt /\ \A d \in Client : d # c => job'[d] = job[d]
  BY Changed, Zenon
<1>2. nxt.phase \notin {"call", "await"}
  BY DEF Settled
<1>3. \A d \in Client : Fit(job'[d])
  BY <1>1, Zenon DEF TalkInv
<1>4. Talking'
  <2> SUFFICES ASSUME NEW d \in Client, conn'.by = {d}, job'[d].phase \in {"call", "await"}
               PROVE  Awaits(conn', job'[d])
    BY Zenon DEF Talking, Mine, Awaits, Follows, Load, Room, Method, Current
  <2>1. d # c /\ conn'.by # {}
    BY <1>1, <1>2
  <2>2. job'[d] = job[d] /\ Mine(d)
    BY <1>1, <2>1, Zenon DEF Mine
  <2>3. Awaits(conn, job[d])
    BY <2>2 DEF TalkInv, Talking
  <2>4. conn'.requests = conn.requests /\ conn'.answers = conn.answers
    BY <2>1, Zenon
  <2> QED
    BY <2>2, <2>3, <2>4, Zenon DEF Awaits, Load
<1> QED
  BY <1>3, <1>4, Zenon DEF TalkInv, Fit, Tidy, Deaf, Timely, Over, Current

(* The process goes on calling, or closes.                                 *)
LEMMA GoesOnTalking ==
    ASSUME TalkInv, IInv', Stream(conn)', NEW c \in Client, NEW nxt, Go(c, nxt), Fit(nxt),
           conn'.by = conn.by,
           ~Mine(c) => UNCHANGED conn,
           Mine(c) /\ nxt.phase \in {"call", "await"} => Awaits(conn', nxt)
    PROVE  TalkInv'
<1>1. job'[c] = nxt /\ \A d \in Client : d # c => job'[d] = job[d]
  BY Changed, Zenon
<1>3. \A d \in Client : Fit(job'[d])
  BY <1>1, Zenon DEF TalkInv
<1>4. Talking'
  <2> SUFFICES ASSUME NEW d \in Client, conn'.by = {d}, job'[d].phase \in {"call", "await"}
               PROVE  Awaits(conn', job'[d])
    BY Zenon DEF Talking, Mine, Awaits, Follows, Load, Room, Method, Current
  <2>1. Mine(d)
    BY Zenon DEF Mine
  <2>2. CASE d = c
    BY <1>1, <2>1, <2>2, Zenon
  <2>3. CASE d # c
    <3>1. job'[d] = job[d]
      BY <1>1, <2>3
    <3>2. Awaits(conn, job[d])
      BY <2>1, <3>1 DEF TalkInv, Talking
    <3>3. ~Mine(c)
      BY <2>1, <2>3 DEF Mine
    <3> QED
      BY <3>1, <3>2, <3>3, Zenon
  <2> QED
    BY <2>2, <2>3
<1> QED
  BY <1>3, <1>4, Zenon DEF TalkInv, Fit, Tidy, Deaf, Timely, Over, Current

(* Nobody's job changes.                                                   *)
LEMMA OthersTalk ==
    ASSUME TalkInv, IInv', Stream(conn)', UNCHANGED job,
           \/ conn'.by = {}
           \/ conn'.by = conn.by /\ \A j : Awaits(conn, j) => Awaits(conn', j)
    PROVE  TalkInv'
<1>3. \A d \in Client : Fit(job'[d])
  BY Zenon DEF TalkInv
<1>4. Talking'
  <2> SUFFICES ASSUME NEW d \in Client, conn'.by = {d}, job'[d].phase \in {"call", "await"}
               PROVE  Awaits(conn', job'[d])
    BY Zenon DEF Talking, Mine, Awaits, Follows, Load, Room, Method, Current
  <2>1. conn'.by # {}
    OBVIOUS
  <2>2. Mine(d) /\ \A j : Awaits(conn, j) => Awaits(conn', j)
    BY <2>1, Zenon DEF Mine
  <2>3. Awaits(conn, job[d])
    BY <2>2 DEF TalkInv, Talking
  <2> QED
    BY <2>2, <2>3, Zenon
<1> QED
  BY <1>3, <1>4, Zenon DEF TalkInv, Fit, Tidy, Deaf, Timely, Over, Current

-----------------------------------------------------------------------------
(* Each action keeps the invariant.                                        *)
LEMMA SettlingTalks ==
    ASSUME TalkInv, NEW c \in Client,
           Begin(c) \/ Exit(c) \/ LaunchSession(c) \/ KillSession(c) \/ ConnectFails(c) \/ Close(c)
    PROVE  TalkInv'
<1>1. /\ IInv /\ Sound(c, job[c]) /\ IsJob(job[c]) /\ Tidy(job[c]) /\ job[c].id \in Nat
      /\ job[c].phase \notin {"done", "failed"} =>
            job[c].script \in Repertoire[c] /\ job[c].k \in Nat
  BY Talker, UnderWay
<1>2. IInv'
  BY <1>1, BeginKeeps, ExitKeeps, LaunchKeeps, KillKeeps, ConnectFailsKeeps, CloseKeeps, Zenon
<1>3. "session" \in Outs /\ "ok" \in Outs
  BY DEF Outs, Errors
<1>4. Stream(conn)' /\ (conn'.by = {} \/
         (conn'.by = conn.by /\ conn'.requests = conn.requests /\ conn'.answers = conn.answers))
  <2>1. CASE conn' = NoConn
    BY <2>1, NoStream
  <2>2. CASE UNCHANGED conn
    BY <2>2, StreamStays DEF TalkInv
  <2>3. CASE conn' = [conn EXCEPT !.open = FALSE]
    <3>1. /\ IsConn(conn') /\ conn'.open = FALSE /\ conn'.by = conn.by /\ conn'.stage = conn.stage
          /\ conn'.requests = conn.requests /\ conn'.answers = conn.answers
      BY <2>3 DEF TalkInv, Stream, IsConn
    <3>2. conn'.open \in BOOLEAN
      BY <3>1
    <3>3. Stream(conn')
      BY <3>1, <3>2, SameStream, Zenon DEF TalkInv
    <3> QED
      BY <3>1, <3>3
  <2> QED
    BY <2>1, <2>2, <2>3 DEF Begin, Exit, LaunchSession, KillSession, ConnectFails, Close
<1>5. \E nxt : Settled(c, nxt) /\ Fit(nxt) /\ Go(c, nxt)
  <2>1. CASE Begin(c)
    <3>1. PICK s \in Repertoire[c] : Go(c, Enter(At(s, "ok"), 1))
      BY <2>1, Zenon DEF Begin
    <3>2. Settled(c, Enter(At(s, "ok"), 1))
      BY NewJob, EnterSettles
    <3>3. IsJob(At(s, "ok")) /\ At(s, "ok").out = "ok"
      BY NewJob
    <3>4. At(s, "ok").slices = 0
      BY Zenon DEF At
    <3>5. Tidy(At(s, "ok"))
      BY <1>3, <3>3, <3>4, FrontendsAssumption DEF Tidy
    <3>6. Fit(Enter(At(s, "ok"), 1))
      BY <3>3, <3>5, EnterFits
    <3> QED
      BY <3>1, <3>2, <3>6, Zenon
  <2>2. CASE Exit(c)
    BY <1>3, <2>2, OverIsSettled, OverFits, Zenon DEF Exit
  <2>3. CASE LaunchSession(c) \/ KillSession(c) \/ ConnectFails(c)
    <3>1. Go(c, Onward(job[c])) \/ Go(c, Raised(job[c], "session"))
      BY <2>3 DEF LaunchSession, KillSession, ConnectFails
    <3>2. Settled(c, Onward(job[c])) /\ Settled(c, Raised(job[c], "session"))
      BY <1>1, <2>3, OnwardSettles, RaisedSettles
         DEF LaunchSession, KillSession, ConnectFails
    <3>3. Fit(Onward(job[c])) /\ Fit(Raised(job[c], "session"))
      BY <1>1, <1>3, OnwardFits, RaisedFits
    <3> QED
      BY <3>1, <3>2, <3>3, Zenon
  <2>4. CASE Close(c)
    <3>1. PICK nxt \in After(job[c]) : Go(c, nxt)
      BY <2>4, Zenon DEF Close
    <3>2. job[c].phase \notin {"done", "failed"}
      BY <2>4 DEF Close
    <3>3. Settled(c, nxt) /\ Fit(nxt)
      BY <1>1, <3>2, AfterSettles, AfterFits
    <3> QED
      BY <3>1, <3>3, Zenon
  <2> QED
    BY <2>1, <2>2, <2>3, <2>4
<1> QED
  BY <1>2, <1>4, <1>5, StopsTalking, Zenon

LEMMA ConnectTalks ==
    ASSUME TalkInv, NEW c \in Client, Connect(c)
    PROVE  TalkInv'
<1> DEFINE nxt == [job[c] EXCEPT !.phase = "call"]
<1>1. /\ IInv /\ Sound(c, job[c]) /\ IsJob(job[c]) /\ Fit(job[c]) /\ job[c].id \in Nat
      /\ job[c].script \in Repertoire[c] /\ job[c].k \in 1 .. Len(job[c].script.stages)
      /\ job[c].phase = "open" /\ job[c].at = 1 /\ Current(job[c]).kind = "tenure" /\ Go(c, nxt)
  BY Talker, UnderWay DEF Connect, Sound
<1>2. IInv'
  BY <1>1, ConnectKeeps
<1>3. /\ nxt.phase = "call" /\ nxt.at = 1 /\ nxt.out = job[c].out /\ nxt.slices = job[c].slices
      /\ nxt.poisoned = job[c].poisoned /\ nxt.script = job[c].script /\ nxt.k = job[c].k
  BY <1>1, Zenon DEF IsJob, Fields
<1>4. job'[c] = nxt /\ \A d \in Client : d # c => job'[d] = job[d]
  BY <1>1, Changed, Zenon
<1> HIDE DEF nxt
<1>5. /\ IsConn(conn') /\ conn'.open = TRUE /\ conn'.by = {c} /\ conn'.requests = <<>>
      /\ conn'.answers = <<>>
  BY DEF Connect, NoConn, IsConn
<1>6. Load(conn') = 0
  BY <1>5 DEF Load
<1>7. Stream(conn)'
  <2>1. conn'.open \in BOOLEAN
    BY <1>5
  <2>2. Load(conn') <= 2
    BY <1>6
  <2> QED
    BY <1>5, <2>1, <2>2, EmptySeq, Zenon DEF Stream, IsConn, Load, Calls
<1>8. Fit(nxt)
  <2>1. Current(nxt).body = Current(job[c]).body
    BY <1>3 DEF Current
  <2>2. EndsFrom(Spent(Current(job[c]).body), Current(job[c]).body)
    BY <1>1, SpentEnds DEF Current
  <2>3. Len(Current(job[c]).body) # 0
    BY <1>1, Bodies DEF Current
  <2>4. 1 \in Spent(Current(nxt).body)
    BY <2>1, <2>2, <2>3 DEF EndsFrom
  <2>5. job[c].poisoned = FALSE
    BY <1>1 DEF Fit, Deaf
  <2> QED
    BY <1>1, <1>3, <2>4, <2>5 DEF Fit, Tidy, Deaf, Timely, Over
<1>9. Awaits(conn', nxt)
  BY <1>3, <1>5, <1>6 DEF Awaits, Room
<1>10. Talking'
  <2> SUFFICES ASSUME NEW d \in Client, conn'.by = {d}, job'[d].phase \in {"call", "await"}
               PROVE  Awaits(conn', job'[d])
    BY Zenon DEF Talking, Mine, Awaits, Follows, Load, Room, Method, Current
  <2>1. d = c
    BY <1>5
  <2> QED
    BY <1>4, <1>9, <2>1
<1>11. \A d \in Client : Fit(job'[d])
  BY <1>4, <1>8, Zenon DEF TalkInv
<1> QED
  BY <1>2, <1>7, <1>10, <1>11, Zenon DEF TalkInv, Fit, Tidy, Deaf, Timely, Over, Current

(* What a shorter stream still holds was on it before.                     *)
LEMMA TailHolds ==
    ASSUME NEW S, NEW s \in Seq(S), s # <<>>
    PROVE  /\ Tail(s) \in Seq(S) /\ Len(Tail(s)) = Len(s) - 1 /\ Len(s) \in Nat \ {0}
           /\ Head(s) = s[1] /\ 1 \in 1 .. Len(s)
           /\ \A i \in 1 .. Len(Tail(s)) : i + 1 \in 1 .. Len(s) /\ Tail(s)[i] = s[i + 1]
  BY HeadTailProperties

LEMMA Sums ==
    ASSUME NEW a \in Nat, NEW b \in Nat
    PROVE  a + b \in Nat /\ (a + 1) + b = (a + b) + 1
  OBVIOUS

LEMMA Exchanged ==
    ASSUME NEW a \in Nat, NEW b \in Nat
    PROVE  (a - 1) + (b + 1) = a + b /\ 0 + b <= a + b /\ 0 + b \in Nat
  OBVIOUS

LEMMA TwoAtMost ==
    ASSUME NEW a \in Nat, NEW b \in Nat, a + b <= 2
    PROVE  a <= 2 /\ b <= 2
  OBVIOUS

LEMMA StreamLengths ==
    ASSUME NEW x, Stream(x)
    PROVE  /\ Len(x.requests) \in Nat /\ Len(x.answers) \in Nat
           /\ Load(x) = Len(x.requests) + Len(x.answers)
           /\ Load(x) \in Nat /\ Load(x) <= 2
           /\ \A i \in 1 .. Len(x.requests) : x.requests[i].id \in Nat
           /\ \A i \in 1 .. Len(x.answers) : x.answers[i].id \in Nat
<1> DEFINE R == [id : Nat, method : Calls(x.stage)]
           A == [id : Nat, out : {"ok", "late", "err"}, method : Calls(x.stage)]
<1>1. x.requests \in Seq(R) /\ x.answers \in Seq(A) /\ Load(x) <= 2
  BY Zenon DEF Stream
<1>2. (\A r \in R : r.id \in Nat) /\ (\A a \in A : a.id \in Nat)
  OBVIOUS
<1> HIDE DEF R, A
<1>3. /\ Len(x.requests) \in Nat /\ \A i \in 1 .. Len(x.requests) : x.requests[i] \in R
      /\ Len(x.answers) \in Nat /\ \A i \in 1 .. Len(x.answers) : x.answers[i] \in A
  BY <1>1
<1>4. Load(x) = Len(x.requests) + Len(x.answers)
  BY DEF Load
<1>5. Load(x) \in Nat
  BY <1>3, Sums, Zenon DEF Load
<1> QED
  BY <1>1, <1>2, <1>3, <1>4, <1>5, Zenon

LEMMA AnswersTail ==
    ASSUME NEW x, Stream(x), x.answers # <<>>
    PROVE  /\ Len(Tail(x.answers)) = Len(x.answers) - 1 /\ Len(x.answers) # 0
           /\ \A i \in 1 .. Len(Tail(x.answers)) :
                  i + 1 \in 1 .. Len(x.answers) /\ Tail(x.answers)[i] = x.answers[i + 1]
<1>1. PICK S : x.answers \in Seq(S)
  BY Zenon DEF Stream
<1> QED
  BY <1>1, TailHolds

LEMMA TakenOff ==
    ASSUME NEW x, Stream(x), x.answers # <<>>,
           NEW y, y.requests = x.requests, y.answers = Tail(x.answers)
    PROVE  Load(y) = Load(x) - 1
<1>1. Len(x.requests) + (Len(x.answers) - 1) = (Len(x.requests) + Len(x.answers)) - 1
  BY StreamLengths
<1>2. Len(Tail(x.answers)) = Len(x.answers) - 1
  BY AnswersTail
<1>3. Load(y) = Len(x.requests) + (Len(x.answers) - 1)
  BY <1>2, Zenon DEF Load
<1>4. Load(x) = Len(x.requests) + Len(x.answers)
  BY Zenon DEF Load
<1> QED
  BY <1>1, <1>3, <1>4, Zenon

LEMMA PutOn ==
    ASSUME NEW x, Stream(x),
           NEW y, Len(y.requests) = Len(x.requests) + 1, y.answers = x.answers
    PROVE  Load(y) = Load(x) + 1
<1>1. (Len(x.requests) + 1) + Len(x.answers) = (Len(x.requests) + Len(x.answers)) + 1
  BY StreamLengths, Sums, Zenon
<1>2. Load(y) = (Len(x.requests) + 1) + Len(x.answers)
  BY Zenon DEF Load
<1>3. Load(x) = Len(x.requests) + Len(x.answers)
  BY Zenon DEF Load
<1> QED
  BY <1>1, <1>2, <1>3, Zenon

(* Answered or given up, a body leaves its finally verb room for its call. *)
LEMMA FinallyFits ==
    ASSUME NEW x, Stream(x), NEW j, j.id \in Nat, Awaits(x, j), j.phase = "await", j.at # 0,
           NEW u, u.phase = "call", u.at = 0, u.id = j.id
    PROVE  /\ Awaits(x, u)
           /\ \A y : y.requests = x.requests /\ x.answers # <<>> /\ y.answers = Tail(x.answers)
                        => Awaits(y, u)
<1>1. Room(j) = 1 /\ Room(u) = 1
  BY DEF Room
<1>2. \A m : Follows(m, j) => Follows(m, u)
  BY DEF Follows
<1>3. Awaits(x, u)
  BY <1>1, <1>2, Zenon DEF Awaits
<1>4. ASSUME NEW y, y.requests = x.requests, x.answers # <<>>, y.answers = Tail(x.answers)
      PROVE  Awaits(y, u)
  <2>1. /\ Len(y.answers) = Len(x.answers) - 1
        /\ \A i \in 1 .. Len(y.answers) :
                i + 1 \in 1 .. Len(x.answers) /\ y.answers[i] = x.answers[i + 1]
    BY <1>4, AnswersTail
  <2>2. Load(y) <= Room(u)
    <3>1. Load(x) \in Nat
      BY StreamLengths
    <3>2. Load(x) <= Room(j)
      BY Zenon DEF Awaits
    <3>3. Load(y) = Load(x) - 1
      BY <1>4, TakenOff, Zenon
    <3> QED
      BY <1>1, <3>1, <3>2, <3>3
  <2>3. \A i \in 1 .. Len(y.answers) : Follows(y.answers[i], u)
    BY <1>2, <2>1, Zenon DEF Awaits
  <2> QED
    BY <1>2, <1>4, <2>2, <2>3, Zenon DEF Awaits
<1> QED
  BY <1>3, <1>4, Zenon

LEMMA GivenUpTalks ==
    ASSUME TalkInv, NEW c \in Client, NEW j, NEW out \in Outs,
           job[c].phase = "await", UNCHANGED conn, Go(c, Unwind(j, out)), IInv',
           IsJob(j), Tidy(j), j.poisoned \in BOOLEAN, j.id = job[c].id, j.at = job[c].at
    PROVE  TalkInv'
<1> DEFINE u == Unwind(j, out)
<1>1. /\ Fit(u) /\ u.at = 0 /\ u.id = job[c].id
      /\ u.phase = "close" \/ (u.phase = "call" /\ job[c].at # 0)
  BY UnwindFits
<1> HIDE DEF u
<1>2. Go(c, u)
  BY DEF u
<1>3. Stream(conn)' /\ conn'.by = conn.by /\ Stream(conn)
  BY StreamStays DEF TalkInv
<1>4. Mine(c) /\ u.phase \in {"call", "await"} => Awaits(conn', u)
  <2> SUFFICES ASSUME Mine(c), u.phase \in {"call", "await"} PROVE Awaits(conn', u)
    OBVIOUS
  <2>1. u.phase = "call" /\ job[c].at # 0 /\ job[c].id \in Nat
    BY <1>1, Talker
  <2>2. Awaits(conn, job[c])
    BY DEF TalkInv, Talking
  <2>3. Awaits(conn, u)
    BY <1>1, <1>3, <2>1, <2>2, FinallyFits
  <2> QED
    BY <2>3
<1> QED
  BY <1>1, <1>2, <1>3, <1>4, GoesOnTalking, Zenon

LEMMA TimeoutTalks ==
    ASSUME TalkInv, NEW c \in Client, TimesOut(c) \/ Lost(c)
    PROVE  TalkInv'
<1> DEFINE deaf == [job[c] EXCEPT !.poisoned = TRUE]
<1>1. /\ IInv /\ IsJob(job[c]) /\ Tidy(job[c]) /\ job[c].poisoned \in BOOLEAN
      /\ job[c].phase = "await" /\ UNCHANGED conn
  BY Talker DEF TimesOut, Lost
<1>2. IInv' /\ "os" \in Outs
  BY <1>1, GivenUpKeeps DEF Outs, Errors
<1>3. /\ IsJob(deaf) /\ deaf.id = job[c].id /\ deaf.at = job[c].at /\ deaf.poisoned = TRUE
      /\ deaf.out = job[c].out /\ deaf.slices = job[c].slices
  BY <1>1, Zenon DEF IsJob, Fields
<1>4. Go(c, Unwind(deaf, "os")) \/ Go(c, Unwind(job[c], "os"))
  BY Zenon DEF TimesOut, Lost
<1> HIDE DEF deaf
<1>5. Tidy(deaf) /\ deaf.poisoned \in BOOLEAN
  BY <1>1, <1>3 DEF Tidy
<1>6. CASE Go(c, Unwind(deaf, "os"))
  BY <1>1, <1>2, <1>3, <1>5, <1>6, GivenUpTalks, Zenon
<1>7. CASE Go(c, Unwind(job[c], "os"))
  BY <1>1, <1>2, <1>7, GivenUpTalks, Zenon
<1> QED
  BY <1>4, <1>6, <1>7

LEMMA InterruptTalks ==
    ASSUME TalkInv, NEW c \in Client, Interrupt(c)
    PROVE  TalkInv'
<1>1. /\ IInv /\ IsJob(job[c]) /\ Sound(c, job[c]) /\ Tidy(job[c]) /\ job[c].poisoned \in BOOLEAN
      /\ UNCHANGED conn
      /\ job[c].phase \notin {"done", "failed"} =>
            job[c].script \in Repertoire[c] /\ job[c].k \in Nat
  BY Talker, UnderWay DEF Interrupt
<1>2. IInv' /\ "interrupt" \in Outs
  BY <1>1, InterruptKeeps DEF Outs, Errors
<1>3. CASE job[c].phase = "open"
  <2>1. Go(c, Raised(job[c], "interrupt"))
    BY <1>3 DEF Interrupt
  <2>2. Settled(c, Raised(job[c], "interrupt")) /\ Fit(Raised(job[c], "interrupt"))
    BY <1>1, <1>2, <1>3, RaisedSettles, RaisedFits
  <2>3. Stream(conn)' /\ conn'.by = conn.by /\ conn'.requests = conn.requests
            /\ conn'.answers = conn.answers
    BY <1>1, StreamStays DEF TalkInv
  <2> QED
    BY <1>2, <2>1, <2>2, <2>3, StopsTalking, Zenon
<1>4. CASE job[c].phase = "await"
  <2>1. Go(c, Unwind(job[c], "interrupt"))
    BY <1>4 DEF Interrupt
  <2> QED
    BY <1>1, <1>2, <1>4, <2>1, GivenUpTalks, Zenon
<1> QED
  BY <1>3, <1>4 DEF Interrupt

(* A request goes out under a number no message on the stream has.         *)
LEMMA CallTalks ==
    ASSUME TalkInv, NEW c \in Client, Call(c)
    PROVE  TalkInv'
<1> DEFINE next == [job[c] EXCEPT !.phase = "await", !.id = job[c].id + 1]
           request == [id |-> job[c].id + 1, method |-> Method(job[c])]
           u == Unwind(job[c], "os")
<1>1. /\ IInv /\ IsJob(job[c]) /\ Fit(job[c]) /\ Tidy(job[c]) /\ job[c].poisoned \in BOOLEAN
      /\ job[c].id \in Nat /\ job[c].phase = "call"
  BY Talker DEF Call
<1>2. IInv'
  BY <1>1, CallKeeps
<1>3. /\ next.script = job[c].script /\ next.k = job[c].k /\ next.out = job[c].out
      /\ next.id = job[c].id + 1 /\ next.at = job[c].at /\ next.phase = "await"
      /\ next.slices = job[c].slices /\ next.poisoned = job[c].poisoned
  BY <1>1, Zenon DEF IsJob, Fields
<1>4. /\ IF Mine(c) THEN conn' = [conn EXCEPT !.requests = Append(conn.requests, request)]
         ELSE UNCHANGED conn
      /\ Go(c, IF Mine(c) /\ ~job[c].poisoned THEN next ELSE u)
  BY Zenon DEF Call
<1>5. /\ Fit(u) /\ u.at = 0
      /\ u.phase = "close" \/ (u.phase = "call" /\ job[c].at # 0)
  <2>1. "os" \in Outs
    BY DEF Outs, Errors
  <2> QED
    BY <1>1, <2>1, UnwindFits
<1>6. request.id = job[c].id + 1 /\ request.method = Method(job[c])
  OBVIOUS
<1> HIDE DEF next, request, u
<1>7. CASE ~Mine(c)
  <2>1. UNCHANGED conn /\ Go(c, u)
    BY <1>4, <1>7, Zenon
  <2>2. Stream(conn)' /\ conn'.by = conn.by
    BY <2>1, StreamStays DEF TalkInv
  <2> QED
    BY <1>2, <1>5, <1>7, <2>1, <2>2, GoesOnTalking, Zenon
<1>8. CASE Mine(c)
  <2>1. /\ IsConn(conn) /\ Stream(conn) /\ Awaits(conn, job[c])
        /\ conn.requests \in Seq([id : Nat, method : Calls(conn.stage)])
    BY <1>1, <1>8 DEF TalkInv, Stream, Talking
  <2>2. conn' = [conn EXCEPT !.requests = Append(conn.requests, request)]
    BY <1>4, <1>8, Zenon
  <2>3. /\ IsConn(conn') /\ conn'.by = conn.by /\ conn'.stage = conn.stage
        /\ conn'.open = conn.open /\ conn'.answers = conn.answers
        /\ conn'.requests = Append(conn.requests, request)
    BY <2>1, <2>2 DEF IsConn
  <2>4. /\ Len(conn'.requests) = Len(conn.requests) + 1
        /\ \A i \in 1 .. Len(conn'.requests) :
                (i \in 1 .. Len(conn.requests) /\ conn'.requests[i] = conn.requests[i])
                    \/ conn'.requests[i] = request
    BY <2>1, <2>3
  <2>5. Room(job[c]) = (IF job[c].at = 0 THEN 1 ELSE 0) /\ Load(conn') = Load(conn) + 1
    <3>1. Room(job[c]) = (IF job[c].at = 0 THEN 1 ELSE 0)
      BY <1>1 DEF Room
    <3>2. Load(conn') = Load(conn) + 1
      <4>1. Len(conn'.requests) = Len(conn.requests) + 1
        BY <2>4
      <4> QED
        BY <2>1, <2>3, <4>1, PutOn, Zenon
    <3> QED
      BY <3>1, <3>2
  <2>9. Load(conn) \in Int /\ Load(conn) <= Room(job[c])
    <3>1. Load(conn) <= Room(job[c])
      BY <2>1, Zenon DEF Awaits
    <3>2. Load(conn) \in Nat
      BY <2>1, StreamLengths
    <3> QED
      BY <3>1, <3>2
  <2>6. Stream(conn')
    <3>1. Load(conn') <= 2
      BY <2>5, <2>9
    <3>2. conn'.requests \in Seq([id : Nat, method : Calls(conn'.stage)])
      BY <1>2, Zenon DEF IInv, Queued, Calls
    <3> QED
      BY <2>1, <2>3, <3>1, <3>2, Zenon DEF Stream
  <2>7. CASE job[c].poisoned = FALSE
    <3>1. Go(c, next)
      BY <1>4, <1>8, <2>7, Zenon
    <3>2. Fit(next)
      <4>1. Current(next) = Current(job[c])
        BY <1>3 DEF Current
      <4> QED
        BY <1>1, <1>3, <2>7, <4>1 DEF Fit, Tidy, Deaf, Timely, Over
    <3>3. Method(next) = Method(job[c])
      BY <1>3 DEF Method, Current
    <3>4. Follows(request, next)
      BY <1>1, <1>3, <1>6, <3>3 DEF Follows
    <3>5. /\ \A i \in 1 .. Len(conn.requests) : conn.requests[i].id \in Nat
          /\ \A i \in 1 .. Len(conn.answers) : conn.answers[i].id \in Nat
      BY <2>1, StreamLengths
    <3>6. \A m : m.id \in Nat /\ Follows(m, job[c]) => Follows(m, next)
      BY <1>1, <1>3 DEF Follows
    <3>7. /\ \A i \in 1 .. Len(conn.requests) : Follows(conn.requests[i], next)
          /\ \A i \in 1 .. Len(conn.answers) : Follows(conn.answers[i], next)
      BY <2>1, <3>5, <3>6, Zenon DEF Awaits
    <3>8. Load(conn') <= Room(next)
      BY <1>3, <2>5, <2>9 DEF Room
    <3>9. Awaits(conn', next)
      BY <2>3, <2>4, <3>4, <3>7, <3>8, Zenon DEF Awaits
    <3> QED
      BY <1>2, <1>8, <2>3, <2>6, <3>1, <3>2, <3>9, GoesOnTalking, Zenon
  <2>8. CASE job[c].poisoned = TRUE
    <3>1. Go(c, u)
      BY <1>4, <2>8, Zenon
    <3>2. job[c].at = 0
      BY <1>1, <2>8 DEF Fit, Deaf
    <3>3. u.phase \notin {"call", "await"}
      BY <1>5, <3>2
    <3> QED
      BY <1>2, <1>5, <1>8, <2>3, <2>6, <3>1, <3>3, GoesOnTalking, Zenon
  <2> QED
    BY <1>1, <2>7, <2>8
<1> QED
  BY <1>7, <1>8

(* An answer leads on within the body while its deadline lasts.            *)
LEMMA AnsweredOn ==
    ASSUME NEW c \in Client, Answered(c), job[c].out \in Outs
    PROVE  \/ \E out \in Outs : Go(c, Unwind(job[c], out))
           \/ \E n \in Followers(job[c]) :
               /\ n # Done
               /\ Go(c, [job[c] EXCEPT !.at = n, !.phase = "call",
                           !.slices = IF n <= job[c].at THEN job[c].slices + 1
                                      ELSE job[c].slices])
<1> DEFINE On(n) == [job[c] EXCEPT !.at = n, !.phase = "call",
                           !.slices = IF n <= job[c].at THEN @ + 1 ELSE @]
<1>1. \/ Go(c, Unwind(job[c], "os")) \/ Go(c, Unwind(job[c], "other"))
      \/ Go(c, Unwind(job[c], "late")) \/ Go(c, Unwind(job[c], job[c].out))
      \/ Go(c, Unwind(job[c], "ok"))
      \/ \E n \in Followers(job[c]) : n # Done /\ Go(c, On(n))
  BY DEF Answered
<1>2. "os" \in Outs /\ "other" \in Outs /\ "late" \in Outs /\ "ok" \in Outs
  BY DEF Outs, Errors
<1> QED
  BY <1>1, <1>2, Zenon

(* Where a body goes on to, and in which pass of its loop.                 *)
LEMMA OnInTime ==
    ASSUME NEW c \in Client, NEW j, Sound(c, j), Fit(j), j.phase = "await", j.at # 0,
           NEW n \in Followers(j), n # Done
    PROVE  /\ n # 0
           /\ (IF n <= j.at THEN j.slices + 1 ELSE j.slices) \in 0 .. MaxSlices
           /\ (IF n <= j.at THEN j.slices + 1 ELSE j.slices) = MaxSlices =>
                  n \in Spent(Current(j).body)
<1> DEFINE body == Current(j).body
<1>1. /\ j.script \in Repertoire[c] /\ j.k \in 1 .. Len(j.script.stages)
      /\ j.at \in 1 .. Len(body) /\ j.slices \in 0 .. MaxSlices
      /\ j.slices = MaxSlices => j.at \in Spent(body)
  BY DEF Sound, Fit, Tidy, Timely
<1>2. EndsFrom(Spent(body), body) /\ Len(body) \in Nat
  BY <1>1, SpentEnds, Bodies DEF Current
<1>3. n \in body[j.at].next \cup body[j.at].last
  BY DEF Followers
<1>4. n \in {Done} \cup 1 .. Len(body)
  <2>1. body[j.at].next \cup body[j.at].last \subseteq {Done} \cup 1 .. Len(body)
    BY <1>1, Bodies DEF Current
  <2> QED
    BY <1>3, <2>1
<1>5. \/ n \in body[j.at].next /\ j.slices < MaxSlices
      \/ n \in body[j.at].last /\ j.slices = MaxSlices
  BY <1>1, FrontendsAssumption DEF Followers
<1> HIDE DEF body
<1>6. n \in 1 .. Len(body) /\ n # 0
  BY <1>2, <1>4 DEF Done
<1>7. CASE n \in body[j.at].next /\ j.slices < MaxSlices
  <2>1. n <= j.at => n \in Spent(body)
    BY <1>1, <1>2, <1>7 DEF EndsFrom
  <2> QED
    BY <1>1, <1>6, <1>7, <2>1, FrontendsAssumption DEF body
<1>8. CASE n \in body[j.at].last /\ j.slices = MaxSlices
  <2>1. n > j.at /\ n \in Spent(body)
    BY <1>1, <1>2, <1>8 DEF EndsFrom
  <2>2. ~(n <= j.at)
    BY <1>1, <1>2, <1>6, <2>1
  <2> QED
    BY <1>1, <1>6, <1>8, <2>1, <2>2 DEF body
<1> QED
  BY <1>5, <1>7, <1>8

LEMMA AnsweredTalks ==
    ASSUME TalkInv, NEW c \in Client, Answered(c)
    PROVE  TalkInv'
<1>1. /\ IInv /\ Sound(c, job[c]) /\ IsJob(job[c]) /\ Fit(job[c]) /\ Tidy(job[c])
      /\ job[c].poisoned \in BOOLEAN /\ job[c].id \in Nat /\ job[c].out \in Outs
      /\ job[c].phase = "await" /\ Mine(c) /\ conn.answers # <<>>
  BY Talker DEF Answered, Tidy
<1>2. IInv' /\ Stream(conn) /\ Awaits(conn, job[c])
  BY <1>1, AnsweredKeeps DEF TalkInv, Talking
<1>3. conn' = [conn EXCEPT !.answers = Tail(conn.answers)]
  BY Zenon DEF Answered
<1>4. /\ IsConn(conn') /\ conn'.by = conn.by /\ conn'.stage = conn.stage /\ conn'.open = conn.open
      /\ conn'.requests = conn.requests /\ conn'.answers = Tail(conn.answers)
  BY <1>2, <1>3 DEF Stream, IsConn
<1>5. /\ Load(conn') = Load(conn) - 1 /\ Load(conn) \in Nat /\ Load(conn) <= Room(job[c])
      /\ Load(conn) <= 2
  BY <1>1, <1>2, <1>4, TakenOff, StreamLengths, Zenon DEF Awaits
<1>6. Stream(conn')
  <2>1. Tail(conn.answers) \in
            Seq([id : Nat, out : {"ok", "late", "err"}, method : Calls(conn.stage)])
    BY <1>1, <1>2, TailHolds, Zenon DEF Stream
  <2>2. Load(conn') <= 2
    BY <1>5
  <2> QED
    BY <1>2, <1>4, <2>1, <2>2, Zenon DEF Stream
<1>7. ASSUME NEW out \in Outs, Go(c, Unwind(job[c], out)) PROVE TalkInv'
  <2> DEFINE u == Unwind(job[c], out)
  <2>1. /\ Fit(u) /\ u.at = 0 /\ u.id = job[c].id
        /\ u.phase = "close" \/ (u.phase = "call" /\ job[c].at # 0)
    BY <1>1, UnwindFits
  <2> HIDE DEF u
  <2>2. Go(c, u)
    BY <1>7 DEF u
  <2>3. u.phase \in {"call", "await"} => Awaits(conn', u)
    <3> SUFFICES ASSUME u.phase \in {"call", "await"} PROVE Awaits(conn', u)
      OBVIOUS
    <3>1. u.phase = "call" /\ job[c].at # 0
      BY <2>1
    <3> QED
      BY <1>1, <1>2, <1>4, <2>1, <3>1, FinallyFits, Zenon
  <2> QED
    BY <1>1, <1>2, <1>4, <1>6, <2>1, <2>2, <2>3, GoesOnTalking, Zenon
<1>8. ASSUME job[c].at # 0, NEW n \in Followers(job[c]), n # Done,
             NEW m, m = (IF n <= job[c].at THEN job[c].slices + 1 ELSE job[c].slices),
             Go(c, [job[c] EXCEPT !.at = n, !.phase = "call", !.slices = m])
      PROVE  TalkInv'
  <2> DEFINE nxt == [job[c] EXCEPT !.at = n, !.phase = "call", !.slices = m]
  <2>1. /\ nxt.script = job[c].script /\ nxt.k = job[c].k /\ nxt.id = job[c].id /\ nxt.at = n
        /\ nxt.phase = "call" /\ nxt.slices = m /\ nxt.out = job[c].out
        /\ nxt.poisoned = job[c].poisoned
    BY <1>1, Zenon DEF IsJob, Fields
  <2>2. Go(c, nxt)
    BY <1>8
  <2> HIDE DEF nxt
  <2>3. n # 0 /\ m \in 0 .. MaxSlices /\ (m = MaxSlices => n \in Spent(Current(job[c]).body))
    BY <1>1, <1>8, OnInTime
  <2>4. Fit(nxt)
    <3>1. Current(nxt) = Current(job[c])
      BY <2>1 DEF Current
    <3>2. job[c].poisoned = FALSE
      BY <1>1 DEF Fit, Deaf
    <3> QED
      BY <1>1, <2>1, <2>3, <3>1, <3>2 DEF Fit, Tidy, Deaf, Timely, Over
  <2>5. Awaits(conn', nxt)
    <3>1. Room(job[c]) = 1 /\ Room(nxt) = 0
      BY <1>1, <1>8, <2>1, <2>3 DEF Room
    <3>2. Load(conn') <= Room(nxt)
      BY <1>5, <3>1
    <3>3. \A a : Follows(a, job[c]) => Follows(a, nxt)
      BY <2>1 DEF Follows
    <3>4. \A i \in 1 .. Len(conn'.answers) :
              i + 1 \in 1 .. Len(conn.answers) /\ conn'.answers[i] = conn.answers[i + 1]
      BY <1>1, <1>2, <1>4, AnswersTail
    <3>5. \A i \in 1 .. Len(conn'.answers) : Follows(conn'.answers[i], nxt)
      BY <1>2, <3>3, <3>4, Zenon DEF Awaits
    <3> QED
      BY <1>2, <1>4, <3>2, <3>3, <3>5, Zenon DEF Awaits
  <2> QED
    BY <1>1, <1>2, <1>4, <1>6, <2>2, <2>4, <2>5, GoesOnTalking, Zenon
<1>9. CASE job[c].at = 0
  <2>1. \E out \in Outs : Go(c, Unwind(job[c], out))
    <3>1. \/ Go(c, Unwind(job[c], "os")) \/ Go(c, Unwind(job[c], "other"))
          \/ Go(c, Unwind(job[c], "late")) \/ Go(c, Unwind(job[c], job[c].out))
      BY <1>9 DEF Answered
    <3>2. "os" \in Outs /\ "other" \in Outs /\ "late" \in Outs
      BY DEF Outs, Errors
    <3> QED
      BY <1>1, <3>1, <3>2, Zenon
  <2> QED
    BY <1>7, <2>1
<1> QED
  BY <1>1, <1>7, <1>8, <1>9, AnsweredOn, Zenon

(* The daemon's own steps only take from the stream, or turn a request     *)
(* into its answer.                                                        *)
LEMMA ServeTalks == TalkInv /\ Serve => TalkInv'
<1> SUFFICES ASSUME TalkInv, Serve PROVE TalkInv'
  OBVIOUS
<1> DEFINE r == Head(conn.requests)
           R == [id : Nat, method : Calls(conn.stage)]
           A == [id : Nat, out : {"ok", "late", "err"}, method : Calls(conn.stage)]
<1>1. /\ IInv /\ IsConn(conn) /\ Stream(conn) /\ conn.requests # <<>> /\ UNCHANGED job
      /\ conn.requests \in Seq(R) /\ conn.answers \in Seq(A)
  BY DEF TalkInv, Stream, Serve
<1>2. IInv'
  BY <1>1, ServeKeeps
<1>3. r \in R /\ Tail(conn.requests) \in Seq(R) /\ r = conn.requests[1]
      /\ 1 \in 1 .. Len(conn.requests) /\ Len(Tail(conn.requests)) = Len(conn.requests) - 1
      /\ \A i \in 1 .. Len(Tail(conn.requests)) :
            i + 1 \in 1 .. Len(conn.requests) /\ Tail(conn.requests)[i] = conn.requests[i + 1]
  <2> HIDE DEF R
  <2>1. /\ Tail(conn.requests) \in Seq(R) /\ Head(conn.requests) = conn.requests[1]
        /\ 1 \in 1 .. Len(conn.requests) /\ Len(Tail(conn.requests)) = Len(conn.requests) - 1
        /\ \A i \in 1 .. Len(Tail(conn.requests)) :
            i + 1 \in 1 .. Len(conn.requests) /\ Tail(conn.requests)[i] = conn.requests[i + 1]
    BY <1>1, TailHolds, Zenon
  <2>2. Head(conn.requests) \in R
    BY <1>1, HeadTailProperties, Zenon
  <2> QED
    BY <2>1, <2>2
<1>4. PICK e \in Effects(r.method) :
        conn' = IF conn.open
                THEN [conn EXCEPT !.requests = Tail(conn.requests),
                                  !.answers = Append(conn.answers, [id |-> r.id, out |-> e.out,
                                                                    method |-> r.method])]
                ELSE [conn EXCEPT !.requests = <<>>]
  BY Zenon DEF Serve
<1>5. e.out \in {"ok", "late", "err"}
  BY DEF Effects, Becomes
<1> DEFINE a == [id |-> r.id, out |-> e.out, method |-> r.method]
<1>6. a \in A /\ a.id = r.id /\ a.method = r.method
  BY <1>3, <1>5
<1>7. CASE conn.open = TRUE
  <2>1. /\ IsConn(conn') /\ conn'.by = conn.by /\ conn'.stage = conn.stage
        /\ conn'.open = conn.open /\ conn'.requests = Tail(conn.requests)
        /\ conn'.answers = Append(conn.answers, a)
    BY <1>1, <1>4, <1>7 DEF IsConn
  <2> HIDE DEF a, r, A, R
  <2>2. /\ Append(conn.answers, a) \in Seq(A)
        /\ Len(Append(conn.answers, a)) = Len(conn.answers) + 1
        /\ \A i \in 1 .. Len(Append(conn.answers, a)) :
              \/ i \in 1 .. Len(conn.answers) /\ Append(conn.answers, a)[i] = conn.answers[i]
              \/ Append(conn.answers, a)[i] = a
    BY <1>1, <1>6
  <2>3. Load(conn') = Load(conn)
    <3>1. (Len(conn.requests) - 1) + (Len(conn.answers) + 1)
                = Len(conn.requests) + Len(conn.answers)
      BY <1>1, StreamLengths, Exchanged, Zenon
    <3>2. Load(conn') = (Len(conn.requests) - 1) + (Len(conn.answers) + 1)
      BY <1>3, <2>1, <2>2, Zenon DEF Load
    <3>3. Load(conn) = Len(conn.requests) + Len(conn.answers)
      BY Zenon DEF Load
    <3> QED
      BY <3>1, <3>2, <3>3, Zenon
  <2>4. Stream(conn')
    <3>1. Load(conn') <= 2
      BY <1>1, <2>3, StreamLengths, Zenon
    <3> QED
      BY <1>1, <1>3, <2>1, <2>2, <3>1, Zenon DEF Stream, A, R
  <2>5. ASSUME NEW j, Awaits(conn, j) PROVE Awaits(conn', j)
    <3>1. Follows(r, j)
      BY <1>3, <2>5, Zenon DEF Awaits
    <3>2. Follows(a, j)
      BY <1>6, <3>1, Zenon DEF Follows
    <3>3. \A i \in 1 .. Len(conn'.requests) : Follows(conn'.requests[i], j)
      BY <1>3, <2>1, <2>5, Zenon DEF Awaits
    <3>4. \A i \in 1 .. Len(conn'.answers) : Follows(conn'.answers[i], j)
      BY <2>1, <2>2, <2>5, <3>2, Zenon DEF Awaits
    <3> QED
      BY <2>3, <2>5, <3>3, <3>4, Zenon DEF Awaits
  <2> QED
    BY <1>1, <1>2, <2>1, <2>4, <2>5, OthersTalk, Zenon
<1>8. CASE conn.open = FALSE
  <2>1. /\ IsConn(conn') /\ conn'.by = conn.by /\ conn'.stage = conn.stage
        /\ conn'.open = conn.open /\ conn'.requests = <<>> /\ conn'.answers = conn.answers
    BY <1>1, <1>4, <1>8 DEF IsConn
  <2> HIDE DEF a, r, A, R
  <2>2. Load(conn') <= Load(conn) /\ Load(conn') \in Nat
    <3>1. Load(conn') = 0 + Len(conn.answers)
      BY <2>1, EmptySeq, Zenon DEF Load
    <3>2. Load(conn) = Len(conn.requests) + Len(conn.answers)
      BY Zenon DEF Load
    <3>3. /\ 0 + Len(conn.answers) <= Len(conn.requests) + Len(conn.answers)
          /\ 0 + Len(conn.answers) \in Nat
      BY <1>1, StreamLengths, Exchanged, Zenon
    <3> QED
      BY <3>1, <3>2, <3>3, Zenon
  <2>6. Load(conn) \in Nat /\ Load(conn) <= 2
    BY <1>1, StreamLengths, Zenon
  <2>3. Stream(conn')
    <3>1. Load(conn') <= 2
      BY <2>2, <2>6
    <3> QED
      BY <1>1, <2>1, <3>1, EmptySeq, Zenon DEF Stream, A, R
  <2>4. ASSUME NEW j, Awaits(conn, j) PROVE Awaits(conn', j)
    <3>1. \A i \in 1 .. Len(conn'.requests) : Follows(conn'.requests[i], j)
      BY <2>1
    <3>2. \A i \in 1 .. Len(conn'.answers) : Follows(conn'.answers[i], j)
      BY <2>1, <2>4, Zenon DEF Awaits
    <3>3. Load(conn') <= Room(j)
      <4>1. Load(conn) <= Room(j)
        BY <2>4, Zenon DEF Awaits
      <4>2. Room(j) \in Nat
        BY DEF Room
      <4> QED
        BY <2>2, <2>6, <4>1, <4>2
    <3> QED
      BY <3>1, <3>2, <3>3, Zenon DEF Awaits
  <2> QED
    BY <1>1, <1>2, <2>1, <2>3, <2>4, OthersTalk, Zenon
<1> QED
  BY <1>1, <1>7, <1>8, Zenon DEF Stream

LEMMA QuietTalks ==
    ASSUME TalkInv, ServeQuit \/ EndTenure \/ Parks \/ EmulatorDies \/ UNCHANGED vars
    PROVE  TalkInv'
<1>1. IInv'
  BY OthersKeep DEF TalkInv
<1>2. CASE conn' = NoConn /\ UNCHANGED job
  BY <1>1, <1>2, NoStream, OthersTalk
<1>3. CASE UNCHANGED <<conn, job>>
  <2>1. Stream(conn)' /\ conn'.by = conn.by /\ \A j : Awaits(conn, j) => Awaits(conn', j)
    BY <1>3, StreamStays DEF TalkInv
  <2> QED
    BY <1>1, <1>3, <2>1, OthersTalk, Zenon
<1> QED
  BY <1>2, <1>3 DEF ServeQuit, EndTenure, Parks, EmulatorDies, vars

LEMMA InitTalkInv == Init => TalkInv
<1> SUFFICES ASSUME Init PROVE TalkInv
  OBVIOUS
<1>1. Stream(conn)
  <2>1. Load(NoConn) <= 2 /\ IsConn(NoConn) /\ NoConn.open \in BOOLEAN /\ NoConn.by = {}
            /\ NoConn.requests = <<>> /\ NoConn.answers = <<>>
    BY DEF NoConn, Load, IsConn
  <2> QED
    BY <2>1, EmptySeq, Zenon DEF Init, Stream
<1>2. Talking
  BY DEF Init, Talking, Mine, NoConn
<1>3. \A c \in Client : Fit(job[c])
  <2>1. "ok" \in Outs
    BY DEF Outs
  <2> QED
    BY <2>1, OverFits DEF Init
<1> QED
  BY <1>1, <1>2, <1>3, InitIInv DEF TalkInv

LEMMA NextTalkInv == TalkInv /\ [Next]_vars => TalkInv'
<1> SUFFICES ASSUME TalkInv, [Next]_vars PROVE TalkInv'
  OBVIOUS
<1>1. CASE \E c \in Client : Begin(c) \/ Acts(c) \/ Interrupt(c)
  <2> SUFFICES ASSUME NEW c \in Client, Begin(c) \/ Acts(c) \/ Interrupt(c) PROVE TalkInv'
    BY <1>1
  <2> QED
    BY SettlingTalks, ConnectTalks, CallTalks, AnsweredTalks, TimeoutTalks, InterruptTalks,
       Zenon DEF Acts
<1> QED
  BY <1>1, ServeTalks, QuietTalks DEF Next, Daemon

LEMMA Talks == Spec => []TalkInv
  BY InitTalkInv, NextTalkInv, PTL DEF Spec

-----------------------------------------------------------------------------
(* Every variable keeps its type (TypeOK): one process at most holds the   *)
(* connection, its requests and answers never number more than two, and no *)
(* loop outlasts its deadline.                                             *)
LEMMA ModeStays ==
    mode \in {"none", "running", "stopped"} /\ [Next]_vars => mode' \in {"none", "running", "stopped"}
<1> SUFFICES ASSUME mode \in {"none", "running", "stopped"}, [Next]_vars
             PROVE  mode' \in {"none", "running", "stopped"}
  OBVIOUS
<1>1. CASE Serve
  <2>1. \E e \in Effects(Head(conn.requests).method) : mode' = e.mode
    BY <1>1, Zenon DEF Serve
  <2>2. \A method : \A e \in Effects(method) : e.mode \in {mode, "running", "stopped"}
    BY DEF Effects, Becomes
  <2> QED
    BY <2>1, <2>2
<1> QED
  BY <1>1 DEF Next, Begin, Acts, Interrupt, Daemon, Parks, EmulatorDies, LaunchSession, KillSession,
         Connect, ConnectFails, Call, Answered, TimesOut, Lost, Close, Exit, ServeQuit, EndTenure, vars

LEMMA TalkTyped == TalkInv /\ mode \in {"none", "running", "stopped"} => TypeOK
<1> SUFFICES ASSUME TalkInv, mode \in {"none", "running", "stopped"} PROVE TypeOK
  OBVIOUS
<1>1. conn.open \in BOOLEAN /\ (conn.by = {} \/ \E c \in Client : conn.by = {c}) /\ Stream(conn)
  BY DEF TalkInv, Stream
<1>2. conn.by \subseteq Client /\ Cardinality(conn.by) <= 1
  <2>1. CASE conn.by = {}
    BY <2>1, FS_EmptySet
  <2>2. CASE \E c \in Client : conn.by = {c}
    <3>1. PICK c \in Client : conn.by = {c}
      BY <2>2
    <3>2. Cardinality(conn.by) = 1
      BY <3>1, FS_Singleton, Zenon
    <3> QED
      BY <3>1, <3>2
  <2> QED
    BY <1>1, <2>1, <2>2
<1>3. Len(conn.requests) <= 2 /\ Len(conn.answers) <= 2
  <2>1. Len(conn.requests) \in Nat /\ Len(conn.answers) \in Nat /\ Stream(conn)
    BY <1>1, StreamLengths
  <2>2. Len(conn.requests) + Len(conn.answers) <= 2
    BY Zenon DEF TalkInv, Stream, Load
  <2> QED
    BY <2>1, <2>2, TwoAtMost, Zenon
<1>4. ASSUME NEW c \in Client
      PROVE  /\ job[c].script \in Repertoire[c] \cup {Nothing}
             /\ job[c].k \in 0 .. Len(job[c].script.stages)
             /\ job[c].phase \in {"done", "open", "call", "await", "close", "failed"}
             /\ job[c].out \in {"ok", "late"} \cup Errors
             /\ job[c].slices \in 0 .. MaxSlices
             /\ job[c].poisoned \in BOOLEAN
  <2>1. /\ job[c].phase \in {"done", "open", "call", "await", "close", "failed"}
        /\ job[c].out \in {"ok", "late"} \cup Errors
        /\ job[c].slices \in 0 .. MaxSlices
        /\ job[c].poisoned \in BOOLEAN
    BY DEF TalkInv, Fit, Tidy, Outs
  <2>2. CASE Over(job[c])
    <3>1. job[c].script = Nothing /\ job[c].k = 0
      BY <2>2 DEF TalkInv, Fit
    <3>2. Len(Nothing.stages) = 0
      BY DEF Nothing, Script
    <3> QED
      BY <2>1, <3>1, <3>2
  <2>3. CASE ~Over(job[c])
    <3>1. job[c].script \in Repertoire[c] /\ job[c].k \in 1 .. Len(job[c].script.stages)
      BY <2>3, UnderWay DEF Over, TalkInv
    <3> QED
      BY <2>1, <3>1
  <2> QED
    BY <2>2, <2>3
<1> QED
  BY <1>1, <1>2, <1>3, <1>4 DEF TypeOK

THEOREM FrontendsTyped == Spec => []TypeOK
<1> DEFINE Modes == mode \in {"none", "running", "stopped"}
<1>1. Init => Modes
  BY DEF Init
<1>2. Modes /\ [Next]_vars => Modes'
  BY ModeStays
<1>3. TalkInv /\ Modes => TypeOK
  BY TalkTyped
<1> HIDE DEF Modes
<1>4. Spec => []Modes
  BY <1>1, <1>2, PTL DEF Spec
<1> QED
  BY <1>3, <1>4, Talks, PTL

(* The answer a call returns is the answer of the request it sent          *)
(* (OwnAnswer): what a call that was given up left in the stream has a     *)
(* lower number, and only the call waited for has the number expected.     *)
LEMMA AnswersDiffer ==
    ASSUME NEW S, NEW s \in Seq(S), s # <<>>
    PROVE  s # Tail(s)
<1>1. Len(Tail(s)) = Len(s) - 1 /\ Len(s) \in Nat
  BY TailHolds
<1>2. \A n \in Nat : n - 1 # n
  OBVIOUS
<1>3. Len(Tail(s)) # Len(s)
  BY <1>1, <1>2, Zenon
<1> QED
  BY <1>3, Zenon

THEOREM AnswersAreOwn == Spec => OwnAnswer
<1>1. TalkInv /\ [Next]_vars =>
        [\A c \in Client :
            /\ job[c].phase = "await" /\ Mine(c) /\ conn.answers # <<>>
            /\ conn'.answers = Tail(conn.answers)
            /\ job'[c] # job[c] /\ job'[c].out # "os"
            => Head(conn.answers).method = Method(job[c])]_vars
  <2> SUFFICES ASSUME TalkInv, Next, NEW c \in Client,
                      job[c].phase = "await", Mine(c), conn.answers # <<>>,
                      conn'.answers = Tail(conn.answers),
                      job'[c] # job[c], job'[c].out # "os"
               PROVE  Head(conn.answers).method = Method(job[c])
    BY DEF vars
  <2>1. /\ IInv /\ Sound(c, job[c]) /\ IsJob(job[c]) /\ Tidy(job[c])
        /\ job[c].poisoned \in BOOLEAN /\ Awaits(conn, job[c])
    BY Talker DEF TalkInv, Talking
  <2>2. conn'.answers # conn.answers
    <3>1. PICK S : conn.answers \in Seq(S)
      BY Zenon DEF TalkInv, Stream
    <3> QED
      BY <3>1, AnswersDiffer
  <2>3. "os" \in Outs
    BY DEF Outs, Errors
  <2>4. PICK d \in Client : Begin(d) \/ Acts(d) \/ Interrupt(d)
    BY DEF Next, Daemon, Serve, ServeQuit, EndTenure, Parks, EmulatorDies
  <2>5. d = c
    <3>1. \E nxt : Go(d, nxt)
      BY <2>4, Zenon DEF Begin, Acts, Interrupt, LaunchSession, KillSession, Connect,
            ConnectFails, Call, Answered, TimesOut, Lost, Close, Exit
    <3> QED
      BY <3>1, Changed, Zenon
  <2>6. Answered(c)
    BY <2>2, <2>4, <2>5 DEF Begin, Acts, Interrupt, LaunchSession, KillSession, Connect,
            ConnectFails, Call, TimesOut, Lost, Close, Exit
  <2>7. Accepts(Head(conn.answers), job[c])
    <3> SUFFICES ASSUME ~Accepts(Head(conn.answers), job[c]) PROVE FALSE
      OBVIOUS
    <3>1. Go(c, Unwind(job[c], "os"))
      BY <2>6 DEF Answered
    <3>2. job'[c] = Unwind(job[c], "os")
      BY <3>1, Changed, Zenon
    <3>3. Unwind(job[c], "os").out = "os"
      BY <2>1, <2>3, UnwindFits
    <3> QED
      BY <3>2, <3>3
  <2>8. Head(conn.answers) = conn.answers[1] /\ 1 \in 1 .. Len(conn.answers)
    <3>1. PICK S : conn.answers \in Seq(S)
      BY Zenon DEF TalkInv, Stream
    <3> QED
      BY <3>1, TailHolds, Zenon
  <2>9. Follows(Head(conn.answers), job[c])
    BY <2>1, <2>8, Zenon DEF Awaits
  <2> QED
    BY <2>7, <2>9 DEF Accepts, Follows
<1> QED
  BY <1>1, Talks, PTL DEF Spec, OwnAnswer

-----------------------------------------------------------------------------
(* Test files.                                                             *)

\* Whatever keys a step has, also ones no step knows.
LEMMA LoadedStepsHaveKeys ==
    ASSUME NEW kind, NEW keys, StepLoads(kind, keys)
    PROVE  \/ Reads(kind, keys) \subseteq keys
           \/ /\ kind \in {"wait", "assert"}
              /\ keys \cap {"mem", "reg"} # {} /\ "equals" \notin keys
<1>0. DOMAIN Required = {"poke", "until", "call"}
  BY DEF Required
<1>1. CASE kind = "poke"
  <2>1. {"addr"} \subseteq keys /\ keys \cap {"value", "values"} # {}
    BY <1>0, <1>1 DEF StepLoads, Required
  <2>2. Reads(kind, keys) = {"addr"} \cup IF "values" \in keys THEN {"values"} ELSE {"value"}
    BY <1>1 DEF Reads
  <2> QED BY <2>1, <2>2
<1>2. CASE kind = "until"
  BY <1>0, <1>2 DEF StepLoads, Required, Reads
<1>3. CASE kind = "call"
  BY <1>0, <1>3 DEF StepLoads, Required, Reads
<1>4. CASE kind = "key"
  BY <1>4 DEF Reads
<1>5. CASE kind = "wait"
  BY <1>5 DEF Reads, WaitReads
<1>6. CASE kind = "assert"
  <2>1. CASE "screen" \in keys
    BY <1>6, <2>1 DEF Reads, AssertReads
  <2>2. CASE "screen" \notin keys /\ "mem" \in keys
    BY <1>6, <2>2 DEF Reads, AssertReads
  <2>3. CASE keys \cap {"screen", "mem"} = {}
    BY <1>6, <2>3 DEF Reads, AssertReads
  <2> QED BY <2>1, <2>2, <2>3
<1>7. kind \in {"wait", "key", "assert", "poke", "until", "call"}
  BY <1>0 DEF StepLoads, StepKinds
<1> QED BY <1>1, <1>2, <1>3, <1>4, <1>5, <1>6, <1>7

(* A step of a test file that load_test lets through has every key that    *)
(* _do_step indexes, but for a wait or an assert that names a place and not*)
(* what it should be (ChecksSuffice; testing.py:34-40, 68-90, 201-328).    *)
THEOREM ChecksAreEnough == Spec => []ChecksSuffice
<1>1. ChecksSuffice
  BY LoadedStepsHaveKeys DEF ChecksSuffice
<1> QED BY <1>1, PTL

-----------------------------------------------------------------------------
(* What the commands compute (MachineDataProofs).                          *)

(* mem find and pet_mem_find, of any window but all of memory, answer with *)
(* the first occurrences, each once, and say whether there are more        *)
(* (FindsAll; ops.py:336-352, monitor.py:144-148).                         *)
THEOREM SearchFindsAll == Spec => []FindsAll
<1>1. FindsAll
  BY SearchesAreExact DEF FindsAll
<1> QED BY <1>1, PTL

(* A reference with offsets is the sum of its parts, and the name shown for*)
(* an address reads back as it (RefsAddUp; ops.py:32-80, symbols.py:44-52).*)
THEOREM ReferencesHold == Spec => []RefsAddUp
<1>1. RefsAddUp
  BY ReferencesDoRead DEF RefsAddUp
<1> QED BY <1>1, PTL

(* A routine that is called comes back to the trap, wherever the stack     *)
(* pointer is (RoutinesReturn; ops.py:221-225).                            *)
THEOREM RoutinesDoReturn == Spec => []RoutinesReturn
<1>1. RoutinesReturn
  BY RoutinesDoLand DEF RoutinesReturn
<1> QED BY <1>1, PTL
=============================================================================
