--------------------------- MODULE RespawnBreaker ---------------------------
(***************************************************************************)
(* The circuit breaker of Session.monitor, session.py:240-252: the file    *)
(* NAME.respawns keeps the times of the last RESPAWN_LIMIT respawns of the *)
(* session's daemon, and the one that makes RESPAWN_LIMIT of them within   *)
(* RESPAWN_WINDOW is refused.  Clients read and rewrite the file without a *)
(* lock, and the times they write are rounded.                             *)
(*                                                                         *)
(* Time is counted in ticks; a time is written as the nearest multiple of  *)
(* Grain (a millisecond).  The clock does not go backwards.                *)
(***************************************************************************)
EXTENDS Integers, Sequences, FiniteSets

CONSTANTS
    Client,
    Limit,          \* RESPAWN_LIMIT
    Window,         \* RESPAWN_WINDOW
    Grain,
    MaxTime,        \* bound: the clock stops here
    MaxRespawns     \* bound: respawns between two launches

ASSUME BreakerAssumptions ==
    /\ Limit \in Nat \ {0} /\ Window \in Nat /\ Grain \in Nat \ {0}
    /\ MaxTime \in Nat /\ MaxRespawns \in Nat

VARIABLES
    now,        \* time.time()
    stamps,     \* the file; <<>> also when it does not exist or is truncated
    respawns,   \* every respawn since the session was launched, exactly
    mine,       \* the stamps each client has read and extended
    raced,      \* history: have two clients been in the file at once?
    overlaid,   \* history: have two clients had it open at once?
    verdict     \* "idle", "read", "opened" (file truncated), "spawns", "refused"

vars == <<now, stamps, respawns, mine, raced, overlaid, verdict>>

TypeOK ==
    /\ now \in 0..MaxTime
    /\ stamps \in Seq(Nat) /\ Len(stamps) <= Limit
    /\ respawns \in Seq(0..MaxTime)
    /\ mine \in [Client -> Seq(Nat)]
    /\ raced \in BOOLEAN /\ overlaid \in BOOLEAN
    /\ verdict \in [Client -> {"idle", "read", "opened", "spawns", "refused"}]

Init ==
    /\ now = 0
    /\ stamps = <<>>
    /\ respawns = <<>>
    /\ mine = [c \in Client |-> <<>>]
    /\ raced = FALSE /\ overlaid = FALSE
    /\ verdict = [c \in Client |-> "idle"]

LastOf(s, n) == SubSeq(s, IF Len(s) > n THEN Len(s) - n + 1 ELSE 1, Len(s))

\* "%.3f"
Rounded(t) == ((t + Grain \div 2) \div Grain) * Grain

Tick ==
    /\ now < MaxTime
    /\ now' = now + 1
    /\ UNCHANGED <<stamps, respawns, mine, raced, overlaid, verdict>>

KeptAll(s) == s
KeptOneLess(s) == LastOf(s, Limit - 1)

Kept(s) == LastOf(s, Limit)

(* A client finds the daemon down: it reads the file and adds its own time.*)
ReadStamps(c) ==
    /\ verdict[c] = "idle"
    /\ Len(respawns) < MaxRespawns
    /\ mine' = [mine EXCEPT ![c] = Kept(Append(stamps, now))]
    /\ respawns' = Append(respawns, now)
    /\ verdict' = [verdict EXCEPT ![c] = "read"]
    /\ raced' = (raced \/ \E o \in Client : verdict[o] \in {"read", "opened"})
    /\ UNCHANGED <<now, stamps, overlaid>>

(* write_text truncates the file.                                          *)
OpenStamps(c) ==
    /\ verdict[c] = "read"
    /\ stamps' = <<>>
    /\ verdict' = [verdict EXCEPT ![c] = "opened"]
    /\ overlaid' = (overlaid \/ \E o \in Client : verdict[o] = "opened")
    /\ UNCHANGED <<now, respawns, mine, raced>>

TripsByCount(s) == Len(s) = Limit

Trips(s) == Len(s) = Limit /\ s[Len(s)] - s[1] <= Window

Noted(s) == [i \in 1..Len(s) |-> Rounded(s[i])]

(* write_text writes from the start of the file: over the text of a client *)
(* that truncated it too, a shorter one leaves the tail of the longer.  All*)
(* stamps are written equally wide.                                        *)
Over(text, s) == s \o SubSeq(text, Len(s) + 1, Len(text))

(* It writes its list and judges it, its own time unrounded.               *)
WriteStamps(c) ==
    /\ verdict[c] = "opened"
    /\ stamps' = Over(stamps, Noted(mine[c]))
    /\ verdict' = [verdict EXCEPT ![c] =
                        IF Trips(mine[c]) THEN "refused" ELSE "spawns"]
    /\ UNCHANGED <<now, respawns, mine, raced, overlaid>>

(* The command ends.                                                       *)
Done(c) ==
    /\ verdict[c] \in {"spawns", "refused"}
    /\ verdict' = [verdict EXCEPT ![c] = "idle"]
    /\ mine' = [mine EXCEPT ![c] = <<>>]
    /\ UNCHANGED <<now, stamps, respawns, raced, overlaid>>

(* stop or a new launch removes the file.  It is alone here: the session is*)
(* a new one.                                                              *)
Relaunch ==
    /\ \A c \in Client : verdict[c] = "idle"
    /\ respawns # <<>>
    /\ stamps' = <<>>
    /\ respawns' = <<>>
    /\ raced' = FALSE /\ overlaid' = FALSE
    /\ UNCHANGED <<now, mine, verdict>>

Next ==
    \/ Tick \/ Relaunch
    \/ \E c \in Client : ReadStamps(c) \/ OpenStamps(c) \/ WriteStamps(c) \/ Done(c)

Spec == Init /\ [][Next]_vars

-----------------------------------------------------------------------------
\* The respawns not older than t.
Since(t) == Cardinality({i \in DOMAIN respawns : respawns[i] >= t})

\* The client's verdict falls; its own respawn is the last entry of its list.
Judges(c, v) == verdict[c] = "opened" /\ verdict'[c] = v
Judged(c)    == mine[c][Len(mine[c])]

Burst(c) == Since(Judged(c) - Window - Grain \div 2) >= Limit

(* However the clients' accesses to the file overlap, the breaker never    *)
(* trips before the session has seen Limit respawns.  As long as no two    *)
(* clients have it open at once it trips only on Limit respawns within the *)
(* window (and half a grain of rounding), although they may read it before *)
(* another has written, undo each other's writes or find it truncated.     *)
RefusesBursts ==
    [][\A c \in Client : Judges(c, "refused") =>
          Len(respawns) >= Limit /\ (~overlaid => Burst(c))]_vars

(* session.py:241, "hard-error when the last RESPAWN_LIMIT respawns all    *)
(* fall within RESPAWN_WINDOW seconds", also of clients that write at once.*)
RefusesOnlyBursts ==
    [][\A c \in Client : Judges(c, "refused") => Burst(c)]_vars

(* session.py:241: "hard-error when the last RESPAWN_LIMIT respawns all    *)
(* fall within RESPAWN_WINDOW seconds": as long as no client reads the file*)
(* while another is between its read and its write, no burst is let        *)
(* through; keeping the last Limit stamps forgets nothing that matters.    *)
SeesBursts ==
    [][\A c \in Client : Judges(c, "spawns") /\ ~raced =>
          Since(Judged(c) - Window + Grain \div 2) < Limit]_vars
=============================================================================
