--------------------------- MODULE SessionMachine ---------------------------
(***************************************************************************)
(* What a session daemon promises its clients, with VICE, the wire and the *)
(* requests left out (src/src/petlib/daemon.py:1-10): the machine's        *)
(* run/stop state belongs to the session, not to a connection.  It may     *)
(* stop on its own; it is set running only while a client holds the        *)
(* session; a client that leaves hands the session back as it is.          *)
(***************************************************************************)
VARIABLES
    mode,       \* "running", "stopped" or, once the daemon has ended, "over"
    holder      \* "nobody", "client", or "left": gone and not handed back

svars == <<mode, holder>>

SInit == mode = "running" /\ holder = "nobody"

Take == /\ mode # "over"
        /\ holder = "nobody"
        /\ holder' = "client"
        /\ UNCHANGED mode

Halt == /\ mode = "running"             \* a checkpoint fires, a step ends
        /\ mode' = "stopped"
        /\ UNCHANGED holder

Go == /\ mode = "stopped"
      /\ holder # "nobody"
      /\ mode' = "running"
      /\ UNCHANGED holder

Leave == /\ holder = "client"
         /\ holder' = "left"
         /\ UNCHANGED mode

HandBack == /\ holder = "left"
            /\ holder' = "nobody"
            /\ mode' \in {mode, "stopped"}

End == /\ mode' = "over"
       /\ holder' = "nobody"

SNext == Take \/ Halt \/ Go \/ Leave \/ HandBack \/ End

SSpec == SInit /\ [][SNext]_svars /\ WF_svars(HandBack)
=============================================================================
