-------------------------- MODULE MonitorTransport --------------------------
(***************************************************************************)
(* The client's end of VICE's binary monitor below the level of ViceMonitor *)
(* (src/src/petlib/monitor.py:99-137, 266-293, protocol.py:92-111): a       *)
(* stream of frames cut into chunks anywhere, one call at a time that may   *)
(* time out with its answer still to come, responses set aside until the    *)
(* call with their id looks at them, and events queued for whoever polls.   *)
(***************************************************************************)
EXTENDS Naturals, Sequences, SequencesExt

CONSTANTS
    Kinds,          \* of commands: "list" answers with infos, "exit" is resume
    Header,         \* bytes of a frame's header
    QueueSize,      \* events kept: maxlen
    MaxCalls, MaxEvents, MaxInfos   \* bounds of the instance

ASSUME TransportAssumption ==
    /\ Header \in Nat \ {0} /\ QueueSize \in Nat \ {0}
    /\ MaxCalls \in Nat /\ MaxEvents \in Nat /\ MaxInfos \in Nat
    /\ Kinds \cap {"info", "event"} = {}

VARIABLES
    inbox,          \* requests VICE has yet to serve; sent: infos it has sent
    wire,           \* bytes VICE has sent and nobody has read
    buf,            \* FrameDecoder._buf
    pending,        \* _pending: responses decoded and not taken
    events,         \* the queue of events
    call,           \* what the client is doing
    result,         \* how its last call ended
    calls, raised,  \* calls made and events sent so far
    decoded         \* events the decoder has returned

vars == <<inbox, wire, buf, pending, events, call, result, calls, raised, decoded>>

(***************************************************************************)
(* A frame is what its header says: id 0 stands for EVENT_REQUEST_ID, and  *)
(* type for what tells an info from a final response.  `call` and `no` are *)
(* not on the wire: the call VICE answers, the place among infos or events.*)
(***************************************************************************)
Frame == [id : Nat, type : Kinds \cup {"info", "event"}, size : Nat, call : Nat, no : Nat,
          ok : BOOLEAN]

Byte == [frame : Frame, part : Nat \ {0}]

Bytes(frame) == [i \in 1 .. Header + frame.size |-> [frame |-> frame, part |-> i]]

NoFrame == [id |-> 0, type |-> "event", size |-> 0, call |-> 0, no |-> 0, ok |-> TRUE]
Quiet   == [phase |-> "idle", call |-> 0, id |-> 0, kind |-> "exit", infos |-> <<>>, seen |-> <<>>]
Nothing == [out |-> "none", call |-> 0, frame |-> NoFrame, infos |-> <<>>]

TypeOK ==
    /\ inbox \in Seq([call : Nat, id : Nat, kind : Kinds, sent : 0 .. MaxInfos])
    /\ wire \in Seq(Byte) /\ buf \in Seq(Byte)
    /\ pending \in Seq(Frame) /\ events \in Seq(Frame)
    /\ Len(events) <= QueueSize
    /\ call \in [phase : {"idle", "waiting", "polling"}, call : Nat, id : Nat,
                 kind : Kinds \cup {"exit"}, infos : Seq(Frame), seen : Seq(Frame)]
    /\ result \in [out : {"none", "response", "error", "timeout"}, call : Nat,
                   frame : Frame \cup {NoFrame}, infos : Seq(Frame)]
    /\ calls \in 0 .. MaxCalls /\ raised \in 0 .. MaxEvents
    /\ decoded \in 0 .. MaxEvents

Init ==
    /\ inbox = <<>> /\ wire = <<>> /\ buf = <<>> /\ pending = <<>> /\ events = <<>>
    /\ call = Quiet /\ result = Nothing
    /\ calls = 0 /\ raised = 0
    /\ decoded = 0

-----------------------------------------------------------------------------
(***************************************************************************)
(* VICE: requests in order, each answered in full, and events at any time, *)
(* between the infos of a list too.                                        *)
(***************************************************************************)
Response(r, type, size, no, ok) ==
    [id |-> r.id, type |-> type, size |-> size, call |-> r.call, no |-> no, ok |-> ok]

SendInfo ==
    LET r == Head(inbox)
    IN  /\ inbox # <<>>
        /\ r.kind = "list"
        /\ r.sent < MaxInfos
        /\ wire' = wire \o Bytes(Response(r, "info", 1, r.sent + 1, TRUE))
        /\ inbox' = <<[r EXCEPT !.sent = @ + 1]>> \o Tail(inbox)
    /\ UNCHANGED <<buf, pending, events, call, result, calls, raised, decoded>>

Serve ==
    LET r == Head(inbox)
    IN  /\ inbox # <<>>
        /\ \E ok \in BOOLEAN : wire' = wire \o Bytes(Response(r, r.kind, 0, r.sent, ok))
        /\ inbox' = Tail(inbox)
    /\ UNCHANGED <<buf, pending, events, call, result, calls, raised, decoded>>

Event(n) == [id |-> 0, type |-> "event", size |-> 1, call |-> 0, no |-> n, ok |-> TRUE]

Raise ==
    /\ raised < MaxEvents
    /\ raised' = raised + 1
    /\ wire' = wire \o Bytes(Event(raised'))
    /\ UNCHANGED <<inbox, buf, pending, events, call, result, calls, decoded>>

-----------------------------------------------------------------------------
(***************************************************************************)
(* FrameDecoder.feed, and what is done with each frame it returns.         *)
(***************************************************************************)
CompleteAtHeader(b) == Len(b) >= Header                \* mutant: no wait for the body
Complete(b) == Len(b) >= Header /\ Len(b) >= Header + b[1].frame.size

KeptAll(q) == q                                        \* mutant: no maxlen
KeptFirst(q) == SubSeq(q, 1, IF Len(q) <= QueueSize THEN Len(q) ELSE QueueSize)  \* mutant
Kept(q) == SubSeq(q, IF Len(q) <= QueueSize THEN 1 ELSE Len(q) - QueueSize + 1, Len(q))

Decode ==
    LET frame == buf[1].frame
    IN  /\ Complete(buf)
        /\ buf' = SubSeq(buf, Header + frame.size + 1, Len(buf))
        /\ IF frame.id # 0
           THEN /\ pending' = Append(pending, frame)
                /\ UNCHANGED <<events, call>>
           ELSE IF call.phase = "polling"
           THEN /\ call' = [call EXCEPT !.seen = Append(@, frame)]
                /\ UNCHANGED <<pending, events>>
           ELSE /\ events' = Kept(Append(events, frame))
                /\ UNCHANGED <<pending, call>>
        /\ decoded' = decoded + IF frame.id = 0 THEN 1 ELSE 0
        /\ UNCHANGED <<inbox, wire, result, calls, raised>>

(***************************************************************************)
(* _transact: send, look at _pending, receive, until the deadline.         *)
(***************************************************************************)
RequestIdStays(n) == 1                                  \* mutant: ids used again
RequestId(n) == n

MineAny(frame) == TRUE                                  \* mutant: ids not compared
Mine(frame) == frame.id = call.id
TakenNot(q, i) == q                                     \* mutant: left in _pending
Taken(q, i) == RemoveAt(q, i)

Looked == \A i \in 1 .. Len(pending) : ~Mine(pending[i])
Waiting == call.phase = "waiting" /\ ~Complete(buf)

Send(kind) ==
    /\ call.phase = "idle"
    /\ calls < MaxCalls
    /\ calls' = calls + 1
    /\ call' = [Quiet EXCEPT !.phase = "waiting", !.call = calls', !.id = RequestId(calls'),
                             !.kind = kind]
    /\ inbox' = Append(inbox, [call |-> calls', id |-> RequestId(calls'), kind |-> kind,
                               sent |-> 0])
    /\ events' = IF kind = "exit" THEN <<>> ELSE events         \* resume: events.clear()
    /\ UNCHANGED <<wire, buf, pending, result, raised, decoded>>

Ends(out, frame) ==
    /\ call' = Quiet
    /\ result' = [out |-> out, call |-> call.call, frame |-> frame, infos |-> call.infos]

(* The first response with the call's id: collected, or the call's end.    *)
Look ==
    /\ Waiting
    /\ \E i \in 1 .. Len(pending) :
        /\ Mine(pending[i])
        /\ \A j \in 1 .. i - 1 : ~Mine(pending[j])
        /\ pending' = Taken(pending, i)
        /\ IF pending[i].type = "info" /\ call.kind = "list"
           THEN /\ call' = [call EXCEPT !.infos = Append(@, pending[i])]
                /\ UNCHANGED result
           ELSE Ends(IF pending[i].ok THEN "response" ELSE "error", pending[i])
    /\ UNCHANGED <<inbox, wire, buf, events, calls, raised, decoded>>

(* recv returns what there is, cut anywhere.                               *)
Receive ==
    /\ \/ Waiting /\ Looked
       \/ call.phase = "polling" /\ ~Complete(buf)
    /\ \E n \in 1 .. Len(wire) :
        /\ buf' = buf \o SubSeq(wire, 1, n)
        /\ wire' = SubSeq(wire, n + 1, Len(wire))
    /\ UNCHANGED <<inbox, pending, events, call, result, calls, raised, decoded>>

Expire ==
    /\ Waiting /\ Looked
    /\ Ends("timeout", NoFrame)
    /\ UNCHANGED <<inbox, wire, buf, pending, events, calls, raised, decoded>>

(***************************************************************************)
(* poll_events: what is queued, and what arrives before it returns.        *)
(***************************************************************************)
Poll ==
    /\ call.phase = "idle"
    /\ call' = [Quiet EXCEPT !.phase = "polling", !.seen = events]
    /\ events' = <<>>
    /\ UNCHANGED <<inbox, wire, buf, pending, result, calls, raised, decoded>>

PollReturns ==
    /\ call.phase = "polling" /\ ~Complete(buf)
    /\ call' = Quiet
    /\ UNCHANGED <<inbox, wire, buf, pending, events, result, calls, raised, decoded>>

-----------------------------------------------------------------------------
Client == Decode \/ Look \/ Receive \/ Expire \/ PollReturns
Next == SendInfo \/ Serve \/ Raise \/ Client \/ Poll \/ \E kind \in Kinds : Send(kind)

Spec == Init /\ [][Next]_vars

-----------------------------------------------------------------------------
(***************************************************************************)
(* Properties.                                                             *)
(***************************************************************************)

(* Wherever the chunks end, the decoder stands at the start of a frame (it *)
(* never meets a bad start byte, protocol.py:103-104), and what it has yet *)
(* to return is whole: each frame's bytes in order, none skipped.          *)
InStep ==
    LET rest == buf \o wire
    IN  \A i \in 1 .. Len(rest) :
            IF i = 1 \/ rest[i].part = 1
            THEN /\ rest[i].part = 1
                 /\ Len(rest) >= i + Header + rest[i].frame.size - 1
            ELSE rest[i] = [rest[i - 1] EXCEPT !.part = @ + 1]

(* A call ends with the answer to that very call, although answers of      *)
(* calls that timed out are still to come or lie in _pending.              *)
OwnResponse == result.out \in {"response", "error"} => result.frame.call = result.call

(* A list is the one VICE sent for this call, entry by entry, whatever is  *)
(* left of a list that timed out half way.                                 *)
WholeLists ==
    result.out = "response" /\ result.frame.type = "list" =>
        /\ Len(result.infos) = result.frame.no
        /\ \A i \in 1 .. Len(result.infos) :
            result.infos[i].call = result.call /\ result.infos[i].no = i

(* What the queue holds, or a poll has in hand, are the latest events with *)
(* none missing between: at its limit it drops the oldest.                 *)
QueueIsSuffix ==
    \A q \in {events, call.seen} :
        q # <<>> => \A i \in 1 .. Len(q) : q[i].no = decoded - Len(q) + i

(* Between calls _pending holds nothing but answers of calls that timed    *)
(* out, which no call will take: it only grows by timeouts.                *)
NoLeftovers ==
    call.phase = "idle" /\ result.out \in {"response", "error"} =>
        \A i \in 1 .. Len(pending) : pending[i].call # result.call
=============================================================================
