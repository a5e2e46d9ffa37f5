----------------------- MODULE MonitorTransportProofs -----------------------
(***************************************************************************)
(* For every number of calls, events and infos, every header, every maxlen  *)
(* and every way to cut the stream: an answer is never taken for another    *)
(* call's, the decoder stays in step, lists are whole, the queue keeps the  *)
(* latest events, and nothing of an answered call stays behind.             *)
(***************************************************************************)
EXTENDS MonitorTransport, SequenceTheorems, TLAPS

(* The inductive invariant: wherever a frame is, between VICE and _pending, *)
(* its id is the number of the call it answers, 0 for an event; and the    *)
(* call under way goes by its own number.                                  *)
Request  == {r \in [call : Nat, id : Nat, kind : Kinds, sent : 0 .. MaxInfos] :
                r.id = r.call}
OwnFrame == {f \in Frame : f.id = 0 \/ f.id = f.call}
OwnByte  == [frame : OwnFrame, part : Nat \ {0}]
Activity == [phase : {"idle", "waiting", "polling"}, call : Nat, id : Nat,
             kind : Kinds \cup {"exit"}, infos : Seq(OwnFrame), seen : Seq(OwnFrame)]

Streams ==
    /\ inbox \in Seq(Request)
    /\ wire \in Seq(OwnByte) /\ buf \in Seq(OwnByte)
    /\ pending \in Seq(OwnFrame) /\ events \in Seq(OwnFrame)

Numbered ==
    /\ calls \in Nat /\ raised \in Nat
    /\ call \in Activity
    /\ call.phase = "waiting" => call.id = call.call /\ call.id # 0

IInv == Streams /\ Numbered /\ OwnResponse

-----------------------------------------------------------------------------
LEMMA BytesAreOwn ==
    ASSUME NEW f \in OwnFrame
    PROVE  Bytes(f) \in Seq(OwnByte)
<1>1. Header + f.size \in Nat
  BY TransportAssumption DEF OwnFrame, Frame
<1>2. \A i \in 1 .. Header + f.size : [frame |-> f, part |-> i] \in OwnByte
  BY <1>1 DEF OwnByte
<1> QED
  BY <1>1, <1>2 DEF Bytes

LEMMA ResponsesAreOwn ==
    ASSUME NEW r \in Request, NEW type \in Kinds \cup {"info"}, NEW size \in Nat,
           NEW no \in Nat, NEW ok \in BOOLEAN
    PROVE  Response(r, type, size, no, ok) \in OwnFrame
  BY DEF Response, Request, OwnFrame, Frame

LEMMA FirstIsOwn ==
    ASSUME NEW S, NEW q \in Seq(S), q # <<>>
    PROVE  Head(q) \in S /\ Tail(q) \in Seq(S) /\ Head(q) = q[1] /\ Len(q) >= 1
  OBVIOUS

LEMMA CutsAreOwn ==
    ASSUME NEW S, NEW q \in Seq(S), NEW n \in Nat, n <= Len(q)
    PROVE  SubSeq(q, 1, n) \in Seq(S) /\ SubSeq(q, n + 1, Len(q)) \in Seq(S)
  OBVIOUS

LEMMA KeptIsOwn ==
    ASSUME NEW S, NEW q \in Seq(S)
    PROVE  Kept(q) \in Seq(S)
  BY TransportAssumption, SubSeqProperties DEF Kept

LEMMA TakenIsOwn ==
    ASSUME NEW S, NEW q \in Seq(S), NEW i \in 1 .. Len(q)
    PROVE  Taken(q, i) \in Seq(S)
<1>1. SubSeq(q, 1, i - 1) \in Seq(S) /\ SubSeq(q, i + 1, Len(q)) \in Seq(S)
  BY SubSeqProperties
<1> QED
  BY <1>1 DEF Taken, RemoveAt

(* A call's answer is its own: what Look takes carries the call's id.      *)
LEMMA MineIsMyAnswer ==
    ASSUME NEW f \in OwnFrame, Numbered, call.phase = "waiting", Mine(f)
    PROVE  f.call = call.call
  BY DEF Numbered, Activity, OwnFrame, Frame, Mine

-----------------------------------------------------------------------------
LEMMA InitIsSound == Init => IInv
<1> SUFFICES ASSUME Init PROVE IInv
  OBVIOUS
<1>1. NoFrame \in OwnFrame
  BY DEF NoFrame, OwnFrame, Frame
<1>2. Streams
  BY DEF Init, Streams
<1>3. Numbered
  BY DEF Init, Numbered, Activity, Quiet
<1>4. OwnResponse
  BY DEF Init, OwnResponse, Nothing
<1> QED
  BY <1>2, <1>3, <1>4 DEF IInv

LEMMA SendInfoIsSound ==
    ASSUME IInv, SendInfo
    PROVE  IInv'
<1> USE DEF IInv
<1> DEFINE r    == Head(inbox)
           info == Response(r, "info", 1, r.sent + 1, TRUE)
           rest == [call |-> r.call, id |-> r.id, kind |-> r.kind, sent |-> r.sent + 1]
<1>1. r \in Request /\ Tail(inbox) \in Seq(Request) /\ r.sent < MaxInfos
  BY FirstIsOwn DEF SendInfo, Streams
<1>2. r.sent + 1 \in 0 .. MaxInfos
  BY <1>1, TransportAssumption DEF Request
<1>3. Bytes(info) \in Seq(OwnByte) /\ wire' = wire \o Bytes(info)
  <2>1. r.sent + 1 \in Nat
    BY <1>2, TransportAssumption
  <2>2. info \in OwnFrame
    BY <1>1, <2>1, ResponsesAreOwn
  <2> QED
    BY <2>2, BytesAreOwn DEF SendInfo
<1>4. [r EXCEPT !.sent = r.sent + 1] = rest
  BY <1>1 DEF Request
<1>5. rest \in Request
  BY <1>1, <1>2 DEF Request
<1>6. inbox' = <<rest>> \o Tail(inbox)
  BY <1>4 DEF SendInfo
<1> HIDE DEF r, info, rest
<1>7. inbox' \in Seq(Request)
  <2>1. <<rest>> \in Seq(Request)
    BY <1>5
  <2> QED
    BY <1>1, <1>6, <2>1, ConcatProperties
<1>8. Streams'
  BY <1>3, <1>7, ConcatProperties DEF SendInfo, Streams
<1>9. Numbered' /\ OwnResponse'
  BY DEF SendInfo, Numbered, OwnResponse
<1> QED
  BY <1>8, <1>9

LEMMA ServeIsSound ==
    ASSUME IInv, Serve
    PROVE  IInv'
<1> USE DEF IInv
<1> DEFINE r == Head(inbox)
<1>1. r \in Request /\ Tail(inbox) \in Seq(Request)
  BY FirstIsOwn DEF Serve, Streams
<1>2. PICK ok \in BOOLEAN : wire' = wire \o Bytes(Response(r, r.kind, 0, r.sent, ok))
  BY Zenon DEF Serve
<1>3. r.kind \in Kinds /\ r.sent \in Nat
  BY <1>1, TransportAssumption DEF Request
<1>4. Bytes(Response(r, r.kind, 0, r.sent, ok)) \in Seq(OwnByte)
  BY <1>1, <1>3, ResponsesAreOwn, BytesAreOwn
<1>5. wire' \in Seq(OwnByte)
  BY <1>2, <1>4, ConcatProperties DEF Streams
<1>6. Streams'
  BY <1>1, <1>5 DEF Serve, Streams
<1>7. Numbered' /\ OwnResponse'
  BY DEF Serve, Numbered, OwnResponse
<1> QED
  BY <1>6, <1>7

LEMMA RaiseIsSound ==
    ASSUME IInv, Raise
    PROVE  IInv'
<1> USE DEF IInv
<1>1. raised' \in Nat
  BY DEF Raise, Numbered
<1>2. Event(raised') \in OwnFrame
  BY <1>1 DEF Event, OwnFrame, Frame
<1>3. Bytes(Event(raised')) \in Seq(OwnByte)
  BY <1>2, BytesAreOwn
<1>4. wire' \in Seq(OwnByte)
  BY <1>3, ConcatProperties DEF Raise, Streams
<1>5. Streams'
  BY <1>4 DEF Raise, Streams
<1>6. Numbered' /\ OwnResponse'
  BY <1>1 DEF Raise, Numbered, OwnResponse
<1> QED
  BY <1>5, <1>6

LEMMA DecodeIsSound ==
    ASSUME IInv, Decode
    PROVE  IInv'
<1> USE DEF IInv
<1> DEFINE frame == buf[1].frame
           cut   == Header + frame.size
<1>1. buf \in Seq(OwnByte) /\ Len(buf) >= 1
  BY TransportAssumption DEF Decode, Complete, Streams
<1>2. frame \in OwnFrame
  <2>1. buf[1] \in OwnByte
    BY <1>1, ElementOfSeq
  <2> QED
    BY <2>1 DEF OwnByte
<1>3. cut \in Nat /\ cut <= Len(buf)
  <2>1. frame.size \in Nat
    BY <1>2 DEF OwnFrame, Frame
  <2>2. Len(buf) >= cut
    BY DEF Decode, Complete
  <2> QED
    BY <1>1, <2>1, <2>2, TransportAssumption, LenProperties
<1>4. buf' = SubSeq(buf, cut + 1, Len(buf))
  BY DEF Decode
<1>5. buf' \in Seq(OwnByte)
  BY <1>1, <1>3, <1>4, CutsAreOwn
<1>6. pending' \in Seq(OwnFrame) /\ events' \in Seq(OwnFrame)
  <2> pending \in Seq(OwnFrame) /\ events \in Seq(OwnFrame)
    BY DEF Streams
  <2> Append(pending, frame) \in Seq(OwnFrame) /\ Append(events, frame) \in Seq(OwnFrame)
    BY <1>2, AppendProperties
  <2>1. CASE frame.id # 0
    BY <2>1 DEF Decode
  <2>2. CASE frame.id = 0 /\ call.phase = "polling"
    BY <2>2 DEF Decode
  <2>3. CASE frame.id = 0 /\ call.phase # "polling"
    <3>1. Kept(Append(events, frame)) \in Seq(OwnFrame)
      BY KeptIsOwn
    <3> QED
      BY <2>3, <3>1 DEF Decode
  <2> QED
    BY <2>1, <2>2, <2>3
<1>7. Streams'
  BY <1>5, <1>6 DEF Decode, Streams
<1>8. Numbered'
  <2>1. CASE call' = call
    BY <2>1 DEF Decode, Numbered
  <2>2. CASE call' # call
    <3>1. call' = [call EXCEPT !.seen = Append(call.seen, frame)] /\ call.phase = "polling"
      BY <2>2 DEF Decode
    <3>2. Append(call.seen, frame) \in Seq(OwnFrame)
      BY <1>2 DEF Numbered, Activity
    <3>3. call' \in Activity /\ call'.phase = "polling"
      BY <3>1, <3>2 DEF Numbered, Activity
    <3> QED
      BY <3>3 DEF Decode, Numbered
  <2> QED
    BY <2>1, <2>2
<1>9. OwnResponse'
  BY DEF Decode, OwnResponse
<1> QED
  BY <1>7, <1>8, <1>9

LEMMA QuietIsSound == Quiet \in Activity /\ Quiet.phase = "idle"
  BY DEF Quiet, Activity

LEMMA SendIsSound ==
    ASSUME IInv, NEW kind \in Kinds, Send(kind)
    PROVE  IInv'
<1> USE DEF IInv
<1> DEFINE n == calls + 1
           fresh == [phase |-> "waiting", call |-> n, id |-> n, kind |-> kind,
                     infos |-> <<>>, seen |-> <<>>]
           request == [call |-> n, id |-> n, kind |-> kind, sent |-> 0]
<1>1. n \in Nat \ {0} /\ calls' = n
  BY DEF Send, Numbered
<1>2. call' = fresh
  <2>1. call' = [Quiet EXCEPT !.phase = "waiting", !.call = n, !.id = n, !.kind = kind]
    BY DEF Send, RequestId
  <2> QED
    BY <2>1, Zenon DEF Quiet
<1>3. inbox' = Append(inbox, request)
  BY DEF Send, RequestId
<1>4. request \in Request
  BY <1>1, TransportAssumption DEF Request
<1>5. inbox' \in Seq(Request)
  BY <1>3, <1>4, AppendProperties DEF Streams
<1>6. events' \in Seq(OwnFrame)
  BY DEF Send, Streams
<1>7. Streams'
  BY <1>5, <1>6 DEF Send, Streams
<1>8. call' \in Activity /\ call'.id = call'.call /\ call'.id # 0
  BY <1>1, <1>2 DEF Activity
<1>9. Numbered'
  BY <1>1, <1>8 DEF Send, Numbered
<1>10. OwnResponse'
  BY DEF Send, OwnResponse
<1> QED
  BY <1>7, <1>9, <1>10

LEMMA LookIsSound ==
    ASSUME IInv, Look
    PROVE  IInv'
<1> USE DEF IInv
<1>1. PICK i \in 1 .. Len(pending) :
        /\ Mine(pending[i])
        /\ pending' = Taken(pending, i)
        /\ IF pending[i].type = "info" /\ call.kind = "list"
           THEN /\ call' = [call EXCEPT !.infos = Append(@, pending[i])]
                /\ UNCHANGED result
           ELSE Ends(IF pending[i].ok THEN "response" ELSE "error", pending[i])
  BY Zenon DEF Look
<1>2. pending[i] \in OwnFrame /\ pending' \in Seq(OwnFrame)
  BY <1>1, ElementOfSeq, TakenIsOwn DEF Streams
<1>3. Streams'
  BY <1>2 DEF Look, Streams
<1>4. CASE pending[i].type = "info" /\ call.kind = "list"
  <2>1. call' = [call EXCEPT !.infos = Append(call.infos, pending[i])]
    BY <1>1, <1>4
  <2>2. Append(call.infos, pending[i]) \in Seq(OwnFrame)
    BY <1>2, AppendProperties DEF Numbered, Activity
  <2>3. call' \in Activity /\ call'.phase = call.phase /\ call'.id = call.id
        /\ call'.call = call.call
    BY <2>1, <2>2 DEF Numbered, Activity
  <2>4. Numbered'
    BY <2>3 DEF Look, Numbered
  <2>5. OwnResponse'
    BY <1>1, <1>4 DEF OwnResponse
  <2> QED
    BY <1>3, <2>4, <2>5
<1>5. CASE ~(pending[i].type = "info" /\ call.kind = "list")
  <2>1. /\ call' = Quiet
        /\ result'.frame = pending[i] /\ result'.call = call.call
    BY <1>1, <1>5 DEF Ends
  <2>2. call.phase = "waiting"
    BY DEF Look, Waiting
  <2>3. pending[i].call = call.call
    BY <1>1, <1>2, <2>2, MineIsMyAnswer
  <2>4. OwnResponse'
    BY <2>1, <2>3 DEF OwnResponse
  <2>5. Numbered'
    BY <2>1, QuietIsSound DEF Look, Numbered
  <2> QED
    BY <1>3, <2>4, <2>5
<1> QED
  BY <1>4, <1>5

LEMMA ReceiveIsSound ==
    ASSUME IInv, Receive
    PROVE  IInv'
<1> USE DEF IInv
<1>1. PICK n \in 1 .. Len(wire) :
        buf' = buf \o SubSeq(wire, 1, n) /\ wire' = SubSeq(wire, n + 1, Len(wire))
  BY Zenon DEF Receive
<1>2. wire \in Seq(OwnByte) /\ buf \in Seq(OwnByte) /\ n \in Nat /\ n <= Len(wire)
  BY LenProperties DEF Streams
<1>3. SubSeq(wire, 1, n) \in Seq(OwnByte) /\ wire' \in Seq(OwnByte)
  BY <1>1, <1>2, CutsAreOwn
<1>4. buf' \in Seq(OwnByte)
  BY <1>1, <1>2, <1>3, ConcatProperties
<1>5. Streams'
  BY <1>3, <1>4 DEF Receive, Streams
<1>6. Numbered' /\ OwnResponse'
  BY DEF Receive, Numbered, OwnResponse
<1> QED
  BY <1>5, <1>6

LEMMA ExpireIsSound ==
    ASSUME IInv, Expire
    PROVE  IInv'
<1> USE DEF IInv
<1>1. Streams'
  BY DEF Expire, Streams
<1>2. call' = Quiet /\ result'.out = "timeout"
  BY DEF Expire, Ends
<1>3. Numbered' /\ OwnResponse'
  BY <1>2, QuietIsSound DEF Expire, Numbered, OwnResponse
<1> QED
  BY <1>1, <1>3

LEMMA PollIsSound ==
    ASSUME IInv, Poll \/ PollReturns
    PROVE  IInv'
<1> USE DEF IInv
<1>1. CASE Poll
  <2>1. call' = [Quiet EXCEPT !.phase = "polling", !.seen = events]
    BY <1>1 DEF Poll
  <2>2. call' = [phase |-> "polling", call |-> 0, id |-> 0, kind |-> "exit", infos |-> <<>>,
                 seen |-> events]
    BY <2>1, Zenon DEF Quiet
  <2>3. call' \in Activity /\ call'.phase = "polling"
    BY <2>2 DEF Activity, Streams
  <2>4. Streams'
    BY <1>1 DEF Poll, Streams
  <2>5. Numbered' /\ OwnResponse'
    BY <1>1, <2>3 DEF Poll, Numbered, OwnResponse
  <2> QED
    BY <2>4, <2>5
<1>2. CASE PollReturns
  <2>1. Streams'
    BY <1>2 DEF PollReturns, Streams
  <2>2. Numbered' /\ OwnResponse'
    BY <1>2, QuietIsSound DEF PollReturns, Numbered, OwnResponse
  <2> QED
    BY <2>1, <2>2
<1> QED
  BY <1>1, <1>2

LEMMA NextIsSound == IInv /\ [Next]_vars => IInv'
<1> SUFFICES ASSUME IInv, [Next]_vars PROVE IInv'
  OBVIOUS
<1>1. CASE SendInfo \/ Serve
  BY <1>1, SendInfoIsSound, ServeIsSound
<1>2. CASE Raise
  BY <1>2, RaiseIsSound
<1>3. CASE Decode
  BY <1>3, DecodeIsSound
<1>4. CASE Look
  BY <1>4, LookIsSound
<1>5. CASE Receive
  BY <1>5, ReceiveIsSound
<1>6. CASE Expire
  BY <1>6, ExpireIsSound
<1>7. CASE Poll \/ PollReturns
  BY <1>7, PollIsSound
<1>8. CASE \E kind \in Kinds : Send(kind)
  BY <1>8, SendIsSound
<1>9. CASE UNCHANGED vars
  BY <1>9 DEF vars, IInv, Streams, Numbered, OwnResponse
<1> QED
  BY <1>1, <1>2, <1>3, <1>4, <1>5, <1>6, <1>7, <1>8, <1>9 DEF Next, Client

(* However the stream is cut, whatever timed out before, and wherever      *)
(* events fall between: a call of MonitorClient that returns, or raises    *)
(* the error VICE sent, has the answer to itself (monitor.py:109-127).     *)
THEOREM AnswersAreOwn == Spec => []OwnResponse
<1>1. IInv => OwnResponse
  BY DEF IInv
<1> QED
  BY <1>1, InitIsSound, NextIsSound, PTL DEF Spec

-----------------------------------------------------------------------------
(* The decoder stays in step.  The inductive invariant says of every byte  *)
(* that its frame lies around it, whole: InStep, which compares a byte     *)
(* with the one before it, does not say that a frame is followed by        *)
(* another's start.                                                        *)
Size(f) == Header + f.size

(* The frame f of which byte i of q, n bytes long, is part b.              *)
Surrounds(f, b, q, n, i) ==
    /\ b <= Size(f)
    /\ i - b >= 0
    /\ i - b + Size(f) <= n
    /\ \A k \in 1 .. Size(f) : q[i - b + k] = [frame |-> f, part |-> k]

WholeFrames(q) ==
    \A i \in 1 .. Len(q) : Surrounds(q[i].frame, q[i].part, q, Len(q), i)

Rest == buf \o wire

LEMMA ByteParts ==
    ASSUME NEW q \in Seq(OwnByte), NEW i \in 1 .. Len(q)
    PROVE  /\ q[i].part \in Nat \ {0} /\ q[i].frame \in OwnFrame
           /\ Size(q[i].frame) \in Nat \ {0}
           /\ q[i] = [frame |-> q[i].frame, part |-> q[i].part]
<1>1. q[i] \in OwnByte
  BY ElementOfSeq
<1>2. q[i].frame.size \in Nat
  BY <1>1 DEF OwnByte, OwnFrame, Frame
<1> QED
  BY <1>1, <1>2, TransportAssumption DEF OwnByte, Size

(* A frame stays whole where its surroundings move up, or down.            *)
LEMMA MovedUp ==
    ASSUME NEW f, Size(f) \in Nat, NEW b \in Nat \ {0}, NEW q, NEW n \in Nat, NEW i \in 1 .. n,
           Surrounds(f, b, q, n, i),
           NEW s, NEW d \in Nat, NEW m \in Nat, d + n <= m,
           \A x \in 1 .. n : s[d + x] = q[x]
    PROVE  Surrounds(f, b, s, m, d + i)
<1>1. ASSUME NEW k \in 1 .. Size(f)
      PROVE  s[d + i - b + k] = [frame |-> f, part |-> k]
  <2> DEFINE x == i - b + k
  <2>1. x \in 1 .. n /\ d + i - b + k = d + x
    BY DEF Surrounds
  <2>2. q[x] = [frame |-> f, part |-> k]
    BY DEF Surrounds
  <2> HIDE DEF x
  <2> QED
    BY <2>1, <2>2
<1> QED
  BY <1>1 DEF Surrounds

LEMMA MovedDown ==
    ASSUME NEW f, Size(f) \in Nat, NEW b \in Nat \ {0}, NEW q, NEW n \in Nat,
           NEW d \in Nat, NEW i \in 1 .. n - d,
           Surrounds(f, b, q, n, d + i), i - b >= 0,
           NEW s, \A x \in 1 .. n - d : s[x] = q[d + x]
    PROVE  Surrounds(f, b, s, n - d, i)
<1>1. ASSUME NEW k \in 1 .. Size(f)
      PROVE  s[i - b + k] = [frame |-> f, part |-> k]
  <2> DEFINE x == i - b + k
  <2>1. x \in 1 .. n - d /\ d + i - b + k = d + x
    BY DEF Surrounds
  <2>2. q[d + i - b + k] = [frame |-> f, part |-> k]
    BY DEF Surrounds
  <2> HIDE DEF x
  <2>3. q[d + x] = [frame |-> f, part |-> k]
    BY <2>1, <2>2
  <2> QED
    BY <2>1, <2>3 DEF x
<1> QED
  BY <1>1 DEF Surrounds

LEMMA FramesAreWhole ==
    ASSUME NEW f \in OwnFrame
    PROVE  WholeFrames(Bytes(f))
<1> DEFINE q == Bytes(f)
<1>1. Size(f) \in Nat
  BY TransportAssumption DEF Size, OwnFrame, Frame
<1>2. q = [i \in 1 .. Size(f) |-> [frame |-> f, part |-> i]]
  BY DEF Bytes, Size
<1>3. Len(q) = Size(f) /\ \A i \in 1 .. Size(f) : q[i].frame = f /\ q[i].part = i
                                    /\ q[i] = [frame |-> f, part |-> i]
  BY <1>1, <1>2
<1> HIDE DEF q
<1>4. WholeFrames(q)
  BY <1>1, <1>3 DEF WholeFrames, Surrounds
<1> QED
  BY <1>4 DEF q

LEMMA WholeJoined ==
    ASSUME NEW p \in Seq(OwnByte), NEW q \in Seq(OwnByte), WholeFrames(p), WholeFrames(q)
    PROVE  WholeFrames(p \o q)
<1> DEFINE s == p \o q
           m == Len(p)
           n == Len(q)
<1>1. m \in Nat /\ n \in Nat
  BY LenProperties
<1>2. /\ Len(s) = m + n
      /\ \A i \in 1 .. m : s[0 + i] = p[i]
      /\ \A i \in 1 .. n : s[m + i] = q[i]
  BY <1>1, ConcatProperties
<1>3. SUFFICES ASSUME NEW i \in 1 .. m + n
               PROVE  Surrounds(s[i].frame, s[i].part, s, m + n, i)
  BY <1>2 DEF WholeFrames
<1> HIDE DEF s, m, n
<1>4. CASE i <= m
  <2>1. i \in 1 .. m /\ i = 0 + i /\ s[i] = p[i] /\ 0 + m <= m + n /\ 0 \in Nat /\ m + n \in Nat
    BY <1>1, <1>2, <1>4
  <2>2. p[i].part \in Nat \ {0} /\ Size(p[i].frame) \in Nat
    BY <2>1, ByteParts DEF m
  <2>3. Surrounds(p[i].frame, p[i].part, p, m, i)
    BY <2>1 DEF WholeFrames, m
  <2>4. Surrounds(p[i].frame, p[i].part, s, m + n, 0 + i)
    BY <1>1, <1>2, <2>1, <2>2, <2>3, MovedUp, Zenon
  <2> QED
    BY <2>1, <2>4
<1>5. CASE i > m
  <2>1. PICK j \in 1 .. n : i = m + j
    BY <1>1, <1>5
  <2>2. q[j].part \in Nat \ {0} /\ Size(q[j].frame) \in Nat
    BY ByteParts DEF n
  <2>3. Surrounds(q[j].frame, q[j].part, q, n, j)
    BY DEF WholeFrames, n
  <2>4. m + n \in Nat /\ m + n <= m + n
    BY <1>1
  <2>5. Surrounds(q[j].frame, q[j].part, s, m + n, m + j)
    BY <1>1, <1>2, <2>2, <2>3, <2>4, MovedUp, Zenon
  <2> QED
    BY <1>2, <2>1, <2>5
<1> QED
  BY <1>1, <1>4, <1>5

LEMMA TailOfSeq ==
    ASSUME NEW S, NEW q \in Seq(S), NEW d \in Nat, d <= Len(q)
    PROVE  /\ Len(SubSeq(q, d + 1, Len(q))) = Len(q) - d
           /\ \A i \in 1 .. Len(q) - d : SubSeq(q, d + 1, Len(q))[i] = q[d + i]
  OBVIOUS

LEMMA WholeCut ==
    ASSUME NEW q \in Seq(OwnByte), WholeFrames(q), Len(q) >= 1, NEW cut, cut = Size(q[1].frame)
    PROVE  /\ cut \in Nat \ {0} /\ cut <= Len(q)
           /\ WholeFrames(SubSeq(q, cut + 1, Len(q)))
<1> DEFINE n == Len(q)
           s == SubSeq(q, cut + 1, n)
           first == q[1].frame
<1>1. n \in Nat /\ 1 \in 1 .. n
  BY LenProperties
<1>2. cut \in Nat \ {0} /\ q[1].part \in Nat \ {0}
  BY <1>1, ByteParts
<1>3. Surrounds(first, q[1].part, q, n, 1)
  BY <1>1 DEF WholeFrames
<1> HIDE DEF n, first
<1>4. cut = Size(first)
  BY DEF first
<1>5. cut <= n /\ q[1].part = 1
  BY <1>1, <1>2, <1>3, <1>4 DEF Surrounds
<1>6. \A k \in 1 .. cut : q[k] = [frame |-> first, part |-> k]
  BY <1>2, <1>3, <1>4, <1>5 DEF Surrounds
<1>8. /\ Len(s) = n - cut
      /\ \A i \in 1 .. n - cut : s[i] = q[cut + i]
  BY <1>2, <1>5, TailOfSeq DEF n
<1>9. SUFFICES ASSUME NEW i \in 1 .. n - cut
               PROVE  Surrounds(s[i].frame, s[i].part, s, n - cut, i)
  BY <1>2, <1>5, <1>8 DEF WholeFrames, n
<1> HIDE DEF s
<1> DEFINE f == q[cut + i].frame
           b == q[cut + i].part
<1>10. cut + i \in 1 .. n /\ s[i] = q[cut + i]
  BY <1>1, <1>2, <1>8
<1>11. b \in Nat \ {0} /\ Size(f) \in Nat /\ q[cut + i] = [frame |-> f, part |-> b]
  BY <1>10, ByteParts DEF n
<1>12. Surrounds(f, b, q, n, cut + i)
  BY <1>10 DEF WholeFrames, n
<1> HIDE DEF f, b
<1>13. b <= Size(f) /\ (cut + i) - b >= 0
  BY <1>12, Zenon DEF Surrounds
<1>14. i - b >= 0
  <2> SUFFICES ASSUME i - b < 0 PROVE FALSE
    BY <1>10, <1>11
  <2> DEFINE t == (cut + i) - b + 1
  <2>1. t \in 1 .. cut
    BY <1>2, <1>10, <1>11, <1>13
  <2> HIDE DEF t
  <2>2. q[t] = [frame |-> first, part |-> t]
    BY <1>6, <2>1
  <2>3. 1 \in 1 .. Size(f)
    BY <1>11, <1>13
  <2>4. q[t] = [frame |-> f, part |-> 1]
    BY <1>12, <2>3, Zenon DEF Surrounds, t
  <2>5. f = first /\ t = 1
    BY <2>2, <2>4
  <2>6. b = cut + i /\ b <= cut
    BY <1>2, <1>4, <1>10, <1>11, <1>13, <2>5 DEF t
  <2> QED
    BY <1>2, <2>6
<1>15. Surrounds(f, b, s, n - cut, i)
  BY <1>1, <1>2, <1>8, <1>11, <1>12, <1>14, MovedDown
<1> QED
  BY <1>10, <1>15 DEF f, b

(* Where every frame is whole, a byte follows the one before it.           *)
LEMMA WholeInStep ==
    ASSUME Streams, WholeFrames(Rest)
    PROVE  InStep
<1> DEFINE rest == Rest
           n == Len(rest)
<1>1. rest \in Seq(OwnByte) /\ n \in Nat
  BY ConcatProperties, LenProperties DEF Streams, Rest
<1> HIDE DEF n
<1> DEFINE Follows(i) ==
             IF i = 1 \/ rest[i].part = 1
             THEN /\ rest[i].part = 1
                  /\ n >= i + Header + rest[i].frame.size - 1
             ELSE rest[i] = [rest[i - 1] EXCEPT !.part = @ + 1]
<1>2. ASSUME NEW i \in 1 .. n
      PROVE  Follows(i)
  <2> DEFINE f == rest[i].frame
             b == rest[i].part
  <2>1. /\ b \in Nat \ {0} /\ Size(f) \in Nat \ {0} /\ rest[i] = [frame |-> f, part |-> b]
        /\ f.size \in Nat
    BY <1>1, ByteParts DEF n, OwnFrame, Frame
  <2>2. Surrounds(f, b, rest, n, i)
    BY DEF WholeFrames, n
  <2>3. b <= Size(f) /\ i - b >= 0 /\ i - b + Size(f) <= n
    BY <2>2, Zenon DEF Surrounds
  <2> HIDE DEF rest
  <2>4. CASE b = 1
    <3>1. Size(f) = Header + f.size /\ Header \in Nat
      BY TransportAssumption DEF Size
    <3>2. n >= i + Header + f.size - 1
      BY <1>1, <2>1, <2>3, <2>4, <3>1
    <3> QED
      BY <2>4, <3>2
  <2>5. CASE b # 1
    <3>1. i # 1 /\ b - 1 \in 1 .. Size(f) /\ i - b + (b - 1) = i - 1
      BY <2>1, <2>3, <2>5
    <3>2. rest[i - b + (b - 1)] = [frame |-> f, part |-> b - 1]
      BY <2>2, <3>1, Zenon DEF Surrounds
    <3>3. rest[i - 1] = [frame |-> f, part |-> b - 1]
      BY <3>1, <3>2
    <3>4. [[frame |-> f, part |-> b - 1] EXCEPT !.part = @ + 1] = [frame |-> f, part |-> b]
      BY <2>1
    <3> QED
      BY <2>1, <2>5, <3>1, <3>3, <3>4
  <2> QED
    BY <2>4, <2>5
<1> QED
  BY <1>2 DEF InStep, Rest, n

LEMMA RestUnderReceive ==
    ASSUME Streams, Receive
    PROVE  Rest' = Rest
<1>1. PICK n \in 1 .. Len(wire) :
        buf' = buf \o SubSeq(wire, 1, n) /\ wire' = SubSeq(wire, n + 1, Len(wire))
  BY Zenon DEF Receive
<1>2. wire \in Seq(OwnByte) /\ buf \in Seq(OwnByte) /\ n \in Nat /\ n <= Len(wire)
  BY LenProperties DEF Streams
<1>3. SubSeq(wire, 1, n) \in Seq(OwnByte) /\ wire' \in Seq(OwnByte)
  BY <1>1, <1>2, CutsAreOwn
<1>4. SubSeq(wire, 1, n) \o wire' = wire
  <2>1. SubSeq(wire, 1, n) \o SubSeq(wire, n + 1, Len(wire)) = SubSeq(wire, 1, Len(wire))
    BY <1>2, ConcatAdjacentSubSeq, LenProperties
  <2> QED
    BY <1>1, <1>2, <2>1, SubSeqFull
<1>5. (buf \o SubSeq(wire, 1, n)) \o wire' = buf \o (SubSeq(wire, 1, n) \o wire')
  BY <1>2, <1>3, ConcatAssociative
<1> QED
  BY <1>1, <1>4, <1>5 DEF Rest

LEMMA TailOfJoined ==
    ASSUME NEW S, NEW p \in Seq(S), NEW q \in Seq(S), NEW d \in Nat, d <= Len(p)
    PROVE  SubSeq(p, d + 1, Len(p)) \o q = SubSeq(p \o q, d + 1, Len(p \o q))
<1> DEFINE m == Len(p)
           n == Len(q)
           cut == SubSeq(p, d + 1, m)
           all == p \o q
           left == cut \o q
           right == SubSeq(all, d + 1, Len(all))
<1>1. m \in Nat /\ n \in Nat
  BY LenProperties
<1>2. all \in Seq(S) /\ Len(all) = m + n
      /\ \A i \in 1 .. m + n : all[i] = IF i <= m THEN p[i] ELSE q[i - m]
  BY ConcatProperties
<1>3. cut \in Seq(S) /\ Len(cut) = m - d /\ \A i \in 1 .. m - d : cut[i] = p[d + i]
  BY CutsAreOwn, TailOfSeq
<1> HIDE DEF all, cut
<1>4. left \in Seq(S) /\ Len(left) = (m - d) + n
      /\ \A i \in 1 .. (m - d) + n : left[i] = IF i <= m - d THEN cut[i] ELSE q[i - (m - d)]
  <2>1. /\ left \in Seq(S) /\ Len(left) = Len(cut) + n
        /\ \A i \in 1 .. Len(cut) + n :
                left[i] = IF i <= Len(cut) THEN cut[i] ELSE q[i - Len(cut)]
    BY <1>3, ConcatProperties
  <2> QED
    BY <1>3, <2>1
<1> HIDE DEF left
<1>5. d <= Len(all)
  BY <1>1, <1>2
<1>6. right \in Seq(S) /\ Len(right) = m + n - d
      /\ \A i \in 1 .. m + n - d : right[i] = all[d + i]
  BY <1>2, <1>5, CutsAreOwn, TailOfSeq
<1> HIDE DEF right, m, n
<1>7. ASSUME NEW i \in 1 .. m + n - d
      PROVE  left[i] = right[i]
  <2>1. d + i \in 1 .. m + n /\ i \in 1 .. (m - d) + n /\ right[i] = all[d + i]
    BY <1>1, <1>6
  <2>2. CASE i <= m - d
    <3>1. i \in 1 .. m - d /\ d + i <= m
      BY <1>1, <2>2
    <3> QED
      BY <1>2, <1>3, <1>4, <2>1, <2>2, <3>1
  <2>3. CASE i > m - d
    <3>1. ~(d + i <= m) /\ ~(i <= m - d) /\ i - (m - d) = (d + i) - m
      BY <1>1, <2>3
    <3> QED
      BY <1>2, <1>4, <2>1, <3>1
  <2> QED
    BY <1>1, <2>2, <2>3
<1>8. Len(left) = Len(right) /\ Len(left) = m + n - d
  BY <1>1, <1>4, <1>6
<1>9. left = right
  BY <1>4, <1>6, <1>7, <1>8, SeqEqual
<1> QED
  BY <1>9 DEF left, right, cut, all, m

-----------------------------------------------------------------------------
LEMMA WholeFramesStay ==
    ASSUME IInv, IInv', WholeFrames(Rest), [Next]_vars
    PROVE  WholeFrames(Rest')
<1> buf \in Seq(OwnByte) /\ wire \in Seq(OwnByte) /\ Rest \in Seq(OwnByte)
  BY ConcatProperties DEF IInv, Streams, Rest
<1>1. ASSUME NEW f \in OwnFrame, wire' = wire \o Bytes(f), buf' = buf
      PROVE  WholeFrames(Rest')
  <2>1. Bytes(f) \in Seq(OwnByte) /\ WholeFrames(Bytes(f))
    BY <1>1, BytesAreOwn, FramesAreWhole
  <2>2. Rest' = Rest \o Bytes(f)
    BY <1>1, <2>1, ConcatAssociative DEF Rest
  <2> QED
    BY <2>1, <2>2, WholeJoined
<1>2. CASE SendInfo
  <2> DEFINE r == Head(inbox)
             info == Response(r, "info", 1, r.sent + 1, TRUE)
  <2>1. r \in Request
    BY <1>2, FirstIsOwn DEF SendInfo, IInv, Streams
  <2>2. r.sent + 1 \in Nat
    BY <2>1, TransportAssumption DEF Request
  <2>3. info \in OwnFrame /\ wire' = wire \o Bytes(info) /\ buf' = buf
    BY <1>2, <2>1, <2>2, ResponsesAreOwn DEF SendInfo
  <2> QED
    BY <1>1, <2>3
<1>3. CASE Serve
  <2> DEFINE r == Head(inbox)
  <2>1. r \in Request
    BY <1>3, FirstIsOwn DEF Serve, IInv, Streams
  <2>2. PICK ok \in BOOLEAN : wire' = wire \o Bytes(Response(r, r.kind, 0, r.sent, ok))
    BY <1>3, Zenon DEF Serve
  <2>3. Response(r, r.kind, 0, r.sent, ok) \in OwnFrame
    BY <2>1, ResponsesAreOwn, TransportAssumption DEF Request
  <2> QED
    BY <1>1, <1>3, <2>2, <2>3 DEF Serve
<1>4. CASE Raise
  <2>1. raised' \in Nat
    BY <1>4 DEF Raise, IInv, Numbered
  <2>2. Event(raised') \in OwnFrame
    BY <2>1 DEF Event, OwnFrame, Frame
  <2> QED
    BY <1>1, <1>4, <2>2 DEF Raise
<1>5. CASE Receive
  BY <1>5, RestUnderReceive DEF IInv
<1>6. CASE Decode
  <2> DEFINE cut == Size(buf[1].frame)
  <2>1. Len(buf) >= 1 /\ cut <= Len(buf)
    BY <1>6, TransportAssumption DEF Decode, Complete, Size
  <2>2. buf' = SubSeq(buf, cut + 1, Len(buf)) /\ wire' = wire
    BY <1>6 DEF Decode, Size
  <2>3. Rest[1] = buf[1] /\ Len(Rest) >= 1
    BY <2>1, ConcatProperties, LenProperties DEF Rest
  <2>4. cut \in Nat /\ WholeFrames(SubSeq(Rest, cut + 1, Len(Rest)))
    BY <2>3, WholeCut
  <2> HIDE DEF cut
  <2>5. Rest' = SubSeq(Rest, cut + 1, Len(Rest))
    BY <2>1, <2>2, <2>4, TailOfJoined DEF Rest
  <2> QED
    BY <2>4, <2>5
<1>7. CASE Look \/ Expire \/ Poll \/ PollReturns \/ UNCHANGED vars \/ \E kind \in Kinds : Send(kind)
  <2>1. UNCHANGED <<buf, wire>>
    BY <1>7 DEF Look, Expire, Poll, PollReturns, vars, Send
  <2> QED
    BY <2>1 DEF Rest
<1> QED
  BY <1>2, <1>3, <1>4, <1>5, <1>6, <1>7 DEF Next, Client

(* For every size of header and every way the chunks are cut, the decoder  *)
(* stands at the start of a frame, with every frame whole behind it: the   *)
(* bad start byte of protocol.py:103-104 never comes from a cut.           *)
THEOREM DecoderStaysInStep == Spec => []InStep
<1>1. Init => WholeFrames(Rest)
  <2> SUFFICES ASSUME Init PROVE WholeFrames(Rest)
    OBVIOUS
  <2>1. Len(Rest) = 0
    BY EmptySeq, ConcatEmptySeq DEF Init, Rest
  <2> QED
    BY <2>1 DEF WholeFrames
<1>2. IInv /\ WholeFrames(Rest) /\ [Next]_vars => IInv' /\ WholeFrames(Rest)'
  BY NextIsSound, WholeFramesStay
<1>3. IInv /\ WholeFrames(Rest) => InStep
  BY WholeInStep DEF IInv
<1> QED
  BY <1>1, <1>2, <1>3, InitIsSound, PTL DEF Spec
-----------------------------------------------------------------------------
(***************************************************************************)
(* What is taken, and in which order.  The line is all that VICE has sent  *)
(* and nobody has taken: _pending, then the frames still to be decoded,    *)
(* each at a place of its own; a place ahead of another is nearer its end. *)
(***************************************************************************)
PlaceOf(q, rest) ==
    1 .. Len(q) \cup {p \in Len(q) + 1 .. Len(q) + Len(rest) : rest[p - Len(q)].part = 1}

LineOf(q, rest) ==
    [p \in PlaceOf(q, rest) |-> IF p <= Len(q) THEN q[p] ELSE rest[p - Len(q)].frame]

Line == LineOf(pending, Rest)

(* Of the events, and of the frames that answer one call, each has a rank: *)
(* the infos of a list theirs, the final response the one after them.      *)
Rank(f) == IF f.type \in {"info", "event"} THEN f.no ELSE f.no + 1

(* The frames of call c on the line are those of rank lo + 1 to hi, each   *)
(* once and in order.  Events are the frames of call 0.                    *)
Stream(line, c, lo, hi) ==
    /\ \A p \in DOMAIN line :
          line[p].call = c => lo < Rank(line[p]) /\ Rank(line[p]) <= hi
    /\ \A n \in lo + 1 .. hi : \E p \in DOMAIN line : line[p].call = c /\ Rank(line[p]) = n
    /\ \A p, q \in DOMAIN line :
          line[p].call = c /\ line[q].call = c /\ p < q => Rank(line[p]) < Rank(line[q])

(* Line m is line l with its places from t on moved up by d; of l's, those *)
(* in lost are gone.                                                       *)
From(p, t, d) == IF p < t THEN p ELSE p + d

Shifted(l, m, t, d, lost) ==
    /\ \A p \in DOMAIN m : From(p, t, d) \in DOMAIN l /\ m[p] = l[From(p, t, d)]
    /\ \A q \in DOMAIN l \ lost : \E p \in DOMAIN m : q = From(p, t, d)

LEMMA RankIsNat ==
    ASSUME NEW f \in OwnFrame
    PROVE  Rank(f) \in Nat
  BY DEF Rank, OwnFrame, Frame

(* A stream outlasts the moves of the line that lose none of its frames.   *)
LEMMA StreamMoves ==
    ASSUME NEW D \in SUBSET Nat, NEW l \in [D -> OwnFrame],
           NEW E \in SUBSET Nat, NEW m \in [E -> OwnFrame],
           NEW t \in Nat, NEW d \in Nat, NEW lost, Shifted(l, m, t, d, lost),
           NEW c, NEW lo \in Nat, NEW hi \in Nat, Stream(l, c, lo, hi),
           \A p \in D : l[p].call = c => p \notin lost
    PROVE  Stream(m, c, lo, hi)
<1>0. \A q \in D : q \notin lost => \E p \in E : m[p] = l[q]
  BY DEF Shifted
<1> \A p \in E : \E q \in D : m[p] = l[q] /\ q = From(p, t, d)
  BY DEF Shifted
<1>1. ASSUME NEW p \in E, m[p].call = c
      PROVE  lo < Rank(m[p]) /\ Rank(m[p]) <= hi
  BY <1>1, Zenon DEF Stream
<1>2. ASSUME NEW n \in lo + 1 .. hi
      PROVE  \E p \in E : m[p].call = c /\ Rank(m[p]) = n
  <2>1. PICK q \in D : l[q].call = c /\ Rank(l[q]) = n
    BY DEF Stream
  <2>2. PICK p \in E : m[p] = l[q]
    BY <1>0, <2>1
  <2> QED
    BY <2>1, <2>2
<1>3. ASSUME NEW p \in E, NEW q \in E, m[p].call = c, m[q].call = c, p < q
      PROVE  Rank(m[p]) < Rank(m[q])
  <2>1. PICK x \in D : m[p] = l[x] /\ x = From(p, t, d)
    OBVIOUS
  <2>2. PICK y \in D : m[q] = l[y] /\ y = From(q, t, d)
    OBVIOUS
  <2>3. x < y
    BY <1>3, <2>1, <2>2 DEF From
  <2> QED
    BY <1>3, <2>1, <2>2, <2>3 DEF Stream
<1> QED
  BY <1>1, <1>2, <1>3 DEF Stream

(* The first of a stream's frames is the one of the lowest rank, and the   *)
(* rest is a stream without it.                                            *)
IsLine(l) == DOMAIN l \in SUBSET Nat /\ l \in [DOMAIN l -> OwnFrame]

LosesFirst(l, m, t, d, x, c) ==
    /\ Shifted(l, m, t, d, {x}) /\ \A p \in DOMAIN m : From(p, t, d) # x
    /\ x \in DOMAIN l /\ l[x].call = c /\ \A p \in DOMAIN l : l[p].call = c => p >= x

LEMMA StreamLosesFirst ==
    ASSUME NEW l, IsLine(l), NEW m, IsLine(m), NEW t \in Nat, NEW d \in Nat, NEW x, NEW c,
           LosesFirst(l, m, t, d, x, c),
           NEW lo \in Nat, NEW hi \in Nat, Stream(l, c, lo, hi)
    PROVE  /\ Rank(l[x]) = lo + 1 /\ lo + 1 <= hi
           /\ Stream(m, c, lo + 1, hi)
<1> DEFINE D == DOMAIN l
           E == DOMAIN m
<1> /\ D \in SUBSET Nat /\ l \in [D -> OwnFrame] /\ E \in SUBSET Nat /\ m \in [E -> OwnFrame]
  BY DEF IsLine
<1> /\ Shifted(l, m, t, d, {x}) /\ \A p \in E : From(p, t, d) # x
    /\ x \in D /\ l[x].call = c /\ \A p \in D : l[p].call = c => p >= x
  BY DEF LosesFirst
<1> HIDE DEF D, E
<1> \A p \in D : Rank(l[p]) \in Nat
  BY RankIsNat
<1>s. /\ \A p \in D : l[p].call = c => lo < Rank(l[p]) /\ Rank(l[p]) <= hi
      /\ \A n \in lo + 1 .. hi : \E p \in D : l[p].call = c /\ Rank(l[p]) = n
      /\ \A p, q \in D : l[p].call = c /\ l[q].call = c /\ p < q => Rank(l[p]) < Rank(l[q])
  BY DEF Stream, D
<1>0. \A q \in D : q \notin {x} => \E p \in E : m[p] = l[q]
  BY DEF Shifted, D, E
<1> \A p \in E : \E q \in D : m[p] = l[q] /\ q = From(p, t, d)
  BY DEF Shifted, D, E
<1>1. lo < Rank(l[x]) /\ Rank(l[x]) <= hi /\ Rank(l[x]) \in Nat
  BY <1>s
<1>2. Rank(l[x]) = lo + 1
  <2> SUFFICES ASSUME Rank(l[x]) # lo + 1 PROVE FALSE
    OBVIOUS
  <2>1. lo + 1 \in lo + 1 .. hi /\ lo + 1 < Rank(l[x])
    BY <1>1
  <2>2. PICK p \in D : l[p].call = c /\ Rank(l[p]) = lo + 1
    BY <1>s, <2>1
  <2>3. x < p
    BY <2>1, <2>2
  <2> QED
    BY <1>s, <2>1, <2>2, <2>3
<1>3. \A p \in D : l[p].call = c /\ p # x => lo + 1 < Rank(l[p])
  BY <1>s, <1>2
<1>4. ASSUME NEW p \in E, m[p].call = c
      PROVE  lo + 1 < Rank(m[p]) /\ Rank(m[p]) <= hi
  <2>1. PICK q \in D : m[p] = l[q] /\ q # x
    OBVIOUS
  <2> QED
    BY <1>s, <1>3, <1>4, <2>1
<1>5. ASSUME NEW n \in lo + 1 + 1 .. hi
      PROVE  \E p \in E : m[p].call = c /\ Rank(m[p]) = n
  <2>1. PICK q \in D : l[q].call = c /\ Rank(l[q]) = n
    BY <1>s
  <2>2. q \notin {x}
    BY <1>2, <2>1
  <2>3. PICK p \in E : m[p] = l[q]
    BY <1>0, <2>2
  <2> QED
    BY <2>1, <2>3
<1>6. ASSUME NEW p \in E, NEW q \in E, m[p].call = c, m[q].call = c, p < q
      PROVE  Rank(m[p]) < Rank(m[q])
  <2>1. PICK u \in D : m[p] = l[u] /\ u = From(p, t, d)
    OBVIOUS
  <2>2. PICK v \in D : m[q] = l[v] /\ v = From(q, t, d)
    OBVIOUS
  <2>3. u < v
    BY <1>6, <2>1, <2>2 DEF From
  <2> QED
    BY <1>s, <1>6, <2>1, <2>2, <2>3
<1> QED
  BY <1>1, <1>2, <1>4, <1>5, <1>6 DEF Stream, D, E

(* Line m is line l with frame f added at its end, at place y.             *)
Grown(l, m, y, f) ==
    /\ DOMAIN m = DOMAIN l \cup {y} /\ m[y] = f
    /\ \A p \in DOMAIN l : p < y /\ m[p] = l[p]

LEMMA StreamGrows ==
    ASSUME NEW D \in SUBSET Nat, NEW l \in [D -> OwnFrame],
           NEW E \in SUBSET Nat, NEW m \in [E -> OwnFrame],
           NEW y \in Nat, NEW f \in OwnFrame, Grown(l, m, y, f),
           NEW c, NEW lo \in Nat, NEW hi \in Nat, lo <= hi, Stream(l, c, lo, hi),
           f.call = c => Rank(f) = hi + 1
    PROVE  Stream(m, c, lo, IF f.call = c THEN hi + 1 ELSE hi)
<1> DEFINE up == IF f.call = c THEN hi + 1 ELSE hi
<1>0. E = D \cup {y} /\ m[y] = f /\ \A p \in D : p < y /\ m[p] = l[p]
  BY DEF Grown
<1> \A p \in E : Rank(m[p]) \in Nat
  BY RankIsNat
<1>1. ASSUME NEW p \in E, m[p].call = c
      PROVE  lo < Rank(m[p]) /\ Rank(m[p]) <= up
  BY <1>0, <1>1 DEF Stream
<1>2. ASSUME NEW n \in lo + 1 .. up
      PROVE  \E p \in E : m[p].call = c /\ Rank(m[p]) = n
  <2>1. CASE n \in lo + 1 .. hi
    <3>1. PICK p \in D : l[p].call = c /\ Rank(l[p]) = n
      BY <2>1 DEF Stream
    <3> QED
      BY <1>0, <3>1
  <2>2. CASE n \notin lo + 1 .. hi
    <3>1. f.call = c /\ n = hi + 1
      BY <2>2
    <3> QED
      BY <1>0, <3>1
  <2> QED
    BY <2>1, <2>2
<1>3. ASSUME NEW p \in E, NEW q \in E, m[p].call = c, m[q].call = c, p < q
      PROVE  Rank(m[p]) < Rank(m[q])
  <2>1. p \in D
    BY <1>0, <1>3
  <2>2. CASE q \in D
    BY <1>0, <1>3, <2>1, <2>2 DEF Stream
  <2>3. CASE q = y
    <3>1. Rank(l[p]) <= hi /\ Rank(m[q]) = hi + 1
      BY <1>0, <1>3, <2>1, <2>3 DEF Stream
    <3> QED
      BY <1>0, <2>1, <3>1
  <2> QED
    BY <1>0, <2>2, <2>3
<1> QED
  BY <1>1, <1>2, <1>3 DEF Stream

-----------------------------------------------------------------------------
LEMMA LineOfType ==
    ASSUME NEW q \in Seq(OwnFrame), NEW rest \in Seq(OwnByte)
    PROVE  /\ PlaceOf(q, rest) \in SUBSET Nat
           /\ LineOf(q, rest) \in [PlaceOf(q, rest) -> OwnFrame]
<1>1. Len(q) \in Nat /\ Len(rest) \in Nat
  BY LenProperties
<1>2. PlaceOf(q, rest) \in SUBSET Nat
  BY <1>1 DEF PlaceOf
<1>3. ASSUME NEW p \in PlaceOf(q, rest)
      PROVE  (IF p <= Len(q) THEN q[p] ELSE rest[p - Len(q)].frame) \in OwnFrame
  <2>1. CASE p <= Len(q)
    <3>1. p \in 1 .. Len(q)
      BY <1>1, <2>1 DEF PlaceOf
    <3> QED
      BY <2>1, <3>1, ElementOfSeq
  <2>2. CASE ~(p <= Len(q))
    <3>1. p - Len(q) \in 1 .. Len(rest)
      BY <1>1, <2>2 DEF PlaceOf
    <3> QED
      BY <2>2, <3>1, ByteParts
  <2> QED
    BY <2>1, <2>2
<1> QED
  BY <1>2, <1>3 DEF LineOf

LEMMA LineGrows ==
    ASSUME NEW q \in Seq(OwnFrame), NEW rest \in Seq(OwnByte), NEW f \in OwnFrame
    PROVE  /\ Len(q) + Len(rest) + 1 \in Nat
           /\ Grown(LineOf(q, rest), LineOf(q, rest \o Bytes(f)), Len(q) + Len(rest) + 1, f)
<1> DEFINE L == Len(q)
           n == Len(rest)
           z == Size(f)
           more == rest \o Bytes(f)
           b == Bytes(f)
<1>1. L \in Nat /\ n \in Nat
  BY LenProperties
<1>2. z \in Nat \ {0}
  BY TransportAssumption DEF Size, OwnFrame, Frame
<1>3. b \in Seq(OwnByte) /\ Len(b) = z /\ \A i \in 1 .. z : b[i] = [frame |-> f, part |-> i]
  <2>1. b = [i \in 1 .. z |-> [frame |-> f, part |-> i]]
    BY DEF Bytes, Size
  <2> QED
    BY <1>2, <2>1, BytesAreOwn
<1> HIDE DEF b, z
<1>4. /\ Len(more) = n + z
      /\ \A i \in 1 .. n + z : more[i] = IF i <= n THEN rest[i] ELSE b[i - n]
  <2>1. /\ Len(more) = n + Len(b)
        /\ \A i \in 1 .. n + Len(b) : more[i] = IF i <= n THEN rest[i] ELSE b[i - n]
    BY <1>3, ConcatProperties DEF b
  <2> QED
    BY <1>3, <2>1
<1> HIDE DEF more, L, n
<1>5. \A p \in 1 .. L + n : p > L => p - L \in 1 .. n /\ more[p - L] = rest[p - L]
  BY <1>1, <1>2, <1>4
<1>6. \A p \in L + n + 1 .. L + n + z :
          more[p - L] = [frame |-> f, part |-> p - L - n]
  <2> SUFFICES ASSUME NEW p \in L + n + 1 .. L + n + z
               PROVE  more[p - L] = [frame |-> f, part |-> p - L - n]
    OBVIOUS
  <2> DEFINE i == p - L
  <2>1. i \in 1 .. n + z /\ ~(i <= n) /\ i - n \in 1 .. z
    BY <1>1, <1>2
  <2> HIDE DEF i
  <2>2. more[i] = [frame |-> f, part |-> i - n]
    BY <1>3, <1>4, <2>1
  <2> QED
    BY <2>2 DEF i
<1>y. PICK y \in Nat : y = L + n + 1
  BY <1>1
<1>7. PlaceOf(q, more) = PlaceOf(q, rest) \cup {y}
  <2>1. ASSUME NEW p \in L + 1 .. L + n
        PROVE  more[p - L].part = 1 <=> rest[p - L].part = 1
    BY <1>1, <1>5
  <2>2. ASSUME NEW p \in L + n + 1 .. L + n + z
        PROVE  more[p - L].part = 1 <=> p = y
    <3>1. more[p - L].part = p - L - n
      <4>1. more[p - L] = [frame |-> f, part |-> p - L - n]
        BY <1>6, Zenon
      <4> QED
        BY <4>1
    <3>2. p - L - n = 1 <=> p = y
      BY <1>1, <1>2, <1>y
    <3> QED
      BY <3>1, <3>2
  <2>3. /\ PlaceOf(q, more) = 1 .. L \cup {p \in L + 1 .. L + (n + z) : more[p - L].part = 1}
        /\ PlaceOf(q, rest) = 1 .. L \cup {p \in L + 1 .. L + n : rest[p - L].part = 1}
    BY <1>4 DEF PlaceOf, L, n
  <2>4. /\ \A p : p \in L + 1 .. L + (n + z) <=> p \in L + 1 .. L + n \/ p \in L + n + 1 .. L + n + z
        /\ y \in L + n + 1 .. L + n + z
        /\ \A p \in 1 .. L + n : p # y
    BY <1>1, <1>2, <1>y
  <2>5. ASSUME NEW p PROVE p \in PlaceOf(q, more) <=> p \in PlaceOf(q, rest) \/ p = y
    <3>1. CASE p \in L + 1 .. L + n
      <4>1. p # y
        BY <1>1, <1>y, <3>1
      <4> QED
        BY <2>1, <2>3, <2>4, <3>1, <4>1
    <3>2. CASE p \in L + n + 1 .. L + n + z
      <4>1. p \notin L + 1 .. L + n /\ p \notin 1 .. L
        BY <1>1, <1>2, <3>2
      <4>2. p \in PlaceOf(q, more) <=> p = y
        BY <2>2, <2>3, <2>4, <3>2, <4>1
      <4> QED
        BY <2>3, <4>1, <4>2
    <3>3. CASE p \notin L + 1 .. L + n /\ p \notin L + n + 1 .. L + n + z
      BY <2>3, <2>4, <3>3
    <3> QED
      BY <3>1, <3>2, <3>3
  <2> QED
    BY <2>5
<1>8. \A p \in PlaceOf(q, rest) : p \in 1 .. L + n
  BY <1>1 DEF PlaceOf, L, n
<1>9. ASSUME NEW p \in PlaceOf(q, rest)
      PROVE  LineOf(q, more)[p] = LineOf(q, rest)[p]
  BY <1>5, <1>7, <1>8 DEF LineOf, L
<1>10. LineOf(q, more)[y] = f
  <2>1. y \in L + n + 1 .. L + n + z /\ ~(y <= L)
    BY <1>1, <1>2, <1>y
  <2>2. more[y - L] = [frame |-> f, part |-> y - L - n]
    BY <1>6, <2>1, Zenon
  <2>3. more[y - L].frame = f
    BY <2>2
  <2> QED
    BY <1>7, <2>1, <2>3 DEF LineOf, L
<1>11. \A p \in PlaceOf(q, rest) : p < y
  BY <1>1, <1>8, <1>y
<1>12. DOMAIN LineOf(q, rest) = PlaceOf(q, rest) /\ DOMAIN LineOf(q, more) = PlaceOf(q, more)
  BY DEF LineOf
<1>13. Grown(LineOf(q, rest), LineOf(q, more), y, f)
  BY <1>7, <1>9, <1>10, <1>11, <1>12 DEF Grown
<1> QED
  BY <1>13, <1>y DEF L, n, more

(* The frame at the head of a stream of whole frames, byte by byte.        *)
HeadIs(rest, f, cut) ==
    /\ f \in OwnFrame
    /\ cut \in Nat \ {0} /\ cut <= Len(rest)
    /\ \A k \in 1 .. cut : rest[k] = [frame |-> f, part |-> k]

LEMMA WholeHead ==
    ASSUME NEW q \in Seq(OwnByte), WholeFrames(q), Len(q) >= 1
    PROVE  HeadIs(q, q[1].frame, Size(q[1].frame))
<1> DEFINE n == Len(q)
           first == q[1].frame
<1>1. n \in Nat /\ 1 \in 1 .. n
  BY LenProperties
<1>2. Size(first) \in Nat \ {0} /\ q[1].part \in Nat \ {0} /\ first \in OwnFrame
  BY <1>1, ByteParts
<1>3. Surrounds(first, q[1].part, q, n, 1)
  BY <1>1 DEF WholeFrames
<1> HIDE DEF n, first
<1>4. q[1].part = 1 /\ Size(first) <= n
  BY <1>1, <1>2, <1>3 DEF Surrounds
<1>5. \A k \in 1 .. Size(first) : q[k] = [frame |-> first, part |-> k]
  BY <1>2, <1>3, <1>4 DEF Surrounds
<1> QED
  BY <1>2, <1>4, <1>5 DEF first, n, HeadIs

(* Decoding an answer puts it at the end of _pending, in the same place.   *)
LEMMA LineDecodes ==
    ASSUME NEW q \in Seq(OwnFrame), NEW rest \in Seq(OwnByte),
           NEW first, NEW cut, HeadIs(rest, first, cut)
    PROVE  Shifted(LineOf(q, rest),
                   LineOf(Append(q, first), SubSeq(rest, cut + 1, Len(rest))),
                   Len(q) + 2, cut - 1, {})
<1> DEFINE L == Len(q)
           n == Len(rest)
           left == SubSeq(rest, cut + 1, n)
           longer == Append(q, first)
<1>1. L \in Nat /\ n \in Nat /\ n >= 1
  BY LenProperties DEF HeadIs
<1>2. cut \in Nat \ {0} /\ cut <= n
  BY DEF HeadIs
<1>3. first \in OwnFrame /\ \A k \in 1 .. cut : rest[k] = [frame |-> first, part |-> k]
  BY DEF HeadIs
<1>4. Len(left) = n - cut /\ \A i \in 1 .. n - cut : left[i] = rest[cut + i]
  BY <1>2, TailOfSeq
<1>5. Len(longer) = L + 1 /\ longer[L + 1] = first /\ \A i \in 1 .. L : longer[i] = q[i]
  BY <1>3, AppendProperties
<1> HIDE DEF L, n, left, longer
<1>6. PlaceOf(q, rest) = 1 .. L \cup {p \in L + 1 .. L + n : rest[p - L].part = 1}
  BY DEF PlaceOf, L, n
<1>7. PlaceOf(longer, left) =
        1 .. L + 1 \cup {p \in L + 2 .. L + 1 + (n - cut) : left[p - (L + 1)].part = 1}
  <2>1. (L + 1) + 1 = L + 2
    BY <1>1
  <2> QED
    BY <1>4, <1>5, <2>1 DEF PlaceOf
<1>8. \A p \in L + 2 .. L + 1 + (n - cut) :
        /\ p + (cut - 1) \in L + 1 .. L + n /\ left[p - (L + 1)] = rest[(p + (cut - 1)) - L]
        /\ ~(p < L + 2) /\ ~(p <= L + 1) /\ ~(p + (cut - 1) <= L)
  <2> SUFFICES ASSUME NEW p \in L + 2 .. L + 1 + (n - cut)
               PROVE  /\ p + (cut - 1) \in L + 1 .. L + n
                      /\ left[p - (L + 1)] = rest[(p + (cut - 1)) - L]
                      /\ ~(p < L + 2) /\ ~(p <= L + 1) /\ ~(p + (cut - 1) <= L)
    OBVIOUS
  <2>1. PICK k \in Nat : k = cut - 1
    BY <1>2
  <2>2. p - (L + 1) \in 1 .. n - cut
    BY <1>1, <1>2
  <2>3. cut + (p - (L + 1)) = (p + k) - L
    BY <1>1, <1>2, <2>1
  <2>4. left[p - (L + 1)] = rest[cut + (p - (L + 1))]
    BY <1>4, <2>2
  <2>5. p + k \in L + 1 .. L + n
    BY <1>1, <1>2, <2>1
  <2>6. ~(p < L + 2) /\ ~(p <= L + 1) /\ ~(p + k <= L)
    BY <1>1, <1>2, <2>1
  <2> QED
    BY <2>1, <2>3, <2>4, <2>5, <2>6
<1>9. rest[(L + 1) - L] = [frame |-> first, part |-> 1]
  BY <1>1, <1>2, <1>3
<1>10. ASSUME NEW p \in PlaceOf(longer, left)
       PROVE  /\ From(p, L + 2, cut - 1) \in PlaceOf(q, rest)
              /\ LineOf(longer, left)[p] = LineOf(q, rest)[From(p, L + 2, cut - 1)]
  <2>1. CASE p \in 1 .. L
    <3>1. From(p, L + 2, cut - 1) = p /\ p <= L /\ p <= L + 1
      BY <1>1, <2>1 DEF From
    <3> QED
      BY <1>5, <1>6, <2>1, <3>1 DEF LineOf, L
  <2>2. CASE p = L + 1
    <3>1. From(p, L + 2, cut - 1) = L + 1 /\ ~(L + 1 <= L) /\ L + 1 <= L + 1
      BY <1>1, <2>2 DEF From
    <3>2. L + 1 \in PlaceOf(q, rest)
      BY <1>1, <1>6, <1>9
    <3> QED
      BY <1>5, <1>9, <2>2, <3>1, <3>2 DEF LineOf, L
  <2>3. CASE p \in L + 2 .. L + 1 + (n - cut)
    <3>1. /\ p + (cut - 1) \in L + 1 .. L + n /\ left[p - (L + 1)] = rest[(p + (cut - 1)) - L]
          /\ ~(p < L + 2) /\ ~(p <= L + 1) /\ ~(p + (cut - 1) <= L)
      BY <1>8, <2>3
    <3>2. From(p, L + 2, cut - 1) = p + (cut - 1)
      BY <3>1 DEF From
    <3>3. left[p - (L + 1)].part = 1
      BY <1>1, <1>7, <2>3
    <3>4. p + (cut - 1) \in PlaceOf(q, rest)
      BY <1>6, <3>1, <3>3
    <3>5. LineOf(longer, left)[p] = left[p - (L + 1)].frame
      BY <1>5, <3>1 DEF LineOf
    <3>6. LineOf(q, rest)[p + (cut - 1)] = rest[(p + (cut - 1)) - L].frame
      BY <3>1, <3>4 DEF LineOf, L
    <3> QED
      BY <3>1, <3>2, <3>4, <3>5, <3>6
  <2> QED
    BY <1>1, <1>7, <2>1, <2>2, <2>3
<1>11. ASSUME NEW x \in PlaceOf(q, rest)
       PROVE  \E p \in PlaceOf(longer, left) : x = From(p, L + 2, cut - 1)
  <2>1. CASE x \in 1 .. L + 1
    <3>1. x \in PlaceOf(longer, left) /\ From(x, L + 2, cut - 1) = x
      BY <1>1, <1>7, <2>1 DEF From
    <3> QED
      BY <3>1
  <2>2. CASE x \notin 1 .. L + 1
    <3>1. x \in L + 2 .. L + n /\ rest[x - L].part = 1
      BY <1>1, <1>6, <2>2
    <3>2. ~(x - L \in 1 .. cut)
      <4>1. x - L # 1
        BY <1>1, <3>1
      <4>2. ASSUME x - L \in 1 .. cut PROVE rest[x - L].part = x - L
        <5>1. rest[x - L] = [frame |-> first, part |-> x - L]
          BY <1>3, <4>2, Zenon
        <5> QED
          BY <5>1
      <4> QED
        BY <3>1, <4>1, <4>2
    <3>3. x - (cut - 1) \in L + 2 .. L + 1 + (n - cut)
      BY <1>1, <1>2, <3>1, <3>2
    <3>4. left[(x - (cut - 1)) - (L + 1)] = rest[((x - (cut - 1)) + (cut - 1)) - L]
      BY <1>8, <3>3
    <3>5. (x - (cut - 1)) + (cut - 1) = x
      BY <1>2, <3>1
    <3>6. x - (cut - 1) \in PlaceOf(longer, left)
      BY <1>7, <3>1, <3>3, <3>4, <3>5
    <3>7. From(x - (cut - 1), L + 2, cut - 1) = x
      BY <1>1, <3>3, <3>5 DEF From
    <3> QED
      BY <3>6, <3>7
  <2> QED
    BY <2>1, <2>2
<1>12. Shifted(LineOf(q, rest), LineOf(longer, left), L + 2, cut - 1, {})
  <2>1. DOMAIN LineOf(q, rest) = PlaceOf(q, rest)
        /\ DOMAIN LineOf(longer, left) = PlaceOf(longer, left)
    BY DEF LineOf
  <2> QED
    BY <1>10, <1>11, <2>1 DEF Shifted
<1> QED
  BY <1>12 DEF L, n, longer, left

(* Decoding an event takes it off the line.                                *)
LEMMA LineDrops ==
    ASSUME NEW q \in Seq(OwnFrame), NEW rest \in Seq(OwnByte),
           NEW first, NEW cut, HeadIs(rest, first, cut),
           NEW left, left = SubSeq(rest, cut + 1, Len(rest)),
           NEW x, x = Len(q) + 1
    PROVE  /\ x \in PlaceOf(q, rest) /\ LineOf(q, rest)[x] = first
           /\ Shifted(LineOf(q, rest), LineOf(q, left), x, cut, {x})
           /\ \A p \in PlaceOf(q, left) : From(p, x, cut) # x
<1> DEFINE L == Len(q)
           n == Len(rest)
<1>1. L \in Nat /\ n \in Nat /\ n >= 1
  BY LenProperties DEF HeadIs
<1>2. cut \in Nat \ {0} /\ cut <= n
  BY DEF HeadIs
<1>3. first \in OwnFrame /\ \A k \in 1 .. cut : rest[k] = [frame |-> first, part |-> k]
  BY DEF HeadIs
<1>4. Len(left) = n - cut /\ \A i \in 1 .. n - cut : left[i] = rest[cut + i]
  BY <1>2, TailOfSeq
<1> HIDE DEF L, n
<1>5. x = L + 1
  BY DEF L
<1>6. PlaceOf(q, rest) = 1 .. L \cup {p \in L + 1 .. L + n : rest[p - L].part = 1}
  BY DEF PlaceOf, L, n
<1>7. PlaceOf(q, left) = 1 .. L \cup {p \in L + 1 .. L + (n - cut) : left[p - L].part = 1}
  BY <1>4 DEF PlaceOf, L
<1>8. ASSUME NEW p \in L + 1 .. L + (n - cut)
      PROVE  /\ p + cut \in L + 1 .. L + n /\ p + cut # x
             /\ left[p - L] = rest[(p + cut) - L]
             /\ ~(p < x) /\ ~(p <= L) /\ ~(p + cut <= L)
  <2>1. p - L \in 1 .. n - cut
    BY <1>1, <1>2
  <2>2. cut + (p - L) = (p + cut) - L
    BY <1>1, <1>2
  <2>3. left[p - L] = rest[cut + (p - L)]
    BY <1>4, <2>1
  <2>4. p + cut \in L + 1 .. L + n /\ p + cut # x
    BY <1>1, <1>2, <1>5
  <2>5. ~(p < x) /\ ~(p <= L) /\ ~(p + cut <= L)
    BY <1>1, <1>2, <1>5
  <2> QED
    BY <2>2, <2>3, <2>4, <2>5
<1>9. x \in PlaceOf(q, rest) /\ LineOf(q, rest)[x] = first
  <2>1. x \in L + 1 .. L + n /\ x - L = 1 /\ ~(x <= L)
    BY <1>1, <1>5
  <2>2. rest[x - L] = [frame |-> first, part |-> 1]
    BY <1>2, <1>3, <2>1
  <2> QED
    BY <1>6, <2>1, <2>2 DEF LineOf, L
<1>10. ASSUME NEW p \in PlaceOf(q, left)
       PROVE  /\ From(p, x, cut) \in PlaceOf(q, rest)
              /\ LineOf(q, left)[p] = LineOf(q, rest)[From(p, x, cut)]
              /\ From(p, x, cut) # x
  <2>1. CASE p \in 1 .. L
    <3>1. From(p, x, cut) = p /\ p <= L /\ p # x
      BY <1>1, <1>5, <2>1 DEF From
    <3> QED
      BY <1>6, <2>1, <3>1 DEF LineOf, L
  <2>2. CASE p \in L + 1 .. L + (n - cut)
    <3>1. /\ p + cut \in L + 1 .. L + n /\ p + cut # x
          /\ left[p - L] = rest[(p + cut) - L]
          /\ ~(p < x) /\ ~(p <= L) /\ ~(p + cut <= L)
      BY <1>8, <2>2
    <3>2. From(p, x, cut) = p + cut
      BY <3>1 DEF From
    <3>3. left[p - L].part = 1
      <4>1. p \notin 1 .. L
        BY <1>1, <2>2
      <4> QED
        BY <1>7, <2>2, <4>1
    <3>4. p + cut \in PlaceOf(q, rest)
      BY <1>6, <3>1, <3>3
    <3>5. LineOf(q, left)[p] = left[p - L].frame
      BY <3>1 DEF LineOf, L
    <3>6. LineOf(q, rest)[p + cut] = rest[(p + cut) - L].frame
      BY <3>1, <3>4 DEF LineOf, L
    <3> QED
      BY <3>1, <3>2, <3>4, <3>5, <3>6
  <2> QED
    BY <1>7, <2>1, <2>2
<1>11. ASSUME NEW y \in PlaceOf(q, rest), y # x
       PROVE  \E p \in PlaceOf(q, left) : y = From(p, x, cut)
  <2>1. CASE y \in 1 .. L
    <3>1. y \in PlaceOf(q, left) /\ From(y, x, cut) = y
      BY <1>1, <1>5, <1>7, <2>1 DEF From
    <3> QED
      BY <3>1
  <2>2. CASE y \notin 1 .. L
    <3>1. y \in L + 1 .. L + n /\ rest[y - L].part = 1
      BY <1>6, <2>2
    <3>2. ~(y - L \in 1 .. cut)
      <4>1. y - L # 1
        BY <1>1, <1>5, <1>11, <3>1
      <4>2. ASSUME y - L \in 1 .. cut PROVE rest[y - L].part = y - L
        <5>1. rest[y - L] = [frame |-> first, part |-> y - L]
          BY <1>3, <4>2, Zenon
        <5> QED
          BY <5>1
      <4> QED
        BY <3>1, <4>1, <4>2
    <3>3. y - cut \in L + 1 .. L + (n - cut)
      BY <1>1, <1>2, <3>1, <3>2
    <3>4. left[(y - cut) - L] = rest[((y - cut) + cut) - L]
      BY <1>8, <3>3
    <3>5. (y - cut) + cut = y
      BY <1>2, <3>1
    <3>6. y - cut \in PlaceOf(q, left)
      BY <1>7, <3>1, <3>3, <3>4, <3>5
    <3>7. From(y - cut, x, cut) = y
      BY <1>1, <1>5, <3>3, <3>5 DEF From
    <3> QED
      BY <3>6, <3>7
  <2> QED
    BY <2>1, <2>2
<1>12. DOMAIN LineOf(q, rest) = PlaceOf(q, rest) /\ DOMAIN LineOf(q, left) = PlaceOf(q, left)
  BY DEF LineOf
<1>13. Shifted(LineOf(q, rest), LineOf(q, left), x, cut, {x})
  BY <1>10, <1>11, <1>12 DEF Shifted
<1> QED
  BY <1>9, <1>10, <1>13

LEMMA TakenProperties ==
    ASSUME NEW S, NEW q \in Seq(S), NEW i \in 1 .. Len(q)
    PROVE  /\ Len(Taken(q, i)) = Len(q) - 1
           /\ \A p \in 1 .. Len(q) - 1 : Taken(q, i)[p] = q[From(p, i, 1)]
<1> DEFINE n == Len(q)
           a == SubSeq(q, 1, i - 1)
           b == SubSeq(q, i + 1, n)
<1>1. n \in Nat /\ i \in 1 .. n
  BY LenProperties
<1>2. a \in Seq(S) /\ Len(a) = i - 1 /\ \A p \in 1 .. i - 1 : a[p] = q[p]
  BY SubSeqProperties
<1>3. b \in Seq(S) /\ Len(b) = n - i /\ \A p \in 1 .. n - i : b[p] = q[i + p]
  BY CutsAreOwn, TailOfSeq
<1> HIDE DEF a, b
<1>4. /\ Len(a \o b) = Len(a) + Len(b)
      /\ \A p \in 1 .. Len(a) + Len(b) :
            (a \o b)[p] = IF p <= Len(a) THEN a[p] ELSE b[p - Len(a)]
  BY <1>2, <1>3, ConcatProperties
<1> HIDE DEF n
<1>5. Len(a) + Len(b) = n - 1
  BY <1>1, <1>2, <1>3
<1>6. ASSUME NEW p \in 1 .. n - 1
      PROVE  (a \o b)[p] = q[From(p, i, 1)]
  <2>1. CASE p < i
    <3>1. p <= i - 1 /\ p \in 1 .. i - 1 /\ From(p, i, 1) = p
      BY <1>1, <2>1 DEF From
    <3> QED
      BY <1>2, <1>4, <1>5, <3>1
  <2>2. CASE ~(p < i)
    <3>1. /\ ~(p <= i - 1) /\ p - (i - 1) \in 1 .. n - i /\ i + (p - (i - 1)) = p + 1
          /\ From(p, i, 1) = p + 1
      BY <1>1, <2>2 DEF From
    <3>2. (a \o b)[p] = b[p - (i - 1)]
      BY <1>2, <1>4, <1>5, <3>1
    <3>3. b[p - (i - 1)] = q[i + (p - (i - 1))]
      BY <1>3, <3>1, Zenon
    <3> QED
      BY <3>1, <3>2, <3>3
  <2> QED
    BY <2>1, <2>2
<1>7. Taken(q, i) = a \o b
  BY DEF Taken, RemoveAt, a, b, n
<1> QED
  BY <1>4, <1>5, <1>6, <1>7 DEF n

(* Looking takes the answer at place i off the line.                       *)
LEMMA LineLoses ==
    ASSUME NEW q \in Seq(OwnFrame), NEW rest \in Seq(OwnByte), NEW i \in 1 .. Len(q)
    PROVE  /\ i \in PlaceOf(q, rest) /\ LineOf(q, rest)[i] = q[i]
           /\ Shifted(LineOf(q, rest), LineOf(Taken(q, i), rest), i, 1, {i})
           /\ \A p \in PlaceOf(Taken(q, i), rest) : From(p, i, 1) # i
<1> DEFINE L == Len(q)
           n == Len(rest)
           left == Taken(q, i)
<1>1. L \in Nat /\ n \in Nat /\ i \in 1 .. L
  BY LenProperties
<1>2. Len(left) = L - 1 /\ \A p \in 1 .. L - 1 : left[p] = q[From(p, i, 1)]
  BY TakenProperties
<1> HIDE DEF left, L, n
<1>3. PlaceOf(q, rest) = 1 .. L \cup {p \in L + 1 .. L + n : rest[p - L].part = 1}
  BY DEF PlaceOf, L, n
<1>4. PlaceOf(left, rest) = 1 .. L - 1 \cup {p \in L .. L - 1 + n : rest[p - (L - 1)].part = 1}
  <2>1. (L - 1) + 1 = L
    BY <1>1
  <2> QED
    BY <1>2, <2>1 DEF PlaceOf, n
<1>5. i \in PlaceOf(q, rest) /\ LineOf(q, rest)[i] = q[i]
  BY <1>1, <1>3 DEF LineOf, L
<1>6. ASSUME NEW p \in PlaceOf(left, rest)
      PROVE  /\ From(p, i, 1) \in PlaceOf(q, rest) /\ From(p, i, 1) # i
             /\ LineOf(left, rest)[p] = LineOf(q, rest)[From(p, i, 1)]
  <2>1. CASE p \in 1 .. L - 1
    <3>1. From(p, i, 1) \in 1 .. L /\ From(p, i, 1) # i /\ p <= L - 1 /\ From(p, i, 1) <= L
      BY <1>1, <2>1 DEF From
    <3> QED
      BY <1>2, <1>3, <2>1, <3>1 DEF LineOf, L
  <2>2. CASE p \in L .. L - 1 + n
    <3>1. /\ From(p, i, 1) = p + 1 /\ p + 1 \in L + 1 .. L + n /\ p + 1 # i /\ ~(p <= L - 1)
          /\ ~(p + 1 <= L) /\ (p + 1) - L = p - (L - 1) /\ p \notin 1 .. L - 1
      BY <1>1, <2>2 DEF From
    <3>2. rest[p - (L - 1)].part = 1
      BY <1>4, <3>1
    <3>3. p + 1 \in PlaceOf(q, rest)
      BY <1>3, <3>1, <3>2
    <3>4. LineOf(left, rest)[p] = rest[p - (L - 1)].frame
      BY <1>2, <3>1 DEF LineOf
    <3>5. LineOf(q, rest)[p + 1] = rest[(p + 1) - L].frame
      BY <3>1, <3>3 DEF LineOf, L
    <3> QED
      BY <3>1, <3>3, <3>4, <3>5
  <2> QED
    BY <1>4, <2>1, <2>2
<1>7. ASSUME NEW y \in PlaceOf(q, rest), y # i
      PROVE  \E p \in PlaceOf(left, rest) : y = From(p, i, 1)
  <2>1. CASE y \in 1 .. L /\ y < i
    <3>1. y \in 1 .. L - 1 /\ From(y, i, 1) = y
      BY <1>1, <2>1 DEF From
    <3> QED
      BY <1>4, <3>1
  <2>2. CASE y \in 1 .. L /\ ~(y < i)
    <3>1. y - 1 \in 1 .. L - 1 /\ From(y - 1, i, 1) = y
      BY <1>1, <1>7, <2>2 DEF From
    <3> QED
      BY <1>4, <3>1
  <2>3. CASE y \notin 1 .. L
    <3>1. y \in L + 1 .. L + n /\ rest[y - L].part = 1
      BY <1>3, <2>3
    <3>2. y - 1 \in L .. L - 1 + n /\ (y - 1) - (L - 1) = y - L /\ From(y - 1, i, 1) = y
      BY <1>1, <3>1 DEF From
    <3> QED
      BY <1>4, <3>1, <3>2
  <2> QED
    BY <2>1, <2>2, <2>3
<1>8. DOMAIN LineOf(q, rest) = PlaceOf(q, rest) /\ DOMAIN LineOf(left, rest) = PlaceOf(left, rest)
  BY DEF LineOf
<1>9. Shifted(LineOf(q, rest), LineOf(left, rest), i, 1, {i})
  BY <1>6, <1>7, <1>8 DEF Shifted
<1> QED
  BY <1>5, <1>6, <1>9 DEF left

-----------------------------------------------------------------------------
(***************************************************************************)
(* The inductive invariant of what calls and polls take: events lie on the *)
(* line in the order they were sent, those after the last one decoded; and *)
(* of a call's frames what it has yet to take, up to what VICE has sent.   *)
(***************************************************************************)
FramesOf(line) == {line[p] : p \in DOMAIN line}
Frames == FramesOf(Line)

Keyed ==
    /\ \A f \in Frames : /\ f.id = f.call /\ f.call <= calls
                         /\ f.call = 0 <=> f.type = "event"
    /\ \A i \in 1 .. Len(pending) : pending[i].call # 0

InTurn ==
    \A i \in 1 .. Len(inbox) :
        /\ inbox[i].call >= 1 /\ inbox[i].call <= calls
        /\ \A j \in 1 .. Len(inbox) : i < j => inbox[i].call < inbox[j].call

EventsDue ==
    /\ decoded \in Nat /\ decoded <= raised
    /\ Stream(Line, 0, decoded, raised)

(* Of the answer to call c, of kind k, VICE has sent hi frames, and lo are *)
(* taken; the final response is the last, and ends VICE's work on it.      *)
SentSoFar(c, k, lo, hi) ==
    /\ lo <= hi /\ Stream(Line, c, lo, hi)
    /\ \A f \in Frames : f.call = c => IF f.type = "info" THEN k = "list" ELSE Rank(f) = hi
    /\ \A i \in 1 .. Len(inbox) : inbox[i].call = c =>
            /\ inbox[i].sent = hi /\ inbox[i].kind = k
            /\ \A f \in Frames : f.call = c => f.type = "info"

Collected ==
    \A i \in 1 .. Len(call.infos) :
        call.infos[i].call = call.call /\ call.infos[i].no = i

AnswerDue ==
    call.phase = "waiting" =>
        /\ call.call = calls /\ calls > 0
        /\ Collected
        /\ \E hi \in Nat : SentSoFar(call.call, call.kind, Len(call.infos), hi)

Gone(c) ==
    /\ \A f \in Frames : f.call # c
    /\ \A i \in 1 .. Len(inbox) : inbox[i].call # c

Answered ==
    result.out \in {"response", "error"} =>
        /\ result.call # 0 /\ result.call <= calls
        /\ Gone(result.call)

Queued ==
    /\ QueueIsSuffix
    /\ call.phase # "polling" => call.seen = <<>>
    /\ call.phase = "polling" => events = <<>>

Bounded ==
    /\ calls <= MaxCalls /\ raised <= MaxEvents /\ Len(events) <= QueueSize
    /\ result \in [out : {"none", "response", "error", "timeout"}, call : Nat,
                   frame : OwnFrame, infos : Seq(OwnFrame)]

Taking == Keyed /\ InTurn /\ EventsDue /\ AnswerDue /\ Answered /\ Queued /\ WholeLists /\ Bounded

LInv == IInv /\ WholeFrames(Rest) /\ Taking

-----------------------------------------------------------------------------
LEMMA LineType ==
    ASSUME Streams
    PROVE  /\ Rest \in Seq(OwnByte)
           /\ DOMAIN Line \in SUBSET Nat /\ Line \in [DOMAIN Line -> OwnFrame]
           /\ DOMAIN Line = PlaceOf(pending, Rest)
           /\ Frames \in SUBSET OwnFrame
           /\ \A i \in 1 .. Len(pending) :
                i \in DOMAIN Line /\ Line[i] = pending[i] /\ pending[i] \in Frames
           /\ \A p \in DOMAIN Line : p \notin 1 .. Len(pending) => p >= Len(pending) + 1
<1>1. Rest \in Seq(OwnByte) /\ pending \in Seq(OwnFrame)
  BY ConcatProperties DEF Streams, Rest
<1>2. DOMAIN Line = PlaceOf(pending, Rest)
  BY DEF Line, LineOf
<1>3. DOMAIN Line \in SUBSET Nat /\ Line \in [DOMAIN Line -> OwnFrame]
  BY <1>1, <1>2, LineOfType DEF Line
<1>4. Frames \in SUBSET OwnFrame
  BY <1>3 DEF Frames, FramesOf
<1>5. ASSUME NEW i \in 1 .. Len(pending)
      PROVE  i \in DOMAIN Line /\ Line[i] = pending[i] /\ pending[i] \in Frames
  <2>1. i \in PlaceOf(pending, Rest) /\ i <= Len(pending)
    BY <1>1, LenProperties DEF PlaceOf
  <2>2. Line[i] = pending[i]
    BY <2>1 DEF Line, LineOf
  <2> QED
    BY <1>2, <2>1, <2>2 DEF Frames, FramesOf
<1>6. \A p \in DOMAIN Line : p \notin 1 .. Len(pending) => p >= Len(pending) + 1
  BY <1>1, <1>2, LenProperties DEF PlaceOf
<1> QED
  BY <1>1, <1>2, <1>3, <1>4, <1>5, <1>6

LEMMA ShiftedFrames ==
    ASSUME NEW l, NEW m, NEW t, NEW d, NEW lost, Shifted(l, m, t, d, lost)
    PROVE  FramesOf(m) \subseteq FramesOf(l)
  BY DEF Shifted, FramesOf

LEMMA GrownFrames ==
    ASSUME NEW l, NEW m, NEW y, NEW f, Grown(l, m, y, f)
    PROVE  FramesOf(m) = FramesOf(l) \cup {f}
  BY DEF Grown, FramesOf

(* VICE sends a frame.                                                     *)
LEMMA LineUnderSend ==
    ASSUME Streams, Streams', NEW f \in OwnFrame, wire' = wire \o Bytes(f),
           UNCHANGED <<buf, pending>>
    PROVE  /\ Frames' = Frames \cup {f}
           /\ \A c \in Nat, lo \in Nat, hi \in Nat :
                /\ lo <= hi /\ Stream(Line, c, lo, hi)
                /\ f.call = c => Rank(f) = hi + 1
                => Stream(Line', c, lo, IF f.call = c THEN hi + 1 ELSE hi)
<1> DEFINE y == Len(pending) + Len(Rest) + 1
<1>1. buf \in Seq(OwnByte) /\ wire \in Seq(OwnByte) /\ Bytes(f) \in Seq(OwnByte)
  BY BytesAreOwn DEF Streams
<1>2. Rest' = Rest \o Bytes(f)
  BY <1>1, ConcatAssociative DEF Rest
<1>3. Rest \in Seq(OwnByte) /\ pending \in Seq(OwnFrame)
  BY LineType DEF Streams
<1>4. y \in Nat /\ Grown(Line, Line', y, f)
  BY <1>2, <1>3, LineGrows DEF Line
<1>5. Frames' = Frames \cup {f}
  BY <1>4, GrownFrames DEF Frames
<1>6. DOMAIN Line \in SUBSET Nat /\ Line \in [DOMAIN Line -> OwnFrame]
  BY LineType
<1>7. DOMAIN Line' \in SUBSET Nat /\ Line' \in [DOMAIN Line' -> OwnFrame]
  <2>1. Streams' => DOMAIN Line' \in SUBSET Nat /\ Line' \in [DOMAIN Line' -> OwnFrame]
    BY LineOfType, ConcatProperties DEF Line, LineOf, Streams, Rest
  <2> QED
    BY <2>1
<1> HIDE DEF y
<1>8. ASSUME NEW c \in Nat, NEW lo \in Nat, NEW hi \in Nat, lo <= hi, Stream(Line, c, lo, hi),
             f.call = c => Rank(f) = hi + 1
      PROVE  Stream(Line', c, lo, IF f.call = c THEN hi + 1 ELSE hi)
  BY <1>4, <1>6, <1>7, <1>8, StreamGrows
<1> QED
  BY <1>5, <1>8

LEMMA SendInfoKeepsOrder ==
    ASSUME LInv, IInv', SendInfo
    PROVE  Taking'
<1> USE DEF LInv, Taking, IInv
<1> DEFINE r    == Head(inbox)
           info == Response(r, "info", 1, r.sent + 1, TRUE)
           n    == Len(inbox)
<1>1. r = inbox[1] /\ r \in Request /\ n \in Nat /\ n >= 1 /\ r.kind = "list"
  BY FirstIsOwn, LenProperties DEF SendInfo, Streams
<1>2. /\ inbox' = <<[r EXCEPT !.sent = r.sent + 1]>> \o Tail(inbox)
      /\ UNCHANGED <<buf, pending, events, call, result, calls, raised, decoded>>
      /\ wire' = wire \o Bytes(info)
  BY DEF SendInfo
<1>3. /\ r.call >= 1 /\ r.call <= calls /\ r.call \in Nat /\ r.sent \in Nat /\ r.id = r.call
      /\ r.sent < MaxInfos /\ calls \in Nat
  BY <1>1, TransportAssumption DEF InTurn, Request, SendInfo, Numbered
<1>4. /\ Len(inbox') = n
      /\ inbox'[1].call = r.call /\ inbox'[1].sent = r.sent + 1 /\ inbox'[1].kind = r.kind
      /\ \A i \in 1 .. n : i # 1 => inbox'[i] = inbox[i]
      /\ \A i \in 1 .. n : inbox'[i].call = inbox[i].call
  <2> DEFINE first == [r EXCEPT !.sent = r.sent + 1]
  <2>1. first.call = r.call /\ first.sent = r.sent + 1 /\ first.kind = r.kind
    BY <1>1 DEF Request
  <2>2. Tail(inbox) \in Seq(Request) /\ Len(Tail(inbox)) = n - 1
        /\ \A i \in 1 .. n - 1 : Tail(inbox)[i] = inbox[i + 1]
    BY <1>1, HeadTailProperties DEF Streams, SendInfo
  <2> HIDE DEF first, r
  <2>3. <<first>> \in Seq({first}) /\ Len(<<first>>) = 1 /\ <<first>>[1] = first
    OBVIOUS
  <2>4. /\ Len(<<first>> \o Tail(inbox)) = 1 + (n - 1)
        /\ \A i \in 1 .. 1 + (n - 1) : (<<first>> \o Tail(inbox))[i] =
                IF i <= 1 THEN <<first>>[i] ELSE Tail(inbox)[i - 1]
    <3>1. \A S : \A q1, q2 \in Seq(S) :
            /\ Len(q1 \o q2) = Len(q1) + Len(q2)
            /\ \A i \in 1 .. Len(q1) + Len(q2) :
                 (q1 \o q2)[i] = IF i <= Len(q1) THEN q1[i] ELSE q2[i - Len(q1)]
      BY ConcatProperties
    <3>2. <<first>> \in Seq(Request \cup {first}) /\ Tail(inbox) \in Seq(Request \cup {first})
      BY <2>2
    <3> QED
      BY <2>2, <2>3, <3>1, <3>2
  <2>5. inbox' = <<first>> \o Tail(inbox)
    BY <1>2 DEF first
  <2> HIDE DEF n
  <2>6. 1 + (n - 1) = n /\ 1 \in 1 .. n
    BY <1>1
  <2>7. Len(inbox') = n /\ inbox'[1] = first
    BY <2>3, <2>4, <2>5, <2>6
  <2>8. ASSUME NEW i \in 1 .. n, i # 1
        PROVE  inbox'[i] = inbox[i]
    <3>1. ~(i <= 1) /\ i - 1 \in 1 .. n - 1 /\ (i - 1) + 1 = i
      BY <1>1, <2>8
    <3>2. Tail(inbox)[i - 1] = inbox[(i - 1) + 1]
      BY <2>2, <3>1, Zenon
    <3> QED
      BY <2>4, <2>5, <2>6, <3>1, <3>2
  <2> QED
    BY <1>1, <2>1, <2>7, <2>8
<1>5. info \in OwnFrame /\ info.call = r.call /\ info.id = r.id /\ info.type = "info"
      /\ Rank(info) = r.sent + 1
  <2>1. info \in OwnFrame
    <3>1. r.sent + 1 \in Nat
      BY <1>3
    <3> QED
      BY <1>1, <3>1, ResponsesAreOwn
  <2>2. /\ info.call = r.call /\ info.id = r.id /\ info.type = "info"
        /\ info.no = r.sent + 1
    BY DEF Response
  <2> HIDE DEF info, r
  <2> QED
    BY <2>1, <2>2 DEF Rank
<1> HIDE DEF info, r, n
<1>6. /\ Frames' = Frames \cup {info}
      /\ \A c \in Nat, lo \in Nat, hi \in Nat :
            lo <= hi /\ Stream(Line, c, lo, hi) /\ (info.call = c => Rank(info) = hi + 1)
            => Stream(Line', c, lo, IF info.call = c THEN hi + 1 ELSE hi)
  BY <1>2, <1>5, LineUnderSend
<1>7. Keyed'
  BY <1>2, <1>3, <1>5, <1>6 DEF Keyed
<1>8. InTurn'
  BY <1>2, <1>4 DEF InTurn, n
<1>9. EventsDue'
  <2>1. info.call # 0 /\ 0 \in Nat /\ raised \in Nat /\ decoded \in Nat /\ decoded <= raised
    BY <1>3, <1>5 DEF EventsDue, Numbered
  <2>2. Stream(Line', 0, decoded, raised)
    BY <1>6, <2>1 DEF EventsDue
  <2> QED
    BY <1>2, <2>1, <2>2 DEF EventsDue
<1>10. AnswerDue'
  <2> SUFFICES ASSUME call.phase = "waiting"
               PROVE  \E hi \in Nat : SentSoFar(call.call, call.kind, Len(call.infos), hi)'
    BY <1>2 DEF AnswerDue, Collected
  <2> DEFINE c == call.call
             lo == Len(call.infos)
  <2>1. PICK hi \in Nat : SentSoFar(c, call.kind, lo, hi)
    BY DEF AnswerDue
  <2>2. c \in Nat /\ lo \in Nat
    BY LenProperties DEF Numbered, Activity
  <2> HIDE DEF c, lo
  <2>3. CASE r.call = c
    <3>1. /\ r.sent = hi /\ call.kind = "list"
          /\ \A f \in Frames : f.call = c => f.type = "info"
      BY <1>1, <2>1, <2>3 DEF SentSoFar, n
    <3>2. Stream(Line', c, lo, hi + 1) /\ lo <= hi + 1
      BY <1>5, <1>6, <2>1, <2>2, <2>3, <3>1 DEF SentSoFar
    <3>3. \A f \in Frames' : f.call = c => f.type = "info"
      BY <1>5, <1>6, <3>1
    <3>4. ASSUME NEW i \in 1 .. n, inbox'[i].call = c
          PROVE  inbox'[i].sent = hi + 1 /\ inbox'[i].kind = call.kind
      <4>1. i = 1
        <5>1. inbox[i].call = inbox[1].call /\ 1 \in 1 .. n
          BY <1>1, <1>4, <2>3, <3>4
        <5>2. inbox[1].call \in Nat
          BY <1>1, <1>3
        <5> QED
          BY <1>1, <5>1, <5>2 DEF InTurn, n
      <4> QED
        BY <1>1, <1>4, <3>1, <4>1
    <3>5. SentSoFar(c, call.kind, lo, hi + 1)'
      BY <1>2, <1>4, <3>1, <3>2, <3>3, <3>4 DEF SentSoFar, c, lo
    <3> QED
      BY <1>2, <3>5 DEF c, lo
  <2>4. CASE r.call # c
    <3>1. Stream(Line', c, lo, hi) /\ lo <= hi
      BY <1>5, <1>6, <2>1, <2>2, <2>4 DEF SentSoFar
    <3>2. \A f \in Frames' : f.call = c => f \in Frames
      BY <1>5, <1>6, <2>4
    <3>3. \A i \in 1 .. n : inbox'[i].call = c => inbox'[i] = inbox[i]
      BY <1>4, <2>4
    <3>4. \A f \in Frames' : f.call = c =>
             IF f.type = "info" THEN call.kind = "list" ELSE Rank(f) = hi
      BY <2>1, <3>2 DEF SentSoFar
    <3>5. ASSUME NEW i \in 1 .. n, inbox'[i].call = c
          PROVE  /\ inbox'[i].sent = hi /\ inbox'[i].kind = call.kind
                 /\ \A f \in Frames' : f.call = c => f.type = "info"
      BY <2>1, <3>2, <3>3, <3>5 DEF SentSoFar, n
    <3>6. SentSoFar(c, call.kind, lo, hi)'
      BY <1>2, <1>4, <3>1, <3>4, <3>5 DEF SentSoFar, c, lo
    <3> QED
      BY <1>2, <3>6 DEF c, lo
  <2> QED
    BY <2>3, <2>4
<1>11. Answered'
  <2> SUFFICES ASSUME result.out \in {"response", "error"}
               PROVE  Gone(result.call)'
    BY <1>2 DEF Answered
  <2>1. Gone(result.call)
    BY DEF Answered
  <2>2. r.call # result.call
    BY <1>1, <2>1 DEF Gone, n
  <2> QED
    BY <1>2, <1>4, <1>5, <1>6, <2>1, <2>2 DEF Gone, n
<1>12. Queued' /\ WholeLists' /\ Bounded'
  BY <1>2 DEF Queued, QueueIsSuffix, WholeLists, Bounded
<1> QED
  BY <1>7, <1>8, <1>9, <1>10, <1>11, <1>12

LEMMA ServeKeepsOrder ==
    ASSUME LInv, IInv', Serve
    PROVE  Taking'
<1> USE DEF LInv, Taking, IInv
<1> DEFINE r == Head(inbox)
           n == Len(inbox)
<1>1. r = inbox[1] /\ r \in Request /\ n \in Nat /\ n >= 1
  BY FirstIsOwn, LenProperties DEF Serve, Streams
<1>2. PICK ok \in BOOLEAN : wire' = wire \o Bytes(Response(r, r.kind, 0, r.sent, ok))
  BY Zenon DEF Serve
<1> DEFINE final == Response(r, r.kind, 0, r.sent, ok)
<1>3. /\ r.call >= 1 /\ r.call <= calls /\ r.call \in Nat /\ r.sent \in Nat /\ r.id = r.call
      /\ calls \in Nat /\ r.kind \in Kinds
  BY <1>1, TransportAssumption DEF InTurn, Request, Numbered
<1>4. /\ Len(inbox') = n - 1
      /\ \A i \in 1 .. n - 1 : inbox'[i] = inbox[i + 1]
      /\ UNCHANGED <<buf, pending, events, call, result, calls, raised, decoded>>
  BY HeadTailProperties DEF Serve, Streams
<1>5. final \in OwnFrame /\ final.call = r.call /\ final.id = r.id /\ final.type = r.kind
      /\ Rank(final) = r.sent + 1
  <2>1. final \in OwnFrame
    BY <1>1, <1>3, ResponsesAreOwn
  <2>2. final.call = r.call /\ final.id = r.id /\ final.type = r.kind /\ final.no = r.sent
    BY DEF Response
  <2> HIDE DEF final, r
  <2>3. final.type \notin {"info", "event"}
    BY <1>3, <2>2, TransportAssumption
  <2> QED
    BY <2>1, <2>2, <2>3 DEF Rank
<1> HIDE DEF final, r, n
<1>6. /\ Frames' = Frames \cup {final}
      /\ \A c \in Nat, lo \in Nat, hi \in Nat :
            lo <= hi /\ Stream(Line, c, lo, hi) /\ (final.call = c => Rank(final) = hi + 1)
            => Stream(Line', c, lo, IF final.call = c THEN hi + 1 ELSE hi)
  <2>1. wire' = wire \o Bytes(final)
    BY <1>2 DEF final
  <2> QED
    BY <1>4, <1>5, <2>1, LineUnderSend
<1>7. Keyed'
  <2>1. final.type # "event"
    BY <1>3, <1>5, TransportAssumption
  <2> QED
    BY <1>3, <1>4, <1>5, <1>6, <2>1 DEF Keyed
<1>8. \A i \in 1 .. n - 1 : i + 1 \in 1 .. n /\ inbox[i + 1].call > r.call
  <2> SUFFICES ASSUME NEW i \in 1 .. n - 1
               PROVE  i + 1 \in 1 .. n /\ inbox[i + 1].call > r.call
    OBVIOUS
  <2>1. i + 1 \in 1 .. n /\ 1 \in 1 .. n /\ 1 < i + 1
    BY <1>1
  <2>2. inbox[1].call < inbox[i + 1].call /\ inbox[i + 1].call <= calls
    BY <2>1 DEF InTurn, n
  <2>3. inbox[i + 1] \in Request
    BY <2>1, ElementOfSeq DEF Streams, n
  <2> QED
    BY <1>1, <1>3, <2>1, <2>2, <2>3 DEF Request
<1>9. InTurn'
  <2> SUFFICES ASSUME NEW i \in 1 .. n - 1
               PROVE  /\ inbox'[i].call >= 1 /\ inbox'[i].call <= calls
                      /\ \A j \in 1 .. n - 1 : i < j => inbox'[i].call < inbox'[j].call
    BY <1>4 DEF InTurn
  <2>1. i + 1 \in 1 .. n
    BY <1>8
  <2>2. \A j \in 1 .. n - 1 : i < j => j + 1 \in 1 .. n /\ i + 1 < j + 1
    BY <1>1
  <2> QED
    BY <1>4, <2>1, <2>2 DEF InTurn, n
<1>10. EventsDue'
  <2>1. final.call # 0 /\ 0 \in Nat /\ raised \in Nat /\ decoded \in Nat /\ decoded <= raised
    BY <1>3, <1>5 DEF EventsDue, Numbered
  <2>2. Stream(Line', 0, decoded, raised)
    BY <1>6, <2>1 DEF EventsDue
  <2> QED
    BY <1>4, <2>1, <2>2 DEF EventsDue
<1>11. AnswerDue'
  <2> SUFFICES ASSUME call.phase = "waiting"
               PROVE  \E hi \in Nat : SentSoFar(call.call, call.kind, Len(call.infos), hi)'
    BY <1>4 DEF AnswerDue, Collected
  <2> DEFINE c == call.call
             lo == Len(call.infos)
  <2>1. PICK hi \in Nat : SentSoFar(c, call.kind, lo, hi)
    BY DEF AnswerDue
  <2>2. c \in Nat /\ lo \in Nat
    BY LenProperties DEF Numbered, Activity
  <2> HIDE DEF c, lo
  <2>3. CASE r.call = c
    <3>1. r.sent = hi /\ \A f \in Frames : f.call = c => f.type = "info"
      BY <1>1, <2>1, <2>3 DEF SentSoFar, n
    <3>2. Stream(Line', c, lo, hi + 1) /\ lo <= hi + 1
      BY <1>5, <1>6, <2>1, <2>2, <2>3, <3>1 DEF SentSoFar
    <3>3. \A f \in Frames' : f.call = c =>
             IF f.type = "info" THEN call.kind = "list" ELSE Rank(f) = hi + 1
      <4>1. final.type # "info" /\ Rank(final) = hi + 1
        BY <1>3, <1>5, <3>1, TransportAssumption
      <4>2. \A f \in Frames : f.call = c => call.kind = "list" /\ f.type = "info"
        BY <2>1, <3>1 DEF SentSoFar
      <4> QED
        BY <1>6, <4>1, <4>2
    <3>4. \A i \in 1 .. n - 1 : inbox'[i].call # c
      BY <1>3, <1>4, <1>8, <2>3
    <3>5. SentSoFar(c, call.kind, lo, hi + 1)'
      BY <1>4, <3>2, <3>3, <3>4 DEF SentSoFar, c, lo
    <3> QED
      BY <1>4, <3>5 DEF c, lo
  <2>4. CASE r.call # c
    <3>1. Stream(Line', c, lo, hi) /\ lo <= hi
      BY <1>5, <1>6, <2>1, <2>2, <2>4 DEF SentSoFar
    <3>2. \A f \in Frames' : f.call = c => f \in Frames
      BY <1>5, <1>6, <2>4
    <3>3. \A f \in Frames' : f.call = c =>
             IF f.type = "info" THEN call.kind = "list" ELSE Rank(f) = hi
      BY <2>1, <3>2 DEF SentSoFar
    <3>4. ASSUME NEW i \in 1 .. n - 1, inbox'[i].call = c
          PROVE  /\ inbox'[i].sent = hi /\ inbox'[i].kind = call.kind
                 /\ \A f \in Frames' : f.call = c => f.type = "info"
      BY <1>4, <1>8, <2>1, <3>2, <3>4 DEF SentSoFar, n
    <3>5. SentSoFar(c, call.kind, lo, hi)'
      BY <1>4, <3>1, <3>3, <3>4 DEF SentSoFar, c, lo
    <3> QED
      BY <1>4, <3>5 DEF c, lo
  <2> QED
    BY <2>3, <2>4
<1>12. Answered'
  <2> SUFFICES ASSUME result.out \in {"response", "error"}
               PROVE  Gone(result.call)'
    BY <1>4 DEF Answered
  <2>1. Gone(result.call)
    BY DEF Answered
  <2>2. r.call # result.call
    BY <1>1, <2>1 DEF Gone, n
  <2>3. \A f \in Frames' : f.call # result.call
    BY <1>5, <1>6, <2>1, <2>2 DEF Gone
  <2>4. \A i \in 1 .. n - 1 : inbox'[i].call # result.call
    BY <1>4, <1>8, <2>1 DEF Gone, n
  <2> QED
    BY <1>4, <2>3, <2>4 DEF Gone
<1>13. Queued' /\ WholeLists' /\ Bounded'
  BY <1>4 DEF Queued, QueueIsSuffix, WholeLists, Bounded
<1> QED
  BY <1>7, <1>9, <1>10, <1>11, <1>12, <1>13

LEMMA RaiseKeepsOrder ==
    ASSUME LInv, IInv', Raise
    PROVE  Taking'
<1> USE DEF LInv, Taking, IInv
<1> DEFINE event == Event(raised + 1)
<1>1. raised \in Nat /\ raised' = raised + 1 /\ wire' = wire \o Bytes(event)
      /\ UNCHANGED <<inbox, buf, pending, events, call, result, calls, decoded>>
  BY DEF Raise, Numbered
<1>2. event.call = 0 /\ event.id = 0 /\ event.type = "event" /\ Rank(event) = raised + 1
  BY DEF Event, Rank
<1>3. event \in OwnFrame
  BY <1>1 DEF Event, OwnFrame, Frame
<1> HIDE DEF event
<1>4. /\ Frames' = Frames \cup {event}
      /\ \A c \in Nat, lo \in Nat, hi \in Nat :
            lo <= hi /\ Stream(Line, c, lo, hi) /\ (event.call = c => Rank(event) = hi + 1)
            => Stream(Line', c, lo, IF event.call = c THEN hi + 1 ELSE hi)
  BY <1>1, <1>3, LineUnderSend
<1>5. Keyed'
  BY <1>1, <1>2, <1>4 DEF Keyed, Numbered
<1>6. InTurn'
  BY <1>1 DEF InTurn
<1>7. EventsDue'
  <2>1. 0 \in Nat /\ decoded \in Nat /\ decoded <= raised /\ decoded <= raised + 1
    BY <1>1 DEF EventsDue
  <2>2. Stream(Line', 0, decoded, raised + 1)
    BY <1>1, <1>2, <1>4, <2>1 DEF EventsDue
  <2> QED
    BY <1>1, <2>1, <2>2 DEF EventsDue
<1>8. AnswerDue'
  <2> SUFFICES ASSUME call.phase = "waiting"
               PROVE  \E hi \in Nat : SentSoFar(call.call, call.kind, Len(call.infos), hi)'
    BY <1>1 DEF AnswerDue, Collected
  <2> DEFINE c == call.call
             lo == Len(call.infos)
  <2>1. PICK hi \in Nat : SentSoFar(c, call.kind, lo, hi)
    BY DEF AnswerDue
  <2>2. c \in Nat /\ lo \in Nat /\ c # 0
    BY LenProperties DEF Numbered, Activity, AnswerDue
  <2> HIDE DEF c, lo
  <2>3. Stream(Line', c, lo, hi) /\ lo <= hi
    BY <1>2, <1>4, <2>1, <2>2 DEF SentSoFar
  <2>4. \A f \in Frames' : f.call = c => f \in Frames
    BY <1>2, <1>4, <2>2
  <2>5. \A f \in Frames' : f.call = c =>
           IF f.type = "info" THEN call.kind = "list" ELSE Rank(f) = hi
    BY <2>1, <2>4 DEF SentSoFar
  <2>6. ASSUME NEW i \in 1 .. Len(inbox), inbox[i].call = c
        PROVE  /\ inbox[i].sent = hi /\ inbox[i].kind = call.kind
               /\ \A f \in Frames' : f.call = c => f.type = "info"
    BY <2>1, <2>4, <2>6 DEF SentSoFar
  <2>7. SentSoFar(c, call.kind, lo, hi)'
    BY <1>1, <2>3, <2>5, <2>6 DEF SentSoFar, c, lo
  <2> QED
    BY <1>1, <2>7 DEF c, lo
<1>9. Answered'
  <2> SUFFICES ASSUME result.out \in {"response", "error"}
               PROVE  Gone(result.call)'
    BY <1>1 DEF Answered
  <2>1. Gone(result.call) /\ result.call # 0
    BY DEF Answered
  <2> QED
    BY <1>1, <1>2, <1>4, <2>1 DEF Gone
<1>10. Queued' /\ WholeLists'
  BY <1>1 DEF Queued, QueueIsSuffix, WholeLists
<1>11. Bounded'
  BY <1>1, TransportAssumption DEF Bounded, Raise
<1> QED
  BY <1>5, <1>6, <1>7, <1>8, <1>9, <1>10, <1>11

(* The decoder takes the frame at the head of the stream.                  *)
LEMMA HeadUnderDecode ==
    ASSUME LInv, Decode, NEW first, first = buf[1].frame
    PROVE  /\ HeadIs(Rest, first, Size(first))
           /\ Rest' = SubSeq(Rest, Size(first) + 1, Len(Rest))
<1> USE DEF LInv, IInv
<1>1. buf \in Seq(OwnByte) /\ wire \in Seq(OwnByte) /\ Rest \in Seq(OwnByte)
  BY ConcatProperties DEF Streams, Rest
<1>2. Len(buf) >= 1 /\ Size(first) <= Len(buf)
  BY TransportAssumption DEF Decode, Complete, Size
<1>3. buf' = SubSeq(buf, Size(first) + 1, Len(buf)) /\ wire' = wire
  BY DEF Decode, Size
<1>4. Rest[1] = buf[1] /\ Len(Rest) >= 1
  BY <1>1, <1>2, ConcatProperties, LenProperties DEF Rest
<1>5. HeadIs(Rest, first, Size(first))
  BY <1>1, <1>4, WholeHead
<1>6. Size(first) \in Nat
  BY <1>5 DEF HeadIs
<1>7. Rest' = SubSeq(Rest, Size(first) + 1, Len(Rest))
  BY <1>1, <1>2, <1>3, <1>6, TailOfJoined DEF Rest
<1> QED
  BY <1>5, <1>7

LEMMA LineTypeNext ==
    ASSUME Streams'
    PROVE  DOMAIN Line' \in SUBSET Nat /\ Line' \in [DOMAIN Line' -> OwnFrame]
<1>1. Streams' => DOMAIN Line' \in SUBSET Nat /\ Line' \in [DOMAIN Line' -> OwnFrame]
  BY LineOfType, ConcatProperties DEF Line, LineOf, Streams, Rest
<1> QED
  BY <1>1

(* A call's answer stays as it is where the line loses none of its frames, *)
(* and VICE's work does not change.                                        *)
LEMMA SentSoFarMoves ==
    ASSUME Streams, Streams', NEW t \in Nat, NEW d \in Nat, NEW lost,
           Shifted(Line, Line', t, d, lost), inbox' = inbox,
           NEW c, NEW k, NEW lo \in Nat, NEW hi \in Nat, SentSoFar(c, k, lo, hi),
           \A p \in DOMAIN Line : Line[p].call = c => p \notin lost
    PROVE  /\ \A f \in Frames' : f.call = c => IF f.type = "info" THEN k = "list" ELSE Rank(f) = hi
           /\ \A i \in 1 .. Len(inbox') : inbox'[i].call = c =>
                /\ inbox'[i].sent = hi /\ inbox'[i].kind = k
                /\ \A f \in Frames' : f.call = c => f.type = "info"
           /\ lo <= hi /\ Stream(Line', c, lo, hi)
<1>1. DOMAIN Line \in SUBSET Nat /\ Line \in [DOMAIN Line -> OwnFrame]
      /\ DOMAIN Line' \in SUBSET Nat /\ Line' \in [DOMAIN Line' -> OwnFrame]
  BY LineType, LineTypeNext
<1>2. Frames' \subseteq Frames
  BY ShiftedFrames DEF Frames
<1>3. lo <= hi /\ Stream(Line, c, lo, hi)
  BY DEF SentSoFar
<1>4. Stream(Line', c, lo, hi)
  BY <1>1, <1>3, StreamMoves
<1>5. \A f \in Frames' : f.call = c => IF f.type = "info" THEN k = "list" ELSE Rank(f) = hi
  BY <1>2 DEF SentSoFar
<1>6. ASSUME NEW i \in 1 .. Len(inbox'), inbox'[i].call = c
      PROVE  /\ inbox'[i].sent = hi /\ inbox'[i].kind = k
             /\ \A f \in Frames' : f.call = c => f.type = "info"
  BY <1>2, <1>6 DEF SentSoFar
<1> QED
  BY <1>3, <1>4, <1>5, <1>6

(* The queue of events: what it keeps of consecutive events is consecutive.*)
LEMMA AppendNumbered ==
    ASSUME NEW q \in Seq(OwnFrame), NEW n \in Nat,
           \A i \in 1 .. Len(q) : q[i].no = n - Len(q) + i,
           NEW f \in OwnFrame, f.no = n + 1
    PROVE  /\ Append(q, f) \in Seq(OwnFrame)
           /\ \A i \in 1 .. Len(Append(q, f)) : Append(q, f)[i].no = (n + 1) - Len(Append(q, f)) + i
<1> DEFINE m == Append(q, f)
           L == Len(q)
<1>1. /\ m \in Seq(OwnFrame) /\ Len(m) = L + 1 /\ m[L + 1] = f /\ L \in Nat
      /\ \A i \in 1 .. L : m[i] = q[i]
  BY AppendProperties, LenProperties
<1> HIDE DEF m, L
<1>2. ASSUME NEW i \in 1 .. L + 1
      PROVE  m[i].no = (n + 1) - (L + 1) + i
  <2>1. CASE i \in 1 .. L
    <3>1. m[i].no = n - L + i
      BY <1>1, <2>1 DEF L
    <3> QED
      BY <1>1, <3>1
  <2>2. CASE i = L + 1
    BY <1>1, <2>2
  <2> QED
    BY <1>1, <2>1, <2>2
<1> QED
  BY <1>1, <1>2 DEF m

LEMMA KeptProperties ==
    ASSUME NEW S, NEW q \in Seq(S)
    PROVE  \E d \in Nat :
              /\ d <= Len(q) /\ Len(Kept(q)) = Len(q) - d /\ Len(q) - d <= QueueSize
              /\ \A i \in 1 .. Len(q) - d : Kept(q)[i] = q[d + i]
<1>1. Len(q) \in Nat /\ QueueSize \in Nat
  BY TransportAssumption, LenProperties
<1>2. PICK d \in Nat : d = IF Len(q) <= QueueSize THEN 0 ELSE Len(q) - QueueSize
  BY <1>1
<1>3. d <= Len(q) /\ Len(q) - d <= QueueSize
  BY <1>1, <1>2
<1>4. Kept(q) = SubSeq(q, d + 1, Len(q))
  BY <1>1, <1>2 DEF Kept
<1> QED
  BY <1>3, <1>4, TailOfSeq

LEMMA KeptBound ==
    ASSUME NEW S, NEW q \in Seq(S)
    PROVE  Len(Kept(q)) <= QueueSize
  BY KeptProperties

LEMMA KeptNumbered ==
    ASSUME NEW q \in Seq(OwnFrame), NEW n \in Nat,
           \A i \in 1 .. Len(q) : q[i].no = n - Len(q) + i
    PROVE  \A i \in 1 .. Len(Kept(q)) : Kept(q)[i].no = n - Len(Kept(q)) + i
<1>1. PICK d \in Nat :
        /\ d <= Len(q) /\ Len(Kept(q)) = Len(q) - d /\ Len(q) - d <= QueueSize
        /\ \A i \in 1 .. Len(q) - d : Kept(q)[i] = q[d + i]
  BY KeptProperties
<1>2. ASSUME NEW i \in 1 .. Len(q) - d
      PROVE  Kept(q)[i].no = n - (Len(q) - d) + i
  <2>1. d + i \in 1 .. Len(q) /\ Len(q) \in Nat
    BY <1>1, LenProperties
  <2>2. q[d + i].no = n - Len(q) + (d + i)
    BY <2>1
  <2>3. n - Len(q) + (d + i) = n - (Len(q) - d) + i
    BY <1>1, <2>1
  <2>4. Kept(q)[i] = q[d + i]
    BY <1>1
  <2> QED
    BY <2>2, <2>3, <2>4
<1> QED
  BY <1>1, <1>2

LEMMA DecodeKeepsOrder ==
    ASSUME LInv, IInv', Decode
    PROVE  Taking'
<1> USE DEF LInv, Taking, IInv
<1> DEFINE first == buf[1].frame
           cut   == Size(first)
           L     == Len(pending)
<1>1. HeadIs(Rest, first, cut) /\ Rest' = SubSeq(Rest, cut + 1, Len(Rest))
  BY HeadUnderDecode
<1>2. /\ first \in OwnFrame /\ cut \in Nat \ {0} /\ L \in Nat
      /\ Rest \in Seq(OwnByte) /\ pending \in Seq(OwnFrame)
  BY <1>1, LineType, LenProperties DEF HeadIs, Streams
<1>3. Line' = LineOf(pending', Rest')
  BY DEF Line
<1>4. L + 1 \in DOMAIN Line /\ Line[L + 1] = first
  <2> HIDE DEF first, cut
  <2>1. L + 1 \in PlaceOf(pending, Rest) /\ LineOf(pending, Rest)[L + 1] = first
    BY <1>1, <1>2, LineDrops
  <2> QED
    BY <2>1, LineType DEF Line
<1>5. first \in Frames /\ first.id = first.call /\ first.call <= calls
      /\ (first.call = 0 <=> first.type = "event")
  BY <1>4 DEF Frames, FramesOf, Keyed
<1>6. /\ UNCHANGED <<inbox, wire, result, calls, raised>>
      /\ decoded' = decoded + IF first.id = 0 THEN 1 ELSE 0
      /\ call'.phase = call.phase /\ call'.call = call.call /\ call'.kind = call.kind
      /\ call'.infos = call.infos
  BY DEF Decode, Numbered, Activity
<1>7. \E t \in Nat, d \in Nat :
        /\ Shifted(Line, Line', t, d, IF first.id = 0 THEN {L + 1} ELSE {})
        /\ first.id = 0 => \A p \in DOMAIN Line' : From(p, t, d) # L + 1
  <2> HIDE DEF first, cut
  <2>1. CASE first.id = 0
    <3>1. pending' = pending
      BY <2>1 DEF Decode, first
    <3>2. DOMAIN Line' = PlaceOf(pending, Rest')
      BY <1>3, <3>1 DEF LineOf
    <3>3. /\ Shifted(LineOf(pending, Rest), LineOf(pending, Rest'), L + 1, cut, {L + 1})
          /\ \A p \in PlaceOf(pending, Rest') : From(p, L + 1, cut) # L + 1
      <4>1. \A left, x : left = SubSeq(Rest, cut + 1, Len(Rest)) /\ x = Len(pending) + 1 =>
                /\ Shifted(LineOf(pending, Rest), LineOf(pending, left), x, cut, {x})
                /\ \A p \in PlaceOf(pending, left) : From(p, x, cut) # x
        BY <1>1, <1>2, LineDrops
      <4> QED
        BY <1>1, <4>1, Zenon
    <3>4. Shifted(Line, Line', L + 1, cut, {L + 1})
          /\ \A p \in DOMAIN Line' : From(p, L + 1, cut) # L + 1
      BY <1>3, <3>1, <3>2, <3>3 DEF Line
    <3> QED
      BY <1>2, <2>1, <3>4
  <2>2. CASE first.id # 0
    <3>1. pending' = Append(pending, first)
      BY <2>2 DEF Decode, first
    <3>2. Shifted(Line, Line', L + 2, cut - 1, {})
      BY <1>1, <1>2, <1>3, <3>1, LineDecodes DEF Line
    <3>3. L + 2 \in Nat /\ cut - 1 \in Nat
      BY <1>2
    <3> QED
      BY <2>2, <3>2, <3>3
  <2> QED
    BY <2>1, <2>2
<1>8. PICK t \in Nat, d \in Nat :
        /\ Shifted(Line, Line', t, d, IF first.id = 0 THEN {L + 1} ELSE {})
        /\ first.id = 0 => \A p \in DOMAIN Line' : From(p, t, d) # L + 1
  BY <1>7
<1> HIDE DEF first, cut, L
<1>9. Frames' \subseteq Frames
  BY <1>8, ShiftedFrames DEF Frames
<1>10. DOMAIN Line \in SUBSET Nat /\ Line \in [DOMAIN Line -> OwnFrame]
      /\ DOMAIN Line' \in SUBSET Nat /\ Line' \in [DOMAIN Line' -> OwnFrame]
  BY LineType, LineTypeNext
<1>11. Keyed'
  <2>1. \A i \in 1 .. Len(pending') : pending'[i].call # 0
    <3>1. CASE first.id = 0
      BY <3>1 DEF Decode, Keyed, first
    <3>2. CASE first.id # 0
      <4>1. pending' = Append(pending, first)
        BY <3>2 DEF Decode, first
      <4>2. Len(pending') = L + 1 /\ pending'[L + 1] = first
            /\ \A i \in 1 .. L : pending'[i] = pending[i]
        BY <1>2, <4>1, AppendProperties DEF L
      <4>3. \A i \in 1 .. L + 1 : i \in 1 .. L \/ i = L + 1
        BY <1>2
      <4> QED
        BY <1>5, <3>2, <4>2, <4>3 DEF Keyed, L
    <3> QED
      BY <3>1, <3>2
  <2> QED
    BY <1>6, <1>9, <2>1 DEF Keyed
<1>12. InTurn'
  BY <1>6 DEF InTurn
<1>13. EventsDue' /\ (first.id = 0 => first.no = decoded + 1)
  <2>1. decoded \in Nat /\ raised \in Nat /\ decoded <= raised /\ Stream(Line, 0, decoded, raised)
    BY DEF EventsDue, Numbered
  <2>2. CASE first.id # 0
    <3>1. \A p \in DOMAIN Line : Line[p].call = 0 => p \notin {}
      OBVIOUS
    <3>2. Stream(Line', 0, decoded, raised)
      BY <1>8, <1>10, <2>1, <2>2, <3>1, StreamMoves
    <3> QED
      BY <1>6, <2>1, <2>2, <3>2 DEF EventsDue
  <2>3. CASE first.id = 0
    <3>1. ASSUME NEW p \in DOMAIN Line, Line[p].call = 0
          PROVE  p >= L + 1
      BY <3>1, LineType DEF Keyed, L
    <3>2. LosesFirst(Line, Line', t, d, L + 1, 0)
      BY <1>4, <1>5, <1>8, <2>3, <3>1 DEF LosesFirst
    <3>5. IsLine(Line) /\ IsLine(Line')
      BY <1>10 DEF IsLine
    <3>3. /\ Rank(Line[L + 1]) = decoded + 1 /\ decoded + 1 <= raised
          /\ Stream(Line', 0, decoded + 1, raised)
      BY <2>1, <3>2, <3>5, StreamLosesFirst
    <3>4. first.no = decoded + 1
      BY <1>4, <1>5, <2>3, <3>3 DEF Rank
    <3> QED
      BY <1>6, <2>1, <2>3, <3>3, <3>4 DEF EventsDue
  <2> QED
    BY <2>2, <2>3
<1>14. AnswerDue'
  <2> SUFFICES ASSUME call.phase = "waiting"
               PROVE  \E hi \in Nat : SentSoFar(call.call, call.kind, Len(call.infos), hi)'
    BY <1>6 DEF AnswerDue, Collected
  <2> DEFINE c == call.call
             lo == Len(call.infos)
  <2>1. PICK hi \in Nat : SentSoFar(c, call.kind, lo, hi)
    BY DEF AnswerDue
  <2>2. c \in Nat /\ lo \in Nat /\ c # 0
    BY LenProperties DEF Numbered, Activity, AnswerDue
  <2> HIDE DEF c, lo
  <2>3. \A p \in DOMAIN Line : Line[p].call = c => p \notin IF first.id = 0 THEN {L + 1} ELSE {}
    BY <1>4, <1>5, <2>2
  <2>4. /\ \A f \in Frames' : f.call = c =>
                IF f.type = "info" THEN call.kind = "list" ELSE Rank(f) = hi
        /\ \A i \in 1 .. Len(inbox') : inbox'[i].call = c =>
             /\ inbox'[i].sent = hi /\ inbox'[i].kind = call.kind
             /\ \A f \in Frames' : f.call = c => f.type = "info"
        /\ lo <= hi /\ Stream(Line', c, lo, hi)
    BY <1>6, <1>8, <2>1, <2>2, <2>3, SentSoFarMoves
  <2>5. SentSoFar(c, call.kind, lo, hi)'
    BY <1>6, <2>4 DEF SentSoFar, c, lo
  <2> QED
    BY <1>6, <2>5 DEF c, lo
<1>15. Answered'
  BY <1>6, <1>9 DEF Answered, Gone
<1>16. WholeLists'
  BY <1>6 DEF WholeLists
<1>17. Queued'
  <2>1. CASE first.id # 0
    <3>1. events' = events /\ call' = call
      BY <2>1 DEF Decode, first
    <3>2. decoded' = decoded
      BY <1>6, <2>1 DEF EventsDue
    <3> QED
      BY <3>1, <3>2 DEF Queued, QueueIsSuffix
  <2>2. CASE first.id = 0
    <3>1. decoded' = decoded + 1 /\ first.no = decoded + 1 /\ decoded \in Nat
      BY <1>6, <1>13, <2>2 DEF EventsDue
    <3>2. CASE call.phase = "polling"
      <4>1. /\ events = <<>> /\ events' = events
            /\ call' = [call EXCEPT !.seen = Append(call.seen, first)]
        BY <2>2, <3>2 DEF Queued, Decode, first
      <4>2. call'.seen = Append(call.seen, first) /\ call.seen \in Seq(OwnFrame)
        BY <4>1 DEF Numbered, Activity
      <4>3. \A i \in 1 .. Len(call.seen) : call.seen[i].no = decoded - Len(call.seen) + i
        BY DEF Queued, QueueIsSuffix
      <4> DEFINE more == Append(call.seen, first)
      <4>5. \A i \in 1 .. Len(more) : more[i].no = (decoded + 1) - Len(more) + i
        BY <1>2, <3>1, <4>2, <4>3, AppendNumbered
      <4> HIDE DEF more
      <4>4. \A i \in 1 .. Len(call'.seen) : call'.seen[i].no = decoded' - Len(call'.seen) + i
        BY <3>1, <4>2, <4>5 DEF more
      <4> QED
        BY <1>6, <3>2, <4>1, <4>4 DEF Queued, QueueIsSuffix
    <3>3. CASE call.phase # "polling"
      <4>1. /\ events' = Kept(Append(events, first)) /\ call' = call /\ call.seen = <<>>
        BY <2>2, <3>3 DEF Queued, Decode, first
      <4>2. events \in Seq(OwnFrame)
            /\ \A i \in 1 .. Len(events) : events[i].no = decoded - Len(events) + i
        BY DEF Queued, QueueIsSuffix, Streams
      <4> DEFINE more == Append(events, first)
      <4>3. more \in Seq(OwnFrame)
            /\ \A i \in 1 .. Len(more) : more[i].no = (decoded + 1) - Len(more) + i
        BY <1>2, <3>1, <4>2, AppendNumbered
      <4> HIDE DEF more
      <4>5. \A i \in 1 .. Len(Kept(more)) :
                Kept(more)[i].no = (decoded + 1) - Len(Kept(more)) + i
        <5>1. decoded + 1 \in Nat
          BY <3>1
        <5> QED
          BY <4>3, <5>1, KeptNumbered
      <4>4. \A i \in 1 .. Len(events') : events'[i].no = decoded' - Len(events') + i
        BY <3>1, <4>1, <4>5 DEF more
      <4> QED
        BY <3>3, <4>1, <4>4 DEF Queued, QueueIsSuffix
    <3> QED
      BY <3>2, <3>3
  <2> QED
    BY <2>1, <2>2
<1>18. Bounded'
  <2>1. Len(events') <= QueueSize
    <3>1. CASE events' = events
      BY <3>1 DEF Bounded
    <3>2. CASE events' # events
      <4>1. events' = Kept(Append(events, first)) /\ Append(events, first) \in Seq(OwnFrame)
        BY <1>2, <3>2, AppendProperties DEF Decode, Streams, first
      <4> QED
        BY <4>1, KeptBound
    <3> QED
      BY <3>1, <3>2
  <2> QED
    BY <1>6, <2>1 DEF Bounded
<1> QED
  BY <1>11, <1>12, <1>13, <1>14, <1>15, <1>16, <1>17, <1>18

LEMMA LookKeepsOrder ==
    ASSUME LInv, IInv', Look
    PROVE  Taking'
<1> USE DEF LInv, Taking, IInv
<1>1. PICK i \in 1 .. Len(pending) :
        /\ Mine(pending[i])
        /\ \A j \in 1 .. i - 1 : ~Mine(pending[j])
        /\ pending' = Taken(pending, i)
        /\ IF pending[i].type = "info" /\ call.kind = "list"
           THEN /\ call' = [call EXCEPT !.infos = Append(@, pending[i])]
                /\ UNCHANGED result
           ELSE Ends(IF pending[i].ok THEN "response" ELSE "error", pending[i])
  BY Zenon DEF Look
<1> DEFINE c == call.call
           lo == Len(call.infos)
           f == pending[i]
<1>2. /\ call.phase = "waiting" /\ call.id = c /\ c = calls /\ calls > 0 /\ calls \in Nat
      /\ Collected /\ lo \in Nat /\ c \in Nat /\ call.infos \in Seq(OwnFrame)
  BY LenProperties DEF Look, Waiting, Numbered, Activity, AnswerDue
<1>3. /\ UNCHANGED <<inbox, wire, buf, events, calls, raised, decoded>> /\ Rest' = Rest
  BY DEF Look, Rest
<1>4. /\ f \in Frames /\ f \in OwnFrame /\ f.id = c /\ f.call = c /\ Line[i] = f /\ i \in DOMAIN Line
      /\ f.type # "event"
  <2>1. f \in Frames /\ Line[i] = f /\ i \in DOMAIN Line /\ f \in OwnFrame
    BY LineType
  <2>2. f.id = c
    BY <1>1, <1>2 DEF Mine
  <2> QED
    BY <1>2, <2>1, <2>2 DEF Keyed
<1>5. \A p \in DOMAIN Line : Line[p].call = c => p >= i
  <2> SUFFICES ASSUME NEW p \in DOMAIN Line, Line[p].call = c, p < i
               PROVE  FALSE
    BY LineType
  <2>1. p \in Nat /\ Len(pending) \in Nat
    BY LineType, LenProperties DEF Streams
  <2>2. p \in 1 .. Len(pending) /\ p \in 1 .. i - 1
    BY <2>1, LineType
  <2>3. Line[p] = pending[p] /\ pending[p] \in Frames
    BY <2>2, LineType
  <2>4. pending[p].id = call.id
    BY <1>2, <2>3 DEF Keyed
  <2> QED
    BY <1>1, <2>2, <2>4 DEF Mine
<1>6. PICK hi \in Nat : SentSoFar(c, call.kind, lo, hi)
  BY <1>2 DEF AnswerDue
<1>7. /\ Shifted(Line, Line', i, 1, {i})
      /\ \A p \in DOMAIN Line' : From(p, i, 1) # i
  <2>1. Line' = LineOf(Taken(pending, i), Rest)
    BY <1>1, <1>3 DEF Line
  <2>2. DOMAIN Line' = PlaceOf(Taken(pending, i), Rest)
    BY <2>1 DEF LineOf
  <2>3. pending \in Seq(OwnFrame) /\ Rest \in Seq(OwnByte)
    BY LineType DEF Streams
  <2>4. /\ Shifted(LineOf(pending, Rest), LineOf(Taken(pending, i), Rest), i, 1, {i})
        /\ \A p \in PlaceOf(Taken(pending, i), Rest) : From(p, i, 1) # i
    BY <2>3, LineLoses
  <2> QED
    BY <2>1, <2>2, <2>4 DEF Line
<1>8. DOMAIN Line \in SUBSET Nat /\ Line \in [DOMAIN Line -> OwnFrame]
      /\ DOMAIN Line' \in SUBSET Nat /\ Line' \in [DOMAIN Line' -> OwnFrame]
  BY LineType, LineTypeNext
<1>9. Frames' \subseteq Frames
  BY <1>7, ShiftedFrames DEF Frames
<1> HIDE DEF c, lo, f
<1>t. PICK t \in Nat, d \in Nat :
        /\ Shifted(Line, Line', t, d, {i})
        /\ \A p \in DOMAIN Line' : From(p, t, d) # i
  BY <1>7
<1>10. /\ Rank(f) = lo + 1 /\ lo + 1 <= hi
       /\ Stream(Line', c, lo + 1, hi)
  <2>2. Stream(Line, c, lo, hi)
    BY <1>6 DEF SentSoFar
  <2>3. /\ Rank(Line[i]) = lo + 1 /\ lo + 1 <= hi
        /\ Stream(Line', c, lo + 1, hi)
    <3>1. LosesFirst(Line, Line', t, d, i, c) /\ lo \in Nat
      BY <1>2, <1>4, <1>5, <1>t DEF LosesFirst
    <3>2. IsLine(Line) /\ IsLine(Line')
      BY <1>8 DEF IsLine
    <3> QED
      BY <2>2, <3>1, <3>2, StreamLosesFirst
  <2> QED
    BY <1>4, <2>3
<1>11. Keyed'
  <2>1. ASSUME NEW p \in 1 .. Len(pending')
        PROVE  pending'[p].call # 0
    <3>1. Len(pending') = Len(pending) - 1 /\ pending'[p] = pending[From(p, i, 1)]
      BY <1>1, TakenProperties DEF Streams
    <3>2. From(p, i, 1) \in 1 .. Len(pending)
      BY <3>1, LenProperties DEF From, Streams
    <3> QED
      BY <3>1, <3>2 DEF Keyed
  <2> QED
    BY <1>3, <1>9, <2>1 DEF Keyed
<1>12. InTurn'
  BY <1>3 DEF InTurn
<1>13. EventsDue'
  <2>1. decoded \in Nat /\ raised \in Nat /\ Stream(Line, 0, decoded, raised)
    BY DEF EventsDue, Numbered
  <2>2. \A p \in DOMAIN Line : Line[p].call = 0 => p \notin {i}
    BY <1>2, <1>4
  <2>3. Stream(Line', 0, decoded, raised)
    BY <1>t, <1>8, <2>1, <2>2, StreamMoves
  <2> QED
    BY <1>3, <2>3 DEF EventsDue
<1>14. Queued'
  <2>1. call'.phase # "polling" /\ call'.seen = <<>>
    <3>1. call.seen = <<>>
      BY <1>2 DEF Queued
    <3>2. CASE call' = [call EXCEPT !.infos = Append(call.infos, pending[i])]
      <4>1. call'.phase = call.phase /\ call'.seen = call.seen
        BY <3>2 DEF Numbered, Activity
      <4> QED
        BY <1>2, <3>1, <4>1
    <3>3. CASE call' = Quiet
      BY <3>3 DEF Quiet
    <3> QED
      BY <1>1, <3>2, <3>3 DEF Ends
  <2> QED
    BY <1>3, <2>1 DEF Queued, QueueIsSuffix
<1>15. CASE f.type = "info" /\ call.kind = "list"
  <2>1. call' = [call EXCEPT !.infos = Append(call.infos, f)] /\ result' = result
    BY <1>1, <1>15 DEF f
  <2>2. /\ call'.phase = call.phase /\ call'.call = c /\ call'.kind = call.kind
        /\ call'.infos = Append(call.infos, f)
    BY <2>1 DEF Numbered, Activity, c
  <2>3. Len(call'.infos) = lo + 1 /\ call'.infos[lo + 1] = f
        /\ \A k \in 1 .. lo : call'.infos[k] = call.infos[k]
    BY <1>2, <1>4, <2>2, AppendProperties DEF lo
  <2>4. Collected'
    <3>1. \A k \in 1 .. lo + 1 : k \in 1 .. lo \/ k = lo + 1
      BY <1>2
    <3>2. f.no = lo + 1
      BY <1>10, <1>15 DEF Rank
    <3> QED
      BY <1>2, <1>4, <2>2, <2>3, <3>1, <3>2 DEF Collected, c, lo
  <2>5. SentSoFar(call.call, call.kind, Len(call.infos), hi)'
    <3>1. \A g \in Frames' : g.call = c =>
             IF g.type = "info" THEN call.kind = "list" ELSE Rank(g) = hi
      BY <1>6, <1>9 DEF SentSoFar
    <3>2. ASSUME NEW k \in 1 .. Len(inbox), inbox[k].call = c
          PROVE  /\ inbox[k].sent = hi /\ inbox[k].kind = call.kind
                 /\ \A g \in Frames' : g.call = c => g.type = "info"
      BY <1>6, <1>9, <3>2 DEF SentSoFar
    <3> QED
      BY <1>3, <1>10, <2>2, <2>3, <3>1, <3>2 DEF SentSoFar
  <2>6. AnswerDue'
    BY <1>2, <1>3, <2>2, <2>4, <2>5 DEF AnswerDue
  <2>7. Answered' /\ WholeLists'
    BY <1>3, <1>9, <2>1 DEF Answered, Gone, WholeLists
  <2>8. Bounded'
    BY <1>3, <2>1 DEF Bounded
  <2> QED
    BY <1>11, <1>12, <1>13, <1>14, <2>6, <2>7, <2>8
<1>16. CASE ~(f.type = "info" /\ call.kind = "list")
  <2>1. /\ call' = Quiet
        /\ result' = [out |-> IF f.ok THEN "response" ELSE "error", call |-> c, frame |-> f,
                      infos |-> call.infos]
    BY <1>1, <1>16 DEF Ends, f, c
  <2>2. f.type # "info" /\ Rank(f) = hi
    BY <1>4, <1>6, <1>16 DEF SentSoFar
  <2>3. hi = lo + 1
    BY <1>10, <2>2
  <2>4. \A g \in Frames' : g.call # c
    <3> SUFFICES ASSUME NEW p \in DOMAIN Line', Line'[p].call = c
                 PROVE  FALSE
      BY DEF Frames, FramesOf
    <3>1. Rank(Line'[p]) \in Nat
      BY <1>8, RankIsNat
    <3> QED
      BY <1>10, <2>3, <3>1 DEF Stream
  <2>5. \A k \in 1 .. Len(inbox) : inbox[k].call # c
    BY <1>4, <1>6, <2>2 DEF SentSoFar
  <2>6. Answered'
    BY <1>2, <1>3, <2>1, <2>4, <2>5 DEF Answered, Gone
  <2>7. f.no = lo
    <3>1. Rank(f) = f.no + 1 /\ f.no \in Nat
      BY <1>4, <2>2 DEF Rank, OwnFrame, Frame
    <3> QED
      BY <1>2, <1>10, <3>1
  <2>8. WholeLists'
    BY <1>2, <2>1, <2>7 DEF WholeLists, Collected, lo, c
  <2>9. AnswerDue'
    BY <2>1 DEF AnswerDue, Quiet
  <2>10. Bounded'
    <3>1. result' \in [out : {"none", "response", "error", "timeout"}, call : Nat,
                       frame : OwnFrame, infos : Seq(OwnFrame)]
      BY <1>2, <1>4, <2>1
    <3> QED
      BY <1>3, <3>1 DEF Bounded
  <2> QED
    BY <1>11, <1>12, <1>13, <1>14, <2>6, <2>8, <2>9, <2>10
<1> QED
  BY <1>15, <1>16

LEMMA SendKeepsOrder ==
    ASSUME LInv, IInv', NEW kind \in Kinds, Send(kind)
    PROVE  Taking'
<1> USE DEF LInv, Taking, IInv
<1> DEFINE n == calls + 1
           m == Len(inbox)
           request == [call |-> n, id |-> n, kind |-> kind, sent |-> 0]
<1>1. calls \in Nat /\ calls' = n /\ calls < MaxCalls /\ m \in Nat
  BY LenProperties DEF Send, Numbered, Streams
<1>2. /\ call'.phase = "waiting" /\ call'.call = n /\ call'.kind = kind
      /\ call'.infos = <<>> /\ call'.seen = <<>>
  <2>1. call' = [Quiet EXCEPT !.phase = "waiting", !.call = n, !.id = n, !.kind = kind]
    BY DEF Send, RequestId
  <2> QED
    BY <2>1 DEF Quiet
<1>3. request \in Request
  BY <1>1, TransportAssumption DEF Request
<1>4. /\ Len(inbox') = m + 1 /\ inbox'[m + 1] = request
      /\ \A i \in 1 .. m : inbox'[i] = inbox[i]
  BY <1>3, AppendProperties DEF Send, RequestId, Streams
<1>5. UNCHANGED <<wire, buf, pending, result, raised, decoded>> /\ call.phase = "idle"
  BY DEF Send
<1>6. Line' = Line /\ Frames' = Frames
  BY <1>5 DEF Line, Rest, Frames
<1> HIDE DEF n, m, request
<1>7. request.call = n /\ request.sent = 0 /\ request.kind = kind /\ n > calls /\ n \in Nat
      /\ \A i \in 1 .. m + 1 : i \in 1 .. m \/ i = m + 1
  BY <1>1 DEF request, n
<1>8. \A f \in Frames : f.call \in Nat /\ f.call <= calls
  BY LineType DEF Keyed, OwnFrame, Frame
<1>9. \A i \in 1 .. m : inbox[i].call \in Nat /\ inbox[i].call <= calls
  <2>1. \A i \in 1 .. m : inbox[i] \in Request
    BY ElementOfSeq DEF Streams, m
  <2> QED
    BY <2>1 DEF InTurn, Request, m
<1>10. Keyed'
  BY <1>1, <1>5, <1>6, <1>7, <1>8 DEF Keyed
<1>11. InTurn'
  <2> SUFFICES ASSUME NEW i \in 1 .. m + 1
               PROVE  /\ inbox'[i].call >= 1 /\ inbox'[i].call <= n
                      /\ \A j \in 1 .. m + 1 : i < j => inbox'[i].call < inbox'[j].call
    BY <1>1, <1>4 DEF InTurn
  <2>1. CASE i \in 1 .. m
    <3>1. inbox'[i] = inbox[i] /\ inbox[i].call >= 1 /\ inbox[i].call <= calls
          /\ inbox[i].call \in Nat
      BY <1>4, <1>9, <2>1 DEF InTurn, m
    <3>2. ASSUME NEW j \in 1 .. m + 1, i < j
          PROVE  inbox'[i].call < inbox'[j].call
      <4>1. CASE j \in 1 .. m
        BY <1>4, <2>1, <3>2, <4>1 DEF InTurn, m
      <4>2. CASE j = m + 1
        BY <1>1, <1>4, <1>7, <3>1, <4>2
      <4> QED
        BY <1>7, <4>1, <4>2
    <3> QED
      BY <1>1, <1>7, <3>1, <3>2
  <2>2. CASE i = m + 1
    <3>1. inbox'[i].call = n /\ \A j \in 1 .. m + 1 : ~(i < j)
      BY <1>1, <1>4, <1>7, <2>2
    <3> QED
      BY <1>1, <1>7, <3>1
  <2> QED
    BY <1>7, <2>1, <2>2
<1>12. EventsDue'
  BY <1>5, <1>6 DEF EventsDue
<1>13. AnswerDue'
  <2>1. Stream(Line, n, 0, 0)
    <3>1. \A p \in DOMAIN Line : Line[p] \in Frames
      BY DEF Frames, FramesOf
    <3>2. \A p \in DOMAIN Line : Line[p].call # n
      BY <1>1, <1>7, <1>8, <3>1
    <3> QED
      BY <3>2 DEF Stream
  <2>2. \A f \in Frames : f.call # n
    BY <1>1, <1>7, <1>8
  <2>3. \A i \in 1 .. m + 1 : inbox'[i].call = n => inbox'[i].sent = 0 /\ inbox'[i].kind = kind
    BY <1>1, <1>4, <1>7, <1>9
  <2>4. Len(call'.infos) = 0
    BY <1>2
  <2>5. SentSoFar(call.call, call.kind, Len(call.infos), 0)'
    BY <1>2, <1>4, <1>6, <2>1, <2>2, <2>3, <2>4 DEF SentSoFar
  <2> QED
    BY <1>1, <1>2, <1>7, <2>4, <2>5 DEF AnswerDue, Collected
<1>14. Answered'
  <2> SUFFICES ASSUME result.out \in {"response", "error"}
               PROVE  result.call # 0 /\ result.call <= n /\ Gone(result.call)'
    BY <1>1, <1>5 DEF Answered
  <2>1. result.call # 0 /\ result.call <= calls /\ Gone(result.call) /\ result.call \in Nat
    BY DEF Answered, Bounded
  <2>2. \A i \in 1 .. m + 1 : inbox'[i].call # result.call
    BY <1>1, <1>4, <1>7, <2>1 DEF Gone, m
  <2> QED
    BY <1>1, <1>4, <1>5, <1>6, <1>7, <2>1, <2>2 DEF Gone
<1>15. Queued' /\ WholeLists'
  <2>1. events' = events \/ events' = <<>>
    BY DEF Send
  <2> QED
    BY <1>2, <1>5, <2>1 DEF Queued, QueueIsSuffix, WholeLists
<1>16. Bounded'
  <2>1. events' = events \/ events' = <<>>
    BY DEF Send
  <2>2. Len(events') <= QueueSize
    BY <2>1, TransportAssumption DEF Bounded
  <2>3. calls' <= MaxCalls
    BY <1>1, TransportAssumption DEF n
  <2> QED
    BY <1>5, <2>2, <2>3 DEF Bounded
<1> QED
  BY <1>10, <1>11, <1>12, <1>13, <1>14, <1>15, <1>16

LEMMA OthersKeepOrder ==
    ASSUME LInv, IInv', Receive \/ Expire \/ Poll \/ PollReturns \/ UNCHANGED vars
    PROVE  Taking'
<1> USE DEF LInv, Taking, IInv
<1>1. UNCHANGED <<inbox, pending, calls, raised, decoded>>
  BY DEF Receive, Expire, Poll, PollReturns, vars
<1>2. Rest' = Rest
  <2>1. CASE Receive
    BY <2>1, RestUnderReceive
  <2>2. CASE Expire \/ Poll \/ PollReturns \/ UNCHANGED vars
    BY <2>2 DEF Expire, Poll, PollReturns, vars, Rest
  <2> QED
    BY <2>1, <2>2
<1>3. Line' = Line /\ Frames' = Frames
  BY <1>1, <1>2 DEF Line, Frames
<1>4. Keyed' /\ InTurn' /\ EventsDue'
  BY <1>1, <1>3 DEF Keyed, InTurn, EventsDue
<1>5. CASE Receive \/ UNCHANGED vars
  <2>1. UNCHANGED <<events, call, result>>
    BY <1>5 DEF Receive, vars
  <2> QED
    BY <1>1, <1>3, <1>4, <2>1
       DEF AnswerDue, Collected, SentSoFar, Answered, Gone, Queued, QueueIsSuffix, WholeLists,
           Bounded
<1>6. CASE Expire
  <2>1. /\ call' = Quiet /\ events' = events
        /\ result' = [out |-> "timeout", call |-> call.call, frame |-> NoFrame,
                      infos |-> call.infos]
    BY <1>6 DEF Expire, Ends
  <2>2. AnswerDue' /\ Answered' /\ WholeLists'
    BY <2>1 DEF AnswerDue, Answered, WholeLists, Quiet
  <2>3. Queued'
    BY <1>1, <1>6, <2>1 DEF Queued, QueueIsSuffix, Quiet
  <2>4. Bounded'
    <3>1. NoFrame \in OwnFrame
      BY DEF NoFrame, OwnFrame, Frame
    <3>2. call.call \in Nat /\ call.infos \in Seq(OwnFrame)
      BY DEF Numbered, Activity
    <3>3. result' \in [out : {"none", "response", "error", "timeout"}, call : Nat,
                       frame : OwnFrame, infos : Seq(OwnFrame)]
      BY <2>1, <3>1, <3>2
    <3> QED
      BY <1>1, <2>1, <3>3 DEF Bounded
  <2> QED
    BY <1>4, <2>2, <2>3, <2>4
<1>7. CASE Poll
  <2>1. /\ call'.phase = "polling" /\ call'.seen = events
        /\ events' = <<>> /\ result' = result
    <3>1. call' = [Quiet EXCEPT !.phase = "polling", !.seen = events]
      BY <1>7 DEF Poll
    <3> QED
      BY <1>7, <3>1 DEF Poll, Quiet
  <2>2. AnswerDue' /\ Answered' /\ WholeLists'
    BY <1>1, <1>3, <2>1 DEF AnswerDue, Answered, Gone, WholeLists
  <2>3. Queued'
    BY <1>1, <2>1 DEF Queued, QueueIsSuffix
  <2>4. Bounded'
    BY <1>1, <2>1, TransportAssumption DEF Bounded
  <2> QED
    BY <1>4, <2>2, <2>3, <2>4
<1>8. CASE PollReturns
  <2>1. /\ call'.phase = "idle" /\ call'.seen = <<>>
        /\ events' = events /\ result' = result
    BY <1>8 DEF PollReturns, Quiet
  <2>2. AnswerDue' /\ Answered' /\ WholeLists'
    BY <1>1, <1>3, <2>1 DEF AnswerDue, Answered, Gone, WholeLists
  <2>3. Queued'
    BY <1>1, <2>1 DEF Queued, QueueIsSuffix
  <2>4. Bounded'
    BY <1>1, <2>1 DEF Bounded
  <2> QED
    BY <1>4, <2>2, <2>3, <2>4
<1> QED
  BY <1>5, <1>6, <1>7, <1>8

LEMMA InitIsInOrder == Init => Taking
<1> SUFFICES ASSUME Init PROVE Taking
  OBVIOUS
<1>1. Rest = <<>> /\ Len(Rest) = 0 /\ pending = <<>> /\ Len(pending) = 0
  BY EmptySeq, ConcatEmptySeq DEF Init, Rest
<1>2. DOMAIN Line = {} /\ Frames = {}
  BY <1>1 DEF Line, LineOf, PlaceOf, Frames, FramesOf
<1>3. Keyed /\ InTurn
  BY <1>1, <1>2 DEF Keyed, InTurn, Init
<1>4. EventsDue
  BY <1>2 DEF EventsDue, Stream, Init
<1>5. AnswerDue /\ Answered /\ Queued /\ WholeLists
  BY DEF AnswerDue, Answered, Queued, QueueIsSuffix, WholeLists, Init, Quiet, Nothing
<1>6. NoFrame \in OwnFrame /\ <<>> \in Seq(OwnFrame)
  BY DEF NoFrame, OwnFrame, Frame
<1>7. Bounded
  BY <1>6, TransportAssumption DEF Bounded, Init, Nothing
<1> QED
  BY <1>3, <1>4, <1>5, <1>7 DEF Taking

LEMMA OrderIsKept == Spec => []LInv
<1>1. Init => WholeFrames(Rest)
  <2> SUFFICES ASSUME Init PROVE WholeFrames(Rest)
    OBVIOUS
  <2>1. Len(Rest) = 0
    BY EmptySeq, ConcatEmptySeq DEF Init, Rest
  <2> QED
    BY <2>1 DEF WholeFrames
<1>2. Init => LInv
  BY <1>1, InitIsSound, InitIsInOrder DEF LInv
<1>3. LInv /\ [Next]_vars => LInv'
  <2> SUFFICES ASSUME LInv, [Next]_vars PROVE LInv'
    OBVIOUS
  <2>1. IInv' /\ WholeFrames(Rest)'
    BY NextIsSound, WholeFramesStay DEF LInv
  <2>2. Taking'
    <3>1. CASE SendInfo
      BY <2>1, <3>1, SendInfoKeepsOrder
    <3>2. CASE Serve
      BY <2>1, <3>2, ServeKeepsOrder
    <3>3. CASE Raise
      BY <2>1, <3>3, RaiseKeepsOrder
    <3>4. CASE Decode
      BY <2>1, <3>4, DecodeKeepsOrder
    <3>5. CASE Look
      BY <2>1, <3>5, LookKeepsOrder
    <3>6. CASE \E kind \in Kinds : Send(kind)
      BY <2>1, <3>6, SendKeepsOrder
    <3>7. CASE Receive \/ Expire \/ Poll \/ PollReturns \/ UNCHANGED vars
      BY <2>1, <3>7, OthersKeepOrder
    <3> QED
      BY <3>1, <3>2, <3>3, <3>4, <3>5, <3>6, <3>7 DEF Next, Client
  <2> QED
    BY <2>1, <2>2 DEF LInv
<1> QED
  BY <1>2, <1>3, PTL DEF Spec

(* A list is the one VICE sent for this very call, entry by entry, after   *)
(* any number of lists that timed out half way (monitor.py:99-127).        *)
THEOREM ListsAreWhole == Spec => []WholeLists
<1>1. LInv => WholeLists
  BY DEF LInv, Taking
<1> QED
  BY <1>1, OrderIsKept, PTL

(* For every maxlen the queue, and what a poll has in hand, are the latest *)
(* events in order with none missing between, although events arrive in    *)
(* chunks, between the infos of a list, and while calls run (monitor.py:   *)
(* 266-293).                                                               *)
THEOREM QueueKeepsLatest == Spec => []QueueIsSuffix
<1>1. LInv => QueueIsSuffix
  BY DEF LInv, Taking, Queued
<1> QED
  BY <1>1, OrderIsKept, PTL

(* Nothing of a call that has ended with its answer stays in _pending: it  *)
(* grows only by the answers of calls that timed out (monitor.py:109-127). *)
THEOREM PendingIsSpent == Spec => []NoLeftovers
<1>1. LInv => NoLeftovers
  <2> SUFFICES ASSUME LInv, result.out \in {"response", "error"}, NEW i \in 1 .. Len(pending)
               PROVE  pending[i].call # result.call
    BY DEF NoLeftovers
  <2>1. pending[i] \in Frames
    BY LineType DEF LInv, IInv
  <2> QED
    BY <2>1 DEF LInv, Taking, Answered, Gone
<1> QED
  BY <1>1, OrderIsKept, PTL

(* Every variable of MonitorClient keeps its type and its bound: never     *)
(* more than maxlen events in the queue, never more decoded than VICE sent.*)
THEOREM TransportTyped == Spec => []TypeOK
<1>1. LInv => TypeOK
  <2> SUFFICES ASSUME LInv PROVE TypeOK
    OBVIOUS
  <2> USE DEF LInv, IInv, Taking
  <2>1. OwnFrame \subseteq Frame /\ OwnByte \subseteq Byte
    BY DEF OwnFrame, OwnByte, Byte
  <2>2. ASSUME NEW S, NEW T, S \subseteq T, NEW q \in Seq(S)
        PROVE  q \in Seq(T)
    BY <2>2
  <2>3. wire \in Seq(Byte) /\ buf \in Seq(Byte) /\ pending \in Seq(Frame) /\ events \in Seq(Frame)
    BY <2>1, <2>2 DEF Streams
  <2>4. inbox \in Seq([call : Nat, id : Nat, kind : Kinds, sent : 0 .. MaxInfos])
    <3>1. Request \subseteq [call : Nat, id : Nat, kind : Kinds, sent : 0 .. MaxInfos]
      BY DEF Request
    <3> QED
      BY <2>2, <3>1 DEF Streams
  <2>5. call.infos \in Seq(Frame) /\ call.seen \in Seq(Frame)
    BY <2>1, <2>2 DEF Numbered, Activity
  <2>6. call \in [phase : {"idle", "waiting", "polling"}, call : Nat, id : Nat,
                  kind : Kinds \cup {"exit"}, infos : Seq(Frame), seen : Seq(Frame)]
    BY <2>5 DEF Numbered, Activity
  <2>7. result.infos \in Seq(Frame)
    BY <2>1, <2>2 DEF Bounded
  <2>8. result \in [out : {"none", "response", "error", "timeout"}, call : Nat,
                    frame : Frame \cup {NoFrame}, infos : Seq(Frame)]
    BY <2>1, <2>7 DEF Bounded
  <2>9. calls \in 0 .. MaxCalls /\ raised \in 0 .. MaxEvents /\ decoded \in 0 .. MaxEvents
    BY TransportAssumption DEF Numbered, Bounded, EventsDue
  <2> QED
    BY <2>3, <2>4, <2>6, <2>8, <2>9 DEF TypeOK, Bounded
<1> QED
  BY <1>1, OrderIsKept, PTL
=============================================================================
