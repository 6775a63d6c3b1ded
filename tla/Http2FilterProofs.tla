------------------------- MODULE Http2FilterProofs -------------------------
(***************************************************************************)
(* Proofs about Http2Filter, for any streams, exchanges and pages, and any *)
(* Length that is a natural number (LengthIsNat).                          *)
(***************************************************************************)
EXTENDS Http2Filter, SequenceTheorems, WellFoundedInduction, TLAPS

\* The parts of TypeOK.
ControlOK ==
  /\ pc \in [Side -> Steps]
  /\ job \in [Side -> Job \cup {None}]
  /\ \A g \in Side : job[g] = None <=> Resting(g)
  /\ pc["client"] = "preface" <=> pc["server"] = "preface"
HeldOK ==
  /\ headers \in [Stream -> Seq(Item)]
  /\ chunks \in [Stream -> Seq(Item)]
  /\ response \in [Stream -> Seq(Item)]
  /\ body \in [Stream -> Seq(Item)]
  /\ userData \in [Stream -> {"block", "white", "none"}]
WireOK ==
  /\ ready \in BOOLEAN /\ settled \in BOOLEAN /\ intact \in BOOLEAN
  /\ got \in [Side -> [Stream -> Seq(Frame)]]
  /\ conn \in [Side -> {"open", "stalled", "left", "closed"}]
InputOK ==
  /\ exchange \in Exchanges
  /\ overtaken \subseteq Stream
  /\ taken \in [Side -> [Stream -> Nat]]
  /\ credit \in [Stream -> Int]

-----------------------------------------------------------------------------
(* Types.                                                                  *)

\* What is read from a peer is a frame with one item.
LEMMA IncomingType ==
  ASSUME exchange \in Exchanges, taken \in [Side -> [Stream -> Nat]],
         NEW g \in Side, NEW s \in Stream, taken[g][s] < Len(exchange[s][g])
  PROVE  /\ exchange[s][g] \in Seq(Frame)
         /\ taken[g][s] + 1 \in 1..Len(exchange[s][g])
         /\ Incoming(g, s) \in Frame
         /\ Incoming(g, s).items \in Seq(Item)
         /\ Len(Incoming(g, s).items) = 1
<1>1. exchange[s] \in Exchange
  BY ConstantsOK DEF ConstantsOK
<1>2. exchange[s][g] \in Seq(Frame)
  BY <1>1 DEF Side, Exchange
<1>3. taken[g][s] \in Nat
  OBVIOUS
<1>4. Len(exchange[s][g]) \in Nat
  BY <1>2
<1>5. taken[g][s] + 1 \in 1..Len(exchange[s][g])
  BY <1>3, <1>4
<1>6. Incoming(g, s) \in Frame
  BY <1>2, <1>5, ElementOfSeq DEF Incoming
<1>7. Len(Incoming(g, s).items) = 1
  BY <1>5, ConstantsOK DEF ConstantsOK, Incoming
<1>8. Incoming(g, s).items \in Seq(Item)
  BY <1>6 DEF Frame
<1> QED
  BY <1>2, <1>5, <1>6, <1>7, <1>8

\* The frames a body is sent in.
LEMMA DataFramesType ==
  ASSUME NEW parts \in Seq(Item), NEW ended \in BOOLEAN
  PROVE  DataFrames(parts, ended) \in Seq(Frame)
<1>1. Len(parts) \in Nat
  OBVIOUS
<1>2. \A i \in 1..Len(parts) :
        [type |-> "data", items |-> <<parts[i]>>, ended |-> ended /\ i = Len(parts)] \in Frame
  <2> TAKE i \in 1..Len(parts)
  <2>1. parts[i] \in Item
    BY ElementOfSeq
  <2>2. <<parts[i]>> \in Seq(Item)
    BY <2>1
  <2>3. (ended /\ i = Len(parts)) \in BOOLEAN
    OBVIOUS
  <2> QED
    BY <2>2, <2>3 DEF Frame
<1>3. DataFrames(parts, ended) \in [1..Len(parts) -> Frame]
  BY <1>2 DEF DataFrames
<1> QED
  BY <1>1, <1>3

\* Writing adds frames to what one side got on one stream.
LEMMA SendType ==
  ASSUME TypeOK, NEW to \in Side, NEW s \in Stream, NEW frames \in Seq(Frame),
         Send(to, s, frames)
  PROVE  got' \in [Side -> [Stream -> Seq(Frame)]] /\ intact' \in BOOLEAN
<1> USE DEF TypeOK
<1>1. CASE UNCHANGED got
  BY <1>1 DEF Send, Garble
<1>2. CASE got' = [got EXCEPT ![to][s] = @ \o frames]
  <2>1. got[to][s] \o frames \in Seq(Frame)
    BY ConcatProperties
  <2> QED
    BY <1>2, <2>1 DEF Send, Garble
<1> QED
  BY <1>1, <1>2 DEF Send

LEMMA TypeParts ==
  /\ TypeOK <=> (ControlOK /\ HeldOK /\ WireOK /\ InputOK)
  /\ TypeOK' <=> (ControlOK /\ HeldOK /\ WireOK /\ InputOK)'
BY DEF TypeOK, ControlOK, HeldOK, WireOK, InputOK

\* A goroutine that goes on with its job, or changes its copy, keeps the job.
LEMMA GotoControl ==
  ASSUME ControlOK, NEW g \in Side, NEW step \in Steps \ {"preface", "idle", "ended"},
         step # "settings" \/ g = "client", pc[g] # "preface", Goto(g, step),
         NEW j \in Job, job' = [job EXCEPT ![g] = j]
  PROVE  ControlOK'
<1> USE DEF ControlOK, Goto
<1>1. pc' \in [Side -> Steps] /\ job' \in [Side -> Job \cup {None}]
  OBVIOUS
<1>3. pc'["client"] = "preface" <=> pc'["server"] = "preface"
  BY DEF Side
<1>2. ASSUME NEW h \in Side PROVE job'[h] = None <=> Resting(h)'
  <2>1. CASE h = g
    BY <2>1, NoneOK DEF Resting
  <2>2. CASE h # g
    BY <2>2 DEF Resting
  <2> QED
    BY <2>1, <2>2
<1> QED
  BY <1>1, <1>2, <1>3

LEMMA StayControl ==
  ASSUME ControlOK, NEW g \in Side, NEW step \in Steps \ {"preface", "idle", "ended"},
         step # "settings" \/ g = "client", ~Resting(g), Goto(g, step), UNCHANGED job
  PROVE  ControlOK'
<1>1. job[g] \in Job /\ job' = [job EXCEPT ![g] = job[g]]
  BY DEF ControlOK
<1> QED
  BY <1>1, GotoControl DEF Resting

\* A goroutine that rests, or ends, has no job.
LEMMA RestControl ==
  ASSUME ControlOK, NEW g \in Side, NEW step \in {"idle", "ended"},
         pc[g] # "preface", Goto(g, step), job' = [job EXCEPT ![g] = None]
  PROVE  ControlOK'
<1> USE DEF ControlOK, Goto
<1>1. pc' \in [Side -> Steps] /\ job' \in [Side -> Job \cup {None}]
  BY DEF Steps
<1>3. pc'["client"] = "preface" <=> pc'["server"] = "preface"
  BY DEF Side
<1>2. ASSUME NEW h \in Side PROVE job'[h] = None <=> Resting(h)'
  <2>1. CASE h = g
    BY <2>1 DEF Resting
  <2>2. CASE h # g
    BY <2>2 DEF Resting
  <2> QED
    BY <2>1, <2>2
<1> QED
  BY <1>1, <1>2, <1>3

\* Reading a frame gives the goroutine a job.
LEMMA TakeType ==
  ASSUME TypeOK, NEW g \in Side, NEW s \in Stream, NEW type, NEW copy \in Seq(Item),
         NEW step \in Steps \ {"preface", "idle", "ended"},
         step # "settings" \/ g = "client",
         Take(g, s, type, copy, step)
  PROVE  /\ ControlOK' /\ WireOK' /\ exchange' \in Exchanges /\ overtaken' \subseteq Stream
         /\ taken' \in [Side -> [Stream -> Nat]]
<1> USE TypeParts DEF Take
<1> DEFINE j == [stream |-> s, frame |-> Incoming(g, s), copy |-> copy,
                 white |-> userData[s] = "white"]
<1>1. Incoming(g, s) \in Frame
  BY IncomingType DEF InputOK
<1>2. j \in Job
  BY <1>1 DEF Job
<1>3. job' = [job EXCEPT ![g] = j] /\ Goto(g, step) /\ pc[g] # "preface"
  OBVIOUS
<1>4. /\ taken' \in [Side -> [Stream -> Nat]] /\ exchange' \in Exchanges
      /\ overtaken' \subseteq Stream
  BY DEF Side, InputOK
<1>5. WireOK'
  BY DEF WireOK, wire
<1> HIDE DEF j
<1>6. ControlOK'
  BY <1>2, <1>3, GotoControl
<1> QED
  BY <1>4, <1>5, <1>6

LEMMA InitTypeOK == Init => TypeOK
<1> SUFFICES ASSUME Init PROVE TypeOK
  OBVIOUS
<1> USE DEF Init
<1>1. exchange \in [Stream -> Exchange]
  BY ConstantsOK DEF ConstantsOK
<1>2. InputOK
  BY <1>1 DEF InputOK, Exchange
<1>3. << >> \in Seq(Item) /\ << >> \in Seq(Frame)
  OBVIOUS
<1>4. HeldOK
  BY <1>3 DEF HeldOK
<1>5. WireOK
  BY <1>3 DEF WireOK
<1>6. ControlOK
  BY DEF ControlOK, Resting, Steps, Side
<1> QED
  BY <1>2, <1>4, <1>5, <1>6, TypeParts

\* The steps of either loop.
LEMMA ProcessTypeOK ==
  ASSUME LengthIsNat, TypeOK, NEW g \in Side, Process(g)
  PROVE  TypeOK'
<1> USE TypeParts
<1>0. << >> \in Seq(Item)
  OBVIOUS
<1>1. ASSUME NEW s \in Stream, TakeData(g, s) PROVE TypeOK'
  <2>1. /\ Take(g, s, "data", chunks[s] \o Incoming(g, s).items, "store") /\ UNCHANGED held
        /\ UNCHANGED credit \/ credit' = [credit EXCEPT ![s] = @ - Length(Incoming(g, s).items)]
    BY <1>1 DEF TakeData
  <2>2. Incoming(g, s).items \in Seq(Item)
    BY <2>1, IncomingType DEF Take, InputOK
  <2>3. chunks[s] \o Incoming(g, s).items \in Seq(Item)
    BY <2>2, ConcatProperties DEF HeldOK
  <2>4. /\ ControlOK' /\ WireOK' /\ exchange' \in Exchanges /\ overtaken' \subseteq Stream
        /\ taken' \in [Side -> [Stream -> Nat]]
    <3>1. "store" \in Steps \ {"preface", "idle", "ended"}
      BY DEF Steps
    <3> QED
      BY <2>1, <2>3, <3>1, TakeType
  <2>5. Length(Incoming(g, s).items) \in Nat
    BY <2>2 DEF LengthIsNat
  <2>6. credit' \in [Stream -> Int]
    BY <2>1, <2>5 DEF InputOK
  <2>7. HeldOK'
    BY <2>1 DEF HeldOK, held
  <2> QED
    BY <2>4, <2>6, <2>7 DEF InputOK
<1>2. ASSUME NEW s \in Stream, TakeOther(g, s) PROVE TypeOK'
  <2>1. Take(g, s, "other", << >>, "forward") /\ UNCHANGED <<credit, held>> /\ << >> \in Seq(Item)
    BY <1>2 DEF TakeOther
  <2>2. /\ ControlOK' /\ WireOK' /\ exchange' \in Exchanges /\ overtaken' \subseteq Stream
        /\ taken' \in [Side -> [Stream -> Nat]]
    BY <2>1, TakeType DEF Steps
  <2> QED
    BY <2>1, <2>2 DEF InputOK, HeldOK, held
<1>3. CASE Forward(g)
  <2>1. job[g] \in Job
    BY <1>3 DEF Forward, ControlOK, Resting
  <2>2. /\ Other(g) \in Side /\ job[g].stream \in Stream
        /\ <<job[g].frame>> \in Seq(Frame)
    BY <2>1 DEF Job, Other, Side
  <2>3. got' \in [Side -> [Stream -> Seq(Frame)]] /\ intact' \in BOOLEAN
    BY <1>3, <2>2, SendType DEF Forward
  <2>4. ControlOK'
    BY <1>3, RestControl DEF Forward, Rest
  <2> QED
    BY <1>3, <2>3, <2>4 DEF Forward, WireOK, HeldOK, InputOK, held, input
<1>4. CASE Keep(g)
  <2>1. job[g] \in Job
    BY <1>4 DEF Keep, ControlOK, Resting
  <2>2. headers' \in [Stream -> Seq(Item)]
    BY <1>4, <2>1 DEF Keep, HeldOK, Job
  <2>3. ControlOK'
    <3>1. CASE WritesAtOnce(g)
      BY <1>4, <3>1, StayControl DEF Keep, Steps, Resting
    <3>2. CASE ~WritesAtOnce(g)
      BY <1>4, <3>2, RestControl DEF Keep, Rest
    <3> QED
      BY <3>1, <3>2
  <2> QED
    BY <1>4, <2>2, <2>3 DEF Keep, WireOK, HeldOK, InputOK, wire, input
<1>5. CASE Store(g)
  <2>1. job[g] \in Job
    BY <1>5 DEF Store, ControlOK, Resting
  <2>2. chunks' \in [Stream -> Seq(Item)]
    BY <1>5, <2>1 DEF Store, HeldOK, Job
  <2>3. ControlOK'
    BY <1>5, StayControl DEF Store, Steps, Resting
  <2> QED
    BY <1>5, <2>2, <2>3 DEF Store, WireOK, HeldOK, InputOK, wire, input
<1>6. CASE Decide(g)
  <2>1. job[g] \in Job
    BY <1>6 DEF Decide, ControlOK, Resting
  <2>2. body' \in [Stream -> Seq(Item)]
    <3>1. \/ UNCHANGED body
          \/ \E b \in {body[job[g].stream], chunks[job[g].stream]} :
               body' = [body EXCEPT ![job[g].stream] = b]
      <4>1. UNCHANGED body \/ DecideResponse(job[g].stream)
        BY <1>6, Zenon DEF Decide
      <4> QED
        BY <4>1 DEF DecideResponse
    <3>2. body[job[g].stream] \in Seq(Item) /\ chunks[job[g].stream] \in Seq(Item)
      BY <2>1 DEF HeldOK, Job
    <3> QED
      BY <3>1, <3>2 DEF HeldOK
  <2>3. \/ Goto(g, "write") /\ UNCHANGED job
        \/ Goto(g, "replace") /\ UNCHANGED job
        \/ Rest(g)
    BY <1>6, Zenon DEF Decide, DecideResponse
  <2>4. ControlOK'
    BY <1>6, <2>3, StayControl, RestControl DEF Decide, Rest, Steps, Resting
  <2> QED
    BY <1>6, <2>2, <2>4 DEF Decide, WireOK, HeldOK, InputOK, wire, input
<1>7. CASE Write(g)
  <2>1. job[g] \in Job /\ job[g].stream \in Stream /\ job[g].frame.ended \in BOOLEAN
    BY <1>7 DEF Write, ControlOK, Resting, Job, Frame
  <2> DEFINE s == job[g].stream
             f == [type |-> "headers", items |-> headers[s],
                   ended |-> chunks[s] = << >> /\ job[g].frame.ended]
  <2>2. got' \in [Side -> [Stream -> Seq(Frame)]] /\ intact' \in BOOLEAN
    <3>1. CASE headers[s] = << >>
      BY <1>7, <3>1 DEF Write, WireOK
    <3>2. CASE headers[s] # << >>
      <4>1. f \in Frame
        BY <2>1 DEF Frame, HeldOK
      <4>2. <<f>> \in Seq(Frame) /\ Other(g) \in Side
        BY <4>1 DEF Other, Side
      <4>3. Send(Other(g), s, <<f>>)
        BY <1>7, <3>2 DEF Write
      <4> QED
        BY <2>1, <4>2, <4>3, SendType
    <3> QED
      BY <3>1, <3>2
  <2>3. ControlOK'
    <3>1. CASE headers[s] = << >> /\ chunks[s] = << >>
      BY <1>7, <3>1, RestControl DEF Write, Rest
    <3>2. CASE ~(headers[s] = << >> /\ chunks[s] = << >>)
      <4>1. PICK step \in {"flush", "forget"} :
              Goto(g, step) /\ job' = [job EXCEPT ![g] = [job[g] EXCEPT !.copy = chunks[s]]]
        BY <1>7, <3>2 DEF Write
      <4>2. [job[g] EXCEPT !.copy = chunks[s]] \in Job
        BY <2>1 DEF Job, HeldOK
      <4> QED
        BY <1>7, <4>1, <4>2, GotoControl DEF Steps, Write
    <3> QED
      BY <3>1, <3>2
  <2> QED
    BY <1>7, <2>2, <2>3 DEF Write, WireOK, HeldOK, InputOK, held, input
<1>8. CASE Forget(g)
  <2>1. headers' \in [Stream -> Seq(Item)]
    BY <1>0, <1>8 DEF Forget, HeldOK
  <2>2. ControlOK'
    <3>1. CASE job[g].copy = << >>
      BY <1>8, <3>1, RestControl DEF Forget, Rest
    <3>2. CASE job[g].copy # << >>
      BY <1>8, <3>2, StayControl DEF Forget, Steps, Resting
    <3> QED
      BY <3>1, <3>2
  <2> QED
    BY <1>8, <2>1, <2>2 DEF Forget, WireOK, HeldOK, InputOK, wire, input
<1>9. CASE Flush(g)
  <2>1. job[g] \in Job
    BY <1>9 DEF Flush, ControlOK, Resting
  <2>2. /\ job[g].stream \in Stream /\ Other(g) \in Side
        /\ job[g].copy \in Seq(Item) /\ job[g].frame.ended \in BOOLEAN
    BY <2>1 DEF Job, Frame, Other, Side
  <2>3. got' \in [Side -> [Stream -> Seq(Frame)]] /\ intact' \in BOOLEAN
    BY <1>9, <2>2, SendType, DataFramesType DEF Flush
  <2>4. credit' \in [Stream -> Int]
    <3>1. Length(job[g].copy) \in Nat
      BY <2>2 DEF LengthIsNat
    <3>2. UNCHANGED credit \/ credit' = [credit EXCEPT ![job[g].stream] = @ + Length(job[g].copy)]
      BY <1>9, Zenon DEF Flush
    <3> QED
      BY <2>2, <3>1, <3>2 DEF InputOK
  <2>5. ControlOK'
    BY <1>9, StayControl DEF Flush, Steps, Resting
  <2> QED
    BY <1>9, <2>3, <2>4, <2>5 DEF Flush, WireOK, HeldOK, InputOK, held
<1>10. CASE Drop(g)
  <2>1. chunks' \in [Stream -> Seq(Item)]
    BY <1>0, <1>10 DEF Drop, HeldOK
  <2>2. ControlOK'
    BY <1>10, RestControl DEF Drop, Rest
  <2> QED
    BY <1>10, <2>1, <2>2 DEF Drop, WireOK, HeldOK, InputOK, wire, input
<1>11. CASE ReadFails(g)
  <2>1. /\ job' = [job EXCEPT ![g] = None]
        /\ pc[g] = "idle" /\ Goto(g, "ended")
    BY <1>11 DEF ReadFails, ControlOK, Resting
  <2>2. ControlOK'
    BY <2>1, RestControl
  <2>3. conn' \in [Side -> {"open", "stalled", "left", "closed"}]
    BY <1>11 DEF ReadFails, WireOK
  <2> QED
    BY <1>11, <2>2, <2>3 DEF ReadFails, WireOK, HeldOK, InputOK, held, input
<1> QED
  BY <1>1, <1>2, <1>3, <1>4, <1>5, <1>6, <1>7, <1>8, <1>9, <1>10, <1>11 DEF Process

\* The steps that only the goroutine reading the client makes.
LEMMA ClientTypeOK ==
  ASSUME TypeOK,
         \/ PageSettings \/ WritePage \/ GoAway
         \/ \E s \in Stream : TakeRequest(s)
  PROVE  TypeOK'
<1> USE TypeParts
<1>0. "client" \in Side
  BY DEF Side
<1>1. CASE PageSettings
  <2>1. ControlOK'
    <3>1. "page" \in Steps \ {"preface", "idle", "ended"} /\ ~Resting("client")
      BY <1>1 DEF PageSettings, Steps, PageSteps, Resting
    <3> QED
      BY <1>0, <1>1, <3>1, StayControl DEF PageSettings
  <2>2. settled' \in BOOLEAN /\ intact' \in BOOLEAN
    BY <1>1 DEF PageSettings, SendSettings, Garble, WireOK
  <2> QED
    BY <1>1, <2>1, <2>2 DEF PageSettings, WireOK, HeldOK, InputOK, held, input
<1>2. CASE WritePage
  <2>1. job["client"] \in Job /\ "client" \in Side
    BY <1>2 DEF WritePage, ControlOK, Resting, Side
  <2>2. got' \in [Side -> [Stream -> Seq(Frame)]] /\ intact' \in BOOLEAN
    BY <1>2, <2>1, SendType, ConstantsOK DEF WritePage, Job, ConstantsOK
  <2>3. ControlOK'
    <3>1. "goaway" \in Steps \ {"preface", "idle", "ended"} /\ ~Resting("client")
      BY <1>2 DEF WritePage, Steps, PageSteps, Resting
    <3> QED
      BY <1>2, <2>1, <3>1, StayControl DEF WritePage
  <2> QED
    BY <1>2, <2>2, <2>3 DEF WritePage, WireOK, HeldOK, InputOK, held, input
<1>3. CASE GoAway
  <2>1. ControlOK'
    BY <1>3, RestControl DEF GoAway, Goto, Side
  <2>2. conn' \in [Side -> {"open", "stalled", "left", "closed"}] /\ intact' \in BOOLEAN
    BY <1>3 DEF GoAway, Garble, WireOK
  <2> QED
    BY <1>3, <2>1, <2>2 DEF GoAway, WireOK, HeldOK, InputOK, held, input
<1>4. ASSUME NEW s \in Stream, TakeRequest(s) PROVE TypeOK'
  <2>1. PICK step \in {"settings", "keep"} : Take("client", s, "headers", Fields("client", s), step)
    BY <1>4 DEF TakeRequest
  <2>2. Incoming("client", s).items \in Seq(Item) /\ "client" \in Side
    BY <2>1, IncomingType DEF Take, InputOK, Side
  <2>3. Fields("client", s) \in Seq(Item)
    BY <2>2, ConcatProperties DEF HeldOK, Fields
  <2>4. step \in Steps \ {"preface", "idle", "ended"}
    BY DEF Steps, PageSteps
  <2>5. /\ ControlOK' /\ WireOK' /\ exchange' \in Exchanges /\ overtaken' \subseteq Stream
        /\ taken' \in [Side -> [Stream -> Nat]]
    BY <2>1, <2>2, <2>3, <2>4, TakeType
  <2>6. exchange[s].verdict \in {"block", "white", "none"}
    BY ConstantsOK DEF ConstantsOK, InputOK, Exchange
  <2>7. HeldOK'
    BY <1>4, <2>6 DEF TakeRequest, HeldOK
  <2> QED
    BY <1>4, <2>5, <2>7 DEF TakeRequest, InputOK
<1> QED
  BY <1>1, <1>2, <1>3, <1>4

\* Those that only the goroutine reading the server makes.
LEMMA ServerTypeOK ==
  ASSUME TypeOK,
         \/ TakeSettings \/ ForwardSettings \/ Replace \/ Clean
         \/ \E s \in Stream : TakeResponse(s)
  PROVE  TypeOK'
<1> USE TypeParts
<1>0. "server" \in Side /\ << >> \in Seq(Item)
  BY DEF Side
<1>1. CASE TakeSettings
  <2>1. ControlOK'
    BY <1>1 DEF TakeSettings, Goto, ControlOK, Resting, Steps, PageSteps, Side
  <2> QED
    BY <1>1, <2>1 DEF TakeSettings, WireOK, HeldOK, InputOK, held, input
<1>2. CASE ForwardSettings
  <2>1. ControlOK'
    <3>1. job' = [job EXCEPT !["server"] = None] /\ pc["server"] = "settings"
      BY <1>0, <1>2 DEF ForwardSettings, ControlOK, Resting
    <3> QED
      BY <1>0, <1>2, <3>1, RestControl DEF ForwardSettings
  <2>2. settled' \in BOOLEAN /\ intact' \in BOOLEAN
    BY <1>2 DEF ForwardSettings, SendSettings, Garble, WireOK
  <2> QED
    BY <1>2, <2>1, <2>2 DEF ForwardSettings, WireOK, HeldOK, InputOK, held, input
<1>3. CASE Replace
  <2>1. job["server"] \in Job /\ "client" \in Side
    BY <1>0, <1>3 DEF Replace, ControlOK, Resting, Side
  <2>2. got' \in [Side -> [Stream -> Seq(Frame)]] /\ intact' \in BOOLEAN
    BY <1>3, <2>1, SendType, ConstantsOK DEF Replace, Job, ConstantsOK
  <2>3. ControlOK'
    <3>1. "clean" \in Steps \ {"preface", "idle", "ended"} /\ ~Resting("server")
      BY <1>3 DEF Replace, Steps, Resting
    <3> QED
      BY <1>0, <1>3, <3>1, StayControl DEF Replace
  <2> QED
    BY <1>3, <2>2, <2>3 DEF Replace, WireOK, HeldOK, InputOK, held, input
<1>4. CASE Clean
  <2>1. ControlOK'
    BY <1>0, <1>4, RestControl DEF Clean, Rest
  <2>2. HeldOK'
    BY <1>0, <1>4 DEF Clean, HeldOK
  <2> QED
    BY <1>4, <2>1, <2>2 DEF Clean, WireOK, InputOK, wire, input
<1>5. ASSUME NEW s \in Stream, TakeResponse(s) PROVE TypeOK'
  <2>1. Take("server", s, "headers", Fields("server", s), "keep")
    BY <1>5 DEF TakeResponse
  <2>2. Incoming("server", s).items \in Seq(Item)
    BY <1>0, <2>1, IncomingType DEF Take, InputOK
  <2>3. Fields("server", s) \in Seq(Item)
    BY <2>2, ConcatProperties DEF HeldOK, Fields
  <2>4. "keep" \in Steps \ {"preface", "idle", "ended"}
    BY DEF Steps
  <2>5. /\ ControlOK' /\ WireOK' /\ exchange' \in Exchanges /\ overtaken' \subseteq Stream
        /\ taken' \in [Side -> [Stream -> Nat]]
    BY <1>0, <2>1, <2>3, <2>4, TakeType
  <2>6. HeldOK'
    BY <1>0, <1>5, <2>3 DEF TakeResponse, HeldOK
  <2> QED
    BY <1>5, <2>5, <2>6 DEF TakeResponse, InputOK
<1> QED
  BY <1>1, <1>2, <1>3, <1>4, <1>5

LEMMA StepTypeOK == ASSUME LengthIsNat PROVE TypeOK /\ [Next]_vars => TypeOK'
<1> SUFFICES ASSUME TypeOK, [Next]_vars PROVE TypeOK'
  OBVIOUS
<1> USE TypeParts
<1>1. CASE UNCHANGED vars
  BY <1>1 DEF vars, TypeOK, Resting
<1>2. CASE Preface \/ PrefaceFails
  <2>1. ControlOK'
    <3>1. PICK step \in {"idle", "ended"} : pc' = [side \in Side |-> step] /\ UNCHANGED job
      BY <1>2 DEF Preface, PrefaceFails
    <3>2. pc["client"] = "preface" /\ \A g \in Side : Resting(g)' /\ pc'[g] \in Steps
      BY <1>2, <3>1 DEF Preface, PrefaceFails, Resting, Steps
    <3>3. \A g \in Side : job[g] = None
      BY <1>2 DEF Preface, PrefaceFails, ControlOK, Resting, Side
    <3>4. pc'["client"] = "preface" <=> pc'["server"] = "preface"
      BY <3>1 DEF Side
    <3> QED
      BY <3>1, <3>2, <3>3, <3>4 DEF ControlOK
  <2> QED
    BY <1>2, <2>1 DEF Preface, PrefaceFails, WireOK, HeldOK, InputOK, wire, held, input
<1>3. CASE ClientLoop
  BY <1>3, ProcessTypeOK, ClientTypeOK DEF ClientLoop, Side
<1>4. CASE ServerLoop
  BY <1>4, ProcessTypeOK, ServerTypeOK DEF ServerLoop, Side
<1>5. ASSUME NEW side \in Side, Stall(side) \/ Leave(side) PROVE TypeOK'
  <2>1. conn' \in [Side -> {"open", "stalled", "left", "closed"}]
    BY <1>5 DEF Stall, Leave, WireOK
  <2> QED
    BY <1>5, <2>1 DEF Stall, Leave, ControlOK, Resting, WireOK, HeldOK, InputOK, held, input
<1> QED
  BY <1>1, <1>2, <1>3, <1>4, <1>5 DEF Next

\* Types hold for any streams, exchanges and pages: a goroutine has a frame
\* exactly while it is working on one.
THEOREM TypeCorrect == ASSUME LengthIsNat PROVE Spec => []TypeOK
BY InitTypeOK, StepTypeOK, PTL DEF Spec
-----------------------------------------------------------------------------
(* The end of a stream.                                                    *)

HasEnded(frames) == \E i \in 1..Len(frames) : frames[i].ended
HasHeaders(frames) == \E i \in 1..Len(frames) : frames[i].type = "headers"
InOrder(frames) ==
  \A i, j \in 1..Len(frames) : i < j /\ frames[i].ended => frames[j].type = "other"

\* A goroutine works on the frame it read last, as the frame's type says.
WorkOK(g) ==
  job[g] # None =>
    LET s == job[g].stream  frame == job[g].frame IN
      /\ taken[g][s] \in 1..Len(exchange[s][g])
      /\ frame = exchange[s][g][taken[g][s]]
      /\ pc[g] = "forward" <=> frame.type = "other"
      /\ pc[g] \in PageSteps \cup {"keep"} => frame.type = "headers"
      /\ pc[g] \in {"store", "decide", "replace", "clean"} => frame.type = "data"
      /\ pc[g] \in {"replace", "clean"} => g = "server" /\ frame.ended
      /\ pc[g] \in PageSteps <=>
           g = "client" /\ frame.type = "headers" /\ exchange[s].verdict = "block"

\* It has read the end of a stream.
Over(g, s) == \E i \in 1..taken[g][s] : exchange[s][g][i].ended

\* It has nothing more to write for the headers or data it works on.
Told(g, s) ==
  WorksOn(g, s) =>
    \/ pc[g] \in {"forward", "drop", "clean"}
    \/ pc[g] = "forget" /\ job[g].copy = << >>

\* What the other side of g got ended only when g had nothing more to write.
EndsOnce(g, s) ==
  /\ InOrder(got[Other(g)][s])
  /\ HasEnded(got[Other(g)][s]) => Over(g, s) /\ Told(g, s)

\* A blocked request is not passed on; the client gets the page, once.
Blocks(s) ==
  /\ taken["server"][s] = 0
  /\ headers[s] = << >>
  /\ ~HasHeaders(got["server"][s])
  /\ got["client"][s] # << >> => got["client"][s] = Page /\ pc["client"] \in {"goaway", "ended"}

EndInv ==
  /\ \A g \in Side : WorkOK(g)
  /\ \A s \in Stream :
       /\ EndsOnce("client", s)
       /\ IF exchange[s].verdict = "block" THEN Blocks(s) ELSE EndsOnce("server", s)

\* A goroutine that is not resting has a frame.
LEMMA Busy ==
  ASSUME TypeOK, NEW g \in Side, ~Resting(g)
  PROVE  job[g] # None /\ job[g] \in Job /\ job[g].stream \in Stream
BY DEF TypeOK, Job

\* What becomes of an order when frames are added.
LEMMA OrderGrows ==
  ASSUME NEW w \in Seq(Frame), NEW more \in Seq(Frame), InOrder(w), InOrder(more),
         HasEnded(w) => \A j \in 1..Len(more) : more[j].type = "other"
  PROVE  /\ InOrder(w \o more)
         /\ HasEnded(w \o more) => HasEnded(w) \/ HasEnded(more)
         /\ HasHeaders(w \o more) => HasHeaders(w) \/ HasHeaders(more)
<1>1. PICK v : v = w \o more
  OBVIOUS
<1>2. PICK n \in Nat : n = Len(w)
  OBVIOUS
<1>3. PICK k \in Nat : k = Len(more)
  OBVIOUS
<1>4. /\ Len(v) = n + k
      /\ \A i \in 1..(n + k) : v[i] = IF i <= n THEN w[i] ELSE more[i - n]
  BY <1>1, <1>2, <1>3, ConcatProperties
<1>5. ASSUME NEW i \in 1..Len(v)
      PROVE  \/ i \in 1..n /\ v[i] = w[i]
             \/ i > n /\ i - n \in 1..k /\ v[i] = more[i - n]
  <2>1. i \in 1..(n + k)
    BY <1>4
  <2>2. CASE i <= n
    BY <1>4, <2>1, <2>2
  <2>3. CASE ~(i <= n)
    BY <1>4, <2>1, <2>3
  <2> QED
    BY <2>2, <2>3
<1>6. ASSUME NEW i \in 1..Len(v), NEW j \in 1..Len(v), i < j, v[i].ended
      PROVE  v[j].type = "other"
  <2>1. CASE j \in 1..n /\ v[j] = w[j]
    <3>1. i \in 1..n /\ v[i] = w[i]
      BY <1>5, <1>6, <2>1
    <3> QED
      BY <1>2, <1>6, <2>1, <3>1 DEF InOrder
  <2>2. CASE j > n /\ j - n \in 1..k /\ v[j] = more[j - n]
    <3>1. CASE i \in 1..n /\ v[i] = w[i]
      <4>1. HasEnded(w)
        BY <1>2, <1>6, <3>1 DEF HasEnded
      <4> QED
        BY <1>3, <2>2, <4>1
    <3>2. CASE i > n /\ i - n \in 1..k /\ v[i] = more[i - n]
      <4>1. i - n < j - n
        BY <1>6, <2>2, <3>2
      <4> QED
        BY <1>3, <1>6, <2>2, <3>2, <4>1 DEF InOrder
    <3> QED
      BY <1>5, <3>1, <3>2
  <2> QED
    BY <1>5, <2>1, <2>2
<1>7. HasEnded(v) => HasEnded(w) \/ HasEnded(more)
  <2> SUFFICES ASSUME NEW i \in 1..Len(v), v[i].ended PROVE HasEnded(w) \/ HasEnded(more)
    BY DEF HasEnded
  <2> QED
    BY <1>2, <1>3, <1>5 DEF HasEnded
<1>8. HasHeaders(v) => HasHeaders(w) \/ HasHeaders(more)
  <2> SUFFICES ASSUME NEW i \in 1..Len(v), v[i].type = "headers"
               PROVE  HasHeaders(w) \/ HasHeaders(more)
    BY DEF HasHeaders
  <2> QED
    BY <1>2, <1>3, <1>5 DEF HasHeaders
<1>9. InOrder(v)
  BY <1>6 DEF InOrder
<1> QED
  BY <1>1, <1>7, <1>8, <1>9

\* One frame.
LEMMA OneFrame ==
  ASSUME NEW x \in Frame
  PROVE  /\ <<x>> \in Seq(Frame) /\ InOrder(<<x>>)
         /\ HasEnded(<<x>>) => x.ended
         /\ HasHeaders(<<x>>) => x.type = "headers"
<1>1. <<x>> \in Seq(Frame) /\ Len(<<x>>) = 1 /\ <<x>>[1] = x
  OBVIOUS
<1>2. \A i \in 1..Len(<<x>>) : i = 1
  BY <1>1
<1>3. InOrder(<<x>>)
  BY <1>2 DEF InOrder
<1> QED
  BY <1>1, <1>2, <1>3 DEF HasEnded, HasHeaders

\* A body, and a page.
LEMMA BodyInOrder ==
  ASSUME NEW parts \in Seq(Item), NEW ended \in BOOLEAN
  PROVE  /\ InOrder(DataFrames(parts, ended))
         /\ HasEnded(DataFrames(parts, ended)) => ended
         /\ ~HasHeaders(DataFrames(parts, ended))
<1>1. PICK v : v = DataFrames(parts, ended)
  OBVIOUS
<1>2. PICK k \in Nat : k = Len(parts)
  OBVIOUS
<1>3. v = [i \in 1..k |-> [type |-> "data", items |-> <<parts[i]>>, ended |-> ended /\ i = k]]
  BY <1>1, <1>2 DEF DataFrames
<1>4. v \in Seq(Frame)
  BY <1>1, DataFramesType
<1>5. Len(v) = k
  BY <1>3, <1>4
<1>6. \A i \in 1..Len(v) : v[i].type = "data" /\ (v[i].ended => ended /\ i = k)
  BY <1>3, <1>5
<1>7. InOrder(v)
  BY <1>5, <1>6 DEF InOrder
<1>8. (HasEnded(v) => ended) /\ ~HasHeaders(v)
  BY <1>6 DEF HasEnded, HasHeaders
<1> QED
  BY <1>1, <1>7, <1>8

LEMMA PageInOrder == Page \in Seq(Frame) /\ InOrder(Page)
<1>1. Page \in Seq(Frame) /\ \A i \in 1..Len(Page) : Page[i].ended => i = Len(Page)
  BY ConstantsOK DEF ConstantsOK
<1>2. Len(Page) \in Nat
  BY <1>1
<1>3. ASSUME NEW i \in 1..Len(Page), NEW j \in 1..Len(Page), i < j, Page[i].ended PROVE FALSE
  BY <1>1, <1>2, <1>3
<1> QED
  BY <1>1, <1>3 DEF InOrder

\* Writing on one stream leaves the others alone.
OnlyOn(to, s) == \A h \in Side : \A r \in Stream : (h = to /\ r = s) \/ got'[h][r] = got[h][r]

LEMMA SendEnds ==
  ASSUME TypeOK, NEW to \in Side, NEW s \in Stream, NEW more \in Seq(Frame), Send(to, s, more),
         InOrder(got[to][s]), InOrder(more),
         HasEnded(got[to][s]) => \A j \in 1..Len(more) : more[j].type = "other"
  PROVE  /\ OnlyOn(to, s)
         /\ InOrder(got'[to][s])
         /\ HasEnded(got'[to][s]) => HasEnded(got[to][s]) \/ HasEnded(more)
         /\ HasHeaders(got'[to][s]) => HasHeaders(got[to][s]) \/ HasHeaders(more)
         /\ got'[to][s] = got[to][s] \/ got'[to][s] = got[to][s] \o more
<1> USE DEF TypeOK
<1>1. CASE UNCHANGED got
  BY <1>1 DEF OnlyOn
<1>2. CASE got' = [got EXCEPT ![to][s] = @ \o more]
  <2>1. got[to][s] \in Seq(Frame)
    OBVIOUS
  <2>2. got'[to][s] = got[to][s] \o more /\ OnlyOn(to, s)
    BY <1>2 DEF OnlyOn
  <2> QED
    BY <2>1, <2>2, OrderGrows
<1> QED
  BY <1>1, <1>2 DEF Send

\* A step in which goroutine g works on stream s.
Moves(g, s) ==
  /\ s \in Stream /\ WorksOn(g, s)
  /\ exchange' = exchange /\ taken' = taken /\ userData' = userData
  /\ overtaken' = overtaken
  /\ \A h \in Side \ {g} : pc'[h] = pc[h] /\ job'[h] = job[h]
  /\ pc[g] \notin PageSteps \cup {"preface", "idle", "ended"}
  /\ \/ job'[g] = None
     \/ /\ job'[g] # None /\ job'[g].stream = s
        /\ job'[g].frame = job[g].frame /\ job'[g].white = job[g].white
  /\ \A r \in Stream \ {s} :
       /\ headers'[r] = headers[r] /\ chunks'[r] = chunks[r]
       /\ response'[r] = response[r] /\ body'[r] = body[r]

LEMMA WorkMoves ==
  ASSUME TypeOK, NEW g \in Side,
         \/ Forward(g) \/ Keep(g) \/ Store(g) \/ Decide(g)
         \/ Write(g) \/ Forget(g) \/ Flush(g) \/ Drop(g)
         \/ g = "server" /\ (Replace \/ Clean)
  PROVE  Moves(g, job[g].stream)
<1> DEFINE s == job[g].stream
<1>1. /\ ~Resting(g) /\ pc[g] \notin PageSteps \cup {"preface", "idle", "ended"}
      /\ pc \in [Side -> Steps] /\ job \in [Side -> Job \cup {None}]
  BY DEF TypeOK, Resting, PageSteps, Forward, Keep, Store, Decide, Write, Forget, Flush, Drop,
         Replace, Clean
<1>2. job[g] # None /\ job[g] \in Job /\ s \in Stream /\ WorksOn(g, s)
  BY <1>1, Busy DEF WorksOn
<1>3. /\ exchange' = exchange /\ taken' = taken /\ userData' = userData
      /\ overtaken' = overtaken
      /\ \A h \in Side \ {g} : pc'[h] = pc[h]
  BY <1>1 DEF Forward, Keep, Store, Decide, DecideResponse, Write, Forget, Flush, Drop,
         Replace, Clean, input, held, Goto, Rest
<1>4. \A r \in Stream \ {s} :
        /\ headers'[r] = headers[r] /\ chunks'[r] = chunks[r]
        /\ response'[r] = response[r] /\ body'[r] = body[r]
  <2>1. CASE Decide(g)
    <3>1. g = "server" \/ UNCHANGED body
      BY <2>1 DEF Decide
    <3> QED
      BY <1>2, <2>1, <3>1 DEF TypeOK, Decide, DecideResponse
  <2>2. CASE Forward(g) \/ Write(g) \/ Flush(g) \/ Replace
    BY <2>2 DEF Forward, Write, Flush, Replace, held
  <2>3. CASE Keep(g) \/ Store(g) \/ Forget(g) \/ Drop(g)
    BY <2>3 DEF TypeOK, Keep, Store, Forget, Drop
  <2>4. CASE g = "server" /\ Clean
    BY <2>4 DEF TypeOK, Clean
  <2> QED
    BY <2>1, <2>2, <2>3, <2>4
<1>5. \/ job' = [job EXCEPT ![g] = None]
      \/ job' = job
      \/ job' = [job EXCEPT ![g].copy = chunks[s]]
  BY DEF Forward, Keep, Store, Decide, DecideResponse, Write, Forget, Flush, Drop,
         Replace, Clean, Rest
<1>6. /\ \A h \in Side \ {g} : job'[h] = job[h]
      /\ \/ job'[g] = None
         \/ /\ job'[g] # None /\ job'[g].stream = s
            /\ job'[g].frame = job[g].frame /\ job'[g].white = job[g].white
  <2>1. CASE job' = [job EXCEPT ![g] = None]
    BY <1>1, <2>1
  <2>2. CASE job' = job
    BY <1>2, <2>2
  <2>3. CASE job' = [job EXCEPT ![g].copy = chunks[s]]
    <3>1. job'[g] = [job[g] EXCEPT !.copy = chunks[s]] /\ \A h \in Side \ {g} : job'[h] = job[h]
      BY <1>1, <2>3
    <3>2. chunks[s] \in Seq(Item)
      BY <1>2 DEF TypeOK
    <3>3. job'[g] \in Job
      BY <1>2, <3>1, <3>2 DEF Job
    <3> QED
      BY <1>2, <3>1, <3>3, NoneOK DEF Job
  <2> QED
    BY <1>5, <2>1, <2>2, <2>3
<1> QED
  BY <1>1, <1>2, <1>3, <1>4, <1>6 DEF Moves

\* What holds at such a step.
LEMMA MoveFacts ==
  ASSUME TypeOK, EndInv, NEW g \in Side, NEW s, Moves(g, s)
  PROVE  /\ s \in Stream /\ s = job[g].stream /\ job[g] # None /\ job[g] \in Job
         /\ job[g].frame \in Frame /\ job[g].copy \in Seq(Item)
         /\ taken[g][s] \in Nat \ {0} /\ taken[g][s] \in 1..Len(exchange[s][g])
         /\ job[g].frame = exchange[s][g][taken[g][s]]
         /\ job[g].frame.ended \in BOOLEAN
         /\ job[g].frame.ended => Over(g, s)
         /\ got[Other(g)][s] \in Seq(Frame)
         /\ EndsOnce(g, s)
         /\ exchange[s].verdict = "block" =>
              g = "client" /\ Blocks(s) /\ job[g].frame.type # "headers"
<1>1. s \in Stream /\ s = job[g].stream /\ job[g] # None /\ job[g] \in Job
  BY DEF Moves, WorksOn, TypeOK
<1>2. job[g].frame \in Frame /\ job[g].copy \in Seq(Item) /\ job[g].frame.ended \in BOOLEAN
  BY <1>1 DEF Job, Frame
<1>3. WorkOK(g)
  BY DEF EndInv
<1>4. taken[g][s] \in 1..Len(exchange[s][g]) /\ job[g].frame = exchange[s][g][taken[g][s]]
  BY <1>1, <1>3 DEF WorkOK
<1>5. taken[g][s] \in Nat /\ taken[g][s] # 0
  <2>1. taken[g][s] \in Nat
    BY <1>1 DEF TypeOK
  <2>2. \A i \in 1..Len(exchange[s][g]) : i # 0
    OBVIOUS
  <2> QED
    BY <1>4, <2>1, <2>2
<1>6. job[g].frame.ended => Over(g, s)
  <2>1. taken[g][s] \in 1..taken[g][s]
    BY <1>5
  <2> QED
    BY <1>4, <2>1 DEF Over
<1>7. got[Other(g)][s] \in Seq(Frame)
  <2>1. Other(g) \in Side
    BY DEF Other, Side
  <2> QED
    BY <1>1, <2>1 DEF TypeOK
<1>8. exchange[s].verdict = "block" => Blocks(s)
  BY <1>1 DEF EndInv
<1>9. exchange[s].verdict = "block" => g = "client"
  <2> SUFFICES ASSUME exchange[s].verdict = "block", g # "client" PROVE FALSE
    OBVIOUS
  <2>1. g = "server"
    BY DEF Side
  <2>2. taken["server"][s] = 0
    BY <1>8 DEF Blocks
  <2> QED
    BY <1>5, <2>1, <2>2
<1>10. EndsOnce(g, s)
  BY <1>1, <1>9 DEF EndInv, Side
<1>11. exchange[s].verdict = "block" => job[g].frame.type # "headers"
  BY <1>1, <1>3, <1>9 DEF WorkOK, Moves
<1> QED
  BY <1>1, <1>2, <1>4, <1>5, <1>6, <1>7, <1>8, <1>9, <1>10, <1>11

\* It does not concern other streams, nor the other goroutine.
LEMMA EndsElsewhere ==
  ASSUME TypeOK, NEW g \in Side, NEW s, Moves(g, s), OnlyOn(Other(g), s),
         NEW h \in Side, NEW r \in Stream, h # g \/ r # s, EndsOnce(h, r)
  PROVE  EndsOnce(h, r)'
<1>1. Other(h) \in Side /\ (h # g => Other(h) # Other(g))
  BY DEF Other, Side
<1>2. got'[Other(h)][r] = got[Other(h)][r]
  BY <1>1 DEF OnlyOn
<1>3. Over(h, r)' <=> Over(h, r)
  BY DEF Over, Moves
<1>4. Told(h, r) => Told(h, r)'
  BY DEF Told, Moves, WorksOn
<1> QED
  BY <1>2, <1>3, <1>4 DEF EndsOnce, InOrder, HasEnded

\* What is to be shown of it.
LEMMA MoveEnds ==
  ASSUME TypeOK, EndInv, NEW g \in Side, NEW s, Moves(g, s), OnlyOn(Other(g), s),
         WorkOK(g)', EndsOnce(g, s)',
         exchange[s].verdict = "block" => headers'[s] = << >> /\ ~HasHeaders(got'["server"][s])
  PROVE  EndInv'
<1>1. ASSUME NEW h \in Side PROVE WorkOK(h)'
  <2>1. CASE h = g
    BY <2>1
  <2>2. CASE h # g
    <3>1. WorkOK(h)
      BY DEF EndInv
    <3> QED
      BY <2>2, <3>1 DEF WorkOK, Moves
  <2> QED
    BY <2>1, <2>2
<1>2. ASSUME NEW r \in Stream PROVE EndsOnce("client", r)'
  <2>1. "client" \in Side /\ EndsOnce("client", r)
    BY DEF EndInv, Side
  <2> QED
    BY <2>1, EndsElsewhere
<1>3. ASSUME NEW r \in Stream, exchange[r].verdict # "block" PROVE EndsOnce("server", r)'
  <2>1. "server" \in Side /\ EndsOnce("server", r)
    BY <1>3 DEF EndInv, Side
  <2> QED
    BY <2>1, EndsElsewhere
<1>4. ASSUME NEW r \in Stream, exchange[r].verdict = "block" PROVE Blocks(r)'
  <2>1. Blocks(r)
    BY <1>4 DEF EndInv
  <2>2. r = s => g = "client"
    BY <1>4, MoveFacts
  <2>3. got'["client"][r] = got["client"][r]
    <3>1. "client" \in Side /\ ~("client" = Other(g) /\ r = s)
      BY <2>2 DEF Side, Other
    <3> QED
      BY <3>1 DEF OnlyOn
  <2>4. headers'[r] = << >> /\ ~HasHeaders(got'["server"][r])
    <3>1. CASE r = s
      BY <1>4, <3>1
    <3>2. CASE r # s
      <4>1. got'["server"][r] = got["server"][r] /\ headers'[r] = headers[r]
        BY <3>2 DEF OnlyOn, Side, Moves
      <4> QED
        BY <2>1, <4>1 DEF Blocks
    <3> QED
      BY <3>1, <3>2
  <2>5. pc["client"] \in {"goaway", "ended"} => pc'["client"] \in {"goaway", "ended"}
    BY DEF Moves, Side, PageSteps
  <2>6. taken'["server"][r] = 0
    BY <2>1 DEF Blocks, Moves
  <2> QED
    BY <2>1, <2>3, <2>4, <2>5, <2>6 DEF Blocks
<1>5. \A r \in Stream : exchange'[r] = exchange[r]
  BY DEF Moves
<1> QED
  BY <1>1, <1>2, <1>3, <1>4, <1>5 DEF EndInv

\* It goes on with its frame.
LEMMA WorkStays ==
  ASSUME TypeOK, EndInv, NEW g \in Side, NEW s, Moves(g, s), pc[g] # "forward",
         \/ job'[g] = None
         \/ /\ pc'[g] \notin PageSteps \cup {"forward", "keep", "store"}
            /\ pc'[g] \in {"decide", "replace", "clean"} => job[g].frame.type = "data"
            /\ pc'[g] \in {"replace", "clean"} => g = "server" /\ job[g].frame.ended
  PROVE  WorkOK(g)'
<1>1. WorkOK(g)
  BY DEF EndInv
<1>2. job[g] # None /\ s = job[g].stream
  BY DEF Moves, WorksOn
<1>3. /\ pc[g] \notin PageSteps
      /\ exchange' = exchange /\ taken' = taken
      /\ job'[g] # None => job'[g].stream = s /\ job'[g].frame = job[g].frame
  BY DEF Moves
<1> QED
  BY <1>1, <1>2, <1>3 DEF WorkOK

\* Steps that write nothing: those that store and decide come before any
\* end is written, the others when there is nothing more to write.
LEMMA QuietEnds ==
  ASSUME TypeOK, EndInv, NEW g \in Side,
         Keep(g) \/ Store(g) \/ Decide(g) \/ Forget(g) \/ Drop(g) \/ (g = "server" /\ Clean)
  PROVE  EndInv'
<1>1. PICK s : s = job[g].stream
  OBVIOUS
<1>2. Moves(g, s)
  BY <1>1, WorkMoves
<1>3. s \in Stream /\ job[g] # None /\ WorkOK(g) /\ EndsOnce(g, s)
  BY <1>2, MoveFacts DEF EndInv
<1>4. UNCHANGED got
  BY DEF Keep, Store, Decide, Forget, Drop, Clean, wire
<1>5. OnlyOn(Other(g), s)
  BY <1>4 DEF OnlyOn
<1>6. WorkOK(g)'
  <2>1. pc[g] # "forward" /\ pc[g] \in Steps /\ pc \in [Side -> Steps] /\ job \in [Side -> Job \cup {None}]
    BY DEF Keep, Store, Decide, Forget, Drop, Clean, TypeOK
  <2>2. \/ job'[g] = None
        \/ Keep(g) /\ pc'[g] = "write"
        \/ Store(g) /\ pc'[g] = "decide"
        \/ Decide(g) /\ pc'[g] \in {"write", "replace"}
        \/ Forget(g) /\ pc'[g] = "flush"
    BY <2>1 DEF Keep, Store, Decide, DecideResponse, Forget, Drop, Clean, Goto, Rest
  <2>3. Store(g) => job[g].frame.type = "data"
    BY <1>3 DEF Store, WorkOK
  <2>4. Decide(g) /\ pc'[g] = "replace" =>
          job[g].frame.type = "data" /\ g = "server" /\ job[g].frame.ended
    BY <1>3, <2>1 DEF Decide, DecideResponse, WorkOK, Goto, Rest
  <2>5. \/ job'[g] = None
        \/ /\ pc'[g] \notin PageSteps \cup {"forward", "keep", "store"}
           /\ pc'[g] \in {"decide", "replace", "clean"} => job[g].frame.type = "data"
           /\ pc'[g] \in {"replace", "clean"} => g = "server" /\ job[g].frame.ended
    BY <2>2, <2>3, <2>4 DEF PageSteps
  <2> QED
    BY <1>2, <2>1, <2>5, WorkStays
<1>7. EndsOnce(g, s)'
  <2>1. Over(g, s)' <=> Over(g, s)
    BY <1>2 DEF Over, Moves
  <2>2. Told(g, s) => Told(g, s)'
    <3> SUFFICES ASSUME Told(g, s), ~(job'[g] = None) PROVE FALSE
      BY DEF Told, WorksOn
    <3>1. pc[g] \in {"forward", "drop", "clean"} \/ (pc[g] = "forget" /\ job[g].copy = << >>)
      BY <1>2 DEF Told, Moves
    <3>2. job \in [Side -> Job \cup {None}]
      BY DEF TypeOK
    <3> QED
      BY <3>1, <3>2 DEF Keep, Store, Decide, Forget, Drop, Clean, Rest
  <2> QED
    BY <1>3, <1>4, <2>1, <2>2 DEF EndsOnce, InOrder, HasEnded
<1>8. exchange[s].verdict = "block" => headers'[s] = << >> /\ ~HasHeaders(got'["server"][s])
  <2> SUFFICES ASSUME exchange[s].verdict = "block"
               PROVE  headers'[s] = << >> /\ ~HasHeaders(got'["server"][s])
    OBVIOUS
  <2>1. Blocks(s) /\ job[g].frame.type # "headers"
    BY <1>2, MoveFacts
  <2>2. ~Keep(g)
    BY <1>3, <2>1 DEF WorkOK, Keep
  <2>3. headers'[s] = headers[s] \/ headers'[s] = << >>
    BY <1>3, <2>2 DEF Store, Decide, Forget, Drop, Clean, TypeOK
  <2> QED
    BY <1>4, <2>1, <2>3 DEF Blocks
<1> QED
  BY <1>2, <1>5, <1>6, <1>7, <1>8, MoveEnds

\* A frame of another type is passed on.
LEMMA ForwardEnds ==
  ASSUME TypeOK, EndInv, NEW g \in Side, Forward(g)
  PROVE  EndInv'
<1>1. PICK s : s = job[g].stream
  OBVIOUS
<1>2. Moves(g, s)
  BY <1>1, WorkMoves
<1>3. PICK x : x = job[g].frame
  OBVIOUS
<1>4. s \in Stream /\ x \in Frame /\ x.type = "other" /\ EndsOnce(g, s) /\ (x.ended => Over(g, s))
  <2>1. WorkOK(g) /\ job[g] # None
    BY <1>2, MoveFacts DEF EndInv
  <2>2. x.type = "other"
    BY <1>3, <2>1 DEF WorkOK, Forward
  <2> QED
    BY <1>2, <1>3, <2>2, MoveFacts
<1>5. Send(Other(g), s, <<x>>) /\ job'[g] = None
  BY <1>1, <1>3 DEF Forward, Rest, TypeOK
<1>6. /\ OnlyOn(Other(g), s)
      /\ InOrder(got'[Other(g)][s])
      /\ HasEnded(got'[Other(g)][s]) => HasEnded(got[Other(g)][s]) \/ HasEnded(<<x>>)
      /\ HasHeaders(got'[Other(g)][s]) => HasHeaders(got[Other(g)][s]) \/ HasHeaders(<<x>>)
  <2>1. Other(g) \in Side
    BY DEF Other, Side
  <2>2. \A j \in 1..Len(<<x>>) : <<x>>[j].type = "other"
    BY <1>4
  <2> QED
    BY <1>4, <1>5, <2>1, <2>2, SendEnds, OneFrame DEF EndsOnce
<1>7. EndsOnce(g, s)'
  <2>1. Over(g, s)' <=> Over(g, s)
    BY <1>2 DEF Over, Moves
  <2>2. Told(g, s)'
    BY <1>5 DEF Told, WorksOn
  <2>3. HasEnded(got'[Other(g)][s]) => Over(g, s)
    BY <1>4, <1>6, OneFrame DEF EndsOnce
  <2> QED
    BY <1>6, <2>1, <2>2, <2>3 DEF EndsOnce, InOrder, HasEnded
<1>8. exchange[s].verdict = "block" => headers'[s] = << >> /\ ~HasHeaders(got'["server"][s])
  <2>1. exchange[s].verdict = "block" => Other(g) = "server" /\ Blocks(s)
    BY <1>2, MoveFacts DEF Other
  <2>2. ~HasHeaders(<<x>>) /\ headers' = headers
    BY <1>4, OneFrame DEF Forward, held
  <2> QED
    BY <1>6, <2>1, <2>2 DEF Blocks
<1>9. WorkOK(g)'
  BY <1>5 DEF WorkOK
<1> QED
  BY <1>2, <1>6, <1>7, <1>8, <1>9, MoveEnds

\* Headers are written, with the end if nothing follows them.
LEMMA WriteEnds ==
  ASSUME TypeOK, EndInv, NEW g \in Side, Write(g)
  PROVE  EndInv'
<1>1. PICK s : s = job[g].stream
  OBVIOUS
<1>2. Moves(g, s)
  BY <1>1, WorkMoves
<1>3. PICK x : x = [type |-> "headers", items |-> headers[s],
                    ended |-> chunks[s] = << >> /\ job[g].frame.ended]
  OBVIOUS
<1>4. /\ s \in Stream /\ job[g] \in Job /\ EndsOnce(g, s)
      /\ job[g].frame.ended \in BOOLEAN
      /\ job[g].frame.ended => Over(g, s)
  BY <1>2, MoveFacts
<1>5. x \in Frame
  <2>1. headers[s] \in Seq(Item)
    BY <1>4 DEF TypeOK
  <2>2. (chunks[s] = << >> /\ job[g].frame.ended) \in BOOLEAN
    BY <1>4
  <2> QED
    BY <1>3, <2>1, <2>2 DEF Frame
<1>6. ~HasEnded(got[Other(g)][s])
  <2>1. ~Told(g, s)
    BY <1>2 DEF Told, Moves, Write
  <2> QED
    BY <1>4, <2>1 DEF EndsOnce
<1>7. /\ OnlyOn(Other(g), s)
      /\ InOrder(got'[Other(g)][s])
      /\ HasEnded(got'[Other(g)][s]) => headers[s] # << >> /\ HasEnded(<<x>>)
      /\ HasHeaders(got'[Other(g)][s]) => HasHeaders(got[Other(g)][s]) \/ headers[s] # << >>
  <2>1. CASE headers[s] = << >>
    <3>1. UNCHANGED got
      BY <1>1, <2>1 DEF Write
    <3> QED
      BY <1>4, <1>6, <3>1 DEF OnlyOn, EndsOnce
  <2>2. CASE headers[s] # << >>
    <3>1. Send(Other(g), s, <<x>>) /\ Other(g) \in Side
      BY <1>1, <1>3, <2>2 DEF Write, Other, Side
    <3> QED
      BY <1>4, <1>5, <1>6, <2>2, <3>1, SendEnds, OneFrame DEF EndsOnce
  <2> QED
    BY <2>1, <2>2
<1>8. /\ pc'[g] \in {"idle", "flush", "forget"}
      /\ headers[s] # << >> => pc'[g] = "forget" /\ job'[g] = [job[g] EXCEPT !.copy = chunks[s]]
      /\ pc'[g] = "idle" => job'[g] = None
  BY <1>1 DEF Write, Goto, Rest, TypeOK
<1>9. WorkOK(g)'
  <2>1. pc[g] # "forward" /\ (pc'[g] # "idle" => pc'[g] \notin PageSteps \cup {"forward", "keep", "store"})
    BY <1>8 DEF Write, PageSteps
  <2> QED
    BY <1>2, <1>8, <2>1, WorkStays
<1>10. EndsOnce(g, s)'
  <2>1. Over(g, s)' <=> Over(g, s)
    BY <1>2 DEF Over, Moves
  <2>2. HasEnded(got'[Other(g)][s]) => chunks[s] = << >> /\ Over(g, s)
    BY <1>3, <1>4, <1>5, <1>7, OneFrame
  <2>3. HasEnded(got'[Other(g)][s]) => Told(g, s)'
    <3> SUFFICES ASSUME HasEnded(got'[Other(g)][s]) PROVE pc'[g] = "forget" /\ job'[g].copy = << >>
      BY DEF Told
    <3>1. job'[g] = [job[g] EXCEPT !.copy = chunks[s]] /\ pc'[g] = "forget"
      BY <1>7, <1>8
    <3> QED
      BY <1>4, <2>2, <3>1 DEF Job
  <2> QED
    BY <1>7, <2>1, <2>2, <2>3 DEF EndsOnce, InOrder, HasEnded
<1>11. exchange[s].verdict = "block" => headers'[s] = << >> /\ ~HasHeaders(got'["server"][s])
  <2>1. exchange[s].verdict = "block" => Other(g) = "server" /\ Blocks(s)
    BY <1>2, MoveFacts DEF Other
  <2>2. headers' = headers
    BY DEF Write, held
  <2> QED
    BY <1>7, <2>1, <2>2 DEF Blocks
<1> QED
  BY <1>2, <1>7, <1>9, <1>10, <1>11, MoveEnds

\* A body is written, with the end at its last chunk.
LEMMA FlushEnds ==
  ASSUME TypeOK, EndInv, NEW g \in Side, Flush(g)
  PROVE  EndInv'
<1>1. PICK s : s = job[g].stream
  OBVIOUS
<1>2. Moves(g, s)
  BY <1>1, WorkMoves
<1>3. PICK more : more = DataFrames(job[g].copy, job[g].frame.ended)
  OBVIOUS
<1>4. /\ s \in Stream /\ EndsOnce(g, s) /\ job[g].copy \in Seq(Item)
      /\ job[g].frame.ended \in BOOLEAN
      /\ job[g].frame.ended => Over(g, s)
  BY <1>2, MoveFacts
<1>5. /\ more \in Seq(Frame) /\ InOrder(more)
      /\ HasEnded(more) => Over(g, s)
      /\ ~HasHeaders(more)
  <2>1. PICK ended \in BOOLEAN : ended = job[g].frame.ended
    BY <1>4
  <2>2. PICK parts \in Seq(Item) : parts = job[g].copy
    BY <1>4
  <2>3. /\ DataFrames(parts, ended) \in Seq(Frame) /\ InOrder(DataFrames(parts, ended))
        /\ HasEnded(DataFrames(parts, ended)) => ended
        /\ ~HasHeaders(DataFrames(parts, ended))
    BY DataFramesType, BodyInOrder
  <2> QED
    BY <1>3, <1>4, <2>1, <2>2, <2>3
<1>6. ~HasEnded(got[Other(g)][s])
  <2>1. ~Told(g, s)
    BY <1>2 DEF Told, Moves, Flush
  <2> QED
    BY <1>4, <2>1 DEF EndsOnce
<1>7. /\ OnlyOn(Other(g), s)
      /\ InOrder(got'[Other(g)][s])
      /\ HasEnded(got'[Other(g)][s]) => HasEnded(more)
      /\ HasHeaders(got'[Other(g)][s]) => HasHeaders(got[Other(g)][s])
  <2>1. Send(Other(g), s, more) /\ Other(g) \in Side
    BY <1>1, <1>3 DEF Flush, Other, Side
  <2> QED
    BY <1>4, <1>5, <1>6, <2>1, SendEnds DEF EndsOnce
<1>8. pc'[g] = "drop"
  BY DEF Flush, Goto, TypeOK
<1>9. WorkOK(g)'
  <2>1. pc[g] # "forward"
    BY DEF Flush
  <2>2. pc'[g] \notin PageSteps \cup {"forward", "keep", "store"}
    BY <1>8 DEF PageSteps
  <2> QED
    BY <1>2, <1>8, <2>1, <2>2, WorkStays
<1>10. EndsOnce(g, s)'
  <2>1. Over(g, s)' <=> Over(g, s)
    BY <1>2 DEF Over, Moves
  <2>2. Told(g, s)'
    BY <1>8 DEF Told
  <2> QED
    BY <1>5, <1>7, <2>1, <2>2 DEF EndsOnce, InOrder, HasEnded
<1>11. exchange[s].verdict = "block" => headers'[s] = << >> /\ ~HasHeaders(got'["server"][s])
  <2>1. exchange[s].verdict = "block" => Other(g) = "server" /\ Blocks(s)
    BY <1>2, MoveFacts DEF Other
  <2>2. headers' = headers
    BY DEF Flush, held
  <2> QED
    BY <1>7, <2>1, <2>2 DEF Blocks
<1> QED
  BY <1>2, <1>7, <1>9, <1>10, <1>11, MoveEnds

\* A page replaces a response that has ended.
LEMMA ReplaceEnds ==
  ASSUME TypeOK, EndInv, Replace
  PROVE  EndInv'
<1>0. "server" \in Side /\ "client" \in Side /\ Other("server") = "client"
  BY DEF Side, Other
<1>1. PICK s : s = job["server"].stream
  OBVIOUS
<1>2. Moves("server", s)
  BY <1>0, <1>1, WorkMoves
<1>3. /\ s \in Stream /\ EndsOnce("server", s) /\ exchange[s].verdict # "block"
      /\ job["server"] # None /\ WorkOK("server")
      /\ job["server"].frame.ended => Over("server", s)
  BY <1>0, <1>2, MoveFacts DEF EndInv
<1>4. Over("server", s) /\ job["server"].frame.type = "data" /\ job["server"].frame.ended
  BY <1>3 DEF WorkOK, Replace
<1>5. ~HasEnded(got["client"][s])
  <2>1. ~Told("server", s)
    BY <1>2 DEF Told, Moves, Replace
  <2> QED
    BY <1>0, <1>3, <2>1 DEF EndsOnce
<1>6. OnlyOn("client", s) /\ InOrder(got'["client"][s])
  <2>1. Send("client", s, Page)
    BY <1>1 DEF Replace
  <2> QED
    BY <1>0, <1>3, <1>5, <2>1, SendEnds, PageInOrder DEF EndsOnce
<1>7. pc'["server"] = "clean"
  BY <1>0 DEF Replace, Goto, TypeOK
<1>8. WorkOK("server")'
  <2>1. pc["server"] # "forward"
    BY DEF Replace
  <2>2. pc'["server"] \notin PageSteps \cup {"forward", "keep", "store"}
    BY <1>7 DEF PageSteps
  <2> QED
    BY <1>0, <1>2, <1>4, <1>7, <2>1, <2>2, WorkStays
<1>9. EndsOnce("server", s)'
  <2>1. Over("server", s)' <=> Over("server", s)
    BY <1>2 DEF Over, Moves
  <2>2. Told("server", s)'
    BY <1>7 DEF Told
  <2> QED
    BY <1>0, <1>4, <1>6, <2>1, <2>2 DEF EndsOnce, InOrder, HasEnded
<1> QED
  BY <1>0, <1>2, <1>3, <1>6, <1>8, <1>9, MoveEnds

\* A goroutine reads the next frame of a stream.
Takes(g, s) ==
  /\ s \in Stream /\ ~WorksOn(g, s) /\ job[g] = None /\ pc[g] = "idle"
  /\ exchange' = exchange /\ taken' = [taken EXCEPT ![g][s] = @ + 1]
  /\ UNCHANGED <<got, headers, chunks>>
  /\ overtaken \subseteq overtaken'
  /\ g = "server" /\ WorksOn("client", s) => s \in overtaken'
  /\ \A h \in Side \ {g} : pc'[h] = pc[h] /\ job'[h] = job[h]
  /\ taken[g][s] + 1 \in 1..Len(exchange[s][g])
  /\ job'[g] # None /\ job'[g].stream = s /\ job'[g].frame = Incoming(g, s)
  /\ job'[g].white = (userData[s] = "white")
  /\ g = "server" => Answering(s)
  /\ pc'[g] = "forward" <=> Incoming(g, s).type = "other"
  /\ pc'[g] \in PageSteps \cup {"keep"} <=> Incoming(g, s).type = "headers"
  /\ pc'[g] = "store" <=> Incoming(g, s).type = "data"
  /\ pc'[g] \in PageSteps \cup {"keep", "store", "forward"}
  /\ pc'[g] \in PageSteps <=>
       g = "client" /\ Incoming(g, s).type = "headers" /\ exchange[s].verdict = "block"
  /\ Incoming(g, s).type = "data" => job'[g].copy = chunks[s] \o Incoming(g, s).items
  /\ userData'[s] \in {userData[s], exchange[s].verdict}
  /\ IF g = "server" /\ Incoming(g, s).type = "headers"
     THEN response'[s] = Fields(g, s) /\ body'[s] = << >>
     ELSE response'[s] = response[s] /\ body'[s] = body[s]
  /\ \A r \in Stream \ {s} :
       userData'[r] = userData[r] /\ response'[r] = response[r] /\ body'[r] = body[r]

\* How reading is one.
LEMMA TakeTakes ==
  ASSUME TypeOK, NEW g \in Side, NEW s \in Stream,
         TakeData(g, s) \/ TakeOther(g, s) \/ (g = "client" /\ TakeRequest(s))
           \/ (g = "server" /\ TakeResponse(s))
  PROVE  Takes(g, s)
<1>0. ASSUME taken[g][s] < Len(exchange[s][g])
      PROVE  /\ taken[g][s] + 1 \in 1..Len(exchange[s][g])
             /\ Incoming(g, s) \in Frame
             /\ chunks[s] \o Incoming(g, s).items \in Seq(Item)
             /\ Fields(g, s) \in Seq(Item)
  <2>1. /\ taken[g][s] + 1 \in 1..Len(exchange[s][g])
        /\ Incoming(g, s) \in Frame /\ Incoming(g, s).items \in Seq(Item)
    BY <1>0, IncomingType DEF TypeOK
  <2>2. headers[s] \in Seq(Item) /\ chunks[s] \in Seq(Item)
    BY DEF TypeOK
  <2> QED
    BY <2>1, <2>2, ConcatProperties DEF Fields
<1>1. PICK type, copy, step :
        /\ Take(g, s, type, copy, step)
        /\ copy \in Seq(Item)
        /\ \/ TakeData(g, s) /\ type = "data" /\ step = "store" /\ copy = chunks[s] \o Incoming(g, s).items
           \/ TakeOther(g, s) /\ type = "other" /\ step = "forward"
           \/ /\ IF g = "client" THEN TakeRequest(s) ELSE TakeResponse(s)
              /\ type = "headers"
              /\ step = IF g = "client" /\ exchange[s].verdict = "block" THEN "settings" ELSE "keep"
  <2>1. ASSUME g = "client", TakeRequest(s)
        PROVE  Take(g, s, "headers", Fields(g, s),
                    IF g = "client" /\ exchange[s].verdict = "block" THEN "settings" ELSE "keep")
    BY <2>1 DEF TakeRequest
  <2>2. ASSUME g = "server", TakeResponse(s)
        PROVE  Take(g, s, "headers", Fields(g, s),
                    IF g = "client" /\ exchange[s].verdict = "block" THEN "settings" ELSE "keep")
    BY <2>2 DEF TakeResponse
  <2>3. ASSUME TakeData(g, s)
        PROVE  Take(g, s, "data", chunks[s] \o Incoming(g, s).items, "store")
    BY <2>3 DEF TakeData
  <2>4. ASSUME TakeOther(g, s) PROVE Take(g, s, "other", << >>, "forward") /\ << >> \in Seq(Item)
    BY <2>4 DEF TakeOther
  <2>5. taken[g][s] < Len(exchange[s][g])
    BY <2>1, <2>2, <2>3, <2>4 DEF Take
  <2> QED
    BY <1>0, <2>1, <2>2, <2>3, <2>4, <2>5
<1> DEFINE j == [stream |-> s, frame |-> Incoming(g, s), copy |-> copy,
                 white |-> userData[s] = "white"]
<1>2. /\ pc[g] = "idle" /\ Incoming(g, s).type = type /\ (g = "server" => Answering(s))
      /\ taken' = [taken EXCEPT ![g][s] = @ + 1]
      /\ job' = [job EXCEPT ![g] = j]
      /\ pc' = [pc EXCEPT ![g] = step]
      /\ exchange' = exchange /\ got' = got
      /\ taken[g][s] < Len(exchange[s][g])
      /\ overtaken \subseteq overtaken'
      /\ g = "server" /\ WorksOn("client", s) => s \in overtaken'
  BY <1>1 DEF Take, Goto, wire, Overtakes
<1>3. job[g] = None /\ ~WorksOn(g, s)
  BY <1>2 DEF TypeOK, Resting, WorksOn
<1>4. taken[g][s] + 1 \in 1..Len(exchange[s][g])
  BY <1>0, <1>2
<1>5. pc'[g] = step /\ \A h \in Side \ {g} : pc'[h] = pc[h] /\ job'[h] = job[h]
  BY <1>2 DEF TypeOK
<1>6. job'[g] = j
  BY <1>2 DEF TypeOK
<1>7. UNCHANGED <<headers, chunks>>
  BY DEF TakeData, TakeOther, TakeRequest, TakeResponse, held
<1>8. job'[g] # None
  <2>1. j \in Job
    BY <1>0, <1>1, <1>2 DEF Job
  <2> QED
    BY <1>6, <2>1, NoneOK
<1>9. job'[g].stream = s /\ job'[g].frame = Incoming(g, s) /\ job'[g].white = (userData[s] = "white")
  BY <1>6
<1> HIDE DEF j
<1>10. /\ pc'[g] = "forward" <=> Incoming(g, s).type = "other"
       /\ pc'[g] \in PageSteps \cup {"keep"} <=> Incoming(g, s).type = "headers"
       /\ pc'[g] = "store" <=> Incoming(g, s).type = "data"
       /\ pc'[g] \in PageSteps \cup {"keep", "store", "forward"}
       /\ pc'[g] \in PageSteps <=>
            g = "client" /\ Incoming(g, s).type = "headers" /\ exchange[s].verdict = "block"
  BY <1>1, <1>2, <1>5 DEF PageSteps
<1>11. Incoming(g, s).type = "data" => job'[g].copy = chunks[s] \o Incoming(g, s).items
  <2>1. Incoming(g, s).type = "data" => copy = chunks[s] \o Incoming(g, s).items
    BY <1>1, <1>2
  <2>2. job'[g].copy = copy
    BY <1>6 DEF j
  <2> QED
    BY <2>1, <2>2
<1>12. /\ userData'[s] \in {userData[s], exchange[s].verdict}
       /\ IF g = "server" /\ Incoming(g, s).type = "headers"
          THEN response'[s] = Fields(g, s) /\ body'[s] = << >>
          ELSE response'[s] = response[s] /\ body'[s] = body[s]
       /\ \A r \in Stream \ {s} :
            userData'[r] = userData[r] /\ response'[r] = response[r] /\ body'[r] = body[r]
  <2>1. /\ userData \in [Stream -> {"block", "white", "none"}]
        /\ response \in [Stream -> Seq(Item)]
        /\ body \in [Stream -> Seq(Item)]
    BY DEF TypeOK
  <2>2. CASE TakeData(g, s) \/ TakeOther(g, s)
    BY <1>1, <1>2, <2>2 DEF TakeData, TakeOther, held, TakeRequest, TakeResponse, Take
  <2>3. CASE g = "client" /\ TakeRequest(s)
    BY <2>1, <2>3 DEF TakeRequest
  <2>4. CASE g = "server" /\ TakeResponse(s)
    BY <1>2, <2>1, <2>4 DEF TakeResponse, Take
  <2> QED
    BY <2>2, <2>3, <2>4
<1> QED
  BY <1>2, <1>3, <1>4, <1>5, <1>7, <1>8, <1>9, <1>10, <1>11, <1>12 DEF Takes

LEMMA TakeEnds ==
  ASSUME TypeOK, EndInv, NEW g \in Side, NEW s, Takes(g, s)
  PROVE  EndInv'
<1>1. taken \in [Side -> [Stream -> Nat]] /\ s \in Stream
  BY DEF TypeOK, Takes
<1>2. PICK n \in Nat : n = taken[g][s]
  BY <1>1
<1>3. /\ taken'[g][s] = n + 1 /\ n + 1 \in 1..Len(exchange[s][g])
      /\ Incoming(g, s) = exchange[s][g][n + 1]
  BY <1>1, <1>2 DEF Takes, Incoming
<1>4. ASSUME NEW h \in Side, NEW r \in Stream
      PROVE  /\ taken[h][r] \in Nat
             /\ taken'[h][r] = IF h = g /\ r = s THEN n + 1 ELSE taken[h][r]
  BY <1>1, <1>2 DEF Takes
<1>5. ASSUME NEW h \in Side, NEW r \in Stream, Over(h, r) PROVE Over(h, r)'
  <2>1. PICK i \in 1..taken[h][r] : exchange[r][h][i].ended
    BY <1>5 DEF Over
  <2>2. i \in 1..taken'[h][r]
    BY <1>2, <1>4
  <2> QED
    BY <2>1, <2>2 DEF Over, Takes
<1>6. Over(g, s) => Incoming(g, s).type = "other"
  <2> SUFFICES ASSUME NEW i \in 1..n, exchange[s][g][i].ended PROVE Incoming(g, s).type = "other"
    BY <1>2 DEF Over
  <2>1. i \in 1..Len(exchange[s][g]) /\ n + 1 \in (i + 1)..Len(exchange[s][g])
    BY <1>3
  <2>2. exchange \in Exchanges
    BY DEF TypeOK
  <2>3. \A k \in (i + 1)..Len(exchange[s][g]) : exchange[s][g][k].type = "other"
    <3>1. \A x \in Exchanges : \A r \in Stream : \A h \in Side :
            \A j \in 1..Len(x[r][h]) : x[r][h][j].ended =>
              \A k \in (j + 1)..Len(x[r][h]) : x[r][h][k].type = "other"
      BY ConstantsOK DEF ConstantsOK
    <3> QED
      BY <1>1, <2>1, <2>2, <3>1
  <2> QED
    BY <1>3, <2>1, <2>3
<1>7. ASSUME NEW h \in Side, NEW r \in Stream, EndsOnce(h, r) PROVE EndsOnce(h, r)'
  <2>1. CASE h = g /\ r = s
    <3>1. Over(g, s) => Told(g, s)'
      BY <1>6 DEF Takes, Told
    <3> QED
      BY <1>5, <1>7, <2>1, <3>1 DEF EndsOnce, Takes, InOrder, HasEnded
  <2>2. CASE h # g
    <3>1. Told(h, r) => Told(h, r)'
      BY <2>2 DEF Told, Takes, WorksOn
    <3> QED
      BY <1>5, <1>7, <3>1 DEF EndsOnce, Takes, InOrder, HasEnded
  <2>3. CASE h = g /\ r # s
    <3>1. Told(h, r)'
      BY <2>3 DEF Told, Takes, WorksOn
    <3> QED
      BY <1>5, <1>7, <3>1 DEF EndsOnce, Takes, InOrder, HasEnded
  <2> QED
    BY <2>1, <2>2, <2>3
<1>8. ASSUME NEW h \in Side PROVE WorkOK(h)'
  <2>1. CASE h # g
    <3>1. WorkOK(h)
      BY DEF EndInv
    <3>2. h \in Side /\ pc'[h] = pc[h] /\ job'[h] = job[h] /\ exchange' = exchange
      BY <2>1 DEF Takes
    <3>3. job[h] # None => taken'[h][job[h].stream] = taken[h][job[h].stream]
      <4> SUFFICES ASSUME job[h] # None PROVE taken'[h][job[h].stream] = taken[h][job[h].stream]
        OBVIOUS
      <4>1. job[h].stream \in Stream
        BY DEF TypeOK, Job
      <4> QED
        BY <1>4, <2>1, <4>1
    <3> QED
      BY <3>1, <3>2, <3>3 DEF WorkOK
  <2>2. CASE h = g
    <3>1. /\ job'[g].stream = s /\ job'[g].frame = Incoming(g, s) /\ exchange' = exchange
          /\ pc'[g] \notin {"decide", "replace", "clean"}
      BY DEF Takes, PageSteps
    <3>2. /\ taken'[g][s] \in 1..Len(exchange[s][g])
          /\ Incoming(g, s) = exchange[s][g][taken'[g][s]]
      BY <1>3
    <3> QED
      BY <2>2, <3>1, <3>2 DEF WorkOK, Takes
  <2> QED
    BY <2>1, <2>2
<1>9. ASSUME NEW r \in Stream, exchange[r].verdict = "block" PROVE Blocks(r)'
  <2>1. Blocks(r)
    BY <1>9 DEF EndInv
  <2>2. ~(g = "server" /\ r = s)
    BY <2>1 DEF Takes, Answering, Blocks, HasHeaders
  <2>3. taken'["server"][r] = 0
    BY <1>4, <2>1, <2>2 DEF Blocks, Side
  <2>4. got' = got /\ headers' = headers
    BY DEF Takes
  <2>5. pc["client"] \in {"goaway", "ended"} => pc'["client"] \in {"goaway", "ended"}
    BY DEF Takes, Side
  <2> QED
    BY <2>1, <2>3, <2>4, <2>5 DEF Blocks, HasHeaders
<1>10. exchange' = exchange /\ "client" \in Side /\ "server" \in Side
  BY DEF Takes, Side
<1> QED
  BY <1>7, <1>8, <1>9, <1>10 DEF EndInv

\* A page for a request; the stream got nothing before.
LEMMA PageEnds ==
  ASSUME TypeOK, EndInv, PageSettings \/ WritePage \/ GoAway
  PROVE  EndInv'
<1>0. "client" \in Side /\ "server" \in Side
  BY DEF Side
<1>1. PICK s : s = job["client"].stream
  OBVIOUS
<1>2. /\ pc["client"] \in PageSteps /\ pc'["server"] = pc["server"]
      /\ exchange' = exchange /\ taken' = taken /\ headers' = headers
      /\ job'["server"] = job["server"]
      /\ job'["client"] = None \/ (job'["client"] = job["client"] /\ pc'["client"] \in PageSteps)
      /\ pc["client"] = "goaway" => pc'["client"] = "ended"
  BY <1>0 DEF PageSettings, WritePage, GoAway, PageSteps, input, held, Goto, TypeOK
<1>3. /\ s \in Stream /\ job["client"] # None /\ WorkOK("client") /\ exchange[s].verdict = "block"
  <2>1. ~Resting("client")
    BY <1>2 DEF Resting, PageSteps
  <2>2. job["client"] # None /\ s \in Stream
    BY <1>0, <1>1, <2>1, Busy
  <2> QED
    BY <1>0, <1>1, <1>2, <2>2 DEF EndInv, WorkOK
<1>4. ASSUME NEW h \in Side PROVE WorkOK(h)'
  <2>1. WorkOK(h)
    BY DEF EndInv
  <2>2. CASE h = "server"
    BY <1>2, <2>1, <2>2 DEF WorkOK
  <2>3. CASE h = "client"
    BY <1>2, <2>1, <2>3 DEF WorkOK, PageSteps
  <2> QED
    BY <2>2, <2>3 DEF Side
<1>5. OnlyOn("client", s) /\ (~WritePage => got' = got)
  <2>1. CASE WritePage
    <3>1. Send("client", s, Page)
      BY <1>1, <2>1 DEF WritePage
    <3>2. got' = got \/ got' = [got EXCEPT !["client"][s] = @ \o Page]
      BY <3>1 DEF Send
    <3>3. got \in [Side -> [Stream -> Seq(Frame)]]
      BY DEF TypeOK
    <3> QED
      BY <1>0, <1>3, <2>1, <3>2, <3>3 DEF OnlyOn
  <2>2. CASE ~WritePage
    <3>1. got' = got
      BY <2>2 DEF PageSettings, GoAway
    <3> QED
      BY <3>1 DEF OnlyOn
  <2> QED
    BY <2>1, <2>2
<1>6. ASSUME NEW h \in Side, NEW r \in Stream, Other(h) # "client" \/ r # s, EndsOnce(h, r)
      PROVE  EndsOnce(h, r)'
  <2>1. got'[Other(h)][r] = got[Other(h)][r]
    BY <1>5, <1>6 DEF OnlyOn, Other, Side
  <2>2. Over(h, r)' <=> Over(h, r)
    BY <1>2 DEF Over
  <2>3. Told(h, r) => Told(h, r)'
    BY <1>2, <1>3 DEF Told, WorksOn, PageSteps, Side
  <2> QED
    BY <1>6, <2>1, <2>2, <2>3 DEF EndsOnce, InOrder, HasEnded
<1>7. ASSUME NEW r \in Stream, exchange[r].verdict = "block" PROVE Blocks(r)'
  <2>1. Blocks(r)
    BY <1>7 DEF EndInv
  <2>2. got'["server"][r] = got["server"][r]
    BY <1>0, <1>5 DEF OnlyOn
  <2>3. got'["client"][r] # << >> =>
          got'["client"][r] = Page /\ pc'["client"] \in {"goaway", "ended"}
    <3>1. CASE WritePage
      <4>1. /\ pc["client"] = "page" /\ pc'["client"] = "goaway"
            /\ Send("client", s, Page)
        BY <1>0, <1>1, <3>1 DEF WritePage, Goto, TypeOK
      <4>2. got["client"][r] = << >>
        BY <2>1, <4>1 DEF Blocks
      <4>3. CASE r = s
        <5>1. got'["client"][s] = got["client"][s] \/ got'["client"][s] = got["client"][s] \o Page
          BY <1>0, <1>3, <4>1 DEF Send, TypeOK
        <5>2. << >> \o Page = Page
          BY PageInOrder, ConcatEmptySeq
        <5> QED
          BY <4>1, <4>2, <4>3, <5>1, <5>2
      <4>4. CASE r # s
        BY <1>0, <1>5, <4>2, <4>4 DEF OnlyOn
      <4> QED
        BY <4>3, <4>4
    <3>2. CASE ~WritePage
      <4>1. pc["client"] \in {"goaway", "ended"} => pc'["client"] \in {"goaway", "ended"}
        BY <1>2 DEF PageSteps
      <4> QED
        BY <1>5, <2>1, <3>2, <4>1 DEF Blocks
    <3> QED
      BY <3>1, <3>2
  <2> QED
    BY <1>2, <2>1, <2>2, <2>3 DEF Blocks, HasHeaders
<1>8. ASSUME NEW r \in Stream PROVE EndsOnce("client", r)'
  BY <1>0, <1>6 DEF EndInv, Other
<1>9. ASSUME NEW r \in Stream, exchange[r].verdict # "block" PROVE EndsOnce("server", r)'
  BY <1>0, <1>3, <1>6, <1>9 DEF EndInv
<1> QED
  BY <1>2, <1>4, <1>7, <1>8, <1>9 DEF EndInv

\* Steps of no stream.
LEMMA IdleEnds ==
  ASSUME TypeOK, EndInv, UNCHANGED <<exchange, taken, job, headers, got>>,
         \A g \in Side : pc'[g] = pc[g] \/ (Resting(g) /\ pc[g] # "ended")
  PROVE  EndInv'
<1>1. ASSUME NEW g \in Side PROVE WorkOK(g)' /\ (job[g] # None => pc'[g] = pc[g])
  <2>1. job[g] # None => pc'[g] = pc[g]
    BY DEF TypeOK
  <2>2. WorkOK(g)
    BY DEF EndInv
  <2> QED
    BY <2>1, <2>2 DEF WorkOK
<1>2. ASSUME NEW g \in Side, NEW s \in Stream, EndsOnce(g, s) PROVE EndsOnce(g, s)'
  <2>1. Over(g, s)' <=> Over(g, s)
    BY DEF Over
  <2>2. Told(g, s) => Told(g, s)'
    BY <1>1 DEF Told, WorksOn
  <2> QED
    BY <1>2, <2>1, <2>2 DEF EndsOnce, InOrder, HasEnded
<1>3. ASSUME NEW s \in Stream, Blocks(s) PROVE Blocks(s)'
  <2>1. pc["client"] \in {"goaway", "ended"} => pc'["client"] = pc["client"]
    BY DEF Resting, Side
  <2> QED
    BY <1>3, <2>1 DEF Blocks, HasHeaders
<1>4. "client" \in Side /\ "server" \in Side
  BY DEF Side
<1> QED
  BY <1>1, <1>2, <1>3, <1>4 DEF EndInv

LEMMA InitEnds == Init => EndInv
<1> SUFFICES ASSUME Init PROVE EndInv
  OBVIOUS
<1> USE DEF Init
<1>1. ASSUME NEW g \in Side PROVE WorkOK(g)
  BY DEF WorkOK
<1>2. ASSUME NEW g \in Side, NEW s \in Stream PROVE EndsOnce(g, s)
  <2>1. got[Other(g)][s] = << >>
    BY DEF Other, Side
  <2>2. InOrder(<< >>) /\ ~HasEnded(<< >>)
    BY DEF InOrder, HasEnded
  <2> QED
    BY <2>1, <2>2 DEF EndsOnce
<1>3. ASSUME NEW s \in Stream PROVE Blocks(s)
  BY DEF Blocks, HasHeaders, Side
<1> QED
  BY <1>1, <1>2, <1>3 DEF EndInv, Side

LEMMA StepEnds == ASSUME TypeOK, EndInv, [Next]_vars PROVE EndInv'
<1>1. CASE UNCHANGED vars \/ Preface \/ PrefaceFails
  BY <1>1, IdleEnds DEF vars, Preface, PrefaceFails, input, held, wire, Resting, TypeOK, Side
<1>2. ASSUME NEW side \in Side, Stall(side) \/ Leave(side) PROVE EndInv'
  BY <1>2, IdleEnds DEF Stall, Leave, input, held
<1>3. ASSUME NEW g \in Side, Process(g) PROVE EndInv'
  <2>1. CASE ReadFails(g)
    BY <2>1, IdleEnds DEF ReadFails, input, held, Resting, Goto, TypeOK
  <2>2. ASSUME NEW s \in Stream, TakeData(g, s) \/ TakeOther(g, s) PROVE EndInv'
    BY <2>2, TakeTakes, TakeEnds
  <2> QED
    BY <1>3, <2>1, <2>2, QuietEnds, ForwardEnds, WriteEnds, FlushEnds DEF Process
<1>4. CASE ClientLoop
  <2>1. ASSUME NEW s \in Stream, TakeRequest(s) PROVE EndInv'
    BY <2>1, TakeTakes, TakeEnds DEF Side
  <2> QED
    BY <1>3, <1>4, <2>1, PageEnds DEF ClientLoop, Side
<1>5. CASE ServerLoop
  <2>1. ASSUME NEW s \in Stream, TakeResponse(s) PROVE EndInv'
    BY <2>1, TakeTakes, TakeEnds DEF Side
  <2>2. CASE TakeSettings \/ ForwardSettings
    BY <2>2, IdleEnds DEF TakeSettings, ForwardSettings, input, held, Resting, Goto, TypeOK, Side
  <2> QED
    BY <1>3, <1>5, <2>1, <2>2, QuietEnds, ReplaceEnds DEF ServerLoop, Side
<1> QED
  BY <1>1, <1>2, <1>4, <1>5 DEF Next

LEMMA EndsFollow == ASSUME EndInv PROVE NothingAfterEnd
<1> SUFFICES ASSUME NEW side \in Side, NEW s \in Stream PROVE InOrder(got[side][s])
  BY DEF NothingAfterEnd, InOrder
<1>1. CASE side = "server"
  BY <1>1 DEF EndInv, EndsOnce, Other
<1>2. CASE side = "client"
  <2>1. CASE exchange[s].verdict # "block"
    BY <1>2, <2>1 DEF EndInv, EndsOnce, Other
  <2>2. CASE exchange[s].verdict = "block"
    <3>1. got["client"][s] = << >> \/ got["client"][s] = Page
      BY <2>2 DEF EndInv, Blocks
    <3> QED
      BY <1>2, <3>1, PageInOrder DEF InOrder
  <2> QED
    BY <2>1, <2>2
<1> QED
  BY <1>1, <1>2 DEF Side

\* Nobody is sent headers or data on a stream after its end.
THEOREM NothingFollowsEnd == ASSUME LengthIsNat PROVE Spec => []NothingAfterEnd
<1> QED
  BY InitTypeOK, InitEnds, StepTypeOK, StepEnds, EndsFollow, PTL DEF Spec

-----------------------------------------------------------------------------
(* What the filter rejects.                                                *)

\* No chunk that the filter rejects.
Spotless(frames) ==
  \A i \in 1..Len(frames) : frames[i].type = "data" => ~Rejects(frames[i].items)

WhiteOK ==
  /\ \A s \in Stream : userData[s] = "white" => exchange[s].verdict = "white"
  /\ \A g \in Side : job[g] # None /\ job[g].white => exchange[job[g].stream].verdict = "white"

\* Until the server answers, the maps of a stream are in the hands of the
\* goroutine that reads the client, which leaves nothing in them.
Requested(s) ==
  /\ body[s] = << >>
  /\ ~HasHeaders(got["server"][s]) \/ taken["client"][s] # 0
  /\ IF ~WorksOn("client", s) \/ pc["client"] = "forward"
     THEN headers[s] = << >> /\ chunks[s] = << >>
     ELSE IF job["client"].frame.type = "headers"
     THEN /\ chunks[s] = << >>
          /\ pc["client"] \in PageSteps \cup {"keep", "write", "forget"}
          /\ pc["client"] = "forget" => job["client"].copy = << >>
     ELSE headers[s] = << >> /\ pc["client"] # "forget"
  /\ WorksOn("client", s) /\ taken["client"][s] = 1 /\ HasHeaders(got["server"][s]) =>
       pc["client"] = "forget" \/ pc["client"] = "forward"

\* From then on it leaves the chunks alone.
Quiet(s) ==
  /\ WorksOn("client", s) =>
       pc["client"] = "forward" \/ (pc["client"] = "forget" /\ job["client"].copy = << >>)
  /\ \A i \in (taken["client"][s] + 1)..Len(exchange[s].client) :
       exchange[s].client[i].type = "other"

\* The response says html once its last header block was read.
SaysSo(s) ==
  \A i \in 1..taken["server"][s] : LastHeaders(s, i) => SaysHtml(response[s])

\* The first n frames of an answer are kept; its headers apart.
Keeps(s, n, k) == chunks[s] = Chunks(s)[n] /\ body[s] = Chunks(s)[k] /\ SaysSo(s)

Answered(s) ==
  LET n == taken["server"][s]  frame == job["server"].frame  copy == job["server"].copy IN
  IF ~WorksOn("server", s) \/ pc["server"] = "forward"
  THEN Over("server", s) \/ Keeps(s, n, n)
  ELSE IF frame.type = "headers"
  THEN /\ Keeps(s, n, n) /\ chunks[s] = << >>
       /\ pc["server"] \in {"keep", "write", "forget"}
       /\ pc["server"] = "forget" => copy = << >>
  ELSE /\ pc["server"] = "store" => Keeps(s, n - 1, n - 1) /\ copy = Chunks(s)[n]
       /\ pc["server"] = "decide" => Keeps(s, n, n - 1)
       /\ pc["server"] \notin {"store", "decide"} => frame.ended
       /\ pc["server"] = "write" => ~Rejects(chunks[s])
       /\ pc["server"] \in {"forget", "flush"} => ~Rejects(copy)

Slips(s) ==
  /\ taken["server"][s] = 0 => Requested(s)
  /\ exchange[s].verdict # "block" /\ ~PassesUnfiltered(s) =>
       /\ Spotless(got["client"][s])
       /\ taken["server"][s] # 0 => Quiet(s) /\ Answered(s)

SlipInv == WhiteOK /\ \A s \in Stream : Slips(s)

\* A set of natural numbers that is not empty has a least element.
LEMMA LeastOfNaturals ==
  ASSUME NEW S \in SUBSET Nat, S # {}
  PROVE  \E i \in S : \A j \in S : i <= j
<1> DEFINE R == OpToRel(<, Nat)
<1>1. \A i \in S : \A j \in S : i \in Nat /\ j \in Nat /\ (<<i, j>> \in R <=> i < j)
  BY DEF OpToRel
<1>2. IsWellFoundedOn(R, Nat)
  BY NatLessThanWellFounded
<1>3. PICK i \in S : \A j \in S : ~(<<j, i>> \in R)
  <2> HIDE DEF R
  <2> QED
    BY <1>2, WFMin
<1> HIDE DEF R
<1>4. ASSUME NEW j \in S
      PROVE  i <= j
  <2>1. i \in Nat /\ j \in Nat /\ (<<j, i>> \in R <=> j < i)
    BY <1>1
  <2>2. <<j, i>> \notin R
    BY <1>3
  <2> QED
    BY <2>1, <2>2
<1> QED
  BY <1>4

\* c holds the chunks of the first frames of x, up to the m-th.
ChunksUpTo(x, m, c) ==
  c = [n \in 0..m |->
        IF n = 0 THEN << >>
        ELSE IF x[n].type = "data" THEN c[n - 1] \o x[n].items
        ELSE c[n - 1]]

LEMMA ChunksExist ==
  ASSUME NEW x, NEW m \in Nat
  PROVE  \E c : ChunksUpTo(x, m, c)
<1> DEFINE S == {k \in Nat : ~(\E c : ChunksUpTo(x, k, c))}
<1> SUFFICES ASSUME S # {} PROVE FALSE
  OBVIOUS
<1>1. PICK k \in S : \A j \in S : k <= j
  BY LeastOfNaturals
<1>2. CASE k = 0
  <2>1. PICK c : c = [n \in 0..0 |-> << >>]
    OBVIOUS
  <2>2. \A n \in 0..0 : n = 0
    OBVIOUS
  <2>3. ChunksUpTo(x, 0, c)
    BY <2>1, <2>2 DEF ChunksUpTo
  <2> QED
    BY <1>1, <1>2, <2>3
<1>3. CASE k # 0
  <2>1. k \in Nat /\ k - 1 \in Nat /\ k - 1 \notin S
    BY <1>1, <1>3
  <2>2. PICK c : ChunksUpTo(x, k - 1, c)
    BY <2>1
  <2>3. \A n \in 0..(k - 1) :
          c[n] = IF n = 0 THEN << >>
                 ELSE IF x[n].type = "data" THEN c[n - 1] \o x[n].items ELSE c[n - 1]
    BY <2>2 DEF ChunksUpTo
  <2>4. PICK e : e = [n \in 0..k |->
                       IF n # k THEN c[n]
                       ELSE IF x[k].type = "data" THEN c[k - 1] \o x[k].items ELSE c[k - 1]]
    OBVIOUS
  <2>5. \A n \in 0..k : n # k => n \in 0..(k - 1) /\ e[n] = c[n]
    BY <2>1, <2>4
  <2>6. \A n \in 0..k : n # 0 => n - 1 \in 0..k /\ n - 1 # k
    BY <2>1
  <2>7. \A n \in 0..k :
          e[n] = IF n = 0 THEN << >>
                 ELSE IF x[n].type = "data" THEN e[n - 1] \o x[n].items ELSE e[n - 1]
    <3> TAKE n \in 0..k
    <3>1. CASE n # k
      BY <2>3, <2>5, <2>6, <3>1
    <3>2. CASE n = k
      <4>1. n # 0 /\ e[n - 1] = c[n - 1]
        BY <1>3, <2>5, <2>6, <3>2
      <4> QED
        BY <2>4, <3>2, <4>1
    <3> QED
      BY <3>1, <3>2
  <2>8. ChunksUpTo(x, k, e)
    BY <2>4, <2>7 DEF ChunksUpTo
  <2> QED
    BY <1>1, <2>8
<1> QED
  BY <1>2, <1>3

\* What is kept of an answer, frame by frame.
LEMMA ChunksGrow ==
  ASSUME exchange \in Exchanges, NEW s \in Stream
  PROVE  /\ Chunks(s)[0] = << >>
         /\ \A n \in 1..Len(Answer(s)) :
              Chunks(s)[n] = IF Answer(s)[n].type = "data"
                             THEN Chunks(s)[n - 1] \o Answer(s)[n].items
                             ELSE Chunks(s)[n - 1]
<1>1. Len(Answer(s)) \in Nat
  BY ConstantsOK DEF ConstantsOK, Exchange, Answer
<1>2. PICK x : x = Answer(s)
  OBVIOUS
<1>3. PICK m \in Nat : m = Len(x)
  BY <1>1, <1>2
<1>4. Chunks(s) = CHOOSE c : ChunksUpTo(x, m, c)
  BY <1>2, <1>3 DEF Chunks, ChunksUpTo
<1>5. PICK c : c = Chunks(s) /\ ChunksUpTo(x, m, c)
  BY <1>4, ChunksExist
<1>6. \A n \in 0..m :
        c[n] = IF n = 0 THEN << >>
               ELSE IF x[n].type = "data" THEN c[n - 1] \o x[n].items ELSE c[n - 1]
  BY <1>5 DEF ChunksUpTo
<1>7. 0 \in 0..m /\ \A n \in 1..m : n \in 0..m /\ n # 0
  OBVIOUS
<1> QED
  BY <1>2, <1>3, <1>5, <1>6, <1>7

LEMMA ChunksFacts ==
  ASSUME exchange \in Exchanges, NEW s \in Stream, NEW n \in 0..Len(Answer(s))
  PROVE  /\ Chunks(s)[n] \in Seq(Item)
         /\ Chunks(s)[n] # << >> => \E k \in 1..n : Answer(s)[k].type = "data"
<1> DEFINE C == Chunks(s)
           x == Answer(s)
           OK(k) == C[k] \in Seq(Item) /\ (C[k] # << >> => \E j \in 1..k : x[j].type = "data")
           S == {k \in 0..Len(x) : ~OK(k)}
<1>1. /\ Len(x) \in Nat
      /\ \A k \in 1..Len(x) : x[k].items \in Seq(Item)
  <2>1. x \in Seq(Frame)
    BY ConstantsOK DEF ConstantsOK, Exchange, Answer
  <2>2. \A k \in 1..Len(x) : x[k] \in Frame
    BY <2>1, ElementOfSeq
  <2> QED
    BY <2>1, <2>2 DEF Frame
<1>2. /\ C[0] = << >>
      /\ \A k \in 1..Len(x) : C[k] = IF x[k].type = "data" THEN C[k - 1] \o x[k].items ELSE C[k - 1]
  BY ChunksGrow
<1> HIDE DEF C, x
<1> SUFFICES ASSUME S # {} PROVE FALSE
  BY DEF C, x
<1>3. PICK k \in S : \A j \in S : k <= j
  <2>1. S \in SUBSET Nat
    BY <1>1
  <2> HIDE DEF S
  <2> QED
    BY <2>1, LeastOfNaturals
<1>4. CASE k = 0
  <2>1. OK(0)
    BY <1>2
  <2> QED
    BY <1>3, <1>4, <2>1
<1>5. CASE k # 0
  <2>1. k \in 1..Len(x) /\ k - 1 \in 0..Len(x) /\ k - 1 \notin S
    BY <1>1, <1>3, <1>5
  <2>2. OK(k - 1)
    BY <2>1
  <2>3. CASE x[k].type = "data"
    <3>1. C[k - 1] \o x[k].items \in Seq(Item)
      BY <1>1, <2>1, <2>2, ConcatProperties
    <3>2. k \in 1..k
      BY <2>1
    <3>3. OK(k)
      BY <1>2, <2>1, <2>3, <3>1, <3>2
    <3> QED
      BY <1>3, <3>3
  <2>4. CASE x[k].type # "data"
    <3>1. \A j \in 1..(k - 1) : j \in 1..k
      BY <2>1
    <3>2. OK(k)
      BY <1>2, <2>1, <2>2, <2>4, <3>1
    <3> QED
      BY <1>3, <3>2
  <2> QED
    BY <2>3, <2>4
<1> QED
  BY <1>4, <1>5

\* What a filtered answer is like.
LEMMA FilteredFacts ==
  ASSUME LengthIsNat, exchange \in Exchanges, NEW s \in Stream, ~PassesUnfiltered(s),
         NEW n \in 1..Len(Answer(s))
  PROVE  /\ Chunks(s)[n - 1] \in Seq(Item) /\ Chunks(s)[n] \in Seq(Item)
         /\ Answer(s)[n].type = "data" =>
              /\ Chunks(s)[n] = Chunks(s)[n - 1] \o Answer(s)[n].items
              /\ Chunks(s)[n] # << >>
              /\ \E i \in 1..(n - 1) : LastHeaders(s, i)
              /\ Length(Chunks(s)[n - 1]) <= MaxLength
              /\ Answer(s)[n].ended => Length(Chunks(s)[n - 1]) > MinLength
         /\ Answer(s)[n].type # "data" => Chunks(s)[n] = Chunks(s)[n - 1]
         /\ Answer(s)[n].type = "headers" => Chunks(s)[n] = << >> /\ Chunks(s)[n - 1] = << >>
         /\ LastHeaders(s, n) => SaysHtml(Answer(s)[n].items)
<1> DEFINE x == Answer(s)
<1>1. /\ Len(x) \in Nat
      /\ \A k \in 1..Len(x) : x[k].items \in Seq(Item) /\ Len(x[k].items) = 1
  <2>1. x \in Seq(Frame)
    BY ConstantsOK DEF ConstantsOK, Exchange, Answer
  <2>2. \A k \in 1..Len(x) : x[k] \in Frame
    BY <2>1, ElementOfSeq
  <2>3. \A k \in 1..Len(x) : Len(x[k].items) = 1
    BY ConstantsOK DEF ConstantsOK, Answer, Side
  <2> QED
    BY <2>1, <2>2, <2>3 DEF Frame
<1>2. n \in Int /\ n - 1 \in 0..Len(x) /\ n \in 0..Len(x)
  BY <1>1
<1>3. Chunks(s)[n - 1] \in Seq(Item) /\ Chunks(s)[n] \in Seq(Item)
  BY <1>2, ChunksFacts
<1>4. Length(Chunks(s)[n - 1]) \in Nat
  BY <1>3 DEF LengthIsNat
<1>5. /\ x[n].type = "data" => Chunks(s)[n] = Chunks(s)[n - 1] \o x[n].items
      /\ x[n].type # "data" => Chunks(s)[n] = Chunks(s)[n - 1]
  BY ChunksGrow
<1>6. PICK i \in 1..Len(x) : LastHeaders(s, i) /\ SaysHtml(x[i].items)
  BY DEF PassesUnfiltered
<1>7. \A k \in 1..Len(x) : k > i => x[k].type # "headers"
  BY <1>1, <1>6 DEF LastHeaders
<1>8. x[i].type = "headers"
  BY <1>6 DEF LastHeaders
<1>9. LastHeaders(s, n) => SaysHtml(x[n].items)
  <2> SUFFICES ASSUME LastHeaders(s, n) PROVE n = i
    BY <1>6
  <2>1. x[n].type = "headers" /\ \A k \in (n + 1)..Len(x) : x[k].type # "headers"
    BY DEF LastHeaders
  <2>2. ~(n > i)
    BY <1>7, <2>1
  <2>3. ~(n < i)
    BY <1>1, <1>2, <1>8, <2>1
  <2> QED
    BY <1>1, <1>2, <2>2, <2>3
<1>10. \A j, k \in 1..Len(x) : ~(j < k /\ x[j].type = "data" /\ x[k].type = "headers")
  BY DEF PassesUnfiltered
<1>11. ASSUME x[n].type = "data"
       PROVE  /\ Chunks(s)[n] # << >>
              /\ \E j \in 1..(n - 1) : LastHeaders(s, j)
              /\ Length(Chunks(s)[n - 1]) <= MaxLength
              /\ x[n].ended => Length(Chunks(s)[n - 1]) > MinLength
  <2>1. Chunks(s)[n] # << >>
    <3>1. PICK c \in Seq(Item) : c = Chunks(s)[n - 1]
      BY <1>3
    <3>2. PICK e \in Seq(Item) : e = x[n].items /\ Len(e) = 1
      BY <1>1
    <3>3. Len(c \o e) = Len(c) + 1 /\ Len(c) \in Nat
      <4>1. Len(c \o e) = Len(c) + Len(e)
        BY ConcatProperties
      <4> QED
        BY <3>2, <4>1
    <3>4. c \o e # << >>
      BY <3>3
    <3> QED
      BY <1>5, <1>11, <3>1, <3>2, <3>4
  <2>2. i \in 1..(n - 1)
    <3>1. ~(n < i)
      BY <1>8, <1>10, <1>11
    <3>2. n # i
      BY <1>8, <1>11
    <3> QED
      BY <1>1, <1>2, <3>1, <3>2
  <2>3. ~(Length(Chunks(s)[n - 1]) > MaxLength) /\ ~(x[n].ended /\ Length(Chunks(s)[n - 1]) <= MinLength)
    BY <1>11 DEF PassesUnfiltered
  <2>4. MinLength \in Nat /\ MaxLength \in Nat
    BY ConstantsOK DEF ConstantsOK
  <2> QED
    BY <1>4, <1>6, <2>1, <2>2, <2>3, <2>4
<1>12. x[n].type = "headers" => Chunks(s)[n] = << >> /\ Chunks(s)[n - 1] = << >>
  <2> SUFFICES ASSUME x[n].type = "headers", Chunks(s)[n - 1] # << >> PROVE FALSE
    BY <1>5
  <2>1. PICK k \in 1..(n - 1) : x[k].type = "data"
    BY <1>2, ChunksFacts
  <2>2. k \in 1..Len(x) /\ k < n
    BY <1>1, <1>2
  <2> QED
    BY <1>10, <2>1, <2>2
<1> QED
  BY <1>3, <1>5, <1>9, <1>11, <1>12

\* What is said of the peers' frames stays.
LEMMA SameExchange ==
  ASSUME exchange' = exchange, NEW s \in Stream
  PROVE  /\ Answer(s)' = Answer(s) /\ Chunks(s)' = Chunks(s)
         /\ \A i : LastHeaders(s, i)' <=> LastHeaders(s, i)
<1>1. Answer(s)' = Answer(s)
  BY DEF Answer
<1>2. Chunks(s)' = Chunks(s)
  BY <1>1 DEF Chunks
<1>3. \A i : LastHeaders(s, i)' <=> LastHeaders(s, i)
  BY <1>1 DEF LastHeaders
<1> QED
  BY <1>1, <1>2, <1>3

\* What the filter lets pass, it lets pass for good.
LEMMA PassesStays ==
  ASSUME exchange' = exchange, overtaken \subseteq overtaken', NEW s \in Stream,
         PassesUnfiltered(s)
  PROVE  PassesUnfiltered(s)'
BY SameExchange DEF PassesUnfiltered

\* Frames that are added without a chunk that the filter rejects.
LEMMA SendSpotless ==
  ASSUME TypeOK, NEW to \in Side, NEW s \in Stream, NEW more \in Seq(Frame), Send(to, s, more)
  PROVE  /\ OnlyOn(to, s)
         /\ HasHeaders(got'[to][s]) => HasHeaders(got[to][s]) \/ HasHeaders(more)
         /\ Spotless(got[to][s]) /\ Spotless(more) => Spotless(got'[to][s])
<1>1. PICK w \in Seq(Frame) : w = got[to][s]
  BY DEF TypeOK
<1>2. got' = got \/ got' = [got EXCEPT ![to][s] = @ \o more]
  BY DEF Send
<1>3. OnlyOn(to, s) /\ (got'[to][s] = w \/ got'[to][s] = w \o more)
  <2>1. got \in [Side -> [Stream -> Seq(Frame)]]
    BY DEF TypeOK
  <2> QED
    BY <1>1, <1>2, <2>1 DEF OnlyOn
<1>4. PICK v : v = w \o more
  OBVIOUS
<1>5. ASSUME NEW i \in 1..Len(v)
      PROVE  \/ i \in 1..Len(w) /\ v[i] = w[i]
             \/ i - Len(w) \in 1..Len(more) /\ v[i] = more[i - Len(w)]
  <2>1. /\ Len(v) = Len(w) + Len(more) /\ Len(w) \in Nat /\ Len(more) \in Nat
        /\ \A j \in 1..(Len(w) + Len(more)) : v[j] = IF j <= Len(w) THEN w[j] ELSE more[j - Len(w)]
    BY <1>4, ConcatProperties
  <2>2. CASE i <= Len(w)
    BY <2>1, <2>2
  <2>3. CASE ~(i <= Len(w))
    BY <2>1, <2>3
  <2> QED
    BY <2>2, <2>3
<1>6. HasHeaders(v) => HasHeaders(w) \/ HasHeaders(more)
  <2> SUFFICES ASSUME NEW i \in 1..Len(v), v[i].type = "headers"
               PROVE  HasHeaders(w) \/ HasHeaders(more)
    BY DEF HasHeaders
  <2> QED
    BY <1>5 DEF HasHeaders
<1>7. Spotless(w) /\ Spotless(more) => Spotless(v)
  <2> SUFFICES ASSUME Spotless(w), Spotless(more), NEW i \in 1..Len(v), v[i].type = "data"
               PROVE  ~Rejects(v[i].items)
    BY DEF Spotless
  <2> QED
    BY <1>5 DEF Spotless
<1> QED
  BY <1>1, <1>3, <1>4, <1>6, <1>7

\* What is written is spotless.
LEMMA FrameSpotless ==
  ASSUME NEW x \in Frame, x.type # "data"
  PROVE  <<x>> \in Seq(Frame) /\ Spotless(<<x>>)
<1>1. <<x>> \in Seq(Frame) /\ Len(<<x>>) = 1 /\ <<x>>[1] = x
  OBVIOUS
<1>2. \A i \in 1..Len(<<x>>) : i = 1
  BY <1>1
<1> QED
  BY <1>1, <1>2 DEF Spotless

LEMMA BodySpotless ==
  ASSUME NEW parts \in Seq(Item), NEW ended \in BOOLEAN, ~Rejects(parts)
  PROVE  Spotless(DataFrames(parts, ended))
<1>1. PICK v : v = DataFrames(parts, ended)
  OBVIOUS
<1>2. PICK k \in Nat : k = Len(parts)
  OBVIOUS
<1>3. v = [i \in 1..k |-> [type |-> "data", items |-> <<parts[i]>>, ended |-> ended /\ i = k]]
  BY <1>1, <1>2 DEF DataFrames
<1>4. Len(v) = k
  BY <1>1, <1>3, DataFramesType
<1>5. ASSUME NEW i \in 1..Len(v) PROVE ~Rejects(v[i].items)
  <2>1. v[i].items = <<parts[i]>>
    BY <1>3, <1>4
  <2>2. parts[i] \notin Bad
    BY <1>2, <1>4 DEF Rejects
  <2>3. \A j \in 1..Len(<<parts[i]>>) : <<parts[i]>>[j] = parts[i]
    OBVIOUS
  <2> QED
    BY <2>1, <2>2, <2>3 DEF Rejects
<1> QED
  BY <1>1, <1>5 DEF Spotless

LEMMA PageSpotless == Spotless(Page)
<1> SUFFICES ASSUME NEW i \in 1..Len(Page), NEW j \in 1..Len(Page[i].items) PROVE Page[i].items[j] \notin Bad
  BY DEF Spotless, Rejects
<1>1. Page[i].items \in Seq(Item \ Bad)
  BY ConstantsOK DEF ConstantsOK
<1>2. Page[i].items[j] \in Item \ Bad
  BY <1>1, ElementOfSeq
<1> QED
  BY <1>2

\* A stream on which nothing happens.
Untouched(s) ==
  /\ exchange' = exchange /\ overtaken \subseteq overtaken'
  /\ \A g \in Side :
       /\ taken'[g][s] = taken[g][s] /\ got'[g][s] = got[g][s]
       /\ WorksOn(g, s)' <=> WorksOn(g, s)
       /\ WorksOn(g, s) => job'[g] = job[g] /\ pc'[g] = pc[g]
  /\ headers'[s] = headers[s] /\ chunks'[s] = chunks[s]
  /\ response'[s] = response[s] /\ body'[s] = body[s]

LEMMA KeepsStays ==
  ASSUME exchange' = exchange, NEW s \in Stream, taken'["server"][s] = taken["server"][s],
         chunks'[s] = chunks[s], response'[s] = response[s], body'[s] = body[s]
  PROVE  \A n, k : Keeps(s, n, k)' <=> Keeps(s, n, k)
BY SameExchange DEF Keeps, SaysSo

LEMMA AnsweredStays ==
  ASSUME exchange' = exchange, NEW s \in Stream, taken'["server"][s] = taken["server"][s],
         chunks'[s] = chunks[s], response'[s] = response[s], body'[s] = body[s],
         WorksOn("server", s)' <=> WorksOn("server", s),
         WorksOn("server", s) => job'["server"] = job["server"] /\ pc'["server"] = pc["server"],
         Answered(s)
  PROVE  Answered(s)'
<1>1. \A n, k : Keeps(s, n, k)' <=> Keeps(s, n, k)
  BY KeepsStays
<1>2. Over("server", s)' <=> Over("server", s)
  BY DEF Over
<1>3. Chunks(s)' = Chunks(s)
  BY SameExchange
<1>4. CASE ~WorksOn("server", s)
  BY <1>1, <1>2, <1>4 DEF Answered
<1>5. CASE WorksOn("server", s)
  BY <1>1, <1>2, <1>3, <1>5 DEF Answered
<1> QED
  BY <1>4, <1>5

LEMMA UntouchedSlips ==
  ASSUME NEW s \in Stream, Slips(s), Untouched(s)
  PROVE  Slips(s)'
<1>0. "client" \in Side /\ "server" \in Side
  BY DEF Side
<1>1. taken["server"][s] = 0 => Requested(s)'
  <2> SUFFICES ASSUME Requested(s) PROVE Requested(s)'
    BY DEF Slips
  <2>1. HasHeaders(got["server"][s])' <=> HasHeaders(got["server"][s])
    BY <1>0 DEF Untouched, HasHeaders
  <2>2. CASE ~WorksOn("client", s)
    BY <1>0, <2>1, <2>2 DEF Requested, Untouched
  <2>3. CASE WorksOn("client", s)
    BY <1>0, <2>1, <2>3 DEF Requested, Untouched
  <2> QED
    BY <2>2, <2>3
<1>2. Quiet(s) => Quiet(s)'
  BY <1>0 DEF Quiet, Untouched
<1>3. Answered(s) => Answered(s)'
  BY <1>0, AnsweredStays DEF Untouched
<1>4. PassesUnfiltered(s) => PassesUnfiltered(s)'
  BY PassesStays DEF Untouched
<1>5. Spotless(got["client"][s]) => Spotless(got["client"][s])'
  BY <1>0 DEF Untouched, Spotless
<1>6. exchange'[s] = exchange[s] /\ taken'["server"][s] = taken["server"][s]
  BY <1>0 DEF Untouched
<1> QED
  BY <1>1, <1>2, <1>3, <1>4, <1>5, <1>6 DEF Slips

\* A step on one stream, by a goroutine that works on it or begins to.
LEMMA MoveSlips ==
  ASSUME TypeOK, SlipInv, NEW g \in Side, NEW s, Moves(g, s), OnlyOn(Other(g), s), Slips(s)'
  PROVE  SlipInv'
<1>1. ASSUME NEW r \in Stream, r # s PROVE Untouched(r)
  <2>1. ~WorksOn(g, r) /\ ~WorksOn(g, r)'
    BY <1>1 DEF Moves, WorksOn
  <2>2. \A h \in Side : WorksOn(h, r)' <=> WorksOn(h, r)
    BY <2>1 DEF Moves, WorksOn
  <2>3. \A h \in Side : WorksOn(h, r) => job'[h] = job[h] /\ pc'[h] = pc[h]
    BY <2>1 DEF Moves
  <2> QED
    BY <1>1, <2>2, <2>3 DEF Moves, OnlyOn, Untouched
<1>2. ASSUME NEW r \in Stream PROVE Slips(r)'
  BY <1>1, UntouchedSlips DEF SlipInv
<1>3. WhiteOK'
  BY DEF Moves, WorksOn, SlipInv, WhiteOK
<1> QED
  BY <1>2, <1>3 DEF SlipInv

LEMMA TakeSlips ==
  ASSUME TypeOK, SlipInv, NEW g \in Side, NEW s, Takes(g, s), Slips(s)'
  PROVE  SlipInv'
<1>1. ASSUME NEW r \in Stream, r # s PROVE Untouched(r)
  <2>1. ~WorksOn(g, r) /\ ~WorksOn(g, r)'
    BY <1>1 DEF Takes, WorksOn
  <2>2. \A h \in Side : WorksOn(h, r)' <=> WorksOn(h, r)
    BY <2>1 DEF Takes, WorksOn
  <2>3. \A h \in Side : WorksOn(h, r) => job'[h] = job[h] /\ pc'[h] = pc[h]
    BY <2>1 DEF Takes
  <2>4. \A h \in Side : taken'[h][r] = taken[h][r]
    BY <1>1 DEF Takes, TypeOK
  <2> QED
    BY <1>1, <2>2, <2>3, <2>4 DEF Takes, Untouched
<1>2. ASSUME NEW r \in Stream PROVE Slips(r)'
  BY <1>1, UntouchedSlips DEF SlipInv
<1>3. WhiteOK'
  <2>1. ASSUME NEW r \in Stream, userData'[r] = "white" PROVE exchange'[r].verdict = "white"
    BY <2>1 DEF Takes, SlipInv, WhiteOK
  <2>2. ASSUME NEW h \in Side, job'[h] # None, job'[h].white
        PROVE  exchange'[job'[h].stream].verdict = "white"
    <3>1. CASE h = g
      BY <2>2, <3>1 DEF Takes, SlipInv, WhiteOK
    <3>2. CASE h # g
      BY <2>2, <3>2 DEF Takes, SlipInv, WhiteOK
    <3> QED
      BY <3>1, <3>2
  <2> QED
    BY <2>1, <2>2 DEF WhiteOK
<1> QED
  BY <1>2, <1>3 DEF SlipInv

\* The goroutine that reads the client works on a stream that is not yet
\* answered.
LEMMA RequestedMoves ==
  ASSUME TypeOK, EndInv, NEW s, s = job["client"].stream, Moves("client", s), Requested(s),
         \/ Forward("client") \/ Keep("client") \/ Store("client") \/ Decide("client")
         \/ Write("client") \/ Forget("client") \/ Flush("client") \/ Drop("client")
  PROVE  Requested(s)' /\ OnlyOn("server", s)
<1>0. "client" \in Side /\ "server" \in Side /\ Other("client") = "server"
  BY DEF Side, Other
<1>1. /\ s \in Stream /\ job["client"] # None /\ job["client"] \in Job /\ WorkOK("client")
      /\ job["client"].frame \in Frame /\ job["client"].copy \in Seq(Item)
      /\ job["client"].frame.ended \in BOOLEAN
      /\ taken["client"][s] \in Nat \ {0} /\ WorksOn("client", s)
  BY <1>0, MoveFacts DEF EndInv, Moves
<1>2. PICK frame : frame = job["client"].frame
  OBVIOUS
<1>3. /\ pc["client"] = "forward" <=> frame.type = "other"
      /\ pc["client"] = "keep" => frame.type = "headers"
      /\ pc["client"] \in {"store", "decide"} => frame.type = "data"
      /\ frame.type \in {"headers", "data", "other"}
  BY <1>1, <1>2 DEF WorkOK, Frame
<1>4. /\ frame.type = "other" => headers[s] = << >> /\ chunks[s] = << >>
      /\ frame.type = "headers" =>
           /\ chunks[s] = << >>
           /\ pc["client"] \in PageSteps \cup {"keep", "write", "forget"}
           /\ pc["client"] = "forget" => job["client"].copy = << >>
      /\ frame.type = "data" => headers[s] = << >> /\ pc["client"] # "forget"
  BY <1>1, <1>2, <1>3 DEF Requested
<1>5. /\ taken'["client"][s] # 0 /\ taken' = taken
      /\ job'["client"] # None => job'["client"].stream = s /\ job'["client"].frame = frame
  BY <1>1, <1>2 DEF Moves
<1>6. pc \in [Side -> Steps] /\ job \in [Side -> Job \cup {None}]
      /\ headers \in [Stream -> Seq(Item)] /\ chunks \in [Stream -> Seq(Item)]
  BY DEF TypeOK
<1>7. /\ OnlyOn("server", s)
      /\ HasHeaders(got'["server"][s]) =>
           \/ HasHeaders(got["server"][s])
           \/ Write("client") /\ headers[s] # << >>
  <2>1. CASE Keep("client") \/ Store("client") \/ Decide("client") \/ Forget("client") \/ Drop("client")
    <3>1. got' = got
      BY <2>1 DEF Keep, Store, Decide, Forget, Drop, wire
    <3> QED
      BY <3>1 DEF OnlyOn
  <2>2. CASE Forward("client")
    <3>1. Send("server", s, <<frame>>) /\ <<frame>> \in Seq(Frame)
      BY <1>0, <1>1, <1>2, <2>2 DEF Forward
    <3>2. ~HasHeaders(<<frame>>)
      BY <1>1, <1>2, <1>3, <2>2, OneFrame DEF Forward
    <3> QED
      BY <1>0, <1>1, <3>1, <3>2, SendSpotless
  <2>3. CASE Flush("client")
    <3>1. PICK more : more = DataFrames(job["client"].copy, frame.ended)
      OBVIOUS
    <3>2. more \in Seq(Frame) /\ ~HasHeaders(more)
      BY <1>1, <1>2, <3>1, DataFramesType, BodyInOrder
    <3>3. Send("server", s, more)
      BY <1>0, <1>2, <2>3, <3>1 DEF Flush
    <3> QED
      BY <1>0, <1>1, <3>2, <3>3, SendSpotless
  <2>4. CASE Write("client")
    <3>1. CASE headers[s] = << >>
      <4>1. got' = got
        BY <2>4, <3>1 DEF Write
      <4> QED
        BY <4>1 DEF OnlyOn
    <3>2. CASE headers[s] # << >>
      <4>1. PICK x : x = [type |-> "headers", items |-> headers[s],
                          ended |-> chunks[s] = << >> /\ frame.ended]
        OBVIOUS
      <4>2. x \in Frame
        <5>1. headers[s] \in Seq(Item) /\ (chunks[s] = << >> /\ frame.ended) \in BOOLEAN
          BY <1>1, <1>2, <1>6
        <5> QED
          BY <4>1, <5>1 DEF Frame
      <4>3. Send("server", s, <<x>>) /\ <<x>> \in Seq(Frame)
        BY <1>0, <1>2, <2>4, <3>2, <4>1, <4>2 DEF Write
      <4> QED
        BY <1>0, <1>1, <2>4, <3>2, <4>3, SendSpotless
    <3> QED
      BY <3>1, <3>2
  <2> QED
    BY <2>1, <2>2, <2>3, <2>4
<1>8. body'[s] = body[s] /\ body[s] = << >>
  BY <1>1 DEF Requested, Forward, Keep, Store, Decide, Write, Forget, Flush, Drop, held
<1>9. ASSUME job'["client"] = None, headers'[s] = << >>, chunks'[s] = << >>
      PROVE  Requested(s)'
  BY <1>5, <1>8, <1>9 DEF Requested, WorksOn
<1>10. ASSUME job'["client"] # None, pc'["client"] # "forward",
              IF frame.type = "headers"
              THEN /\ chunks'[s] = << >>
                   /\ pc'["client"] \in PageSteps \cup {"keep", "write", "forget"}
                   /\ pc'["client"] = "forget" => job'["client"].copy = << >>
              ELSE headers'[s] = << >> /\ pc'["client"] # "forget",
              taken["client"][s] = 1 /\ HasHeaders(got'["server"][s]) => pc'["client"] = "forget"
       PROVE  Requested(s)'
  <2>1. job'["client"].frame.type = frame.type
    BY <1>5, <1>10
  <2>2. WorksOn("client", s)'
    BY <1>5, <1>10 DEF WorksOn
  <2>3. taken'["client"][s] = taken["client"][s]
    BY <1>5
  <2>4. HasHeaders(got["server"][s])' <=> HasHeaders(got'["server"][s])
    BY DEF HasHeaders
  <2>5. /\ ~(~WorksOn("client", s)' \/ pc'["client"] = "forward")
        /\ job'["client"].frame.type = "headers" <=> frame.type = "headers"
    BY <1>10, <2>1, <2>2
  <2> QED
    BY <1>5, <1>8, <1>10, <2>3, <2>4, <2>5 DEF Requested
<1>11. taken["client"][s] = 1 /\ HasHeaders(got["server"][s]) => pc["client"] \in {"forget", "forward"}
  BY <1>1 DEF Requested
<1>12. Requested(s)'
  <2>1. CASE Forward("client")
    <3>1. frame.type = "other" /\ job'["client"] = None /\ headers' = headers /\ chunks' = chunks
      BY <1>0, <1>3, <1>6, <2>1 DEF Forward, Rest, held
    <3> QED
      BY <1>4, <1>9, <3>1
  <2>2. CASE Keep("client")
    <3>1. job'["client"] = job["client"] /\ pc'["client"] = "write" /\ chunks' = chunks
      BY <1>0, <1>6, <2>2 DEF Keep, WritesAtOnce, Goto
    <3> QED
      BY <1>1, <1>3, <1>4, <1>7, <1>10, <1>11, <2>2, <3>1 DEF Keep, Write
  <2>3. CASE Store("client")
    <3>1. job'["client"] = job["client"] /\ pc'["client"] = "decide" /\ headers' = headers
      BY <1>0, <1>6, <2>3 DEF Store, Goto
    <3> QED
      BY <1>1, <1>3, <1>4, <1>7, <1>10, <1>11, <2>3, <3>1 DEF Store, Write
  <2>4. CASE Decide("client")
    <3>1. job'["client"] = job["client"] /\ pc'["client"] = "write" /\ headers' = headers
      BY <1>0, <1>6, <2>4 DEF Decide, Goto
    <3> QED
      BY <1>1, <1>3, <1>4, <1>7, <1>10, <1>11, <2>4, <3>1 DEF Decide, Write
  <2>5. CASE Write("client")
    <3>1. headers' = headers /\ chunks' = chunks /\ pc["client"] = "write"
      BY <2>5 DEF Write, held
    <3>2. frame.type # "other"
      BY <1>3, <3>1
    <3>3. CASE headers[s] = << >> /\ chunks[s] = << >>
      <4>1. job'["client"] = None
        BY <1>0, <1>6, <2>5, <3>3 DEF Write, Rest
      <4> QED
        BY <1>9, <3>1, <3>3, <4>1
    <3>4. CASE headers[s] = << >> /\ chunks[s] # << >>
      <4>1. pc'["client"] = "flush" /\ frame.type = "data"
        BY <1>0, <1>3, <1>4, <1>6, <2>5, <3>2, <3>4 DEF Write, Goto
      <4>2. job'["client"] # None
        <5>1. job'["client"] = [job["client"] EXCEPT !.copy = chunks[s]]
          BY <1>0, <1>6, <2>5, <3>4 DEF Write
        <5>2. job'["client"] \in Job
          BY <1>1, <1>6, <5>1 DEF Job
        <5> QED
          BY <5>2, NoneOK
      <4> QED
        BY <1>7, <1>10, <1>11, <3>1, <3>4, <4>1, <4>2
    <3>5. CASE headers[s] # << >>
      <4>1. frame.type = "headers" /\ chunks[s] = << >>
        BY <1>3, <1>4, <3>2, <3>5
      <4>2. job'["client"] = [job["client"] EXCEPT !.copy = chunks[s]] /\ pc'["client"] = "forget"
        BY <1>0, <1>6, <2>5, <3>5 DEF Write, Goto
      <4>3. job'["client"] \in Job /\ job'["client"].copy = << >>
        BY <1>1, <1>6, <4>1, <4>2 DEF Job
      <4> QED
        BY <1>10, <3>1, <4>1, <4>2, <4>3, NoneOK
    <3> QED
      BY <3>3, <3>4, <3>5
  <2>6. CASE Forget("client")
    <3>1. frame.type = "headers" /\ chunks[s] = << >> /\ job["client"].copy = << >>
      BY <1>3, <1>4, <2>6 DEF Forget
    <3> QED
      BY <1>0, <1>1, <1>6, <1>9, <2>6, <3>1 DEF Forget, Rest
  <2>7. CASE Flush("client")
    <3>1. frame.type = "data"
      BY <1>3, <1>4, <2>7 DEF Flush, PageSteps
    <3>2. job'["client"] = job["client"] /\ pc'["client"] = "drop" /\ headers' = headers
      BY <1>0, <1>6, <2>7 DEF Flush, Goto, held
    <3> QED
      BY <1>1, <1>4, <1>7, <1>10, <1>11, <2>7, <3>1, <3>2 DEF Flush, Write
  <2>8. CASE Drop("client")
    <3>1. frame.type = "data"
      BY <1>3, <1>4, <2>8 DEF Drop, PageSteps
    <3> QED
      BY <1>0, <1>1, <1>4, <1>6, <1>9, <2>8, <3>1 DEF Drop, Rest
  <2> QED
    BY <2>1, <2>2, <2>3, <2>4, <2>5, <2>6, <2>7, <2>8
<1> QED
  BY <1>7, <1>12

\* A goroutine writes to the other side only, on the stream of its frame.
LEMMA WorkOnly ==
  ASSUME TypeOK, NEW g \in Side,
         \/ Forward(g) \/ Keep(g) \/ Store(g) \/ Decide(g)
         \/ Write(g) \/ Forget(g) \/ Flush(g) \/ Drop(g)
         \/ g = "server" /\ (Replace \/ Clean)
  PROVE  OnlyOn(Other(g), job[g].stream)
<1>1. PICK s \in Stream : s = job[g].stream
  <2>1. ~Resting(g)
    BY DEF Resting, Forward, Keep, Store, Decide, Write, Forget, Flush, Drop, Replace, Clean
  <2> QED
    BY <2>1, Busy
<1>2. Other(g) \in Side /\ got \in [Side -> [Stream -> Seq(Frame)]]
  BY DEF Other, Side, TypeOK
<1>3. \A more : Send(Other(g), s, more) => OnlyOn(Other(g), s)
  <2> TAKE more
  <2> HAVE Send(Other(g), s, more)
  <2>1. got' = got \/ got' = [got EXCEPT ![Other(g)][s] = @ \o more]
    BY DEF Send
  <2> QED
    BY <1>2, <2>1 DEF OnlyOn
<1>4. CASE Keep(g) \/ Store(g) \/ Decide(g) \/ Forget(g) \/ Drop(g) \/ (g = "server" /\ Clean)
  <2>1. got' = got
    BY <1>4 DEF Keep, Store, Decide, Forget, Drop, Clean, wire
  <2> QED
    BY <2>1 DEF OnlyOn
<1>5. CASE Forward(g)
  BY <1>1, <1>3, <1>5 DEF Forward
<1>6. CASE Write(g)
  <2>1. CASE headers[s] = << >>
    <3>1. got' = got
      BY <1>1, <1>6, <2>1 DEF Write
    <3> QED
      BY <3>1 DEF OnlyOn
  <2>2. CASE headers[s] # << >>
    BY <1>1, <1>3, <1>6, <2>2 DEF Write
  <2> QED
    BY <2>1, <2>2
<1>7. CASE Flush(g)
  BY <1>1, <1>3, <1>7 DEF Flush
<1>8. CASE g = "server" /\ Replace
  BY <1>1, <1>3, <1>8 DEF Replace, Other
<1> QED
  BY <1>1, <1>4, <1>5, <1>6, <1>7, <1>8

\* Once the server answers, it only passes frames of other types on, and
\* forgets the last headers it sent.
LEMMA QuietMoves ==
  ASSUME TypeOK, NEW s, s = job["client"].stream, Moves("client", s), Quiet(s),
         \/ Forward("client") \/ Keep("client") \/ Store("client") \/ Decide("client")
         \/ Write("client") \/ Forget("client") \/ Flush("client") \/ Drop("client")
  PROVE  /\ OnlyOn("server", s) /\ Quiet(s)'
         /\ chunks'[s] = chunks[s] /\ response'[s] = response[s] /\ body'[s] = body[s]
<1>0. "client" \in Side /\ "server" \in Side /\ Other("client") = "server"
  BY DEF Side, Other
<1>1. /\ WorksOn("client", s) /\ s \in Stream /\ taken' = taken /\ exchange' = exchange
      /\ job["client"] \in Job
  BY <1>0 DEF Moves, WorksOn, TypeOK
<1>2. pc["client"] = "forward" \/ (pc["client"] = "forget" /\ job["client"].copy = << >>)
  BY <1>1 DEF Quiet
<1>3. CASE pc["client"] = "forward"
  <2>1. Forward("client")
    BY <1>3 DEF Forward, Keep, Store, Decide, Write, Forget, Flush, Drop
  <2>2. Send("server", s, <<job["client"].frame>>) /\ <<job["client"].frame>> \in Seq(Frame)
    BY <1>0, <1>1, <2>1 DEF Forward, Job
  <2>3. OnlyOn("server", s)
    BY <1>0, <1>1, <2>2, SendSpotless
  <2>4. job'["client"] = None /\ UNCHANGED held
    BY <1>0, <2>1 DEF Forward, Rest, TypeOK
  <2> QED
    BY <1>1, <2>3, <2>4 DEF Quiet, WorksOn, held
<1>4. CASE pc["client"] = "forget" /\ job["client"].copy = << >>
  <2>1. Forget("client")
    BY <1>4 DEF Forward, Keep, Store, Decide, Write, Forget, Flush, Drop
  <2>2. job'["client"] = None /\ got' = got /\ UNCHANGED <<chunks, response, body>>
    BY <1>0, <1>4, <2>1 DEF Forget, Rest, wire, TypeOK
  <2> QED
    BY <1>1, <2>2 DEF Quiet, WorksOn, OnlyOn
<1> QED
  BY <1>2, <1>3, <1>4

LEMMA ClientSlips ==
  ASSUME TypeOK, EndInv, SlipInv,
         \/ Forward("client") \/ Keep("client") \/ Store("client") \/ Decide("client")
         \/ Write("client") \/ Forget("client") \/ Flush("client") \/ Drop("client")
  PROVE  SlipInv'
<1>0. "client" \in Side /\ "server" \in Side /\ Other("client") = "server"
  BY DEF Side, Other
<1>1. PICK s : s = job["client"].stream
  OBVIOUS
<1>2. Moves("client", s)
  BY <1>0, <1>1, WorkMoves
<1>3. /\ s \in Stream /\ taken' = taken /\ exchange' = exchange /\ Slips(s)
      /\ overtaken' = overtaken
  BY <1>2 DEF Moves, SlipInv
<1>4. PassesUnfiltered(s) => PassesUnfiltered(s)'
  BY <1>3, PassesStays
<1>5. CASE taken["server"][s] = 0
  <2>1. Requested(s)' /\ OnlyOn("server", s)
    BY <1>1, <1>2, <1>3, <1>5, RequestedMoves DEF Slips
  <2>2. got'["client"][s] = got["client"][s]
    BY <1>0, <1>3, <2>1 DEF OnlyOn
  <2>3. Slips(s)'
    BY <1>3, <1>4, <1>5, <2>1, <2>2 DEF Slips, Spotless
  <2> QED
    BY <1>0, <1>2, <2>1, <2>3, MoveSlips
<1>6. CASE taken["server"][s] # 0 /\ exchange[s].verdict # "block" /\ ~PassesUnfiltered(s)
  <2>1. Spotless(got["client"][s]) /\ Quiet(s) /\ Answered(s)
    BY <1>3, <1>6 DEF Slips
  <2>2. /\ OnlyOn("server", s) /\ Quiet(s)'
        /\ chunks'[s] = chunks[s] /\ response'[s] = response[s] /\ body'[s] = body[s]
    BY <1>1, <1>2, <2>1, QuietMoves
  <2>3. Answered(s)'
    <3>1. job'["server"] = job["server"] /\ pc'["server"] = pc["server"]
      BY <1>0, <1>2 DEF Moves
    <3>2. WorksOn("server", s)' <=> WorksOn("server", s)
      BY <3>1 DEF WorksOn
    <3> QED
      BY <1>3, <2>1, <2>2, <3>1, <3>2, AnsweredStays
  <2>4. got'["client"][s] = got["client"][s]
    BY <1>0, <1>3, <2>2 DEF OnlyOn
  <2>5. Slips(s)'
    BY <1>3, <1>4, <1>6, <2>1, <2>2, <2>3, <2>4 DEF Slips, Spotless
  <2> QED
    BY <1>0, <1>2, <2>2, <2>5, MoveSlips
<1>7. CASE taken["server"][s] # 0 /\ ~(exchange[s].verdict # "block" /\ ~PassesUnfiltered(s))
  <2>1. Slips(s)'
    BY <1>3, <1>4, <1>7 DEF Slips
  <2>2. OnlyOn("server", s)
    BY <1>0, <1>1, <1>2, WorkOnly
  <2> QED
    BY <1>0, <1>2, <2>1, <2>2, MoveSlips
<1> QED
  BY <1>5, <1>6, <1>7

\* A goroutine's copy after a step that keeps its frame.
LEMMA NextCopy ==
  ASSUME TypeOK, NEW g \in Side, NEW j \in Job, job' = [job EXCEPT ![g] = j]
  PROVE  job'[g] = j /\ job'[g] # None
BY NoneOK DEF TypeOK

\* What is kept of an answer that may be rejected, while the response goroutine
\* works on a frame.
LEMMA AnsweredAfter ==
  ASSUME NEW s \in Stream, exchange' = exchange, taken' = taken,
         \/ job'["server"] = None /\ (Over("server", s) \/ Keeps(s, taken["server"][s], taken["server"][s])')
         \/ /\ WorksOn("server", s)' /\ pc'["server"] # "forward"
            /\ job'["server"].frame.type = "headers"
            /\ Keeps(s, taken["server"][s], taken["server"][s])' /\ chunks'[s] = << >>
            /\ pc'["server"] \in {"keep", "write", "forget"}
            /\ pc'["server"] = "forget" => job'["server"].copy = << >>
         \/ /\ WorksOn("server", s)' /\ pc'["server"] \notin {"forward", "store"}
            /\ job'["server"].frame.type # "headers"
            /\ pc'["server"] = "decide" => Keeps(s, taken["server"][s], taken["server"][s] - 1)'
            /\ pc'["server"] # "decide" => job'["server"].frame.ended
            /\ pc'["server"] = "write" => ~Rejects(chunks'[s])
            /\ pc'["server"] \in {"forget", "flush"} => ~Rejects(job'["server"].copy)
  PROVE  Answered(s)'
<1>1. Over("server", s)' <=> Over("server", s)
  BY DEF Over
<1>2. Rejects(chunks[s])' <=> Rejects(chunks'[s])
  BY DEF Rejects
<1>3. Rejects(job["server"].copy)' <=> Rejects(job'["server"].copy)
  BY DEF Rejects
<1>5. CASE job'["server"] = None
  BY <1>1, <1>5 DEF Answered, WorksOn
<1>6. CASE job'["server"] # None
  BY <1>1, <1>2, <1>3, <1>6 DEF Answered
<1> QED
  BY <1>5, <1>6

\* The goroutine that reads the server works on n frames of an answer that
\* the filter sees in full.
Serves(s, n) ==
  /\ s = job["server"].stream /\ s \in Stream /\ n = taken["server"][s] /\ n \in 1..Len(Answer(s))
  /\ Moves("server", s) /\ ~PassesUnfiltered(s)
  /\ job["server"].frame = Answer(s)[n]
  /\ Spotless(got["client"][s]) /\ Answered(s)

LEMMA ServesFacts ==
  ASSUME TypeOK, EndInv, NEW s, NEW n, Serves(s, n)
  PROVE  /\ s \in Stream /\ job["server"] \in Job /\ job["server"] # None
         /\ exchange' = exchange /\ taken' = taken /\ WorksOn("server", s)
         /\ job["server"].frame \in Frame /\ job["server"].frame.ended \in BOOLEAN
         /\ job["server"].frame.type \in {"headers", "data", "other"}
         /\ job["server"].copy \in Seq(Item)
         /\ pc["server"] = "forward" <=> job["server"].frame.type = "other"
         /\ pc["server"] = "keep" => job["server"].frame.type = "headers"
         /\ pc["server"] \in {"store", "decide", "replace", "clean"} => job["server"].frame.type = "data"
         /\ job["server"].frame.ended => Over("server", s)
         /\ pc \in [Side -> Steps] /\ job \in [Side -> Job \cup {None}]
         /\ chunks \in [Stream -> Seq(Item)] /\ headers \in [Stream -> Seq(Item)]
         /\ response \in [Stream -> Seq(Item)] /\ body \in [Stream -> Seq(Item)]
         /\ "server" \in Side /\ "client" \in Side /\ Other("server") = "client"
<1>0. "server" \in Side /\ "client" \in Side /\ Other("server") = "client"
  BY DEF Side, Other
<1>1. Moves("server", s)
  BY DEF Serves
<1>2. WorkOK("server")
  BY <1>0 DEF EndInv
<1>3. /\ s \in Stream /\ job["server"] \in Job /\ job["server"] # None
      /\ job["server"].frame \in Frame /\ job["server"].copy \in Seq(Item)
      /\ job["server"].frame.ended \in BOOLEAN
      /\ job["server"].frame.ended => Over("server", s)
  BY <1>0, <1>1, MoveFacts
<1>4. job["server"].frame.type \in {"headers", "data", "other"}
  BY <1>3 DEF Frame
<1>5. exchange' = exchange /\ taken' = taken /\ WorksOn("server", s)
  BY <1>1 DEF Moves
<1> QED
  BY <1>0, <1>2, <1>3, <1>4, <1>5 DEF WorkOK, TypeOK

\* What is written for it is spotless.
LEMMA ServesSpotless ==
  ASSUME TypeOK, EndInv, NEW s, NEW n, Serves(s, n),
         \/ Forward("server") \/ Keep("server") \/ Store("server") \/ Decide("server")
         \/ Write("server") \/ Forget("server") \/ Flush("server") \/ Drop("server")
         \/ Replace \/ Clean
  PROVE  Spotless(got'["client"][s])
<1>1. /\ s \in Stream /\ job["server"] \in Job /\ "client" \in Side /\ Other("server") = "client"
      /\ job["server"].frame \in Frame /\ job["server"].frame.ended \in BOOLEAN
      /\ job["server"].copy \in Seq(Item) /\ WorksOn("server", s)
      /\ s = job["server"].stream /\ Spotless(got["client"][s]) /\ Answered(s)
  BY ServesFacts DEF Serves
<1>2. CASE Keep("server") \/ Store("server") \/ Decide("server") \/ Forget("server") \/ Drop("server")
             \/ Clean
  <2>1. got' = got
    BY <1>2 DEF Keep, Store, Decide, Forget, Drop, Clean, wire
  <2> QED
    BY <1>1, <2>1
<1>3. CASE Forward("server")
  <2>1. job["server"].frame.type # "data"
    BY <1>3, ServesFacts DEF Forward
  <2>2. Send("client", s, <<job["server"].frame>>)
    BY <1>1, <1>3 DEF Forward
  <2> QED
    BY <1>1, <2>1, <2>2, FrameSpotless, SendSpotless
<1>4. CASE Write("server")
  <2>1. CASE headers[s] = << >>
    <3>1. got' = got
      BY <1>1, <1>4, <2>1 DEF Write
    <3> QED
      BY <1>1, <3>1
  <2>2. CASE headers[s] # << >>
    <3>1. PICK x : x = [type |-> "headers", items |-> headers[s],
                        ended |-> chunks[s] = << >> /\ job["server"].frame.ended]
      OBVIOUS
    <3>2. x \in Frame /\ x.type # "data"
      <4>1. headers[s] \in Seq(Item) /\ (chunks[s] = << >> /\ job["server"].frame.ended) \in BOOLEAN
        BY <1>1 DEF TypeOK
      <4> QED
        BY <3>1, <4>1 DEF Frame
    <3>3. Send("client", s, <<x>>)
      BY <1>1, <1>4, <2>2, <3>1 DEF Write
    <3> QED
      BY <1>1, <3>2, <3>3, FrameSpotless, SendSpotless
  <2> QED
    BY <2>1, <2>2
<1>5. CASE Flush("server")
  <2>1. PICK more : more = DataFrames(job["server"].copy, job["server"].frame.ended)
    OBVIOUS
  <2>2. ~Rejects(job["server"].copy)
    <3>1. pc["server"] = "flush" /\ pc["server"] # "forward"
      BY <1>5 DEF Flush
    <3>2. job["server"].frame.type # "headers"
      BY <1>1, <3>1 DEF Answered
    <3> QED
      BY <1>1, <3>1, <3>2 DEF Answered
  <2>3. more \in Seq(Frame) /\ Spotless(more)
    BY <1>1, <2>1, <2>2, DataFramesType, BodySpotless
  <2>4. Send("client", s, more)
    BY <1>1, <1>5, <2>1 DEF Flush
  <2> QED
    BY <1>1, <2>3, <2>4, SendSpotless
<1>6. CASE Replace
  <2>1. Send("client", s, Page)
    BY <1>1, <1>6 DEF Replace
  <2> QED
    BY <1>1, <2>1, PageInOrder, PageSpotless, SendSpotless
<1> QED
  BY <1>2, <1>3, <1>4, <1>5, <1>6

\* What is kept of it stays as the frame says.
LEMMA ServesAnswered ==
  ASSUME LengthIsNat, TypeOK, EndInv, WhiteOK, NEW s, NEW n, Serves(s, n),
         \/ Forward("server") \/ Keep("server") \/ Store("server") \/ Decide("server")
         \/ Write("server") \/ Forget("server") \/ Flush("server") \/ Drop("server")
         \/ Replace \/ Clean
  PROVE  Answered(s)'
<1>0. PICK frame : frame = job["server"].frame
  OBVIOUS
<1>1. /\ s \in Stream /\ job["server"] \in Job /\ job["server"] # None
      /\ exchange' = exchange /\ taken' = taken /\ WorksOn("server", s)
      /\ frame \in Frame /\ frame.ended \in BOOLEAN
      /\ frame.type \in {"headers", "data", "other"}
      /\ job["server"].copy \in Seq(Item)
      /\ pc["server"] = "forward" <=> frame.type = "other"
      /\ frame.ended => Over("server", s)
      /\ pc \in [Side -> Steps] /\ job \in [Side -> Job \cup {None}]
      /\ "server" \in Side
  BY <1>0, ServesFacts
<1>2. /\ s = job["server"].stream /\ n = taken["server"][s] /\ n \in 1..Len(Answer(s))
      /\ ~PassesUnfiltered(s) /\ frame = Answer(s)[n] /\ Answered(s)
  BY <1>0 DEF Serves
<1>3. /\ pc["server"] = "keep" => frame.type = "headers"
      /\ pc["server"] \in {"store", "decide", "replace", "clean"} => frame.type = "data"
  BY <1>0, ServesFacts
<1>4. /\ pc["server"] = "forward" => Over("server", s) \/ Keeps(s, n, n)
      /\ frame.type = "headers" =>
           /\ Keeps(s, n, n) /\ chunks[s] = << >>
           /\ pc["server"] \in {"keep", "write", "forget"}
           /\ pc["server"] = "forget" => job["server"].copy = << >>
      /\ frame.type = "data" =>
           /\ pc["server"] = "store" => Keeps(s, n - 1, n - 1) /\ job["server"].copy = Chunks(s)[n]
           /\ pc["server"] = "decide" => Keeps(s, n, n - 1)
           /\ pc["server"] \notin {"store", "decide"} => frame.ended
           /\ pc["server"] = "write" => ~Rejects(chunks[s])
           /\ pc["server"] \in {"forget", "flush"} => ~Rejects(job["server"].copy)
  BY <1>0, <1>1, <1>2 DEF Answered
<1>5. /\ job'["server"] = job["server"] => WorksOn("server", s)' /\ job'["server"].frame = frame
      /\ \A j : job' = [job EXCEPT !["server"] = j] => job'["server"] = j
      /\ \A step : pc' = [pc EXCEPT !["server"] = step] => pc'["server"] = step
  BY <1>0, <1>1, <1>2 DEF WorksOn
<1>6. response'[s] = response[s] => (SaysSo(s)' <=> SaysSo(s))
  BY <1>1, SameExchange DEF SaysSo
<1>7. /\ Chunks(s)' = Chunks(s)
      /\ chunks'[s] = chunks[s] /\ response'[s] = response[s] /\ body'[s] = body[s] =>
           (Keeps(s, n, n)' <=> Keeps(s, n, n))
  BY <1>1, SameExchange, KeepsStays
<1>8. CASE Forward("server")
  <2>1. job'["server"] = None /\ UNCHANGED held
    BY <1>1, <1>8 DEF Forward, Rest
  <2>2. Over("server", s) \/ Keeps(s, n, n)'
    BY <1>4, <1>7, <1>8, <2>1 DEF Forward, held
  <2> QED
    BY <1>1, <1>2, <2>1, <2>2, AnsweredAfter
<1>9. CASE Keep("server")
  <2>1. frame.type = "headers" /\ Keeps(s, n, n) /\ chunks[s] = << >>
    BY <1>3, <1>4, <1>9 DEF Keep
  <2>2. UNCHANGED <<chunks, response, body>>
    BY <1>9 DEF Keep
  <2>3. Keeps(s, n, n)' /\ chunks'[s] = << >>
    BY <1>7, <2>1, <2>2
  <2>4. job'["server"] = None \/ (pc'["server"] = "write" /\ job'["server"] = job["server"])
    BY <1>1, <1>5, <1>9 DEF Keep, Goto, Rest
  <2> QED
    BY <1>1, <1>2, <1>5, <2>1, <2>3, <2>4, AnsweredAfter
<1>10. CASE Store("server")
  <2>1. frame.type = "data" /\ Keeps(s, n - 1, n - 1) /\ job["server"].copy = Chunks(s)[n]
    BY <1>3, <1>4, <1>10 DEF Store
  <2>2. /\ chunks'[s] = Chunks(s)[n] /\ response' = response /\ body' = body
        /\ job' = job /\ pc'["server"] = "decide"
    BY <1>1, <1>2, <1>5, <1>10, <2>1 DEF Store, Goto, TypeOK
  <2>3. Keeps(s, n, n - 1)'
    BY <1>6, <1>7, <2>1, <2>2 DEF Keeps
  <2> QED
    BY <1>1, <1>2, <1>5, <2>1, <2>2, <2>3, AnsweredAfter
<1>11. CASE Decide("server")
  <2>1. frame.type = "data" /\ Keeps(s, n, n - 1) /\ pc["server"] = "decide"
    BY <1>3, <1>4, <1>11 DEF Decide
  <2>2. chunks[s] = Chunks(s)[n] /\ body[s] = Chunks(s)[n - 1] /\ SaysSo(s)
    BY <2>1 DEF Keeps
  <2>3. /\ Chunks(s)[n] # << >> /\ \E i \in 1..(n - 1) : LastHeaders(s, i)
        /\ Length(Chunks(s)[n - 1]) <= MaxLength
        /\ frame.ended => Length(Chunks(s)[n - 1]) > MinLength
    BY <1>1, <1>2, <2>1, FilteredFacts DEF TypeOK
  <2>4. SaysHtml(response[s]) /\ response[s] # << >>
    <3>1. PICK i \in 1..(n - 1) : LastHeaders(s, i)
      BY <2>3
    <3>2. SaysHtml(response[s])
      BY <1>2, <2>2, <3>1 DEF SaysSo
    <3> QED
      BY <3>2 DEF SaysHtml
  <2>5. ~job["server"].white
    BY <1>1, <1>2 DEF WhiteOK, PassesUnfiltered
  <2>6. DecideResponse(s) /\ UNCHANGED <<chunks, response>>
    BY <1>2, <1>11, <2>4, <2>5 DEF Decide
  <2>7. body'[s] = Chunks(s)[n]
    BY <1>1, <2>2, <2>3, <2>6 DEF DecideResponse, TypeOK
  <2>8. \/ Rest("server")
        \/ frame.ended /\ Goto("server", "replace") /\ UNCHANGED job
        \/ frame.ended /\ ~Rejects(chunks[s]) /\ Goto("server", "write") /\ UNCHANGED job
    BY <1>0, <2>2, <2>3, <2>4, <2>6 DEF DecideResponse
  <2>9. CASE Rest("server")
    <3>1. job'["server"] = None
      BY <1>1, <2>9 DEF Rest
    <3>2. Keeps(s, n, n)'
      BY <1>6, <1>7, <2>2, <2>6, <2>7 DEF Keeps
    <3> QED
      BY <1>1, <1>2, <3>1, <3>2, AnsweredAfter
  <2>10. CASE frame.ended /\ Goto("server", "replace") /\ UNCHANGED job
    <3>1. pc'["server"] = "replace" /\ job'["server"] = job["server"]
      BY <1>1, <2>10 DEF Goto
    <3> QED
      BY <1>1, <1>2, <1>5, <2>1, <2>10, <3>1, AnsweredAfter
  <2>11. CASE frame.ended /\ ~Rejects(chunks[s]) /\ Goto("server", "write") /\ UNCHANGED job
    <3>1. pc'["server"] = "write" /\ job'["server"] = job["server"]
      BY <1>1, <2>11 DEF Goto
    <3> QED
      BY <1>1, <1>2, <1>5, <2>1, <2>6, <2>11, <3>1, AnsweredAfter
  <2> QED
    BY <2>8, <2>9, <2>10, <2>11
<1>12. CASE Write("server")
  <2>1. UNCHANGED held /\ frame.type # "other"
    BY <1>1, <1>12 DEF Write
  <2>2. PICK j : j = [job["server"] EXCEPT !.copy = chunks[s]]
    OBVIOUS
  <2>3. /\ j \in Job /\ j.copy = chunks[s] /\ j.stream = s /\ j.frame = frame
    <3>1. chunks[s] \in Seq(Item)
      BY <1>1 DEF TypeOK
    <3> QED
      BY <1>0, <1>1, <1>2, <2>2, <3>1 DEF Job
  <2>4. \/ job'["server"] = None
        \/ job'["server"] = j /\ pc'["server"] \in {"flush", "forget"}
             /\ (chunks[s] = << >> => pc'["server"] = "forget")
    BY <1>1, <1>2, <1>5, <1>12, <2>2 DEF Write, Rest, Goto
  <2>5. job'["server"] = j => WorksOn("server", s)' /\ job'["server"].frame = frame
    BY <2>3, NoneOK DEF WorksOn
  <2>6. CASE frame.type = "headers"
    <3>1. Keeps(s, n, n)' /\ chunks[s] = << >> /\ chunks'[s] = << >>
      BY <1>4, <1>7, <2>1, <2>6 DEF held
    <3> QED
      BY <1>1, <1>2, <2>3, <2>4, <2>5, <2>6, <3>1, AnsweredAfter
  <2>7. CASE frame.type = "data"
    <3>1. frame.ended /\ ~Rejects(chunks[s])
      BY <1>4, <1>12, <2>7 DEF Write
    <3> QED
      BY <1>1, <1>2, <2>3, <2>4, <2>5, <2>7, <3>1, AnsweredAfter
  <2> QED
    BY <1>1, <2>1, <2>6, <2>7
<1>13. CASE Forget("server")
  <2>1. UNCHANGED <<chunks, response, body>> /\ frame.type # "other" /\ pc["server"] = "forget"
    BY <1>1, <1>13 DEF Forget
  <2>2. \/ job'["server"] = None
        \/ job["server"].copy # << >> /\ job'["server"] = job["server"] /\ pc'["server"] = "flush"
    BY <1>1, <1>5, <1>13 DEF Forget, Rest, Goto
  <2>3. CASE frame.type = "headers"
    <3>1. job'["server"] = None /\ Keeps(s, n, n)'
      BY <1>4, <1>7, <2>1, <2>2, <2>3
    <3> QED
      BY <1>1, <1>2, <3>1, AnsweredAfter
  <2>4. CASE frame.type = "data"
    <3>1. frame.ended /\ ~Rejects(job["server"].copy)
      BY <1>4, <2>1, <2>4
    <3> QED
      BY <1>1, <1>2, <1>5, <2>2, <2>4, <3>1, AnsweredAfter
  <2> QED
    BY <1>1, <2>1, <2>3, <2>4
<1>14. CASE Flush("server") \/ Drop("server") \/ Replace \/ Clean
  <2>1. frame.ended /\ frame.type # "headers"
    BY <1>1, <1>4, <1>14 DEF Flush, Drop, Replace, Clean
  <2>2. \/ job'["server"] = None
        \/ job'["server"] = job["server"] /\ pc'["server"] \in {"drop", "clean"}
    BY <1>1, <1>5, <1>14 DEF Flush, Drop, Replace, Clean, Rest, Goto
  <2> QED
    BY <1>1, <1>2, <1>5, <2>1, <2>2, AnsweredAfter
<1> QED
  BY <1>8, <1>9, <1>10, <1>11, <1>12, <1>13, <1>14

LEMMA ServerSlips ==
  ASSUME LengthIsNat, TypeOK, EndInv, SlipInv,
         \/ Forward("server") \/ Keep("server") \/ Store("server") \/ Decide("server")
         \/ Write("server") \/ Forget("server") \/ Flush("server") \/ Drop("server")
         \/ Replace \/ Clean
  PROVE  SlipInv'
<1>0. "client" \in Side /\ "server" \in Side /\ Other("server") = "client"
  BY DEF Side, Other
<1>1. PICK s : s = job["server"].stream
  OBVIOUS
<1>2. Moves("server", s) /\ OnlyOn("client", s)
  BY <1>0, <1>1, WorkMoves, WorkOnly
<1>3. /\ s \in Stream /\ taken' = taken /\ exchange' = exchange /\ Slips(s) /\ WhiteOK
      /\ overtaken' = overtaken
      /\ pc'["client"] = pc["client"] /\ job'["client"] = job["client"]
  BY <1>0, <1>2 DEF Moves, SlipInv
<1>4. PICK n : n = taken["server"][s]
  OBVIOUS
<1>5. /\ n # 0 /\ n \in 1..Len(Answer(s)) /\ exchange[s].verdict # "block"
      /\ job["server"].frame = Answer(s)[n]
  BY <1>0, <1>2, <1>4, MoveFacts DEF Answer
<1>6. PassesUnfiltered(s) => PassesUnfiltered(s)'
  BY <1>3, PassesStays
<1>7. CASE ~PassesUnfiltered(s)
  <2>1. Spotless(got["client"][s]) /\ Quiet(s) /\ Answered(s)
    BY <1>3, <1>4, <1>5, <1>7 DEF Slips
  <2>2. Serves(s, n)
    BY <1>1, <1>2, <1>3, <1>4, <1>5, <1>7, <2>1 DEF Serves
  <2>3. Spotless(got'["client"][s]) /\ Answered(s)'
    BY <1>3, <2>2, ServesSpotless, ServesAnswered
  <2>4. Quiet(s)'
    BY <1>3, <2>1 DEF Quiet, WorksOn
  <2>5. Slips(s)'
    BY <1>3, <1>4, <1>5, <2>3, <2>4 DEF Slips, Spotless
  <2> QED
    BY <1>0, <1>2, <1>3, <2>5, MoveSlips
<1>8. CASE PassesUnfiltered(s)
  <2>1. Slips(s)'
    BY <1>3, <1>4, <1>5, <1>6, <1>8 DEF Slips
  <2> QED
    BY <1>0, <1>2, <1>3, <2>1, MoveSlips
<1> QED
  BY <1>7, <1>8

\* The goroutine that reads the client begins with a frame.
LEMMA ClientTakes ==
  ASSUME TypeOK, EndInv, SlipInv, NEW s, Takes("client", s)
  PROVE  Slips(s)'
<1>0. "client" \in Side /\ "server" \in Side
  BY DEF Side
<1>1. /\ s \in Stream /\ ~WorksOn("client", s) /\ WorksOn("client", s)' /\ exchange' = exchange
      /\ UNCHANGED <<got, headers, chunks>>
      /\ pc'["server"] = pc["server"] /\ job'["server"] = job["server"]
      /\ job'["client"].frame = Incoming("client", s)
      /\ response'[s] = response[s] /\ body'[s] = body[s]
      /\ overtaken \subseteq overtaken'
  BY <1>0 DEF Takes, WorksOn
<1>2. PICK frame : frame = Incoming("client", s)
  OBVIOUS
<1>3. /\ pc'["client"] = "forward" <=> frame.type = "other"
      /\ pc'["client"] \in PageSteps \cup {"keep"} <=> frame.type = "headers"
      /\ pc'["client"] \in PageSteps \cup {"keep", "store", "forward"}
      /\ pc'["client"] # "forget"
  BY <1>2 DEF Takes, PageSteps
<1>4. PICK n \in Nat : n = taken["client"][s]
  BY <1>0, <1>1 DEF TypeOK
<1>5. /\ taken'["client"][s] = n + 1 /\ taken'["server"][s] = taken["server"][s]
      /\ n + 1 \in 1..Len(exchange[s].client)
      /\ frame = exchange[s].client[n + 1]
  BY <1>0, <1>1, <1>2, <1>4 DEF Takes, TypeOK, Incoming
<1>6. Slips(s)
  BY <1>1 DEF SlipInv
<1>7. ASSUME Requested(s) PROVE Requested(s)'
  <2>1. /\ body[s] = << >> /\ headers[s] = << >> /\ chunks[s] = << >>
        /\ ~HasHeaders(got["server"][s]) \/ n # 0
    BY <1>1, <1>4, <1>7 DEF Requested
  <2>2. HasHeaders(got["server"][s])' <=> HasHeaders(got["server"][s])
    BY <1>1 DEF HasHeaders
  <2>3. taken'["client"][s] # 0 /\ (taken'["client"][s] = 1 => ~HasHeaders(got["server"][s])')
    BY <1>4, <1>5, <2>1, <2>2
  <2> QED
    BY <1>1, <1>2, <1>3, <2>1, <2>3 DEF Requested
<1>8. ASSUME Quiet(s) PROVE Quiet(s)'
  <2>1. frame.type = "other"
    <3>1. n + 1 \in (n + 1)..Len(exchange[s].client)
      BY <1>4, <1>5
    <3> QED
      BY <1>4, <1>5, <1>8, <3>1 DEF Quiet
  <2>2. \A i \in (n + 2)..Len(exchange[s].client) : i \in (n + 1)..Len(exchange[s].client)
    BY <1>4
  <2>3. taken'["client"][s] + 1 = n + 2
    BY <1>4, <1>5
  <2> QED
    BY <1>1, <1>3, <1>4, <1>8, <2>1, <2>2, <2>3 DEF Quiet
<1>9. Answered(s) => Answered(s)'
  <2>1. WorksOn("server", s)' <=> WorksOn("server", s)
    BY <1>1 DEF WorksOn
  <2> QED
    BY <1>1, <1>5, <2>1, AnsweredStays
<1>10. PassesUnfiltered(s) => PassesUnfiltered(s)'
  BY <1>1, PassesStays
<1>11. Spotless(got["client"][s])' <=> Spotless(got["client"][s])
  BY <1>1 DEF Spotless
<1> QED
  BY <1>1, <1>5, <1>6, <1>7, <1>8, <1>9, <1>10, <1>11 DEF Slips

\* When the server begins to answer, its maps are empty and the goroutine
\* that reads the client has done with them.
LEMMA AnswerBegins ==
  ASSUME TypeOK, EndInv, NEW s \in Stream, Requested(s), Answering(s),
         Len(exchange[s].client) <= 1 \/ (exchange[s].patient /\ ~WorksOn("client", s)),
         taken["server"][s] = 0, exchange[s].verdict # "block"
  PROVE  Quiet(s) /\ Keeps(s, 0, 0)
<1>0. "client" \in Side /\ "server" \in Side /\ Other("client") = "server"
  BY DEF Side, Other
<1>1. HasHeaders(got["server"][s]) /\ taken["client"][s] # 0
  BY DEF Answering, Requested, HasHeaders
<1>2. taken["client"][s] \in Nat /\ Len(exchange[s].client) \in Nat
  <2>1. exchange[s].client \in Seq(Frame)
    BY ConstantsOK DEF TypeOK, ConstantsOK, Exchange
  <2> QED
    BY <1>0, <2>1 DEF TypeOK
<1>3. Quiet(s)
  <2>1. CASE exchange[s].patient /\ ~WorksOn("client", s)
    <3>1. HasEnded(got["server"][s]) /\ ~WorksOn("client", s)
      BY <2>1 DEF Answering, HasEnded
    <3>2. PICK i \in 1..taken["client"][s] : exchange[s]["client"][i].ended
      BY <1>0, <3>1 DEF EndInv, EndsOnce, Over
    <3>3. ASSUME NEW k \in (taken["client"][s] + 1)..Len(exchange[s].client)
          PROVE  exchange[s].client[k].type = "other"
      <4>1. i \in 1..Len(exchange[s]["client"]) /\ k \in (i + 1)..Len(exchange[s]["client"])
        BY <1>2, <3>2, <3>3
      <4>2. exchange \in Exchanges /\ exchange \in [Stream -> Exchange]
        BY ConstantsOK DEF TypeOK, ConstantsOK
      <4> QED
        BY <1>0, <3>2, <4>1, <4>2, ConstantsOK DEF ConstantsOK
    <3> QED
      BY <3>1, <3>3 DEF Quiet
  <2>2. CASE Len(exchange[s].client) <= 1
    <3>1. Len(exchange[s].client) <= 1
      BY <2>2
    <3>2. \A k \in (taken["client"][s] + 1)..Len(exchange[s].client) : FALSE
      BY <1>1, <1>2, <3>1
    <3>3. ASSUME WorksOn("client", s)
          PROVE  pc["client"] = "forward" \/ (pc["client"] = "forget" /\ job["client"].copy = << >>)
      <4>1. taken["client"][s] \in 1..Len(exchange[s].client)
        BY <1>0, <3>3 DEF EndInv, WorkOK, WorksOn
      <4>2. taken["client"][s] = 1
        BY <1>1, <1>2, <3>1, <4>1
      <4> QED
        BY <1>1, <3>3, <4>2 DEF Requested
    <3> QED
      BY <3>2, <3>3 DEF Quiet
  <2> QED
    BY <2>1, <2>2
<1>4. chunks[s] = << >> /\ body[s] = << >>
  <2>1. CASE ~WorksOn("client", s) \/ pc["client"] = "forward"
    BY <2>1 DEF Requested
  <2>2. CASE WorksOn("client", s) /\ pc["client"] # "forward"
    BY <1>3, <2>2 DEF Requested, Quiet
  <2> QED
    BY <2>1, <2>2 DEF Requested
<1>5. Chunks(s)[0] = << >>
  <2>1. 0 \in 0..Len(Answer(s))
    <3>1. Answer(s) \in Seq(Frame)
      BY ConstantsOK DEF TypeOK, ConstantsOK, Exchange, Answer
    <3> QED
      BY <3>1
  <2>2. Chunks(s)[0] # << >> => \E k \in 1..0 : Answer(s)[k].type = "data"
    BY <2>1, ChunksFacts DEF TypeOK
  <2> QED
    BY <2>2
<1>6. SaysSo(s)
  BY DEF SaysSo
<1> QED
  BY <1>3, <1>4, <1>5, <1>6 DEF Keeps

\* More header fields say html when some of them do.
LEMMA HtmlStays ==
  ASSUME NEW v \in Seq(Item), NEW w \in Seq(Item), SaysHtml(w)
  PROVE  SaysHtml(v \o w)
<1>1. PICK i \in 1..Len(w) : w[i] \in Html
  BY DEF SaysHtml
<1>2. PICK z : z = v \o w
  OBVIOUS
<1>3. /\ Len(z) = Len(v) + Len(w) /\ Len(v) \in Nat /\ Len(w) \in Nat
      /\ \A j \in 1..(Len(v) + Len(w)) : z[j] = IF j <= Len(v) THEN v[j] ELSE w[j - Len(v)]
  BY <1>2, ConcatProperties
<1>4. /\ Len(v) + i \in 1..(Len(v) + Len(w)) /\ ~(Len(v) + i <= Len(v))
      /\ (Len(v) + i) - Len(v) = i
  BY <1>1, <1>3
<1>5. z[Len(v) + i] = w[i]
  BY <1>3, <1>4
<1> QED
  BY <1>1, <1>2, <1>3, <1>4, <1>5 DEF SaysHtml

\* The goroutine that reads the server begins with a frame.
LEMMA ServerTakes ==
  ASSUME LengthIsNat, TypeOK, EndInv, SlipInv, NEW s, Takes("server", s)
  PROVE  Slips(s)'
<1>0. "client" \in Side /\ "server" \in Side
  BY DEF Side
<1>1. /\ s \in Stream /\ ~WorksOn("server", s) /\ WorksOn("server", s)' /\ exchange' = exchange
      /\ UNCHANGED <<got, headers, chunks>>
      /\ pc'["client"] = pc["client"] /\ job'["client"] = job["client"]
      /\ job'["server"].frame = Incoming("server", s)
      /\ Answering(s) /\ overtaken \subseteq overtaken'
      /\ WorksOn("client", s) => s \in overtaken'
  BY <1>0 DEF Takes, WorksOn
<1>2. PICK frame : frame = Incoming("server", s)
  OBVIOUS
<1>3. /\ pc'["server"] = "forward" <=> frame.type = "other"
      /\ frame.type = "headers" => pc'["server"] = "keep"
      /\ frame.type = "data" => pc'["server"] = "store"
                                  /\ job'["server"].copy = chunks[s] \o frame.items
      /\ IF frame.type = "headers"
         THEN response'[s] = Fields("server", s) /\ body'[s] = << >>
         ELSE response'[s] = response[s] /\ body'[s] = body[s]
  BY <1>2 DEF Takes, PageSteps
<1>4. PICK n \in Nat : n = taken["server"][s]
  BY <1>0, <1>1 DEF TypeOK
<1>5. /\ taken'["server"][s] = n + 1 /\ taken'["client"][s] = taken["client"][s]
      /\ n + 1 \in 1..Len(Answer(s)) /\ frame = Answer(s)[n + 1]
  BY <1>0, <1>1, <1>2, <1>4 DEF Takes, TypeOK, Incoming, Answer
<1>6. Slips(s) /\ exchange[s].verdict # "block"
  <2>1. HasHeaders(got["server"][s])
    BY <1>1 DEF Answering, HasHeaders
  <2> QED
    BY <1>1, <2>1 DEF SlipInv, EndInv, Blocks
<1>7. PassesUnfiltered(s) => PassesUnfiltered(s)'
  BY <1>1, PassesStays
<1>8. ASSUME ~PassesUnfiltered(s)' PROVE Spotless(got["client"][s])' /\ Quiet(s)' /\ Answered(s)'
  <2>0. /\ ~PassesUnfiltered(s)
        /\ Len(exchange[s].client) <= 1 \/ (exchange[s].patient /\ ~WorksOn("client", s))
    <3>1. exchange[s].client \in Seq(Frame)
      BY <1>1, ConstantsOK DEF TypeOK, ConstantsOK, Exchange
    <3>2. Len(exchange[s].client) > 1 => exchange[s].patient /\ s \notin overtaken'
      BY <1>1, <1>8 DEF PassesUnfiltered
    <3> QED
      BY <1>1, <1>7, <1>8, <3>1, <3>2
  <2>1. Spotless(got["client"][s])'
    BY <1>1, <1>6, <2>0 DEF Slips, Spotless
  <2>2. Quiet(s) /\ (Over("server", s) \/ Keeps(s, n, n))
    <3>1. CASE n = 0
      BY <1>1, <1>4, <1>6, <2>0, <3>1, AnswerBegins DEF Slips
    <3>2. CASE n # 0
      BY <1>1, <1>4, <1>6, <2>0, <3>2 DEF Slips, Answered
    <3> QED
      BY <3>1, <3>2
  <2>3. Quiet(s)'
    BY <1>1, <1>5, <2>2 DEF Quiet, WorksOn
  <2>4. Over("server", s) => Over("server", s)' /\ frame.type = "other"
    <3> SUFFICES ASSUME NEW i \in 1..n, exchange[s]["server"][i].ended
                 PROVE  Over("server", s)' /\ frame.type = "other"
      BY <1>4 DEF Over
    <3>1. i \in 1..(n + 1) /\ i \in 1..Len(exchange[s]["server"]) /\ Len(exchange[s]["server"]) \in Nat
      <4>1. Answer(s) \in Seq(Frame)
        BY <1>1, ConstantsOK DEF TypeOK, ConstantsOK, Exchange, Answer
      <4> QED
        BY <1>4, <1>5, <4>1 DEF Answer
    <3>2. n + 1 \in (i + 1)..Len(exchange[s]["server"])
      BY <1>4, <1>5, <3>1 DEF Answer
    <3>3. exchange[s]["server"][n + 1].type = "other"
      BY <1>0, <1>1, <3>1, <3>2, ConstantsOK DEF ConstantsOK, TypeOK
    <3> QED
      BY <1>1, <1>5, <3>1, <3>3 DEF Over, Answer
  <2>5. /\ Chunks(s)[n] \in Seq(Item)
        /\ frame.type = "data" => Chunks(s)[n + 1] = Chunks(s)[n] \o frame.items
        /\ frame.type # "data" => Chunks(s)[n + 1] = Chunks(s)[n]
        /\ frame.type = "headers" => Chunks(s)[n + 1] = << >> /\ Chunks(s)[n] = << >>
        /\ LastHeaders(s, n + 1) => SaysHtml(frame.items)
    <3>1. (n + 1) - 1 = n
      BY <1>4
    <3>2. ~PassesUnfiltered(s) /\ exchange \in Exchanges
      BY <2>0 DEF TypeOK
    <3> QED
      BY <1>1, <1>5, <3>1, <3>2, FilteredFacts
  <2>6. Chunks(s)' = Chunks(s) /\ \A i : LastHeaders(s, i)' <=> LastHeaders(s, i)
    BY <1>1, SameExchange
  <2>7. \A i \in 1..(n + 1) : i \in 1..n \/ i = n + 1
    BY <1>4
  <2>8. CASE frame.type = "other"
    <3>1. ASSUME Keeps(s, n, n) PROVE Keeps(s, n + 1, n + 1)'
      <4>1. SaysSo(s)'
        <5>1. ~LastHeaders(s, n + 1)
          BY <1>5, <2>8 DEF LastHeaders
        <5> QED
          BY <1>3, <1>4, <1>5, <2>6, <2>7, <2>8, <3>1, <5>1 DEF SaysSo, Keeps
      <4> QED
        BY <1>1, <1>3, <2>5, <2>6, <2>8, <3>1, <4>1 DEF Keeps
    <3> QED
      BY <1>1, <1>3, <1>5, <2>1, <2>2, <2>3, <2>4, <2>8, <3>1 DEF Answered, Keeps
  <2>9. CASE frame.type = "headers"
    <3>1. Keeps(s, n, n) /\ chunks[s] = << >>
      BY <2>2, <2>4, <2>5, <2>9 DEF Keeps
    <3>2. SaysSo(s)'
      <4>1. ASSUME NEW i \in 1..n PROVE ~LastHeaders(s, i)
        <5>1. n + 1 \in (i + 1)..Len(Answer(s))
          BY <1>4, <1>5
        <5> QED
          BY <1>5, <2>9, <5>1 DEF LastHeaders
      <4>2. SaysHtml(frame.items) => SaysHtml(response'[s])
        <5>1. headers[s] \in Seq(Item) /\ frame.items \in Seq(Item)
          <6>1. Incoming("server", s) \in Frame /\ Incoming("server", s).items \in Seq(Item)
            BY <1>0, <1>1, <1>4, <1>5, IncomingType DEF TypeOK, Takes
          <6> QED
            BY <1>1, <1>2, <6>1 DEF TypeOK
        <5>2. response'[s] = headers[s] \o frame.items
          BY <1>2, <1>3, <2>9 DEF Fields
        <5> QED
          BY <5>1, <5>2, HtmlStays
      <4> QED
        BY <1>4, <1>5, <2>5, <2>6, <2>7, <4>1, <4>2 DEF SaysSo
    <3>3. Keeps(s, n + 1, n + 1)' /\ chunks'[s] = << >>
      BY <1>1, <1>3, <2>5, <2>6, <2>9, <3>1, <3>2 DEF Keeps
    <3> QED
      BY <1>1, <1>2, <1>3, <1>5, <2>1, <2>3, <2>9, <3>3 DEF Answered, Keeps
  <2>10. CASE frame.type = "data"
    <3>1. Keeps(s, n, n)
      BY <2>2, <2>4, <2>10
    <3>2. SaysSo(s)'
      <4>1. ~LastHeaders(s, n + 1)
        BY <1>5, <2>10 DEF LastHeaders
      <4> QED
        BY <1>3, <1>4, <1>5, <2>6, <2>7, <2>10, <3>1, <4>1 DEF SaysSo, Keeps
    <3>3. Keeps(s, n, n)'
      BY <1>1, <1>3, <2>6, <2>10, <3>1, <3>2 DEF Keeps
    <3>4. job'["server"].copy = Chunks(s)[n + 1]
      BY <1>3, <2>5, <2>10, <3>1 DEF Keeps
    <3>5. (n + 1) - 1 = n
      BY <1>4
    <3> QED
      BY <1>1, <1>2, <1>3, <1>5, <2>1, <2>3, <2>6, <2>10, <3>3, <3>4, <3>5 DEF Answered, Keeps
  <2>11. frame.type \in {"headers", "data", "other"}
    <3>1. Incoming("server", s) \in Frame
      BY <1>0, <1>1, <1>4, <1>5, IncomingType DEF TypeOK, Takes
    <3> QED
      BY <1>2, <3>1 DEF Frame
  <2> QED
    BY <2>1, <2>3, <2>8, <2>9, <2>10, <2>11
<1> QED
  BY <1>1, <1>4, <1>5, <1>6, <1>7, <1>8 DEF Slips

\* A page for a request.
LEMMA PageSlips ==
  ASSUME TypeOK, EndInv, SlipInv, PageSettings \/ WritePage \/ GoAway
  PROVE  SlipInv'
<1>0. "client" \in Side /\ "server" \in Side
  BY DEF Side
<1>1. PICK s : s = job["client"].stream
  OBVIOUS
<1>2. /\ pc["client"] \in PageSteps /\ pc'["server"] = pc["server"]
      /\ exchange' = exchange /\ taken' = taken
      /\ headers' = headers /\ chunks' = chunks /\ response' = response /\ body' = body
      /\ userData' = userData /\ overtaken' = overtaken
      /\ job'["server"] = job["server"]
      /\ job'["client"] = None \/ (job'["client"] = job["client"] /\ pc'["client"] \in PageSteps)
  BY <1>0 DEF PageSettings, WritePage, GoAway, PageSteps, input, held, Goto, TypeOK
<1>3. /\ s \in Stream /\ job["client"] # None /\ WorkOK("client") /\ WorksOn("client", s)
      /\ exchange[s].verdict = "block" /\ job["client"].frame.type = "headers" /\ Blocks(s)
  <2>1. ~Resting("client")
    BY <1>2 DEF Resting, PageSteps
  <2>2. job["client"] # None /\ s \in Stream
    BY <1>0, <1>1, <2>1, Busy
  <2> QED
    BY <1>0, <1>1, <1>2, <2>2 DEF EndInv, WorkOK, WorksOn
<1>4. OnlyOn("client", s)
  <2>1. CASE WritePage
    <3>1. got' = got \/ got' = [got EXCEPT !["client"][s] = @ \o Page]
      BY <1>1, <2>1 DEF WritePage, Send
    <3>2. got \in [Side -> [Stream -> Seq(Frame)]]
      BY DEF TypeOK
    <3> QED
      BY <1>0, <1>3, <3>1, <3>2 DEF OnlyOn
  <2>2. CASE ~WritePage
    <3>1. got' = got
      BY <2>2 DEF PageSettings, GoAway
    <3> QED
      BY <3>1 DEF OnlyOn
  <2> QED
    BY <2>1, <2>2
<1>5. Slips(s)'
  <2>1. Requested(s) /\ taken["server"][s] = 0 /\ headers[s] = << >> /\ ~HasHeaders(got["server"][s])
    BY <1>3 DEF Blocks, SlipInv, Slips
  <2>2. body[s] = << >> /\ chunks[s] = << >>
    BY <1>2, <1>3, <2>1 DEF Requested, PageSteps
  <2>3. ~HasHeaders(got["server"][s])'
    BY <1>0, <1>3, <1>4, <2>1 DEF OnlyOn, HasHeaders
  <2>4. Requested(s)'
    <3>1. CASE job'["client"] = None
      BY <1>2, <2>1, <2>2, <2>3, <3>1 DEF Requested, WorksOn
    <3>2. CASE job'["client"] = job["client"] /\ pc'["client"] \in PageSteps
      BY <1>2, <1>3, <2>1, <2>2, <2>3, <3>2 DEF Requested, WorksOn, PageSteps
    <3> QED
      BY <1>2, <3>1, <3>2
  <2> QED
    BY <1>2, <1>3, <2>4 DEF Slips
<1>6. ASSUME NEW r \in Stream, r # s PROVE Slips(r)'
  <2>1. ~WorksOn("client", r) /\ ~WorksOn("client", r)'
    BY <1>1, <1>2, <1>6 DEF WorksOn
  <2>2. WorksOn("server", r)' <=> WorksOn("server", r)
    BY <1>2 DEF WorksOn
  <2>3. Untouched(r)
    BY <1>2, <1>4, <1>6, <2>1, <2>2 DEF Untouched, OnlyOn, Side
  <2> QED
    BY <1>6, <2>3, UntouchedSlips DEF SlipInv
<1>7. WhiteOK'
  BY <1>2 DEF WhiteOK, SlipInv, Side
<1> QED
  BY <1>5, <1>6, <1>7 DEF SlipInv

\* Steps of no stream.
LEMMA IdleSlips ==
  ASSUME TypeOK, SlipInv, UNCHANGED <<exchange, taken, overtaken, job, headers, got>>,
         UNCHANGED <<chunks, response, body, userData>>,
         \A g \in Side : pc'[g] = pc[g] \/ Resting(g)
  PROVE  SlipInv'
<1>1. ASSUME NEW s \in Stream PROVE Untouched(s)
  <2>1. ASSUME NEW g \in Side
        PROVE  /\ WorksOn(g, s)' <=> WorksOn(g, s)
               /\ WorksOn(g, s) => pc'[g] = pc[g]
    BY DEF TypeOK, WorksOn
  <2> QED
    BY <2>1 DEF Untouched
<1>2. WhiteOK'
  BY DEF WhiteOK, SlipInv
<1> QED
  BY <1>1, <1>2, UntouchedSlips DEF SlipInv

LEMMA InitSlips == Init => SlipInv
<1> SUFFICES ASSUME Init PROVE SlipInv
  OBVIOUS
<1> USE DEF Init
<1>1. WhiteOK
  BY DEF WhiteOK
<1>2. ASSUME NEW s \in Stream
      PROVE  /\ taken["server"][s] = 0 /\ ~WorksOn("client", s)
             /\ got["server"][s] = << >> /\ got["client"][s] = << >>
  BY DEF Side, WorksOn
<1>3. ASSUME NEW s \in Stream PROVE Slips(s)
  <2>1. ~HasHeaders(<< >>) /\ Spotless(<< >>)
    BY DEF HasHeaders, Spotless
  <2>2. Requested(s)
    BY <1>2, <2>1 DEF Requested
  <2>3. Spotless(got["client"][s])
    BY <1>2, <2>1
  <2> QED
    BY <1>2, <2>2, <2>3 DEF Slips
<1> QED
  BY <1>1, <1>3 DEF SlipInv

LEMMA StepSlips ==
  ASSUME LengthIsNat, TypeOK, EndInv, SlipInv, [Next]_vars PROVE SlipInv'
<1>1. CASE UNCHANGED vars \/ Preface \/ PrefaceFails
  BY <1>1, IdleSlips DEF vars, Preface, PrefaceFails, input, held, wire, Resting, TypeOK, Side
<1>2. ASSUME NEW side \in Side, Stall(side) \/ Leave(side) PROVE SlipInv'
  BY <1>2, IdleSlips DEF Stall, Leave, input, held
<1>3. ASSUME NEW g \in Side, Process(g) PROVE SlipInv'
  <2>1. CASE ReadFails(g)
    BY <2>1, IdleSlips DEF ReadFails, input, held, Resting, Goto, TypeOK
  <2>2. ASSUME NEW s \in Stream, TakeData(g, s) \/ TakeOther(g, s) PROVE SlipInv'
    BY <2>2, TakeTakes, ClientTakes, ServerTakes, TakeSlips DEF Side
  <2>3. CASE \/ Forward(g) \/ Keep(g) \/ Store(g) \/ Decide(g)
             \/ Write(g) \/ Forget(g) \/ Flush(g) \/ Drop(g)
    BY <2>3, ClientSlips, ServerSlips DEF Side
  <2> QED
    BY <1>3, <2>1, <2>2, <2>3 DEF Process
<1>4. CASE ClientLoop
  <2>1. ASSUME NEW s \in Stream, TakeRequest(s) PROVE SlipInv'
    BY <2>1, TakeTakes, ClientTakes, TakeSlips DEF Side
  <2> QED
    BY <1>3, <1>4, <2>1, PageSlips DEF ClientLoop, Side
<1>5. CASE ServerLoop
  <2>1. ASSUME NEW s \in Stream, TakeResponse(s) PROVE SlipInv'
    BY <2>1, TakeTakes, ServerTakes, TakeSlips DEF Side
  <2>2. CASE TakeSettings \/ ForwardSettings
    BY <2>2, IdleSlips DEF TakeSettings, ForwardSettings, input, held, Resting, Goto, TypeOK, Side
  <2> QED
    BY <1>3, <1>5, <2>1, <2>2, ServerSlips DEF ServerLoop, Side
<1> QED
  BY <1>1, <1>2, <1>4, <1>5 DEF Next

LEMMA SlipsFollow == ASSUME EndInv, SlipInv PROVE BadSlipsOnlyAsKnown
<1> SUFFICES ASSUME NEW s \in Stream, ~PassesUnfiltered(s) PROVE Spotless(got["client"][s])
  BY DEF BadSlipsOnlyAsKnown, Spotless
<1>1. CASE exchange[s].verdict = "block"
  <2>1. got["client"][s] = << >> \/ got["client"][s] = Page
    BY <1>1 DEF EndInv, Blocks
  <2>2. Spotless(<< >>)
    BY DEF Spotless
  <2> QED
    BY <2>1, <2>2, PageSpotless
<1>2. CASE exchange[s].verdict # "block"
  BY <1>2 DEF SlipInv, Slips
<1> QED
  BY <1>1, <1>2

\* Apart from what the filter is known to let pass, no part of a body that it
\* rejects is ever sent to the client.
THEOREM RejectedNeverSlips == ASSUME LengthIsNat PROVE Spec => []BadSlipsOnlyAsKnown
<1> QED
  BY InitTypeOK, InitEnds, InitSlips, StepTypeOK, StepEnds, StepSlips, SlipsFollow, PTL DEF Spec

=============================================================================
