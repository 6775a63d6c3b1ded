------------------------- MODULE Http2RelayProofs -------------------------
(***************************************************************************)
(* Proof that Http2Filter implements HeldBody, for any number of streams   *)
(* and any exchanges.                                                      *)
(*                                                                         *)
(* The streams that HeldBody speaks of have a request phase, in which only *)
(* the goroutine reading the client works on them, and a response phase,   *)
(* which belongs to the other: a patient server answers a request that was *)
(* passed on in full, and is over.  So the maps of headers and chunks,     *)
(* though shared, are in one hand at a time, and what they hold (Kept)     *)
(* follows from the number of frames read.  An answer that comes while the *)
(* other goroutine has not done with the request ends this; such a stream  *)
(* is `overtaken`, its response is not owed any more, and all that is left *)
(* to prove of it is that nothing is added to the request.                 *)
(***************************************************************************)
EXTENDS Http2FilterProofs

\* What HeldBody speaks of in full.
Owed(s) == Tame(s) /\ s \notin overtaken

\* The body of an answer that begins with one header block, up to frame n.
BodyOf(s, n) == [i \in 1..(n - 1) |-> Answer(s)[i + 1].items[1]]

Gone(to) == conn[to] \in {"left", "closed"} \/ (to = "client" /\ ~intact)

\* The first n frames for one side have been sent there, unless it is gone.
Reached(to, s, n) == Gone(to) \/ got[to][s] = SubSeq(exchange[s][Other(to)], 1, n)

\* The items of the frames after the m-th, up to the n-th.
Part(x, m, n) == [i \in 1..(n - m) |-> x[i + m].items[1]]

\* What a peer may send: frames of one item each; on a tame stream a header
\* block and then data, of which only the last frame can end the stream.
Singles(x) ==
  /\ x \in Seq(Frame) /\ Len(x) \in Nat
  /\ \A i \in 1..Len(x) :
       x[i] \in Frame /\ x[i].items[1] \in Item /\ x[i].items = <<x[i].items[1]>>
Ordinary(x) ==
  /\ Singles(x)
  /\ \A i \in 1..Len(x) :
       /\ x[i] = [type |-> IF i = 1 THEN "headers" ELSE "data",
                  items |-> <<x[i].items[1]>>, ended |-> x[i].ended]
       /\ x[i].ended \in BOOLEAN
       /\ x[i].ended => i = Len(x)

\* The response's headers, and its body until it ends, are held back.
Holds(g, s) ==
  /\ g = "server"
  /\ exchange[s].verdict # "white" /\ SaysHtml(Answer(s)[1].items) /\ ~Answer(s)[1].ended

\* Of n frames so many are passed on, between two frames.
Sent(g, s, n) == IF Holds(g, s) THEN 0 ELSE n

\* The frame after which the chunks begin that go with the n-th.
From(g, s, n) == IF Holds(g, s) \/ n = 1 THEN 1 ELSE n - 1

\* k frames have been passed on, and the next ones up to the n-th are held.
Kept(g, s, k, n) ==
  LET x == exchange[s][g] IN
  /\ headers[s] = (IF k = 0 /\ n # 0 THEN x[1].items ELSE << >>)
  /\ chunks[s] = Part(x, IF k = 0 THEN 1 ELSE k, n)
  /\ Reached(Other(g), s, k)

\* While goroutine g works on the n-th frame.
Working(g, s, n) ==
  LET x == exchange[s][g]  m == From(g, s, n) IN
  /\ pc[g] \in {"keep", "store", "decide", "write", "forget", "flush", "drop", "replace", "clean"}
  /\ pc[g] = "keep" => n = 1 /\ Kept(g, s, 0, 0) /\ job[g].copy = x[1].items
  /\ pc[g] = "store" => n > 1 /\ Kept(g, s, Sent(g, s, n - 1), n - 1) /\ job[g].copy = Part(x, m, n)
  /\ pc[g] = "decide" => n > 1
  /\ pc[g] \in {"decide", "write"} => Kept(g, s, Sent(g, s, n - 1), n)
  /\ pc[g] \in {"write", "forget", "flush", "drop"} /\ Holds(g, s) => n = Len(x)
  /\ pc[g] \in {"forget", "flush"} => job[g].copy = Part(x, m, n) /\ Reached(Other(g), s, m)
  /\ pc[g] = "forget" => chunks[s] = job[g].copy
  /\ pc[g] \in {"flush", "drop"} => headers[s] = << >>
  /\ pc[g] = "drop" => Reached(Other(g), s, n)
  /\ pc[g] \in {"replace", "clean"} => g = "server" /\ n = Len(x)
  /\ pc[g] = "replace" => Reached("client", s, 0) /\ Held!Unwanted(s)

Flow(g, s) ==
  LET n == taken[g][s] IN
  IF WorksOn(g, s) THEN Working(g, s, n)
  ELSE Kept(g, s, Sent(g, s, n), n) \/ (g = "server" /\ n = Len(Answer(s)))

\* What the response filter goes by.
Seen(s) ==
  /\ userData[s] = exchange[s].verdict
  /\ WorksOn("server", s) => (job["server"].white <=> exchange[s].verdict = "white")
  /\ WorksOn("server", s) \/ taken["server"][s] < Len(Answer(s)) => response[s] = Answer(s)[1].items
  /\ Holds("server", s) => Length(body[s]) <= MaxLength

\* The goroutine that reads the client has the stream until the server
\* answers, the other one from then on.
Turn(g, s) ==
  IF g = "client"
  THEN taken["server"][s] = 0 /\ got["client"][s] = << >>
  ELSE /\ taken["server"][s] # 0 /\ taken["client"][s] = Len(exchange[s].client)
       /\ ~WorksOn("client", s)
       /\ Seen(s)

\* A blocked request is not passed on; the client gets the page.
Refused(s) ==
  /\ taken["server"][s] = 0 /\ got["server"][s] = << >>
  /\ taken["client"][s] = 0 \/ pc["client"] \in PageSteps \cup {"ended"}
  /\ WorksOn("client", s) => pc["client"] \in PageSteps
  /\ taken["client"][s] = 0 \/ (WorksOn("client", s) /\ pc["client"] # "goaway") =>
       Reached("client", s, 0)

Relay(s) ==
  /\ taken["client"][s] # 0 => userData[s] = exchange[s].verdict
  /\ IF exchange[s].verdict = "block" THEN Refused(s) ELSE \E g \in Side : Turn(g, s) /\ Flow(g, s)

\* A goroutine works on the frame it read last.
JobOK(g) ==
  job[g] # None =>
    LET s == job[g].stream IN
      /\ taken[g][s] \in 1..Len(exchange[s][g])
      /\ job[g].frame = exchange[s][g][taken[g][s]]

RelayInv ==
  /\ \A g \in Side : JobOK(g) /\ \A s \in Stream : taken[g][s] <= Len(exchange[s][g])
  /\ \A s \in Stream : Owed(s) => Relay(s)

-----------------------------------------------------------------------------
(* The frames of the peers.                                                *)

\* What an ordinary exchange is.
LEMMA Tameness ==
  ASSUME NEW s, Tame(s)
  PROVE  /\ exchange[s].patient
         /\ \A i \in 1..Len(exchange[s].client) :
              exchange[s].client[i].type = (IF i = 1 THEN "headers" ELSE "data")
         /\ \A i \in 1..Len(Answer(s)) :
              /\ Answer(s)[i].type = (IF i = 1 THEN "headers" ELSE "data")
              /\ Answer(s)[i].items[1] \notin Huge
              /\ Length(BodyOf(s, i)) <= MaxLength
BY DEF Tame, TameExchanges, Answer, BodyOf

\* What each peer sends, by the assumption on Exchanges.
LEMMA Given ==
  ASSUME exchange \in Exchanges, NEW g \in Side, NEW s \in Stream
  PROVE  Singles(exchange[s][g]) /\ (Tame(s) => Ordinary(exchange[s][g]))
<1> DEFINE x == exchange[s][g]
<1>1. exchange[s] \in Exchange
  BY ConstantsOK DEF ConstantsOK
<1>2. x \in Seq(Frame) /\ Len(x) \in Nat
  BY <1>1 DEF Side, Exchange
<1>3. ASSUME NEW i \in 1..Len(x)
      PROVE  /\ x[i] \in Frame /\ x[i].items[1] \in Item /\ x[i].items = <<x[i].items[1]>>
             /\ x[i].ended => \A k \in (i + 1)..Len(x) : x[k].type = "other"
  <2>1. x[i] \in Frame
    BY <1>2, ElementOfSeq
  <2>2. /\ Len(x[i].items) = 1
        /\ x[i].ended => \A k \in (i + 1)..Len(x) : x[k].type = "other"
    BY ConstantsOK DEF ConstantsOK
  <2>3. x[i].items \in Seq(Item)
    BY <2>1 DEF Frame
  <2>4. x[i].items[1] \in Item
    BY <2>2, <2>3
  <2>5. x[i].items = <<x[i].items[1]>>
    BY <2>2, <2>3
  <2> QED
    BY <2>1, <2>2, <2>4, <2>5
<1>4. Singles(x)
  BY <1>2, <1>3 DEF Singles
<1>5. ASSUME Tame(s) PROVE Ordinary(x)
  <2>1. \A k \in 1..Len(x) : x[k].type = (IF k = 1 THEN "headers" ELSE "data")
    BY <1>5, Tameness DEF Side, Answer
  <2>2. ASSUME NEW i \in 1..Len(x), x[i].ended PROVE i = Len(x)
    <3>1. \A k \in (i + 1)..Len(x) : x[k].type = "other"
      BY <2>2, <1>3
    <3>2. i < Len(x) => i + 1 \in (i + 1)..Len(x) /\ i + 1 \in 1..Len(x) /\ i + 1 # 1
      BY <1>2
    <3> QED
      BY <1>2, <2>1, <3>1, <3>2
  <2> QED
    BY <1>3, <1>4, <2>1, <2>2 DEF Ordinary, Frame
<1> QED
  BY <1>4, <1>5

\* No chunks.
LEMMA PartNone ==
  ASSUME NEW x, NEW m \in Nat, NEW n \in Nat, n <= m
  PROVE  Part(x, m, n) = << >>
<1>1. 1..(n - m) = {} /\ 1..0 = {}
  OBVIOUS
<1>2. Part(x, m, n) = [i \in {} |-> x[i + m].items[1]]
  BY <1>1 DEF Part
<1>3. << >> = [i \in {} |-> x[i + m].items[1]]
  OBVIOUS
<1> QED
  BY <1>2, <1>3

\* p holds the chunks of the frames of x after the m-th, up to the n-th.
IsPart(p, x, m, n) ==
  /\ p \in Seq(Item) /\ Len(p) = n - m
  /\ \A i \in 1..(n - m) : i + m \in 1..Len(x) /\ i + m # 1 /\ p[i] = x[i + m].items[1]

\* The chunks of successive frames.
LEMMA PartIsPart ==
  ASSUME NEW x, Singles(x), NEW m \in Nat \ {0}, NEW n \in Nat, m <= n, n <= Len(x)
  PROVE  IsPart(Part(x, m, n), x, m, n)
<1>1. \A i \in 1..(n - m) :
        i + m \in 1..Len(x) /\ i + m # 1 /\ Part(x, m, n)[i] = x[i + m].items[1]
  BY DEF Part, Singles
<1>2. \A i \in 1..(n - m) : x[i + m].items[1] \in Item
  BY <1>1 DEF Singles
<1>3. n - m \in Nat
  OBVIOUS
<1>4. Part(x, m, n) \in [1..(n - m) -> Item]
  BY <1>2 DEF Part
<1>5. Part(x, m, n) \in Seq(Item) /\ Len(Part(x, m, n)) = n - m
  BY <1>3, <1>4
<1> QED
  BY <1>1, <1>5 DEF IsPart

LEMMA PartFacts ==
  ASSUME NEW x, Singles(x), NEW m \in Nat \ {0}, NEW n \in Nat, n <= Len(x)
  PROVE  /\ m <= n => Part(x, m, n) \in Seq(Item) /\ Len(Part(x, m, n)) = n - m
         /\ n <= m => Part(x, m, n) = << >>
         /\ \A i \in 1..(n - m) :
              i + m \in 1..Len(x) /\ i + m # 1 /\ Part(x, m, n)[i] = x[i + m].items[1]
<1>1. m <= n => IsPart(Part(x, m, n), x, m, n)
  BY PartIsPart
<1>2. 1..(n - m) # {} => m <= n
  OBVIOUS
<1> QED
  BY <1>1, <1>2, PartNone DEF IsPart

\* Reading a frame adds its chunk.
LEMMA PartAppend ==
  ASSUME NEW x, Singles(x), NEW m \in Nat \ {0}, NEW n \in Nat, m <= n, n < Len(x)
  PROVE  Part(x, m, n) \o x[n + 1].items = Part(x, m, n + 1)
<1>1. Len(x) \in Nat /\ n + 1 \in 1..Len(x) /\ n <= Len(x) /\ n + 1 <= Len(x)
  BY DEF Singles
<1>2. PICK e : e = x[n + 1].items
  OBVIOUS
<1>3. PICK p : p = Part(x, m, n)
  OBVIOUS
<1>4. PICK q : q = Part(x, m, n + 1)
  OBVIOUS
<1>5. p \in Seq(Item) /\ Len(p) = n - m /\ \A i \in 1..(n - m) : p[i] = x[i + m].items[1]
  <2>1. IsPart(Part(x, m, n), x, m, n)
    BY <1>1, PartIsPart
  <2> QED
    BY <1>3, <2>1 DEF IsPart
<1>6. /\ q \in Seq(Item) /\ Len(q) = n + 1 - m
      /\ \A i \in 1..(n + 1 - m) : q[i] = x[i + m].items[1]
  <2>1. PICK k : k = n + 1
    OBVIOUS
  <2>2. k \in Nat /\ m <= k /\ k <= Len(x)
    BY <1>1, <2>1
  <2>3. IsPart(Part(x, m, k), x, m, k)
    BY <2>2, PartIsPart
  <2> QED
    BY <1>4, <2>1, <2>2, <2>3 DEF IsPart
<1>7. e \in Seq(Item) /\ Len(e) = 1 /\ e[1] = x[n + 1].items[1]
  <2>1. x[n + 1].items[1] \in Item /\ e = <<x[n + 1].items[1]>>
    BY <1>1, <1>2 DEF Singles
  <2> QED
    BY <2>1
<1>8. /\ p \o e \in Seq(Item) /\ Len(p \o e) = n + 1 - m
      /\ \A i \in 1..(n + 1 - m) : (p \o e)[i] = IF i <= n - m THEN p[i] ELSE e[i - (n - m)]
  <2>1. /\ p \o e \in Seq(Item) /\ Len(p \o e) = Len(p) + Len(e)
        /\ \A i \in 1..(Len(p) + Len(e)) :
             (p \o e)[i] = IF i <= Len(p) THEN p[i] ELSE e[i - Len(p)]
    BY <1>5, <1>7, ConcatProperties
  <2>2. Len(p) + Len(e) = n + 1 - m
    BY <1>5, <1>7
  <2> QED
    BY <2>1, <2>2, <1>5
<1>9. \A i \in 1..(n + 1 - m) : (p \o e)[i] = q[i]
  <2> TAKE i \in 1..(n + 1 - m)
  <2>1. CASE i <= n - m
    BY <2>1, <1>5, <1>6, <1>8
  <2>2. CASE i = n + 1 - m
    <3>1. i - (n - m) = 1 /\ i + m = n + 1 /\ ~(i <= n - m)
      BY <2>2
    <3>2. q[i] = x[n + 1].items[1]
      BY <3>1, <1>6
    <3>3. (p \o e)[i] = e[1]
      BY <3>1, <1>8
    <3> QED
      BY <3>2, <3>3, <1>7
  <2>3. i <= n - m \/ i = n + 1 - m
    OBVIOUS
  <2> QED
    BY <2>1, <2>2, <2>3
<1>10. p \o e = q
  BY <1>6, <1>8, <1>9, SeqEqual
<1> QED
  BY <1>2, <1>3, <1>4, <1>10

\* What is flushed are the frames that were read.
LEMMA FramesOfPart ==
  ASSUME NEW x, Ordinary(x), NEW m \in Nat \ {0}, NEW n \in Nat, m <= n, n <= Len(x)
  PROVE  DataFrames(Part(x, m, n), x[n].ended) = SubSeq(x, m + 1, n)
<1>1. /\ Singles(x) /\ Len(x) \in Nat /\ x \in Seq(Frame) /\ n \in 1..Len(x)
      /\ \A i \in (m + 1)..n : x[i] \in Frame
  BY DEF Ordinary, Singles
<1>2. PICK p : p = Part(x, m, n)
  OBVIOUS
<1>3. PICK t : t = SubSeq(x, m + 1, n)
  OBVIOUS
<1>4. PICK d : d = DataFrames(p, x[n].ended)
  OBVIOUS
<1>5. /\ p \in Seq(Item) /\ Len(p) = n - m
      /\ \A i \in 1..(n - m) :
           i + m \in 1..Len(x) /\ i + m # 1 /\ p[i] = x[i + m].items[1]
  <2>1. IsPart(Part(x, m, n), x, m, n)
    BY <1>1, PartIsPart
  <2> QED
    BY <1>2, <2>1 DEF IsPart
<1>6. t \in Seq(Frame) /\ Len(t) = n - m /\ \A i \in 1..(n - m) : t[i] = x[i + m]
  BY <1>1, <1>3, SubSeqProperties
<1>7. x[n].ended \in BOOLEAN
  BY <1>1 DEF Ordinary
<1>8. d \in Seq(Frame)
  BY <1>4, <1>5, <1>7, DataFramesType
<1>9. /\ Len(d) = n - m
      /\ \A i \in 1..(n - m) :
           d[i] = [type |-> "data", items |-> <<p[i]>>, ended |-> x[n].ended /\ i = n - m]
  <2>1. d = [i \in 1..(n - m) |->
              [type |-> "data", items |-> <<p[i]>>, ended |-> x[n].ended /\ i = n - m]]
    BY <1>4, <1>5 DEF DataFrames
  <2>2. n - m \in Nat
    OBVIOUS
  <2> QED
    BY <2>1, <2>2
<1>10. \A i \in 1..(n - m) : d[i] = t[i]
  <2> TAKE i \in 1..(n - m)
  <2>1. i + m \in 1..Len(x) /\ i + m # 1 /\ (i + m = Len(x) => i = n - m)
    BY <1>1, <1>5
  <2>2. /\ x[i + m].ended \in BOOLEAN /\ x[i + m].ended => i + m = Len(x)
        /\ x[i + m] = [type |-> "data", items |-> <<x[i + m].items[1]>>, ended |-> x[i + m].ended]
    BY <2>1 DEF Ordinary
  <2>3. x[i + m].ended = (x[n].ended /\ i = n - m)
    <3>1. CASE i = n - m
      <4>1. i + m = n
        BY <3>1
      <4> QED
        BY <4>1, <3>1, <1>7
    <3>2. CASE i # n - m
      <4>1. ~x[i + m].ended
        BY <3>2, <2>1, <2>2
      <4>2. x[i + m].ended = FALSE
        BY <4>1, <2>2
      <4> QED
        BY <4>2, <3>2
    <3> QED
      BY <3>1, <3>2
  <2>4. t[i] = x[i + m] /\ p[i] = x[i + m].items[1]
    BY <1>5, <1>6
  <2>5. d[i] = [type |-> "data", items |-> <<p[i]>>, ended |-> x[n].ended /\ i = n - m]
    BY <1>9
  <2> QED
    BY <2>2, <2>3, <2>4, <2>5
<1>11. d = t
  BY <1>6, <1>8, <1>9, <1>10, SeqEqual
<1> QED
  BY <1>2, <1>3, <1>4, <1>11

\* What is written for a header block is the first frame.
LEMMA HeaderFrame ==
  ASSUME NEW x, Ordinary(x), NEW n \in 1..Len(x)
  PROVE  <<[type |-> "headers", items |-> x[1].items,
            ended |-> Part(x, 1, n) = << >> /\ x[n].ended]>> = SubSeq(x, 1, 1)
<1>1. /\ Singles(x) /\ Len(x) \in Nat /\ 1 \in 1..Len(x) /\ n \in Nat
      /\ x[1] \in Frame /\ x[1].items = <<x[1].items[1]>>
  BY DEF Ordinary, Singles
<1>2. /\ x[1] = [type |-> "headers", items |-> <<x[1].items[1]>>, ended |-> x[1].ended]
      /\ x[1].ended => 1 = Len(x)
      /\ x[1].ended \in BOOLEAN /\ x[n].ended \in BOOLEAN
  BY <1>1 DEF Ordinary
<1>3. (Part(x, 1, n) = << >>) <=> n = 1
  <2>1. n > 1 => Len(Part(x, 1, n)) = n - 1
    BY <1>1, PartFacts
  <2>2. n = 1 => Part(x, 1, n) = << >>
    BY <1>1, PartFacts
  <2>3. Len(<< >>) = 0
    OBVIOUS
  <2> QED
    BY <2>1, <2>2, <2>3
<1>4. x[1].ended = (Part(x, 1, n) = << >> /\ x[n].ended)
  <2>1. CASE n = 1
    BY <2>1, <1>3, <1>2
  <2>2. CASE n # 1
    BY <2>2, <1>1, <1>2, <1>3
  <2> QED
    BY <2>1, <2>2
<1>5. /\ SubSeq(x, 1, 1) \in Seq(Frame) /\ Len(SubSeq(x, 1, 1)) = 1
      /\ SubSeq(x, 1, 1)[1] = x[1]
  <2>1. \A i \in 1..1 : x[i] \in Frame
    BY <1>1
  <2>2. 1 \in 1..(1 - 1 + 1) /\ 1 + 1 - 1 = 1
    OBVIOUS
  <2> QED
    BY <2>1, <2>2, SubSeqProperties
<1>6. <<x[1]>> = SubSeq(x, 1, 1)
  BY <1>1, <1>5
<1> QED
  BY <1>1, <1>2, <1>4, <1>6

-----------------------------------------------------------------------------
(* What steps leave alone.                                                 *)

\* A step that is about other streams, as seen from stream s.
Same(s) ==
  /\ exchange' = exchange
  /\ \A g \in Side :
       /\ taken'[g][s] = taken[g][s] /\ got'[g][s] = got[g][s]
       /\ WorksOn(g, s)' <=> WorksOn(g, s)
       /\ WorksOn(g, s) => job'[g] = job[g] /\ pc'[g] = pc[g]
       /\ Gone(g) => Gone(g)'
  /\ headers'[s] = headers[s] /\ chunks'[s] = chunks[s]
  /\ response'[s] = response[s] /\ body'[s] = body[s] /\ userData'[s] = userData[s]
  /\ pc["client"] \in PageSteps \cup {"ended"} => pc'["client"] \in PageSteps \cup {"ended"}

\* What is not owed once is not owed later.
LEMMA OwedBefore ==
  ASSUME exchange' = exchange, overtaken \subseteq overtaken', NEW s, Owed(s)'
  PROVE  Owed(s)
BY DEF Owed, Tame

\* What is fixed when the connection begins.
LEMMA Fixed ==
  ASSUME exchange' = exchange, NEW s
  PROVE  /\ Tame(s)' <=> Tame(s)
         /\ Held!Unwanted(s)' <=> Held!Unwanted(s)
         /\ Answer(s)' = Answer(s)
         /\ \A g : Holds(g, s)' <=> Holds(g, s)
         /\ \A g, n : Sent(g, s, n)' = Sent(g, s, n) /\ From(g, s, n)' = From(g, s, n)
BY DEF Tame, Held!Unwanted, Answer, Holds, Sent, From, SaysHtml

\* Frames that were passed on, or are held, stay so.
LEMMA ReachedStays ==
  ASSUME exchange' = exchange, NEW to \in Side, NEW s \in Stream, NEW n,
         got'[to][s] = got[to][s], Gone(to) => Gone(to)', Reached(to, s, n)
  PROVE  Reached(to, s, n)'
BY DEF Reached

LEMMA KeptStays ==
  ASSUME exchange' = exchange, NEW g \in Side, NEW s \in Stream, NEW k, NEW n,
         headers'[s] = headers[s], chunks'[s] = chunks[s],
         got'[Other(g)][s] = got[Other(g)][s], Gone(Other(g)) => Gone(Other(g))',
         Kept(g, s, k, n)
  PROVE  Kept(g, s, k, n)'
BY DEF Kept, Reached, Part, Other, Side

\* A step that is not about a stream keeps its invariant.
LEMMA SameRelay ==
  ASSUME NEW s \in Stream, Same(s), Relay(s)
  PROVE  Relay(s)'
<1> USE DEF Same
<1>1. /\ Held!Unwanted(s)' <=> Held!Unwanted(s)
      /\ Answer(s)' = Answer(s)
      /\ \A g : Holds(g, s)' <=> Holds(g, s)
      /\ \A g, n : Sent(g, s, n)' = Sent(g, s, n) /\ From(g, s, n)' = From(g, s, n)
  BY Fixed
<1>2. \A to \in Side : \A n : Reached(to, s, n) => Reached(to, s, n)'
  BY ReachedStays
<1>3. \A g \in Side : \A k, n : Kept(g, s, k, n) => Kept(g, s, k, n)'
  <2> TAKE g \in Side
  <2>1. Other(g) \in Side
    BY DEF Other, Side
  <2> QED
    BY <2>1, KeptStays
<1>4. ASSUME NEW g \in Side, Flow(g, s) PROVE Flow(g, s)'
  <2>1. CASE WorksOn(g, s)
    <3>1. Working(g, s, taken[g][s])
      BY <1>4, <2>1 DEF Flow
    <3>2. Other(g) \in Side /\ "client" \in Side
      BY DEF Other, Side
    <3>3. Working(g, s, taken[g][s])'
      <4>1. PICK n : n = taken[g][s]
        OBVIOUS
      <4>2. taken'[g][s] = n /\ exchange' = exchange /\ job'[g] = job[g] /\ pc'[g] = pc[g]
            /\ headers'[s] = headers[s] /\ chunks'[s] = chunks[s]
        BY <2>1, <4>1
      <4>3. Working(g, s, n)
        BY <3>1, <4>1
      <4>4. ASSUME NEW k, NEW r, Kept(g, s, k, r)
            PROVE  LET x == exchange'[s][g] IN
                   /\ headers'[s] = (IF k = 0 /\ r # 0 THEN x[1].items ELSE << >>)
                   /\ chunks'[s] = Part(x, IF k = 0 THEN 1 ELSE k, r)
                   /\ Reached(Other(g), s, k)'
        BY <1>2, <3>2, <4>2, <4>4 DEF Kept
      <4> HIDE DEF Same
      <4>5. PICK k : k = Sent(g, s, n - 1)
        OBVIOUS
      <4>6. PICK r : r = n - 1
        OBVIOUS
      <4> USE <1>1, <1>2, <3>2, <4>2, <4>3
      <4>7. CASE pc[g] = "keep"
        BY <4>4, <4>7 DEF Working, Kept
      <4>8. CASE pc[g] = "store"
        <5>1. n > 1 /\ Kept(g, s, k, r) /\ job[g].copy = Part(exchange[s][g], From(g, s, n), n)
          BY <4>5, <4>6, <4>8 DEF Working
        <5>2. Sent(g, s, n - 1)' = k /\ Kept(g, s, Sent(g, s, n - 1), n - 1)'
          BY <4>4, <4>5, <4>6, <5>1 DEF Kept
        <5>3. job'[g].copy = Part(exchange'[s][g], From(g, s, n)', n)
          BY <5>1
        <5> QED
          BY <4>8, <5>1, <5>2, <5>3 DEF Working
      <4>9. CASE pc[g] \in {"decide", "write"}
        <5>1. Kept(g, s, k, n) /\ (pc[g] = "decide" => n > 1)
              /\ (pc[g] = "write" /\ Holds(g, s) => n = Len(exchange[s][g]))
          BY <4>5, <4>9 DEF Working
        <5>2. Sent(g, s, n - 1)' = k /\ Kept(g, s, Sent(g, s, n - 1), n)'
          BY <4>4, <4>5, <5>1 DEF Kept
        <5>3. CASE pc[g] = "decide"
          BY <5>1, <5>2, <5>3 DEF Working
        <5>4. CASE pc[g] = "write"
          BY <5>1, <5>2, <5>4 DEF Working
        <5> QED
          BY <4>9, <5>3, <5>4
      <4>10. CASE pc[g] \in {"forget", "flush", "drop"}
        BY <4>10 DEF Working
      <4>11. CASE pc[g] \in {"replace", "clean"}
        BY <4>11 DEF Working
      <4> QED
        BY <4>7, <4>8, <4>9, <4>10, <4>11 DEF Working
    <3> QED
      BY <2>1, <3>3 DEF Flow
  <2>2. CASE ~WorksOn(g, s)
    BY <1>1, <1>3, <1>4, <2>2 DEF Flow
  <2> QED
    BY <2>1, <2>2
<1>5. ASSUME NEW g \in Side, Turn(g, s) PROVE Turn(g, s)'
  <2>1. CASE g = "client"
    BY <1>2, <1>5, <2>1 DEF Turn, Side
  <2>2. CASE g # "client"
    BY <1>1, <1>5, <2>2 DEF Turn, Side, Seen
  <2> QED
    BY <2>1, <2>2
<1>6. Refused(s) => Refused(s)'
  <2>1. "client" \in Side /\ "server" \in Side
    BY DEF Side
  <2> QED
    BY <1>2, <2>1 DEF Refused
<1>7. (taken["client"][s] # 0 => userData[s] = exchange[s].verdict)'
  BY DEF Relay, Side
<1> QED
  BY <1>4, <1>5, <1>6, <1>7 DEF Relay

-----------------------------------------------------------------------------
(* Writing.                                                                *)

\* Whatever one side gets leaves what others got alone, and garbling lasts.
LEMMA SendElsewhere ==
  ASSUME TypeOK, NEW to \in Side, NEW s \in Stream, NEW frames, Send(to, s, frames),
         conn' = conn
  PROVE  /\ \A h \in Side : Gone(h) => Gone(h)'
         /\ \A h \in Side : \A r \in Stream : h # to \/ r # s => got'[h][r] = got[h][r]
<1>1. got' = got \/ got' = [got EXCEPT ![to][s] = @ \o frames]
  BY DEF Send, Garble
<1>2. intact' = intact \/ intact' = FALSE
  BY DEF Send, Garble
<1>3. got \in [Side -> [Stream -> Seq(Frame)]] /\ intact \in BOOLEAN
  BY DEF TypeOK
<1> QED
  BY <1>1, <1>2, <1>3 DEF Gone

\* Sending the next frames extends what has been passed on.
LEMMA SendReached ==
  ASSUME TypeOK, NEW to \in Side, NEW s \in Stream, NEW m \in Nat, NEW n \in Nat, m <= n,
         n <= Len(exchange[s][Other(to)]), Reached(to, s, m), NEW frames,
         frames = SubSeq(exchange[s][Other(to)], m + 1, n), Send(to, s, frames),
         conn' = conn, exchange' = exchange
  PROVE  Reached(to, s, n)'
<1>1. Other(to) \in Side
  BY DEF Other, Side
<1>2. PICK x : x = exchange[s][Other(to)]
  OBVIOUS
<1>3. x \in Seq(Frame) /\ Len(x) \in Nat
  BY <1>1, <1>2, Given DEF TypeOK, Singles
<1>4. Gone(to) => Gone(to)'
  BY SendElsewhere
<1>5. ASSUME ~Gone(to) PROVE Reached(to, s, n)'
  <2>1. got[to][s] = SubSeq(x, 1, m)
    BY <1>2, <1>5 DEF Reached
  <2>2. CASE got' = [got EXCEPT ![to][s] = @ \o frames]
    <3>1. got'[to][s] = SubSeq(x, 1, m) \o SubSeq(x, m + 1, n)
      BY <2>1, <2>2, <1>2 DEF TypeOK
    <3>2. SubSeq(x, 1, m) \o SubSeq(x, m + 1, n) = SubSeq(x, 1, n)
      <4>1. 1 \in 1..(Len(x) + 1) /\ m \in (1 - 1)..Len(x) /\ n \in m..Len(x)
        BY <1>2, <1>3
      <4> QED
        BY <1>3, <4>1, ConcatAdjacentSubSeq
    <3> QED
      BY <1>2, <3>1, <3>2 DEF Reached
  <2>3. CASE Gone(to)'
    BY <2>3 DEF Reached
  <2>4. conn[to] = "open" /\ (to = "client" => intact)
    BY <1>5 DEF Send, Gone, TypeOK
  <2>5. got' = [got EXCEPT ![to][s] = @ \o frames] \/ (to = "client" /\ intact' = FALSE)
    BY <2>4 DEF Send, Garble
  <2> QED
    BY <2>2, <2>3, <2>5 DEF Gone
<1> QED
  BY <1>4, <1>5 DEF Reached

\* Nothing has been passed on.
LEMMA ReachedNone ==
  ASSUME NEW to, NEW s
  PROVE  Reached(to, s, 0) <=> Gone(to) \/ got[to][s] = << >>
<1>1. SubSeq(exchange[s][Other(to)], 1, 0) = << >>
  BY SubSeqEmpty
<1> QED
  BY <1>1 DEF Reached

-----------------------------------------------------------------------------
(* A goroutine at work.                                                    *)

\* What every step of a goroutine that works on stream s keeps to.
Acts(g, s) ==
  /\ exchange' = exchange /\ taken' = taken /\ userData' = userData
  /\ overtaken' = overtaken
  /\ \A h \in Side \ {g} : pc'[h] = pc[h] /\ job'[h] = job[h]
  /\ job'[g] = None \/ (/\ job'[g] # None /\ job'[g].stream = s
                        /\ job'[g].frame = job[g].frame /\ job'[g].white = job[g].white)
  /\ pc[g] \notin PageSteps \cup {"ended"}
  /\ \A h \in Side : Gone(h) => Gone(h)'
  /\ \A h \in Side : \A r \in Stream : h = g \/ r # s => got'[h][r] = got[h][r]
  /\ \A r \in Stream \ {s} :
       /\ headers'[r] = headers[r] /\ chunks'[r] = chunks[r]
       /\ response'[r] = response[r] /\ body'[r] = body[r]

\* It works on a frame of an ordinary stream that is not blocked, and whose
\* turn it is.
AtWork(g, s, n) ==
  /\ s = job[g].stream /\ s \in Stream /\ n = taken[g][s] /\ n \in 1..Len(exchange[s][g])
  /\ job[g] \in Job /\ WorksOn(g, s) /\ job[g].frame = exchange[s][g][n]
  /\ Owed(s) /\ Tame(s) /\ exchange[s].verdict # "block"
  /\ Ordinary(exchange[s][g])
  /\ Turn(g, s) /\ Working(g, s, n)

LEMMA AtWorkFacts ==
  ASSUME TypeOK, RelayInv, NEW g \in Side, job[g] # None, Owed(job[g].stream),
         pc[g] \notin PageSteps
  PROVE  AtWork(g, job[g].stream, taken[g][job[g].stream])
<1>1. PICK s \in Stream : s = job[g].stream
  BY DEF TypeOK, Job
<1>2. job[g] \in Job /\ WorksOn(g, s)
  BY <1>1 DEF TypeOK, WorksOn
<1>3. taken[g][s] \in 1..Len(exchange[s][g]) /\ job[g].frame = exchange[s][g][taken[g][s]]
  BY <1>1 DEF RelayInv, JobOK
<1>4. taken[g][s] # 0
  <2>1. \A i \in 1..Len(exchange[s][g]) : i # 0
    OBVIOUS
  <2> QED
    BY <1>3, <2>1
<1>5. Relay(s)
  BY <1>1 DEF RelayInv
<1>6. exchange[s].verdict # "block"
  <2> SUFFICES ASSUME Refused(s) PROVE FALSE
    BY <1>5 DEF Relay
  <2> QED
    BY <1>2, <1>4 DEF Refused, Side
<1>7. Turn(g, s) /\ Flow(g, s)
  <2>1. PICK h \in Side : Turn(h, s) /\ Flow(h, s)
    BY <1>5, <1>6 DEF Relay
  <2>2. h = g
    BY <1>2, <1>4, <2>1 DEF Turn, Side
  <2> QED
    BY <2>1, <2>2
<1>8. Working(g, s, taken[g][s])
  BY <1>2, <1>7 DEF Flow
<1>9. Tame(s) /\ Ordinary(exchange[s][g])
  BY <1>1, Given DEF TypeOK, Owed
<1> QED
  BY <1>1, <1>2, <1>3, <1>6, <1>7, <1>8, <1>9 DEF AtWork

\* Its step does not concern other streams.
LEMMA ActsElsewhere ==
  ASSUME TypeOK, NEW g \in Side, job[g] # None, Acts(g, job[g].stream),
         NEW r \in Stream, r # job[g].stream
  PROVE  Same(r)
<1> USE DEF Acts, Same
<1>1. \A h \in Side : WorksOn(h, r)' <=> WorksOn(h, r)
  BY DEF WorksOn
<1>2. ~WorksOn(g, r)
  BY DEF WorksOn
<1>3. ASSUME NEW h \in Side, WorksOn(h, r) PROVE job'[h] = job[h] /\ pc'[h] = pc[h]
  BY <1>2, <1>3
<1>4. pc["client"] \in PageSteps \cup {"ended"} => pc'["client"] \in PageSteps \cup {"ended"}
  BY DEF Side
<1> QED
  BY <1>1, <1>3, <1>4

\* If it keeps its own stream's flow, and what the filter goes by, it keeps
\* the invariant.
LEMMA ActsInv ==
  ASSUME TypeOK, RelayInv, NEW g \in Side, job[g] # None, Acts(g, job[g].stream),
         ASSUME NEW s, NEW n, AtWork(g, s, n)
         PROVE  Flow(g, s)' /\ (g = "server" => Seen(s)')
  PROVE  RelayInv'
<1>1. ASSUME NEW h \in Side
      PROVE  JobOK(h)' /\ \A r \in Stream : taken'[h][r] <= Len(exchange'[r][h])
  <2>1. JobOK(h) /\ \A r \in Stream : taken[h][r] <= Len(exchange[r][h])
    BY DEF RelayInv
  <2>2. job'[h] = None \/ (/\ job'[h] # None /\ job[h] # None /\ job'[h].stream = job[h].stream
                           /\ job'[h].frame = job[h].frame)
    BY DEF Acts
  <2> QED
    BY <2>1, <2>2 DEF JobOK, Acts
<1>2. ASSUME NEW r \in Stream, Owed(r)' PROVE Relay(r)'
  <2>1. Owed(r)
    BY <1>2, OwedBefore DEF Acts
  <2>2. Relay(r)
    BY <2>1 DEF RelayInv
  <2>3. CASE r # job[g].stream
    BY <2>2, <2>3, ActsElsewhere, SameRelay
  <2>4. CASE r = job[g].stream
    <3>1. PICK n : n = taken[g][r]
      OBVIOUS
    <3>2. AtWork(g, r, n)
      BY <2>1, <2>4, <3>1, AtWorkFacts DEF Acts
    <3>3. Flow(g, r)' /\ (g = "server" => Seen(r)')
      BY <3>2
    <3>4. Turn(g, r)'
      <4>1. Turn(g, r)
        BY <3>2 DEF AtWork
      <4>2. CASE g = "client"
        <5>1. got'["client"][r] = got["client"][r]
          BY <4>2 DEF Acts
        <5> QED
          BY <4>1, <4>2, <5>1 DEF Turn, Acts
      <4>3. CASE g # "client"
        BY <3>3, <4>1, <4>3 DEF Turn, Acts, WorksOn, Side
      <4> QED
        BY <4>2, <4>3
    <3>5. userData'[r] = userData[r] /\ taken' = taken /\ exchange' = exchange
      BY DEF Acts
    <3> QED
      BY <2>2, <3>2, <3>3, <3>4, <3>5 DEF Relay, AtWork
  <2> QED
    BY <2>3, <2>4
<1> QED
  BY <1>1, <1>2 DEF RelayInv

\* What its work is like after a step.
LEMMA FlowNext ==
  ASSUME NEW g \in Side, NEW s \in Stream, NEW n, n = taken[g][s],
         exchange' = exchange, taken' = taken,
         \/ WorksOn(g, s)' /\ Working(g, s, n)'
         \/ /\ job'[g] = None
            /\ \/ \E k : k = Sent(g, s, n) /\ Kept(g, s, k, n)'
               \/ g = "server" /\ n = Len(exchange[s][g])
  PROVE  Flow(g, s)'
<1>1. Sent(g, s, n)' = Sent(g, s, n) /\ Answer(s)' = Answer(s)
  BY Fixed
<1>2. CASE WorksOn(g, s)' /\ Working(g, s, n)'
  BY <1>2 DEF Flow
<1>3. CASE job'[g] = None /\ g = "server" /\ n = Len(exchange[s][g])
  BY <1>3 DEF Flow, WorksOn, Answer
<1>4. CASE job'[g] = None /\ \E k : k = Sent(g, s, n) /\ Kept(g, s, k, n)'
  <2>1. Kept(g, s, Sent(g, s, n), n)'
    BY <1>1, <1>4 DEF Kept
  <2> QED
    BY <1>4, <2>1 DEF Flow, WorksOn
<1> QED
  BY <1>2, <1>3, <1>4

\* What the filter goes by stays unless a response is written to.
LEMMA SeenStays ==
  ASSUME TypeOK, NEW g \in Side, job[g] # None, NEW s \in Stream, s = job[g].stream,
         Acts(g, s), Turn(g, s),
         response'[s] = response[s], body'[s] = body[s]
  PROVE  g = "server" => Seen(s)'
<1> SUFFICES ASSUME g = "server" PROVE Seen(s)'
  OBVIOUS
<1>1. Seen(s)
  BY DEF Turn
<1>2. exchange' = exchange /\ taken' = taken /\ userData' = userData
  BY DEF Acts
<1>3. WorksOn(g, s) /\ (WorksOn(g, s)' => job'[g].white = job[g].white)
  BY DEF WorksOn, Acts
<1>4. (Holds("server", s)' <=> Holds("server", s)) /\ Answer(s)' = Answer(s)
  BY <1>2, Fixed
<1> QED
  BY <1>1, <1>2, <1>3, <1>4 DEF Seen

\* The first header block is stored.
LEMMA KeepRelay ==
  ASSUME TypeOK, RelayInv, NEW g \in Side, Keep(g)
  PROVE  RelayInv'
<1>1. job[g] # None /\ job[g] \in Job /\ job[g].stream \in Stream
  BY Busy DEF Keep, Resting
<1>2. Acts(g, job[g].stream)
  <2>1. headers' = [headers EXCEPT ![job[g].stream] = job[g].copy]
    BY DEF Keep
  <2>2. /\ UNCHANGED <<input, chunks, response, body, userData, wire>>
        /\ pc[g] = "keep"
        /\ \E p : pc' = [pc EXCEPT ![g] = p]
        /\ job' = job \/ job' = [job EXCEPT ![g] = None]
    BY DEF Keep, Goto, Rest
  <2> QED
    BY <1>1, <2>1, <2>2 DEF Acts, TypeOK, input, wire, Gone, PageSteps
<1>3. ASSUME NEW s, NEW n, AtWork(g, s, n) PROVE Flow(g, s)' /\ (g = "server" => Seen(s)')
  <2>1. /\ s = job[g].stream /\ s \in Stream /\ n = taken[g][s] /\ WorksOn(g, s)
        /\ Turn(g, s) /\ Working(g, s, n) /\ Tame(s)
        /\ Ordinary(exchange[s][g]) /\ Singles(exchange[s][g])
        /\ job[g].frame = exchange[s][g][n] /\ n \in 1..Len(exchange[s][g])
    BY <1>3 DEF AtWork, Ordinary
  <2>2. PICK x : x = exchange[s][g]
    OBVIOUS
  <2>3. /\ pc[g] = "keep" /\ headers' = [headers EXCEPT ![s] = job[g].copy]
        /\ chunks' = chunks /\ exchange' = exchange /\ taken' = taken
        /\ response' = response /\ body' = body /\ userData' = userData
        /\ IF WritesAtOnce(g) THEN Goto(g, "write") /\ UNCHANGED job ELSE Rest(g)
    BY <2>1 DEF Keep, input, wire
  <2>4. n = 1 /\ Kept(g, s, 0, 0) /\ job[g].copy = x[1].items
    BY <2>1, <2>2, <2>3 DEF Working
  <2>5. Kept(g, s, 0, 1)'
    <3>1. chunks[s] = Part(x, 1, 0) /\ Reached(Other(g), s, 0)
      BY <2>2, <2>4 DEF Kept
    <3>2. Part(x, 1, 0) = << >> /\ Part(x, 1, 1) = << >>
      BY PartNone
    <3>3. headers'[s] = x[1].items
      BY <2>1, <2>3, <2>4 DEF TypeOK
    <3>4. Reached(Other(g), s, 0)'
      <4>1. Other(g) \in Side
        BY DEF Other, Side
      <4>2. got' = got
        BY DEF Keep, wire
      <4> QED
        BY <3>1, <4>1, <4>2, <2>1, <1>2, ReachedStays DEF Acts
    <3> QED
      BY <2>2, <2>3, <3>1, <3>2, <3>3, <3>4 DEF Kept
  <2>6. Holds(g, s) <=> ~WritesAtOnce(g)
    <3>1. x[1].items = <<x[1].items[1]>> /\ n = 1
      BY <2>1, <2>2, <2>4 DEF Singles
    <3>2. CASE g = "client"
      BY <3>2 DEF Holds, WritesAtOnce
    <3>3. CASE g = "server"
      <4>1. job[g].white <=> exchange[s].verdict = "white"
        BY <2>1, <3>3 DEF Turn, Seen
      <4>2. x = Answer(s) /\ x[1].items[1] \notin Huge /\ job[g].frame = x[1]
        BY <2>1, <2>2, <2>4, <3>3, Tameness DEF Answer
      <4>3. ~Announces(x[1].items)
        <5>1. \A i \in 1..Len(<<x[1].items[1]>>) : i = 1
          OBVIOUS
        <5> QED
          BY <3>1, <4>2, <5>1 DEF Announces
      <4> QED
        BY <2>4, <3>3, <4>1, <4>2, <4>3 DEF Holds, WritesAtOnce
    <3> QED
      BY <3>2, <3>3 DEF Side
  <2>7. Holds(g, s)' <=> Holds(g, s)
    BY <2>3, Fixed
  <2>8. Flow(g, s)'
    <3>1. CASE WritesAtOnce(g)
      <4>1. WorksOn(g, s)' /\ pc'[g] = "write"
        BY <2>1, <2>3, <3>1 DEF WorksOn, Goto, TypeOK
      <4>2. Sent(g, s, n - 1)' = 0 /\ n = 1
        BY <2>4 DEF Sent
      <4>3. Working(g, s, n)'
        BY <2>5, <2>6, <2>7, <3>1, <4>1, <4>2 DEF Working, Kept
      <4> QED
        BY <2>1, <2>3, <4>1, <4>3, FlowNext
    <3>2. CASE ~WritesAtOnce(g)
      <4>1. Sent(g, s, n) = 0 /\ job'[g] = None
        BY <2>1, <2>3, <2>6, <3>2 DEF Sent, Rest, TypeOK
      <4> QED
        BY <2>1, <2>3, <2>4, <2>5, <4>1, FlowNext
    <3> QED
      BY <3>1, <3>2
  <2>9. g = "server" => Seen(s)'
    BY <1>1, <1>2, <2>1, <2>3, SeenStays
  <2> QED
    BY <2>8, <2>9
<1> QED
  BY <1>1, <1>2, <1>3, ActsInv

\* A chunk is stored.
LEMMA StoreRelay ==
  ASSUME TypeOK, RelayInv, NEW g \in Side, Store(g)
  PROVE  RelayInv'
<1>1. job[g] # None /\ job[g] \in Job /\ job[g].stream \in Stream
  BY Busy DEF Store, Resting
<1>2. Acts(g, job[g].stream)
  <2>1. chunks' = [chunks EXCEPT ![job[g].stream] = job[g].copy]
    BY DEF Store
  <2>2. /\ UNCHANGED <<input, job, headers, response, body, userData, wire>>
        /\ pc[g] = "store"
        /\ \E p : pc' = [pc EXCEPT ![g] = p]
    BY DEF Store, Goto
  <2> QED
    BY <1>1, <2>1, <2>2 DEF Acts, TypeOK, input, wire, Gone, PageSteps
<1>3. ASSUME NEW s, NEW n, AtWork(g, s, n) PROVE Flow(g, s)' /\ (g = "server" => Seen(s)')
  <2>1. /\ s = job[g].stream /\ s \in Stream /\ n = taken[g][s] /\ WorksOn(g, s)
        /\ Turn(g, s) /\ Working(g, s, n) /\ n \in 1..Len(exchange[s][g])
    BY <1>3 DEF AtWork
  <2>2. PICK x : x = exchange[s][g]
    OBVIOUS
  <2>3. /\ pc[g] = "store" /\ chunks' = [chunks EXCEPT ![s] = job[g].copy]
        /\ headers' = headers /\ exchange' = exchange /\ taken' = taken /\ job' = job
        /\ response' = response /\ body' = body /\ got' = got
        /\ pc'[g] = "decide"
    BY <2>1 DEF Store, input, wire, Goto, TypeOK
  <2>4. PICK k : k = Sent(g, s, n - 1)
    OBVIOUS
  <2>5. PICK r : r = n - 1
    OBVIOUS
  <2>6. n > 1 /\ Kept(g, s, k, r) /\ job[g].copy = Part(x, From(g, s, n), n)
    BY <2>2, <2>3, <2>1, <2>4, <2>5 DEF Working
  <2>7. Reached(Other(g), s, k)'
    <3>1. Other(g) \in Side
      BY DEF Other, Side
    <3> QED
      BY <1>2, <2>1, <2>3, <2>6, <3>1, ReachedStays DEF Acts, Kept
  <2>8. From(g, s, n) = IF k = 0 THEN 1 ELSE k
    BY <2>1, <2>4, <2>6 DEF From, Sent
  <2>9. Kept(g, s, k, n)'
    <3>1. chunks'[s] = Part(x, IF k = 0 THEN 1 ELSE k, n)
      BY <2>1, <2>3, <2>6, <2>8 DEF TypeOK
    <3>2. headers'[s] = IF k = 0 /\ n # 0 THEN x[1].items ELSE << >>
      BY <2>1, <2>2, <2>3, <2>5, <2>6 DEF Kept
    <3> QED
      BY <2>2, <2>3, <2>7, <3>1, <3>2 DEF Kept
  <2>10. Working(g, s, n)'
    <3>1. Sent(g, s, n - 1)' = k
      BY <2>3, <2>4, Fixed
    <3> QED
      BY <2>3, <2>6, <2>9, <3>1 DEF Working, Kept
  <2>11. WorksOn(g, s)'
    BY <2>1, <2>3 DEF WorksOn
  <2> QED
    BY <1>1, <1>2, <2>1, <2>3, <2>10, <2>11, FlowNext, SeenStays
<1> QED
  BY <1>1, <1>2, <1>3, ActsInv

\* A block page for a response is written in its place.
LEMMA ReplaceRelay ==
  ASSUME TypeOK, RelayInv, Replace
  PROVE  RelayInv'
<1>0. "server" \in Side /\ "client" \in Side
  BY DEF Side
<1>1. job["server"] # None /\ job["server"] \in Job /\ job["server"].stream \in Stream
  BY <1>0, Busy DEF Replace, Resting
<1>2. Acts("server", job["server"].stream)
  <2>1. /\ UNCHANGED <<input, job, held, ready, settled, conn>>
        /\ pc["server"] = "replace" /\ pc' = [pc EXCEPT !["server"] = "clean"]
        /\ Send("client", job["server"].stream, Page)
    BY DEF Replace, Goto
  <2>2. /\ \A h \in Side : Gone(h) => Gone(h)'
        /\ \A h \in Side : \A r \in Stream :
             h = "server" \/ r # job["server"].stream => got'[h][r] = got[h][r]
    BY <1>0, <1>1, <2>1, SendElsewhere
  <2> QED
    BY <1>1, <2>1, <2>2 DEF Acts, TypeOK, input, held, PageSteps
<1>3. ASSUME NEW s, NEW n, AtWork("server", s, n)
      PROVE  Flow("server", s)' /\ Seen(s)'
  <2>1. /\ s = job["server"].stream /\ s \in Stream /\ n = taken["server"][s]
        /\ WorksOn("server", s)
        /\ Turn("server", s) /\ Working("server", s, n)
    BY <1>3 DEF AtWork
  <2>2. /\ pc["server"] = "replace" /\ pc'["server"] = "clean"
        /\ exchange' = exchange /\ taken' = taken /\ job' = job
        /\ response' = response /\ body' = body
    BY <1>0 DEF Replace, input, held, Goto, TypeOK
  <2>3. n = Len(exchange[s]["server"])
    BY <2>1, <2>2 DEF Working
  <2>4. Working("server", s, n)'
    BY <2>2, <2>3 DEF Working
  <2>5. WorksOn("server", s)'
    BY <2>1, <2>2 DEF WorksOn
  <2> QED
    BY <1>0, <1>1, <1>2, <2>1, <2>2, <2>4, <2>5, FlowNext, SeenStays
<1> QED
  BY <1>0, <1>1, <1>2, <1>3, ActsInv

\* After a page nothing else of the response is there.
LEMMA CleanRelay ==
  ASSUME TypeOK, RelayInv, Clean
  PROVE  RelayInv'
<1>0. "server" \in Side /\ "client" \in Side
  BY DEF Side
<1>1. job["server"] # None /\ job["server"] \in Job /\ job["server"].stream \in Stream
  BY <1>0, Busy DEF Clean, Resting
<1>2. PICK t \in Stream : t = job["server"].stream
  BY <1>1
<1>3. /\ response' = [response EXCEPT ![t] = << >>] /\ body' = [body EXCEPT ![t] = << >>]
      /\ chunks' = [chunks EXCEPT ![t] = << >>]
      /\ UNCHANGED <<input, headers, userData, wire>>
      /\ pc["server"] = "clean" /\ pc' = [pc EXCEPT !["server"] = "idle"]
      /\ job' = [job EXCEPT !["server"] = None]
  BY <1>2 DEF Clean, Rest, Goto
<1>4. Acts("server", job["server"].stream)
  BY <1>1, <1>2, <1>3 DEF Acts, TypeOK, input, wire, Gone, PageSteps
<1>5. ASSUME NEW s, NEW n, AtWork("server", s, n)
      PROVE  Flow("server", s)' /\ Seen(s)'
  <2>1. /\ s = job["server"].stream /\ s \in Stream /\ n = taken["server"][s]
        /\ n \in 1..Len(exchange[s]["server"]) /\ WorksOn("server", s)
        /\ Turn("server", s) /\ Working("server", s, n) /\ Tame(s)
    BY <1>5 DEF AtWork
  <2>2. exchange' = exchange /\ taken' = taken /\ userData' = userData /\ job'["server"] = None
    BY <1>0, <1>3 DEF input, TypeOK
  <2>3. n = Len(exchange[s]["server"])
    BY <1>3, <2>1 DEF Working
  <2>4. Flow("server", s)'
    BY <1>0, <2>1, <2>2, <2>3, FlowNext
  <2>5. Length(body'[s]) <= MaxLength
    <3>1. body'[s] = << >>
      BY <1>2, <1>3, <2>1 DEF TypeOK
    <3>2. 1 \in 1..Len(Answer(s))
      BY <2>1 DEF Answer
    <3>3. BodyOf(s, 1) = << >>
      BY PartNone DEF BodyOf, Part
    <3> QED
      BY <2>1, <3>1, <3>2, <3>3, Tameness
  <2>6. Seen(s)'
    <3>1. userData[s] = exchange[s].verdict
      BY <2>1 DEF Turn, Seen
    <3>2. ~WorksOn("server", s)' /\ ~(taken["server"][s] < Len(Answer(s)))
      BY <2>1, <2>2, <2>3 DEF WorksOn, Answer
    <3>3. Answer(s)' = Answer(s)
      BY <2>2, Fixed
    <3> QED
      BY <2>2, <2>5, <3>1, <3>2, <3>3 DEF Seen
  <2> QED
    BY <2>4, <2>6
<1> QED
  BY <1>0, <1>1, <1>4, <1>5, ActsInv

\* Held headers reach the other side.
LEMMA WriteReaches ==
  ASSUME TypeOK, NEW g \in Side, NEW s, NEW n, AtWork(g, s, n), Write(g), headers[s] # << >>
  PROVE  /\ Sent(g, s, n - 1) = 0 /\ From(g, s, n) = 1
         /\ Reached(Other(g), s, 0) /\ Reached(Other(g), s, 1)'
         /\ chunks[s] = Part(exchange[s][g], 1, n)
<1>0. Other(g) \in Side /\ Other(Other(g)) = g
  BY DEF Other, Side
<1>1. /\ s = job[g].stream /\ s \in Stream
      /\ Working(g, s, n) /\ n \in 1..Len(exchange[s][g])
      /\ job[g].frame = exchange[s][g][n]
      /\ Ordinary(exchange[s][g]) /\ Singles(exchange[s][g])
  BY DEF AtWork, Ordinary
<1>2. PICK x : x = exchange[s][g]
  OBVIOUS
<1>3. PICK f : f = [type |-> "headers", items |-> headers[s],
                    ended |-> chunks[s] = << >> /\ job[g].frame.ended]
  OBVIOUS
<1>4. /\ exchange' = exchange /\ conn' = conn /\ pc[g] = "write"
      /\ Send(Other(g), s, <<f>>)
  BY <1>1, <1>3 DEF Write, input
<1>5. PICK k : k = Sent(g, s, n - 1)
  OBVIOUS
<1>6. Kept(g, s, k, n)
  BY <1>1, <1>4, <1>5 DEF Working
<1>7. k = 0 /\ From(g, s, n) = 1 /\ headers[s] = x[1].items
  BY <1>1, <1>2, <1>5, <1>6 DEF Kept, Sent, From
<1>8. chunks[s] = Part(x, 1, n) /\ Reached(Other(g), s, 0)
  BY <1>2, <1>6, <1>7 DEF Kept
<1>9. <<f>> = SubSeq(x, 0 + 1, 1)
  BY <1>1, <1>2, <1>3, <1>7, <1>8, HeaderFrame
<1>10. 0 \in Nat /\ 1 \in Nat /\ 0 <= 1 /\ 1 <= Len(x)
  BY <1>1, <1>2 DEF Singles
<1>11. Reached(Other(g), s, 1)'
  BY <1>0, <1>1, <1>2, <1>4, <1>8, <1>9, <1>10, SendReached
<1> QED
  BY <1>2, <1>5, <1>7, <1>8, <1>11

\* Held headers, if any, are written.
LEMMA WriteRelay ==
  ASSUME TypeOK, RelayInv, NEW g \in Side, Write(g)
  PROVE  RelayInv'
<1>0. Other(g) \in Side /\ Other(g) # g
  BY DEF Other, Side
<1>1. job[g] # None /\ job[g] \in Job /\ job[g].stream \in Stream
  BY Busy DEF Write, Resting
<1>2. PICK t \in Stream : t = job[g].stream
  BY <1>1
<1>3. PICK f : f = [type |-> "headers", items |-> headers[t],
                    ended |-> chunks[t] = << >> /\ job[g].frame.ended]
  OBVIOUS
<1>4. /\ UNCHANGED <<input, held, ready, settled, conn>>
      /\ pc[g] = "write"
      /\ IF headers[t] = << >> THEN UNCHANGED <<got, intact>> ELSE Send(Other(g), t, <<f>>)
      /\ IF headers[t] = << >> /\ chunks[t] = << >>
         THEN pc' = [pc EXCEPT ![g] = "idle"] /\ job' = [job EXCEPT ![g] = None]
         ELSE /\ job' = [job EXCEPT ![g].copy = chunks[t]]
              /\ pc' = [pc EXCEPT ![g] = IF headers[t] = << >> THEN "flush" ELSE "forget"]
  BY <1>2, <1>3 DEF Write, Goto, Rest
<1>7. LET j == [job[g] EXCEPT !.copy = chunks[t]] IN
      j # None /\ j.stream = t /\ j.copy = chunks[t]
  <2>1. [job[g] EXCEPT !.copy = chunks[t]] \in Job
    BY <1>1 DEF Job, TypeOK
  <2> QED
    BY <1>1, <1>2, <2>1, NoneOK DEF Job
<1>5. Acts(g, t)
  <2>1. /\ \A h \in Side : Gone(h) => Gone(h)'
        /\ \A h \in Side : \A r \in Stream : h = g \/ r # t => got'[h][r] = got[h][r]
    <3>1. CASE headers[t] = << >>
      BY <1>4, <3>1 DEF Gone
    <3>2. CASE headers[t] # << >>
      BY <1>0, <1>4, <3>2, SendElsewhere
    <3> QED
      BY <3>1, <3>2
  <2>2. job'[g] = None \/ job'[g] = [job[g] EXCEPT !.copy = chunks[t]]
    BY <1>4 DEF TypeOK
  <2>3. job'[g] = None \/ (/\ job'[g] # None /\ job'[g].stream = t
                           /\ job'[g].frame = job[g].frame /\ job'[g].white = job[g].white)
    BY <1>1, <1>2, <1>7, <2>2 DEF Job
  <2>4. /\ exchange' = exchange /\ taken' = taken /\ userData' = userData
        /\ headers' = headers /\ chunks' = chunks /\ response' = response /\ body' = body
        /\ overtaken' = overtaken
    BY <1>4 DEF input, held
  <2>5. /\ \A h \in Side \ {g} : pc'[h] = pc[h] /\ job'[h] = job[h]
        /\ pc[g] \notin PageSteps \cup {"ended"}
    BY <1>4 DEF TypeOK, PageSteps
  <2> QED
    BY <2>1, <2>3, <2>4, <2>5 DEF Acts
<1>6. ASSUME NEW s, NEW n, AtWork(g, s, n) PROVE Flow(g, s)' /\ (g = "server" => Seen(s)')
  <2>1. /\ s = t /\ s \in Stream /\ n = taken[g][s] /\ WorksOn(g, s)
        /\ Turn(g, s) /\ Working(g, s, n) /\ n \in 1..Len(exchange[s][g])
        /\ job[g].frame = exchange[s][g][n]
        /\ Ordinary(exchange[s][g]) /\ Singles(exchange[s][g])
    BY <1>2, <1>6 DEF AtWork, Ordinary
  <2>2. PICK x : x = exchange[s][g]
    OBVIOUS
  <2>3. /\ exchange' = exchange /\ taken' = taken /\ conn' = conn /\ chunks' = chunks
        /\ headers' = headers /\ response' = response /\ body' = body
    BY <1>4 DEF input, held
  <2>4. PICK k : k = Sent(g, s, n - 1)
    OBVIOUS
  <2>5. Kept(g, s, k, n) /\ (Holds(g, s) => n = Len(x))
    BY <1>4, <2>1, <2>2, <2>4 DEF Working
  <2>6. n \in Nat /\ n <= Len(x) /\ Len(x) \in Nat /\ x[1].items # << >>
    <3>1. 1 \in 1..Len(x) /\ Len(x) \in Nat
      BY <2>1, <2>2 DEF Singles
    <3>2. x[1].items = <<x[1].items[1]>>
      BY <2>1, <2>2, <3>1 DEF Singles
    <3> QED
      BY <2>1, <2>2, <3>1, <3>2
  <2>7. ASSUME headers[s] = << >> PROVE Flow(g, s)'
    <3>1. k # 0 /\ k = n - 1 /\ n > 1 /\ From(g, s, n) = k /\ k \in Nat \ {0}
      BY <2>1, <2>2, <2>4, <2>5, <2>6, <2>7 DEF Kept, Sent, From
    <3>2. chunks[s] = Part(x, k, n) /\ Reached(Other(g), s, k)
      BY <2>2, <2>5, <3>1 DEF Kept
    <3>3. chunks[s] # << >>
      <4>1. Len(Part(x, k, n)) = 1
        <5>1. k <= n /\ n - k = 1
          BY <2>6, <3>1
        <5>2. Singles(x)
          BY <2>1, <2>2
        <5>3. n \in Nat /\ n <= Len(x) /\ k \in Nat \ {0}
          BY <2>6, <3>1
        <5>4. Len(Part(x, k, n)) = n - k
          BY <5>1, <5>2, <5>3, PartFacts
        <5> QED
          BY <5>1, <5>4
      <4>2. Len(chunks[s]) = 1 /\ Len(<< >>) = 0
        BY <3>2, <4>1
      <4> QED
        BY <4>2
    <3>4. pc'[g] = "flush" /\ job'[g] = [job[g] EXCEPT !.copy = chunks[s]]
      BY <1>4, <2>1, <2>7, <3>3 DEF TypeOK
    <3>5. job'[g].copy = Part(x, k, n) /\ job'[g] # None /\ job'[g].stream = s
      BY <1>7, <2>1, <3>2, <3>4
    <3>6. Reached(Other(g), s, k)'
      BY <1>0, <1>4, <2>1, <2>3, <2>7, <3>2, <1>5, ReachedStays DEF Acts
    <3>7. Working(g, s, n)'
      <4>1. From(g, s, n)' = k /\ (Holds(g, s)' <=> Holds(g, s))
        BY <2>3, <3>1, Fixed
      <4> QED
        BY <2>2, <2>3, <2>5, <2>7, <3>4, <3>5, <3>6, <4>1 DEF Working
    <3>8. WorksOn(g, s)'
      BY <3>5 DEF WorksOn
    <3> QED
      BY <2>1, <2>3, <3>7, <3>8, FlowNext
  <2>8. ASSUME headers[s] # << >> PROVE Flow(g, s)'
    <3>1. From(g, s, n) = 1 /\ Reached(Other(g), s, 1)' /\ chunks[s] = Part(x, 1, n)
      BY <1>6, <2>2, <2>8, WriteReaches
    <3>2. pc'[g] = "forget" /\ job'[g] = [job[g] EXCEPT !.copy = chunks[s]]
      BY <1>4, <2>1, <2>8 DEF TypeOK
    <3>3. job'[g].copy = chunks[s] /\ job'[g] # None /\ job'[g].stream = s
      BY <1>7, <2>1, <3>2
    <3>4. Working(g, s, n)'
      <4>1. From(g, s, n)' = 1 /\ (Holds(g, s)' <=> Holds(g, s))
        BY <2>3, <3>1, Fixed
      <4> QED
        BY <2>2, <2>3, <2>5, <3>1, <3>2, <3>3, <4>1 DEF Working
    <3>5. WorksOn(g, s)'
      BY <3>3 DEF WorksOn
    <3> QED
      BY <2>1, <2>3, <3>4, <3>5, FlowNext
  <2>9. g = "server" => Seen(s)'
    BY <1>1, <1>2, <1>5, <2>1, <2>3, SeenStays
  <2> QED
    BY <2>7, <2>8, <2>9
<1> QED
  BY <1>1, <1>2, <1>5, <1>6, ActsInv

\* Written headers are forgotten.
LEMMA ForgetRelay ==
  ASSUME TypeOK, RelayInv, NEW g \in Side, Forget(g)
  PROVE  RelayInv'
<1>0. Other(g) \in Side
  BY DEF Other, Side
<1>1. job[g] # None /\ job[g] \in Job /\ job[g].stream \in Stream
  BY Busy DEF Forget, Resting
<1>2. Acts(g, job[g].stream)
  <2>1. headers' = [headers EXCEPT ![job[g].stream] = << >>]
    BY DEF Forget
  <2>2. /\ UNCHANGED <<input, chunks, response, body, userData, wire>>
        /\ pc[g] = "forget"
        /\ \E p : pc' = [pc EXCEPT ![g] = p]
        /\ job' = job \/ job' = [job EXCEPT ![g] = None]
    BY DEF Forget, Goto, Rest
  <2> QED
    BY <1>1, <2>1, <2>2 DEF Acts, TypeOK, input, wire, Gone, PageSteps
<1>3. ASSUME NEW s, NEW n, AtWork(g, s, n) PROVE Flow(g, s)' /\ (g = "server" => Seen(s)')
  <2>1. /\ s = job[g].stream /\ s \in Stream /\ n = taken[g][s] /\ WorksOn(g, s)
        /\ Turn(g, s) /\ Working(g, s, n) /\ n \in 1..Len(exchange[s][g])
        /\ Singles(exchange[s][g])
    BY <1>3 DEF AtWork, Ordinary
  <2>2. PICK x : x = exchange[s][g]
    OBVIOUS
  <2>3. /\ pc[g] = "forget" /\ headers' = [headers EXCEPT ![s] = << >>]
        /\ chunks' = chunks /\ exchange' = exchange /\ taken' = taken
        /\ response' = response /\ body' = body /\ got' = got
        /\ IF job[g].copy = << >> THEN Rest(g) ELSE Goto(g, "flush") /\ UNCHANGED job
    BY <2>1 DEF Forget, input, wire
  <2>4. PICK m : m = From(g, s, n)
    OBVIOUS
  <2>5. /\ job[g].copy = Part(x, m, n) /\ Reached(Other(g), s, m) /\ chunks[s] = job[g].copy
        /\ Holds(g, s) => n = Len(x)
    BY <2>1, <2>2, <2>3, <2>4 DEF Working
  <2>6. Reached(Other(g), s, m)'
    BY <1>0, <1>2, <2>1, <2>3, <2>5, ReachedStays DEF Acts
  <2>7. headers'[s] = << >>
    BY <2>1, <2>3 DEF TypeOK
  <2>8. n \in Nat /\ n <= Len(x) /\ 1 <= n /\ m \in Nat \ {0} /\ m <= n /\ (m = n => n = 1)
    <3>1. Len(x) \in Nat /\ n \in 1..Len(x)
      BY <2>1, <2>2 DEF Singles
    <3>2. m = 1 \/ (n # 1 /\ m = n - 1)
      BY <2>4 DEF From
    <3> QED
      BY <3>1, <3>2
  <2>9. ASSUME job[g].copy # << >> PROVE Flow(g, s)'
    <3>1. pc'[g] = "flush" /\ job' = job /\ WorksOn(g, s)'
      BY <2>1, <2>3, <2>9 DEF Goto, TypeOK, WorksOn
    <3>2. From(g, s, n)' = m /\ (Holds(g, s)' <=> Holds(g, s))
      BY <2>3, <2>4, Fixed
    <3>3. Working(g, s, n)'
      BY <2>2, <2>3, <2>5, <2>6, <2>7, <3>1, <3>2 DEF Working
    <3> QED
      BY <2>1, <2>3, <3>1, <3>3, FlowNext
  <2>10. ASSUME job[g].copy = << >> PROVE Flow(g, s)'
    <3>1. job'[g] = None
      BY <2>3, <2>10 DEF Rest, TypeOK
    <3>2. n = 1 /\ m = 1
      <4>1. Singles(x)
        BY <2>1, <2>2
      <4>2. n \in Nat /\ n <= Len(x) /\ m \in Nat \ {0} /\ m <= n
        BY <2>8
      <4>3. Len(Part(x, m, n)) = n - m
        BY <4>1, <4>2, PartFacts
      <4>4. n - m = 0
        BY <2>5, <2>10, <4>3
      <4> QED
        BY <2>8, <4>4
    <3>3. CASE Holds(g, s)
      <4>1. g = "server"
        BY <3>3 DEF Holds
      <4> QED
        BY <2>1, <2>2, <2>3, <2>5, <3>1, <3>3, <4>1, FlowNext
    <3>4. CASE ~Holds(g, s)
      <4>1. Sent(g, s, n) = 1
        BY <3>2, <3>4 DEF Sent
      <4>2. Kept(g, s, 1, n)'
        BY <2>2, <2>3, <2>5, <2>6, <2>7, <3>2 DEF Kept
      <4> QED
        BY <2>1, <2>3, <3>1, <4>1, <4>2, FlowNext
    <3> QED
      BY <3>3, <3>4
  <2>11. g = "server" => Seen(s)'
    BY <1>1, <1>2, <2>1, <2>3, SeenStays
  <2> QED
    BY <2>9, <2>10, <2>11
<1> QED
  BY <1>1, <1>2, <1>3, ActsInv

\* Chunks reach the other side.
LEMMA FlushReaches ==
  ASSUME TypeOK, NEW g \in Side, NEW s, NEW n, AtWork(g, s, n), Flush(g)
  PROVE  /\ From(g, s, n) \in Nat \ {0} /\ From(g, s, n) <= n
         /\ n \in Nat /\ n <= Len(exchange[s][g])
         /\ Reached(Other(g), s, From(g, s, n)) /\ Reached(Other(g), s, n)'
<1>0. Other(g) \in Side /\ Other(Other(g)) = g
  BY DEF Other, Side
<1>1. /\ s = job[g].stream /\ s \in Stream
      /\ Working(g, s, n) /\ n \in 1..Len(exchange[s][g])
      /\ job[g].frame = exchange[s][g][n]
      /\ Ordinary(exchange[s][g]) /\ Singles(exchange[s][g])
  BY DEF AtWork, Ordinary
<1>2. PICK x : x = exchange[s][g]
  OBVIOUS
<1>3. PICK f : f = DataFrames(job[g].copy, job[g].frame.ended)
  OBVIOUS
<1>4. /\ exchange' = exchange /\ conn' = conn /\ pc[g] = "flush"
      /\ Send(Other(g), s, f)
  BY <1>1, <1>3 DEF Flush
<1>5. PICK m : m = From(g, s, n)
  OBVIOUS
<1>6. job[g].copy = Part(x, m, n) /\ Reached(Other(g), s, m)
  BY <1>1, <1>2, <1>4, <1>5 DEF Working
<1>7. n \in Nat /\ n <= Len(x) /\ m \in Nat \ {0} /\ m <= n /\ m \in Nat
  BY <1>1, <1>2, <1>5 DEF From, Singles
<1>8. f = SubSeq(x, m + 1, n)
  <2>1. Ordinary(x)
    BY <1>1, <1>2
  <2>2. DataFrames(Part(x, m, n), x[n].ended) = SubSeq(x, m + 1, n)
    BY <1>7, <2>1, FramesOfPart
  <2> QED
    BY <1>1, <1>2, <1>3, <1>6, <2>2
<1>9. n <= Len(exchange[s][Other(Other(g))]) /\ f = SubSeq(exchange[s][Other(Other(g))], m + 1, n)
  BY <1>0, <1>2, <1>7, <1>8
<1>10. Reached(Other(g), s, n)'
  BY <1>0, <1>1, <1>4, <1>6, <1>7, <1>9, SendReached
<1> QED
  BY <1>2, <1>5, <1>6, <1>7, <1>10

\* The chunks are written.
LEMMA FlushRelay ==
  ASSUME TypeOK, RelayInv, NEW g \in Side, Flush(g)
  PROVE  RelayInv'
<1>0. Other(g) \in Side /\ Other(g) # g /\ Other(Other(g)) = g
  BY DEF Other, Side
<1>1. job[g] # None /\ job[g] \in Job /\ job[g].stream \in Stream
  BY Busy DEF Flush, Resting
<1>2. PICK t \in Stream : t = job[g].stream
  BY <1>1
<1>3. PICK f : f = DataFrames(job[g].copy, job[g].frame.ended)
  OBVIOUS
<1>4. /\ UNCHANGED <<exchange, taken, overtaken, job, held, ready, settled, conn>>
      /\ pc[g] = "flush" /\ pc' = [pc EXCEPT ![g] = "drop"]
      /\ Send(Other(g), t, f)
  BY <1>2, <1>3 DEF Flush, Goto
<1>5. Acts(g, t)
  <2>1. /\ \A h \in Side : Gone(h) => Gone(h)'
        /\ \A h \in Side : \A r \in Stream : h = g \/ r # t => got'[h][r] = got[h][r]
    BY <1>0, <1>4, SendElsewhere
  <2> QED
    BY <1>1, <1>2, <1>4, <2>1 DEF Acts, TypeOK, held, PageSteps
<1>6. ASSUME NEW s, NEW n, AtWork(g, s, n) PROVE Flow(g, s)' /\ (g = "server" => Seen(s)')
  <2>1. /\ s = t /\ s \in Stream /\ n = taken[g][s] /\ WorksOn(g, s)
        /\ Turn(g, s) /\ Working(g, s, n) /\ n \in 1..Len(exchange[s][g])
    BY <1>2, <1>6 DEF AtWork
  <2>2. PICK x : x = exchange[s][g]
    OBVIOUS
  <2>3. /\ exchange' = exchange /\ taken' = taken /\ job' = job /\ conn' = conn
        /\ headers' = headers /\ response' = response /\ body' = body
        /\ pc'[g] = "drop"
    BY <1>4 DEF held, TypeOK
  <2>4. Reached(Other(g), s, n)' /\ headers[s] = << >> /\ (Holds(g, s) => n = Len(x))
    BY <1>4, <1>6, <2>1, <2>2, FlushReaches DEF Working
  <2>5. Working(g, s, n)'
    <3>1. Holds(g, s)' <=> Holds(g, s)
      BY <2>3, Fixed
    <3> QED
      BY <2>2, <2>3, <2>4, <3>1 DEF Working
  <2>6. WorksOn(g, s)'
    BY <2>1, <2>3 DEF WorksOn
  <2> QED
    BY <1>1, <1>2, <1>5, <2>1, <2>3, <2>5, <2>6, FlowNext, SeenStays
<1> QED
  BY <1>1, <1>2, <1>5, <1>6, ActsInv

\* Written chunks are dropped.
LEMMA DropRelay ==
  ASSUME TypeOK, RelayInv, NEW g \in Side, Drop(g)
  PROVE  RelayInv'
<1>0. Other(g) \in Side
  BY DEF Other, Side
<1>1. job[g] # None /\ job[g] \in Job /\ job[g].stream \in Stream
  BY Busy DEF Drop, Resting
<1>2. Acts(g, job[g].stream)
  <2>1. chunks' = [chunks EXCEPT ![job[g].stream] = << >>]
    BY DEF Drop
  <2>2. /\ UNCHANGED <<input, headers, response, body, userData, wire>>
        /\ pc[g] = "drop" /\ pc' = [pc EXCEPT ![g] = "idle"] /\ job' = [job EXCEPT ![g] = None]
    BY DEF Drop, Goto, Rest
  <2> QED
    BY <1>1, <2>1, <2>2 DEF Acts, TypeOK, input, wire, Gone, PageSteps
<1>3. ASSUME NEW s, NEW n, AtWork(g, s, n) PROVE Flow(g, s)' /\ (g = "server" => Seen(s)')
  <2>1. /\ s = job[g].stream /\ s \in Stream /\ n = taken[g][s] /\ WorksOn(g, s)
        /\ Turn(g, s) /\ Working(g, s, n) /\ n \in 1..Len(exchange[s][g])
        /\ Singles(exchange[s][g])
    BY <1>3 DEF AtWork, Ordinary
  <2>2. PICK x : x = exchange[s][g]
    OBVIOUS
  <2>3. /\ pc[g] = "drop" /\ chunks' = [chunks EXCEPT ![s] = << >>]
        /\ headers' = headers /\ exchange' = exchange /\ taken' = taken
        /\ response' = response /\ body' = body /\ got' = got
        /\ job'[g] = None
    BY <2>1 DEF Drop, input, wire, Rest, TypeOK
  <2>4. Reached(Other(g), s, n) /\ headers[s] = << >> /\ (Holds(g, s) => n = Len(x))
    BY <2>1, <2>2, <2>3 DEF Working
  <2>5. Reached(Other(g), s, n)'
    BY <1>0, <1>2, <2>1, <2>3, <2>4, ReachedStays DEF Acts
  <2>6. chunks'[s] = << >>
    BY <2>1, <2>3 DEF TypeOK
  <2>7. Flow(g, s)'
    <3>1. CASE Holds(g, s)
      <4>1. g = "server"
        BY <3>1 DEF Holds
      <4> QED
        BY <2>1, <2>2, <2>3, <2>4, <3>1, <4>1, FlowNext
    <3>2. CASE ~Holds(g, s)
      <4>1. n \in Nat /\ n # 0
        BY <2>1
      <4>2. Sent(g, s, n) = n
        BY <3>2 DEF Sent
      <4>3. Part(exchange'[s][g], n, n) = << >>
        BY <4>1, PartNone
      <4>4. Kept(g, s, n, n)'
        BY <2>3, <2>4, <2>5, <2>6, <4>1, <4>3 DEF Kept
      <4> QED
        BY <2>1, <2>3, <4>2, <4>4, FlowNext
    <3> QED
      BY <3>1, <3>2
  <2>8. g = "server" => Seen(s)'
    BY <1>1, <1>2, <2>1, <2>3, SeenStays
  <2> QED
    BY <2>7, <2>8
<1> QED
  BY <1>1, <1>2, <1>3, ActsInv

\* What the response filter sees of a frame that is held is the body so far.
LEMMA HeldChunks ==
  ASSUME NEW s \in Stream, NEW n \in 1..Len(Answer(s)), Singles(Answer(s)), Tame(s),
         Kept("server", s, 0, n), exchange[s].verdict # "white"
  PROVE  /\ Length(chunks[s]) <= MaxLength
         /\ Rejects(chunks[s]) => Held!Unwanted(s)
<1>1. PICK x : x = Answer(s)
  OBVIOUS
<1>2. chunks[s] = Part(x, 1, n) /\ x = exchange[s].server /\ x = exchange[s]["server"]
  BY <1>1 DEF Kept, Answer
<1>3. Length(chunks[s]) <= MaxLength
  <2>1. chunks[s] = BodyOf(s, n)
    BY <1>1, <1>2 DEF Part, BodyOf
  <2> QED
    BY <2>1, Tameness
<1>4. ASSUME Rejects(chunks[s]) PROVE Held!Unwanted(s)
  <2>1. Singles(x) /\ n \in Nat /\ 1 <= n /\ n <= Len(x) /\ 1 \in Nat \ {0}
    BY <1>1 DEF Singles
  <2>2. Len(Part(x, 1, n)) = n - 1
    BY <2>1, PartFacts
  <2>3. \A i \in 1..(n - 1) :
          i + 1 \in 1..Len(x) /\ Part(x, 1, n)[i] = x[i + 1].items[1]
    BY <2>1 DEF Part
  <2>4. PICK i \in 1..(n - 1) : x[i + 1].items[1] \in Bad /\ i + 1 \in 1..Len(x)
    BY <1>2, <1>4, <2>2, <2>3 DEF Rejects
  <2>5. x[i + 1].items = <<x[i + 1].items[1]>>
    BY <2>1, <2>4 DEF Singles
  <2>6. 1 \in 1..Len(x[i + 1].items)
    BY <2>5
  <2> QED
    BY <1>2, <2>4, <2>6 DEF Held!Unwanted
<1> QED
  BY <1>3, <1>4

\* The filter decides what becomes of what is held.
LEMMA DecideRelay ==
  ASSUME TypeOK, RelayInv, NEW g \in Side, Decide(g)
  PROVE  RelayInv'
<1>0. Other(g) \in Side
  BY DEF Other, Side
<1>1. job[g] # None /\ job[g] \in Job /\ job[g].stream \in Stream
  BY Busy DEF Decide, Resting
<1>2. PICK t \in Stream : t = job[g].stream
  BY <1>1
<1>3. PICK filters \in BOOLEAN : filters <=> g = "server" /\ ~job[g].white /\ response[t] # << >>
  OBVIOUS
<1>4. /\ pc[g] = "decide"
      /\ UNCHANGED <<input, headers, chunks, response, userData, wire>>
      /\ filters => DecideResponse(t) /\ g = "server"
      /\ ~filters => pc' = [pc EXCEPT ![g] = "write"] /\ UNCHANGED <<job, body>>
  BY <1>2, <1>3 DEF Decide, Goto
<1>5. PICK filterable \in BOOLEAN :
        filterable <=> SaysHtml(response[t]) /\ Length(body[t]) <= MaxLength
  OBVIOUS
<1>6. ASSUME filters
      PROVE  /\ body' = [body EXCEPT ![t] = IF chunks[t] = << >> THEN @ ELSE chunks[t]]
             /\ \/ /\ filterable /\ ~job[g].frame.ended
                   /\ pc' = [pc EXCEPT ![g] = "idle"] /\ job' = [job EXCEPT ![g] = None]
                \/ /\ filterable /\ job[g].frame.ended /\ Rejects(chunks[t])
                   /\ pc' = [pc EXCEPT ![g] = "replace"] /\ job' = job
                \/ /\ filterable => job[g].frame.ended
                   /\ pc' = [pc EXCEPT ![g] = "write"] /\ job' = job
  BY <1>4, <1>5, <1>6 DEF DecideResponse, Rest, Goto
<1>7. Acts(g, t)
  <2>1. \E b : body' = [body EXCEPT ![t] = b]
    <3>1. CASE filters
      BY <1>6, <3>1
    <3>2. CASE ~filters
      <4>1. body' = [body EXCEPT ![t] = body[t]]
        BY <1>4, <3>2 DEF TypeOK
      <4> QED
        BY <4>1
    <3> QED
      BY <3>1, <3>2
  <2>2. /\ \E p : pc' = [pc EXCEPT ![g] = p]
        /\ job' = job \/ job' = [job EXCEPT ![g] = None]
    BY <1>4, <1>6
  <2> QED
    BY <1>1, <1>2, <1>4, <2>1, <2>2 DEF Acts, TypeOK, input, wire, Gone, PageSteps
<1>8. ASSUME NEW s, NEW n, AtWork(g, s, n) PROVE Flow(g, s)' /\ (g = "server" => Seen(s)')
  <2>1. /\ s = t /\ s \in Stream /\ n = taken[g][s] /\ WorksOn(g, s) /\ Tame(s)
        /\ Turn(g, s) /\ Working(g, s, n) /\ n \in 1..Len(exchange[s][g])
        /\ job[g].frame = exchange[s][g][n]
        /\ Ordinary(exchange[s][g]) /\ Singles(exchange[s][g])
    BY <1>2, <1>8 DEF AtWork, Ordinary
  <2>2. PICK x : x = exchange[s][g]
    OBVIOUS
  <2>3. /\ exchange' = exchange /\ taken' = taken /\ headers' = headers /\ chunks' = chunks
        /\ response' = response /\ userData' = userData /\ got' = got
    BY <1>4 DEF input, wire
  <2>4. PICK k : k = Sent(g, s, n - 1)
    OBVIOUS
  <2>5. Kept(g, s, k, n) /\ n > 1
    BY <1>4, <2>1, <2>4 DEF Working
  <2>6. Kept(g, s, k, n)'
    <3>1. Gone(Other(g)) => Gone(Other(g))'
      BY <1>0, <1>7 DEF Acts
    <3> QED
      BY <1>0, <2>1, <2>3, <2>5, <3>1, KeptStays
  <2>7. /\ Holds(g, s)' <=> Holds(g, s)
        /\ Sent(g, s, n - 1)' = k
    BY <2>3, <2>4, Fixed
  <2>8. /\ ~x[1].ended
        /\ job[g].frame.ended => n = Len(x)
        /\ x[1].items # << >>
    <3>1. 1 \in 1..Len(x) /\ 1 # Len(x) /\ n \in 1..Len(x)
      BY <2>1, <2>2, <2>5 DEF Singles
    <3>2. x[1].items = <<x[1].items[1]>>
      BY <2>1, <2>2, <3>1 DEF Singles
    <3>3. x[1].items # << >>
      BY <3>2
    <3>4. \A i \in 1..Len(x) : x[i].ended => i = Len(x)
      BY <2>1, <2>2 DEF Ordinary
    <3> QED
      BY <2>1, <2>2, <3>1, <3>3, <3>4
  <2>9. g = "server" =>
          /\ Seen(s) /\ Answer(s) = x /\ response[s] = x[1].items
          /\ (job[g].white <=> exchange[s].verdict = "white")
    BY <2>1, <2>2 DEF Turn, Seen, Answer
  <2>10. filters <=> g = "server" /\ exchange[s].verdict # "white"
    BY <1>3, <2>1, <2>8, <2>9
  <2>11. Holds(g, s) => filters /\ filterable
    BY <1>5, <2>1, <2>9, <2>10 DEF Holds, Seen
  <2>12. filters /\ filterable => Holds(g, s) /\ k = 0
    BY <1>5, <2>1, <2>4, <2>8, <2>9, <2>10 DEF Holds, Sent
  <2>13. filters /\ filterable => Length(chunks[s]) <= MaxLength
                                  /\ (Rejects(chunks[s]) => Held!Unwanted(s))
    BY <2>1, <2>2, <2>5, <2>9, <2>10, <2>12, HeldChunks
  <2>14. Flow(g, s)'
    <3>1. ASSUME pc'[g] = "write", job' = job, Holds(g, s) => n = Len(x) PROVE Flow(g, s)'
      <4>1. Working(g, s, n)'
        BY <2>2, <2>3, <2>6, <2>7, <3>1 DEF Working, Kept
      <4>2. WorksOn(g, s)'
        BY <2>1, <3>1 DEF WorksOn
      <4> QED
        BY <2>1, <2>3, <4>1, <4>2, FlowNext
    <3>2. CASE ~filters
      BY <1>4, <2>1, <2>11, <3>1, <3>2 DEF TypeOK
    <3>3. CASE filters /\ filterable /\ job'[g] = None /\ ~job[g].frame.ended
      <4>1. Sent(g, s, n) = k
        BY <2>12, <3>3 DEF Sent
      <4> QED
        BY <2>1, <2>3, <2>6, <3>3, <4>1, FlowNext
    <3>4. CASE filters /\ filterable /\ job[g].frame.ended /\ Rejects(chunks[t])
               /\ pc'[g] = "replace" /\ job' = job
      <4>1. Held!Unwanted(s)' /\ g = "server"
        BY <1>4, <2>1, <2>3, <2>13, <3>4, Fixed
      <4>2. Reached("client", s, 0)'
        BY <2>6, <2>12, <3>4, <4>1 DEF Kept, Other
      <4>3. Working(g, s, n)'
        <5>1. n = Len(x) /\ exchange'[s][g] = x
          BY <2>2, <2>3, <2>8, <3>4
        <5> QED
          BY <3>4, <4>1, <4>2, <5>1 DEF Working
      <4>4. WorksOn(g, s)'
        BY <2>1, <3>4 DEF WorksOn
      <4> QED
        BY <2>1, <2>3, <4>3, <4>4, FlowNext
    <3>5. CASE filters /\ (filterable => job[g].frame.ended) /\ pc'[g] = "write" /\ job' = job
      BY <2>8, <2>11, <3>1, <3>5
    <3>6. g \in Side /\ pc \in [Side -> Steps] /\ job \in [Side -> Job \cup {None}]
      BY DEF TypeOK
    <3> QED
      BY <1>6, <3>2, <3>3, <3>4, <3>5, <3>6
  <2>15. g = "server" => Seen(s)'
    <3> SUFFICES ASSUME g = "server" PROVE Seen(s)'
      OBVIOUS
    <3>1. Answer(s)' = Answer(s)
      BY <2>3, Fixed
    <3>2. WorksOn("server", s)' => (job'["server"].white <=> exchange[s].verdict = "white")
      BY <1>7, <2>1, <2>9 DEF Acts, WorksOn
    <3>3. Holds(g, s) => Length(body'[s]) <= MaxLength
      <4> SUFFICES ASSUME Holds(g, s) PROVE Length(body'[s]) <= MaxLength
        OBVIOUS
      <4>1. body'[s] = IF chunks[s] = << >> THEN body[s] ELSE chunks[s]
        BY <1>6, <2>1, <2>11 DEF TypeOK
      <4>2. Length(body[s]) <= MaxLength /\ Length(chunks[s]) <= MaxLength
        BY <2>9, <2>11, <2>13 DEF Seen
      <4> QED
        BY <4>1, <4>2
    <3> QED
      BY <2>1, <2>2, <2>3, <2>7, <2>9, <3>1, <3>2, <3>3 DEF Seen
  <2> QED
    BY <2>14, <2>15
<1> QED
  BY <1>1, <1>2, <1>7, <1>8, ActsInv

\* Ordinary streams have no other frames.
LEMMA ForwardRelay ==
  ASSUME TypeOK, RelayInv, NEW g \in Side, Forward(g)
  PROVE  RelayInv'
<1>0. Other(g) \in Side /\ Other(g) # g
  BY DEF Other, Side
<1>1. job[g] # None /\ job[g] \in Job /\ job[g].stream \in Stream
  BY Busy DEF Forward, Resting
<1>2. Acts(g, job[g].stream)
  <2>1. /\ UNCHANGED <<input, held, ready, settled, conn>>
        /\ pc[g] = "forward" /\ pc' = [pc EXCEPT ![g] = "idle"] /\ job' = [job EXCEPT ![g] = None]
        /\ Send(Other(g), job[g].stream, <<job[g].frame>>)
    BY DEF Forward, Goto, Rest
  <2>2. /\ \A h \in Side : Gone(h) => Gone(h)'
        /\ \A h \in Side : \A r \in Stream : h = g \/ r # job[g].stream => got'[h][r] = got[h][r]
    BY <1>0, <1>1, <2>1, SendElsewhere
  <2> QED
    BY <1>1, <2>1, <2>2 DEF Acts, TypeOK, input, held, PageSteps
<1>3. ASSUME NEW s, NEW n, AtWork(g, s, n) PROVE FALSE
  BY <1>3 DEF AtWork, Working, Forward
<1> QED
  BY <1>1, <1>2, <1>3, ActsInv

-----------------------------------------------------------------------------
(* Reading.                                                                *)

\* A goroutine that reads a frame of stream s, to work on it as the n-th.
Reads(g, s, n) ==
  /\ pc[g] = "idle" /\ job[g] = None /\ conn[g] \in {"open", "stalled"}
  /\ overtaken \subseteq overtaken'
  /\ g = "server" /\ WorksOn("client", s) => s \in overtaken'
  /\ n = taken[g][s] + 1 /\ n \in 1..Len(exchange[s][g])
  /\ exchange' = exchange /\ taken' = [taken EXCEPT ![g][s] = n]
  /\ job'[g] # None /\ job'[g].stream = s /\ job'[g].frame = exchange[s][g][n]
  /\ job'[g].white <=> userData[s] = "white"
  /\ \A h \in Side \ {g} : pc'[h] = pc[h] /\ job'[h] = job[h]
  /\ got' = got /\ conn' = conn /\ intact' = intact
  /\ headers' = headers /\ chunks' = chunks
  /\ \A r \in Stream \ {s} :
       response'[r] = response[r] /\ body'[r] = body[r] /\ userData'[r] = userData[r]

LEMMA TakeReads ==
  ASSUME TypeOK, RelayInv, NEW g \in Side, NEW s \in Stream, NEW type, NEW copy, NEW step,
         copy \in Seq(Item), Take(g, s, type, copy, step),
         headers' = headers, chunks' = chunks,
         \A r \in Stream \ {s} :
           response'[r] = response[r] /\ body'[r] = body[r] /\ userData'[r] = userData[r]
  PROVE  /\ Reads(g, s, taken[g][s] + 1)
         /\ pc'[g] = step /\ job'[g].copy = copy
         /\ exchange[s][g][taken[g][s] + 1].type = type
         /\ g = "server" => Answering(s)
<1>1. PICK x : x = exchange[s][g]
  OBVIOUS
<1>2. PICK n : n = taken[g][s] + 1
  OBVIOUS
<1>3. PICK f : f = x[n]
  OBVIOUS
<1>4. /\ pc[g] = "idle" /\ conn[g] \in {"open", "stalled"} /\ taken[g][s] < Len(x) /\ f.type = type
      /\ g = "server" => Answering(s)
      /\ taken' = [taken EXCEPT ![g][s] = n]
      /\ job' = [job EXCEPT ![g] = [stream |-> s, frame |-> f, copy |-> copy,
                                    white |-> userData[s] = "white"]]
      /\ pc' = [pc EXCEPT ![g] = step]
      /\ overtaken \subseteq overtaken'
      /\ g = "server" /\ WorksOn("client", s) => s \in overtaken'
      /\ UNCHANGED <<exchange, wire>>
  <2>1. taken' = [taken EXCEPT ![g][s] = @ + 1]
    BY DEF Take
  <2>2. taken' = [taken EXCEPT ![g][s] = n]
    BY <1>2, <2>1 DEF TypeOK
  <2> QED
    BY <1>1, <1>2, <1>3, <2>2 DEF Take, Incoming, Goto, Overtakes
<1>5. Singles(x) /\ Len(x) \in Nat /\ taken[g][s] \in Nat
  BY <1>1, Given DEF TypeOK, Singles
<1>6. n \in 1..Len(x)
  BY <1>2, <1>4, <1>5
<1>7. f \in Frame
  BY <1>3, <1>5, <1>6 DEF Singles
<1>8. job[g] = None
  BY <1>4 DEF TypeOK, Resting
<1>9. PICK j \in Job : /\ j.stream = s /\ j.frame = f /\ j.copy = copy
                       /\ (j.white <=> userData[s] = "white")
                       /\ job' = [job EXCEPT ![g] = j]
  <2>1. [stream |-> s, frame |-> f, copy |-> copy, white |-> userData[s] = "white"] \in Job
    BY <1>7 DEF Job
  <2> QED
    BY <1>4, <2>1
<1>10. /\ job'[g] = j /\ j # None /\ pc'[g] = step
       /\ \A h \in Side \ {g} : pc'[h] = pc[h] /\ job'[h] = job[h]
  BY <1>4, <1>9, NoneOK DEF TypeOK
<1>11. got' = got /\ conn' = conn /\ intact' = intact /\ exchange' = exchange
  BY <1>4 DEF wire
<1>12. Reads(g, s, n)
  BY <1>1, <1>2, <1>3, <1>4, <1>6, <1>8, <1>9, <1>10, <1>11 DEF Reads
<1> QED
  BY <1>1, <1>2, <1>3, <1>4, <1>9, <1>10, <1>12

\* If what is read fits its own stream, the invariant is kept.
LEMMA ReadsInv ==
  ASSUME TypeOK, RelayInv, NEW g \in Side, NEW s \in Stream, NEW n, Reads(g, s, n),
         ASSUME Owed(s), Owed(s)', Relay(s) PROVE Relay(s)'
  PROVE  RelayInv'
<1>1. ASSUME NEW h \in Side
      PROVE  JobOK(h)' /\ \A r \in Stream : taken'[h][r] <= Len(exchange'[r][h])
  <2>1. JobOK(h) /\ \A r \in Stream : taken[h][r] <= Len(exchange[r][h])
    BY DEF RelayInv
  <2>2. \A r \in Stream : taken'[h][r] = IF h = g /\ r = s THEN n ELSE taken[h][r]
    BY DEF Reads, TypeOK
  <2>3. n <= Len(exchange[s][g]) /\ n \in 1..Len(exchange[s][g])
    BY DEF Reads
  <2>4. CASE h = g
    BY <2>1, <2>2, <2>3, <2>4 DEF JobOK, Reads
  <2>5. CASE h # g
    <3>1. job'[h] = job[h] /\ job[h] \in Job \cup {None}
      BY <2>5 DEF Reads, TypeOK
    <3>2. job[h] # None => job[h].stream \in Stream
      BY <3>1 DEF Job
    <3> QED
      BY <2>1, <2>2, <2>5, <3>1, <3>2 DEF JobOK, Reads
  <2> QED
    BY <2>4, <2>5
<1>2. ASSUME NEW r \in Stream, Owed(r)' PROVE Relay(r)'
  <2>1. Owed(r)
    BY <1>2, OwedBefore DEF Reads
  <2>2. Relay(r)
    BY <2>1 DEF RelayInv
  <2>3. CASE r # s
    <3>1. \A h \in Side : taken'[h][r] = taken[h][r]
      BY <2>3 DEF Reads, TypeOK
    <3>2. \A h \in Side : /\ WorksOn(h, r)' <=> WorksOn(h, r)
                          /\ WorksOn(h, r) => job'[h] = job[h] /\ pc'[h] = pc[h]
      BY <2>3 DEF Reads, WorksOn
    <3>3. pc["client"] \in PageSteps \cup {"ended"} => pc'["client"] \in PageSteps \cup {"ended"}
      BY DEF Reads, PageSteps, Side
    <3>4. Same(r)
      BY <2>3, <3>1, <3>2, <3>3 DEF Same, Reads, Gone
    <3> QED
      BY <2>2, <3>4, SameRelay
  <2>4. CASE r = s
    BY <1>2, <2>1, <2>2, <2>4
  <2> QED
    BY <2>3, <2>4
<1> QED
  BY <1>1, <1>2 DEF RelayInv

\* Nothing of an ordinary stream is passed on as it comes.
LEMMA TakeOtherRelay ==
  ASSUME TypeOK, RelayInv, NEW g \in Side, NEW s \in Stream, TakeOther(g, s)
  PROVE  RelayInv'
<1>1. PICK n : n = taken[g][s] + 1
  OBVIOUS
<1>2. Reads(g, s, n) /\ exchange[s][g][n].type = "other"
  <2>1. << >> \in Seq(Item)
    OBVIOUS
  <2> QED
    BY <1>1, <2>1, TakeReads DEF TakeOther, held
<1>3. ASSUME Owed(s) PROVE FALSE
  BY <1>2, <1>3, Tameness DEF Owed, Answer, Reads, Side
<1> QED
  BY <1>2, <1>3, ReadsInv

\* What is held is still held when the next frame has been read.
LEMMA ReadsKept ==
  ASSUME NEW g \in Side, NEW s \in Stream, NEW n, Reads(g, s, n)
  PROVE  /\ \A h \in Side : \A k, m : Kept(h, s, k, m) => Kept(h, s, k, m)'
         /\ \A to \in Side : \A m : Reached(to, s, m) => Reached(to, s, m)'
<1>1. exchange' = exchange /\ got' = got /\ headers' = headers /\ chunks' = chunks
      /\ \A to \in Side : Gone(to) => Gone(to)'
  BY DEF Reads, Gone
<1>2. \A h \in Side : Other(h) \in Side
  BY DEF Other, Side
<1>3. ASSUME NEW h \in Side, NEW k, NEW m, Kept(h, s, k, m) PROVE Kept(h, s, k, m)'
  BY <1>1, <1>2, <1>3, KeptStays
<1>4. ASSUME NEW to \in Side, NEW m, Reached(to, s, m) PROVE Reached(to, s, m)'
  BY <1>1, <1>4, ReachedStays
<1> QED
  BY <1>3, <1>4

\* Between two frames, a goroutine that has more to read has its turn and
\* knows what is held, unless it is the other's turn.
LEMMA AtRest ==
  ASSUME TypeOK, NEW g \in Side, NEW s \in Stream, NEW n, Reads(g, s, n), Relay(s),
         exchange[s].verdict # "block"
  PROVE  \/ Turn(g, s) /\ Kept(g, s, Sent(g, s, n - 1), n - 1)
         \/ g = "server" /\ Turn("client", s) /\ Flow("client", s) /\ n = 1
<1>1. PICK h \in Side : Turn(h, s) /\ Flow(h, s)
  BY DEF Relay
<1>2. PICK m \in Nat : m = taken[g][s]
  BY DEF TypeOK
<1>3. n = m + 1 /\ n \in 1..Len(exchange[s][g]) /\ n - 1 = m
  BY <1>2 DEF Reads
<1>4. m # Len(exchange[s][g])
  BY <1>3
<1>5. CASE h = g
  <2>1. ~WorksOn(g, s)
    BY DEF Reads, WorksOn
  <2>2. Kept(g, s, Sent(g, s, m), m)
    BY <1>1, <1>2, <1>4, <1>5, <2>1 DEF Flow, Answer
  <2> QED
    BY <1>1, <1>3, <1>5, <2>2
<1>6. CASE h # g
  <2>1. h = "client" /\ g = "server"
    BY <1>1, <1>2, <1>4, <1>6 DEF Turn, Side
  <2> QED
    BY <1>1, <1>2, <1>3, <2>1 DEF Turn
<1> QED
  BY <1>5, <1>6

\* A server that answers on an ordinary stream has the whole request.
LEMMA WholeRequest ==
  ASSUME TypeOK, NEW s \in Stream, Tame(s), Answering(s), conn["server"] \in {"open", "stalled"},
         ~WorksOn("client", s), taken["client"][s] <= Len(exchange[s].client), Flow("client", s)
  PROVE  /\ taken["client"][s] = Len(exchange[s].client) /\ taken["client"][s] # 0
         /\ headers[s] = << >> /\ chunks[s] = << >>
<1>0. "client" \in Side /\ "server" \in Side
  BY DEF Side
<1>1. PICK x : x = exchange[s].client
  OBVIOUS
<1>2. PICK c \in Nat : c = taken["client"][s]
  BY <1>0 DEF TypeOK
<1>3. PICK w : w = got["server"][s]
  OBVIOUS
<1>4. \E i \in 1..Len(w) : w[i].ended
  BY <1>3, Tameness DEF Answering
<1>5. Kept("client", s, c, c)
  BY <1>2, <1>4 DEF Flow, Sent, Holds
<1>6. headers[s] = << >> /\ chunks[s] = << >>
  <2>1. headers[s] = << >>
    BY <1>5 DEF Kept
  <2>2. \A k \in Nat : c <= k => Part(x, k, c) = << >>
    BY PartNone
  <2>3. Part(x, IF c = 0 THEN 1 ELSE c, c) = << >>
    BY <2>2
  <2> QED
    BY <1>1, <1>5, <2>1, <2>3 DEF Kept
<1>7. w = SubSeq(x, 1, c)
  <2>1. ~Gone("server")
    BY DEF Gone
  <2> QED
    BY <1>1, <1>3, <1>5, <2>1 DEF Kept, Reached, Other
<1>8. Ordinary(x) /\ Singles(x) /\ x \in Seq(Frame) /\ Len(x) \in Nat
  BY <1>0, <1>1, Given DEF TypeOK, Ordinary, Singles
<1>9. c # 0
  <2>1. SubSeq(x, 1, 0) = << >>
    BY SubSeqEmpty
  <2>2. w # << >>
    BY <1>4
  <2> QED
    BY <1>7, <2>1, <2>2
<1>10. c = Len(x)
  <2>1. c <= Len(x)
    BY <1>1, <1>2
  <2>2. Len(w) = c /\ \A i \in 1..c : w[i] = x[i] /\ i \in 1..Len(x)
    <3>1. \A i \in 1..c : x[i] \in Frame
      BY <1>8, <2>1
    <3> QED
      BY <1>7, <1>8, <1>9, <2>1, <3>1, SubSeqProperties
  <2>3. PICK i \in 1..Len(w) : w[i].ended
    BY <1>4
  <2>4. i \in 1..c /\ i \in 1..Len(x) /\ x[i].ended
    BY <2>2, <2>3
  <2>5. i = Len(x)
    BY <1>8, <2>4 DEF Ordinary
  <2> QED
    BY <2>1, <2>4, <2>5, <1>8
<1> QED
  BY <1>1, <1>2, <1>4, <1>6, <1>9, <1>10

\* A data frame is read.
LEMMA TakeDataRelay ==
  ASSUME TypeOK, RelayInv, NEW g \in Side, NEW s \in Stream, TakeData(g, s)
  PROVE  RelayInv'
<1>0. "client" \in Side /\ "server" \in Side
  BY DEF Side
<1>1. PICK x : x = exchange[s][g]
  OBVIOUS
<1>2. PICK n : n = taken[g][s] + 1
  OBVIOUS
<1>3. Singles(x) /\ taken[g][s] \in Nat
  BY <1>1, Given DEF TypeOK
<1>4. PICK copy : copy = chunks[s] \o x[n].items
  OBVIOUS
<1>5. /\ Reads(g, s, n) /\ pc'[g] = "store" /\ job'[g].copy = copy
      /\ x[n].type = "data" /\ (g = "server" => Answering(s))
      /\ headers' = headers /\ chunks' = chunks
      /\ response' = response /\ body' = body /\ userData' = userData
  <2>1. /\ Take(g, s, "data", copy, "store") /\ UNCHANGED held
    BY <1>1, <1>2, <1>4 DEF TakeData, Incoming
  <2>2. n \in 1..Len(x)
    BY <1>1, <1>2, <1>3, <2>1 DEF Take, Singles
  <2>3. chunks[s] \in Seq(Item) /\ x[n].items \in Seq(Item)
    <3>1. x[n] \in Frame
      BY <1>3, <2>2 DEF Singles
    <3> QED
      BY <3>1 DEF TypeOK, Frame
  <2>4. copy \in Seq(Item)
    BY <1>4, <2>3
  <2> QED
    BY <1>1, <1>2, <2>1, <2>4, TakeReads DEF held
<1>6. ASSUME Owed(s), Owed(s)', Relay(s) PROVE Relay(s)'
  <2>1. n \in 1..Len(x) /\ n - 1 \in Nat /\ n - 1 = taken[g][s]
    BY <1>1, <1>2, <1>3, <1>5 DEF Reads
  <2>2. n # 1
    BY <1>1, <1>5, <1>6, <2>1, Tameness DEF Owed, Answer, Side
  <2>3. n - 1 \in Nat \ {0} /\ n - 1 <= n /\ n - 1 < Len(x) /\ n > 1 /\ n \in Int
    BY <1>3, <2>1, <2>2 DEF Singles
  <2>4. taken[g][s] # 0
    BY <2>1, <2>3
  <2>5. exchange[s].verdict # "block"
    <3> SUFFICES ASSUME Refused(s) PROVE FALSE
      BY <1>6 DEF Relay
    <3>1. g = "client" => pc["client"] = "idle"
      BY <1>5 DEF Reads
    <3>2. g = "server" => got["server"][s] # << >>
      BY <1>5 DEF Answering
    <3> QED
      BY <2>4, <3>1, <3>2 DEF Refused, Side, PageSteps
  <2>6. PICK k : k = Sent(g, s, n - 1)
    OBVIOUS
  <2>7. Turn(g, s) /\ Kept(g, s, k, n - 1)
    BY <1>5, <1>6, <2>2, <2>5, <2>6, AtRest
  <2>8. Kept(g, s, k, n - 1)' /\ \A m : Reached("client", s, m) => Reached("client", s, m)'
    BY <1>0, <1>5, <2>7, ReadsKept
  <2>9. PICK m \in Nat \ {0} : m = (IF k = 0 THEN 1 ELSE k) /\ m <= n - 1 /\ m = From(g, s, n)
    <3>1. 1 \in Nat \ {0} /\ 1 <= n - 1 /\ n - 1 <= n - 1 /\ n - 1 # 0
      BY <2>3
    <3>2. CASE Holds(g, s)
      BY <2>6, <3>1, <3>2 DEF Sent, From
    <3>3. CASE ~Holds(g, s)
      BY <2>2, <2>3, <2>6, <3>1, <3>3 DEF Sent, From
    <3> QED
      BY <3>2, <3>3
  <2>10. copy = Part(x, m, n)
    <3>1. PICK r : r = n - 1
      OBVIOUS
    <3>2. m <= r
      BY <2>9, <3>1
    <3>3. r \in Nat /\ r < Len(x) /\ n = r + 1
      BY <2>3, <3>1
    <3>4. r \in Nat /\ r = n - 1 /\ m <= r /\ r < Len(x) /\ n = r + 1
      BY <3>1, <3>2, <3>3
    <3>5. Part(x, m, r) \o x[r + 1].items = Part(x, m, r + 1)
      BY <1>3, <3>4, PartAppend
    <3>6. chunks[s] = Part(x, m, r)
      BY <1>1, <2>7, <2>9, <3>4 DEF Kept
    <3> QED
      BY <1>4, <3>4, <3>5, <3>6
  <2>11. /\ exchange' = exchange /\ WorksOn(g, s)' /\ taken'[g][s] = n
         /\ \A h \in Side \ {g} : taken'[h][s] = taken[h][s] /\ (WorksOn(h, s)' <=> WorksOn(h, s))
    BY <1>5 DEF Reads, WorksOn, TypeOK
  <2>12. /\ Sent(g, s, n - 1)' = k /\ From(g, s, n)' = m /\ (Holds(g, s)' <=> Holds(g, s))
         /\ Answer(s)' = Answer(s)
    BY <2>6, <2>9, <2>11, Fixed
  <2>13. Flow(g, s)'
    <3>1. Part(x, m, n)' = Part(x, m, n)
      BY DEF Part
    <3>2. job'[g].copy = Part(exchange'[s][g], m, n)
      BY <1>1, <1>5, <2>10, <2>11
    <3>3. Working(g, s, n)'
      BY <1>5, <2>3, <2>8, <2>12, <3>2 DEF Working, Kept, Part
    <3> QED
      BY <2>11, <3>3 DEF Flow
  <2>14. Turn(g, s)'
    <3>1. CASE g = "client"
      <4>1. taken["server"][s] = 0 /\ got["client"][s] = << >>
        BY <2>7, <3>1 DEF Turn
      <4>2. taken'["server"][s] = 0 /\ got' = got
        BY <1>0, <1>5, <2>11, <3>1, <4>1 DEF Reads
      <4> QED
        BY <3>1, <4>1, <4>2 DEF Turn
    <3>2. CASE g = "server"
      <4>1. Seen(s) /\ taken["client"][s] = Len(exchange[s].client) /\ ~WorksOn("client", s)
        BY <2>7, <3>2 DEF Turn
      <4>2. taken["server"][s] < Len(Answer(s))
        BY <1>1, <2>1, <2>3, <3>2 DEF Answer
      <4>3. job'["server"].white <=> exchange[s].verdict = "white"
        BY <1>5, <3>2, <4>1 DEF Reads, Seen
      <4>4. Seen(s)'
        BY <1>5, <2>11, <2>12, <3>2, <4>1, <4>2, <4>3 DEF Seen
      <4>5. taken'["server"][s] # 0 /\ taken'["client"][s] = taken["client"][s]
            /\ ~WorksOn("client", s)'
        BY <1>0, <2>3, <2>11, <3>2, <4>1
      <4> QED
        BY <2>11, <3>2, <4>1, <4>4, <4>5 DEF Turn
    <3> QED
      BY <3>1, <3>2 DEF Side
  <2>15. userData'[s] = exchange'[s].verdict
    <3>1. CASE g = "client"
      BY <1>5, <1>6, <2>4, <2>11, <3>1 DEF Relay
    <3>2. CASE g = "server"
      BY <1>5, <2>7, <2>11, <3>2 DEF Turn, Seen
    <3> QED
      BY <3>1, <3>2 DEF Side
  <2> QED
    BY <2>5, <2>11, <2>13, <2>14, <2>15 DEF Relay
<1> QED
  BY <1>5, <1>6, ReadsInv

\* The header block of a request is read.
LEMMA TakeRequestRelay ==
  ASSUME TypeOK, RelayInv, NEW s \in Stream, TakeRequest(s)
  PROVE  RelayInv'
<1>0. "client" \in Side /\ "server" \in Side
  BY DEF Side
<1>1. PICK x : x = exchange[s]["client"]
  OBVIOUS
<1>2. PICK n : n = taken["client"][s] + 1
  OBVIOUS
<1>3. Singles(x) /\ taken["client"][s] \in Nat
  BY <1>0, <1>1, Given DEF TypeOK
<1>4. PICK copy : copy = headers[s] \o x[n].items
  OBVIOUS
<1>5. PICK step : step = IF exchange[s].verdict = "block" THEN "settings" ELSE "keep"
  OBVIOUS
<1>6. /\ Reads("client", s, n) /\ pc'["client"] = step /\ job'["client"].copy = copy
      /\ x[n].type = "headers" /\ userData'[s] = exchange[s].verdict
      /\ headers' = headers /\ chunks' = chunks
      /\ response' = response /\ body' = body
  <2>1. /\ Take("client", s, "headers", copy, step)
        /\ userData' = [userData EXCEPT ![s] = exchange[s].verdict]
        /\ UNCHANGED <<credit, headers, chunks, response, body>>
    BY <1>1, <1>2, <1>4, <1>5 DEF TakeRequest, Incoming, Fields
  <2>2. n \in 1..Len(x)
    BY <1>1, <1>2, <1>3, <2>1 DEF Take, Singles
  <2>3. headers[s] \in Seq(Item) /\ x[n].items \in Seq(Item)
    <3>1. x[n] \in Frame
      BY <1>3, <2>2 DEF Singles
    <3> QED
      BY <3>1 DEF TypeOK, Frame
  <2>4. copy \in Seq(Item)
    BY <1>4, <2>3
  <2>5. userData'[s] = exchange[s].verdict /\ \A r \in Stream \ {s} : userData'[r] = userData[r]
    BY <2>1 DEF TypeOK
  <2> QED
    BY <1>0, <1>1, <1>2, <2>1, <2>4, <2>5, TakeReads
<1>7. ASSUME Owed(s), Owed(s)', Relay(s) PROVE Relay(s)'
  <2>1. n \in 1..Len(x) /\ n - 1 = taken["client"][s]
    BY <1>1, <1>2, <1>3, <1>6 DEF Reads
  <2>2. n = 1 /\ taken["client"][s] = 0 /\ n - 1 = 0
    BY <1>1, <1>6, <1>7, <1>3, <1>2, <2>1, Tameness DEF Owed
  <2>3. \A to \in Side : \A m : Reached(to, s, m) => Reached(to, s, m)'
    BY <1>0, <1>6, ReadsKept
  <2>4. /\ exchange' = exchange /\ got' = got /\ WorksOn("client", s)' /\ taken'["client"][s] = 1
        /\ taken'["server"][s] = taken["server"][s]
    BY <1>0, <1>6, <2>2 DEF Reads, WorksOn, TypeOK
  <2>5. CASE exchange[s].verdict = "block"
    <3>1. Refused(s)
      BY <1>7, <2>5 DEF Relay
    <3>2. Reached("client", s, 0)'
      BY <1>0, <2>2, <2>3, <3>1 DEF Refused
    <3>3. pc'["client"] = "settings"
      BY <1>5, <1>6, <2>5
    <3>4. Refused(s)'
      BY <2>4, <3>1, <3>2, <3>3 DEF Refused, PageSteps
    <3> QED
      BY <1>6, <2>4, <2>5, <3>4 DEF Relay
  <2>6. CASE exchange[s].verdict # "block"
    <3>1. Turn("client", s) /\ Kept("client", s, 0, 0)
      BY <1>0, <1>6, <1>7, <2>2, <2>6, AtRest DEF Sent, Holds
    <3>2. Kept("client", s, 0, 0)'
      BY <1>0, <1>6, <3>1, ReadsKept
    <3>3. copy = x[1].items
      <4>1. headers[s] = << >>
        BY <3>1 DEF Kept
      <4>2. x[1] \in Frame
        BY <1>3, <2>1, <2>2 DEF Singles
      <4>3. x[1].items \in Seq(Item)
        BY <4>2 DEF Frame
      <4> QED
        BY <1>4, <2>2, <4>1, <4>3
    <3>4. Working("client", s, 1)'
      <4>1. pc'["client"] = "keep"
        BY <1>5, <1>6, <2>6
      <4> QED
        BY <1>1, <1>6, <2>4, <3>2, <3>3, <4>1 DEF Working
    <3>5. Flow("client", s)'
      BY <2>4, <3>4 DEF Flow
    <3>6. Turn("client", s)'
      BY <1>0, <2>3, <2>4, <3>1 DEF Turn
    <3> QED
      BY <1>0, <1>6, <2>4, <2>6, <3>5, <3>6 DEF Relay
  <2> QED
    BY <2>5, <2>6
<1> QED
  BY <1>0, <1>6, <1>7, ReadsInv

\* The header block of a response is read.
LEMMA TakeResponseRelay ==
  ASSUME TypeOK, RelayInv, NEW s \in Stream, TakeResponse(s)
  PROVE  RelayInv'
<1>0. "client" \in Side /\ "server" \in Side
  BY DEF Side
<1>1. PICK x : x = exchange[s]["server"]
  OBVIOUS
<1>2. PICK n : n = taken["server"][s] + 1
  OBVIOUS
<1>3. Singles(x) /\ taken["server"][s] \in Nat
  BY <1>0, <1>1, Given DEF TypeOK
<1>4. PICK copy : copy = headers[s] \o x[n].items
  OBVIOUS
<1>5. /\ Reads("server", s, n) /\ pc'["server"] = "keep" /\ job'["server"].copy = copy
      /\ x[n].type = "headers" /\ Answering(s)
      /\ response'[s] = copy /\ body'[s] = << >>
      /\ headers' = headers /\ chunks' = chunks /\ userData' = userData
  <2>1. /\ Take("server", s, "headers", copy, "keep")
        /\ response' = [response EXCEPT ![s] = copy]
        /\ body' = [body EXCEPT ![s] = << >>]
        /\ UNCHANGED <<credit, headers, chunks, userData>>
    BY <1>1, <1>2, <1>4 DEF TakeResponse, Incoming, Fields
  <2>2. n \in 1..Len(x)
    BY <1>1, <1>2, <1>3, <2>1 DEF Take, Singles
  <2>3. headers[s] \in Seq(Item) /\ x[n].items \in Seq(Item)
    <3>1. x[n] \in Frame
      BY <1>3, <2>2 DEF Singles
    <3> QED
      BY <3>1 DEF TypeOK, Frame
  <2>4. copy \in Seq(Item)
    BY <1>4, <2>3
  <2>5. /\ response'[s] = copy /\ body'[s] = << >>
        /\ \A r \in Stream \ {s} : response'[r] = response[r] /\ body'[r] = body[r]
    BY <2>1 DEF TypeOK
  <2> QED
    BY <1>0, <1>1, <1>2, <2>1, <2>4, <2>5, TakeReads
<1>6. ASSUME Owed(s), Owed(s)', Relay(s) PROVE Relay(s)'
  <2>1. n \in 1..Len(x) /\ n - 1 = taken["server"][s] /\ x = Answer(s)
    BY <1>1, <1>2, <1>3, <1>5 DEF Reads, Answer
  <2>2. n = 1 /\ taken["server"][s] = 0
    BY <1>2, <1>3, <1>5, <1>6, <2>1, Tameness DEF Owed
  <2>3. exchange[s].verdict # "block"
    BY <1>5, <1>6 DEF Relay, Refused, Answering
  <2>4. Turn("client", s) /\ Flow("client", s)
    <3>1. Turn("server", s) => FALSE
      BY <2>2 DEF Turn
    <3> QED
      BY <1>0, <1>5, <1>6, <2>3, <3>1, AtRest
  <2>5. /\ taken["client"][s] = Len(exchange[s].client) /\ taken["client"][s] # 0
        /\ ~WorksOn("client", s)
        /\ headers[s] = << >> /\ chunks[s] = << >>
    <3>1. taken["client"][s] <= Len(exchange[s].client) /\ conn["server"] \in {"open", "stalled"}
      BY <1>0, <1>5 DEF RelayInv, Reads
    <3>2. Tame(s) /\ ~WorksOn("client", s)
      BY <1>5, <1>6 DEF Owed, Reads
    <3> QED
      BY <1>5, <2>4, <3>1, <3>2, WholeRequest
  <2>6. Reached("client", s, 0)'
    <3>1. Reached("client", s, 0)
      BY <2>4, ReachedNone DEF Turn
    <3> QED
      BY <1>0, <1>5, <3>1, ReadsKept
  <2>7. copy = x[1].items
    <3>1. x[1] \in Frame
      BY <1>3, <2>1, <2>2 DEF Singles
    <3>2. x[1].items \in Seq(Item)
      BY <3>1 DEF Frame
    <3> QED
      BY <1>4, <2>2, <2>5, <3>2
  <2>8. /\ exchange' = exchange /\ WorksOn("server", s)' /\ taken'["server"][s] = 1
        /\ taken'["client"][s] = taken["client"][s]
        /\ (WorksOn("client", s)' <=> WorksOn("client", s))
    BY <1>0, <1>5, <2>2 DEF Reads, WorksOn, TypeOK
  <2>9. Answer(s)' = Answer(s)
    BY <2>8, Fixed
  <2>10. Flow("server", s)'
    <3>1. Part(x, 1, 0) = << >>
      BY PartNone
    <3>2. Kept("server", s, 0, 0)'
      BY <1>1, <1>5, <2>5, <2>6, <2>8, <3>1 DEF Kept, Other
    <3>3. Working("server", s, 1)'
      BY <1>1, <1>5, <2>7, <2>8, <3>2 DEF Working
    <3> QED
      BY <2>8, <3>3 DEF Flow
  <2>11. userData[s] = exchange[s].verdict
    BY <1>6, <2>5 DEF Relay
  <2>12. Seen(s)'
    <3>1. job'["server"].white <=> exchange[s].verdict = "white"
      BY <1>5, <2>11 DEF Reads
    <3>2. Length(body'[s]) <= MaxLength
      <4>1. BodyOf(s, 1) = << >>
        BY PartNone DEF BodyOf, Part
      <4> QED
        BY <1>5, <1>6, <2>1, <2>2, <4>1, Tameness DEF Owed
    <3> QED
      BY <1>5, <2>1, <2>7, <2>8, <2>9, <2>11, <3>1, <3>2 DEF Seen
  <2>13. Turn("server", s)'
    BY <2>5, <2>8, <2>12 DEF Turn
  <2> QED
    BY <1>0, <1>5, <2>3, <2>8, <2>10, <2>11, <2>13 DEF Relay
<1> QED
  BY <1>0, <1>5, <1>6, ReadsInv

-----------------------------------------------------------------------------
(* The other steps.                                                        *)

\* A step that only ends work, or begins none, keeps the invariant if every
\* stream's is kept.
LEMMA IdleInv ==
  ASSUME TypeOK, RelayInv, exchange' = exchange, taken' = taken, overtaken' = overtaken,
         \A g \in Side : job'[g] = job[g] \/ job'[g] = None,
         \A s \in Stream : Relay(s) /\ Owed(s) => Relay(s)'
  PROVE  RelayInv'
<1>1. ASSUME NEW g \in Side
      PROVE  JobOK(g)' /\ \A s \in Stream : taken'[g][s] <= Len(exchange'[s][g])
  BY DEF RelayInv, JobOK
<1>2. ASSUME NEW s \in Stream, Owed(s)' PROVE Relay(s)'
  BY <1>2, OwedBefore DEF RelayInv
<1> QED
  BY <1>1, <1>2 DEF RelayInv

\* A step while no goroutine it is about has a frame.
LEMMA SameInv ==
  ASSUME TypeOK, RelayInv, UNCHANGED <<exchange, taken, overtaken, job, held, got>>,
         \A g \in Side : (job[g] # None => pc'[g] = pc[g]) /\ (Gone(g) => Gone(g)'),
         pc["client"] \in PageSteps \cup {"ended"} => pc'["client"] \in PageSteps \cup {"ended"}
  PROVE  RelayInv'
<1>1. ASSUME NEW s \in Stream PROVE Same(s)
  BY DEF Same, WorksOn, held
<1> QED
  BY <1>1, SameRelay, IdleInv

\* Steps between frames.
LEMMA RestRelay ==
  ASSUME TypeOK, RelayInv,
         \/ Preface \/ PrefaceFails \/ TakeSettings \/ ForwardSettings
         \/ \E g \in Side : ReadFails(g) \/ Stall(g) \/ Leave(g)
  PROVE  RelayInv'
<1>0. /\ "client" \in Side /\ "server" \in Side
      /\ pc \in [Side -> Steps] /\ conn \in [Side -> {"open", "stalled", "left", "closed"}]
      /\ \A g \in Side : job[g] = None <=> Resting(g)
      /\ pc["client"] = "preface" <=> pc["server"] = "preface"
  BY DEF TypeOK, Side
<1>1. CASE Preface
  <2>1. \A g \in Side : pc[g] = "preface"
    BY <1>0, <1>1 DEF Preface, Side
  <2>2. UNCHANGED <<exchange, taken, overtaken, job, held, got, conn, intact>> /\ pc["client"] = "preface"
    BY <1>1 DEF Preface, input, wire
  <2> QED
    BY <1>0, <2>1, <2>2, SameInv DEF Resting, Gone, PageSteps
<1>2. CASE PrefaceFails
  <2>1. \A g \in Side : pc[g] = "preface"
    BY <1>0, <1>2 DEF PrefaceFails, Side
  <2>2. UNCHANGED <<exchange, taken, overtaken, job, held, got, conn, intact>> /\ pc["client"] = "preface"
    BY <1>2 DEF PrefaceFails, input, wire
  <2> QED
    BY <1>0, <2>1, <2>2, SameInv DEF Resting, Gone, PageSteps
<1>3. CASE TakeSettings
  <2>1. /\ UNCHANGED <<exchange, taken, overtaken, job, held, got, conn, intact>>
        /\ pc["server"] = "idle" /\ pc' = [pc EXCEPT !["server"] = "settings"]
    BY <1>3 DEF TakeSettings, input, Goto
  <2> QED
    BY <1>0, <2>1, SameInv DEF Resting, Gone, Side
<1>4. CASE ForwardSettings
  <2>1. /\ UNCHANGED <<exchange, taken, overtaken, job, held, got, conn>>
        /\ pc["server"] = "settings" /\ pc' = [pc EXCEPT !["server"] = "idle"]
        /\ intact' = intact \/ intact' = FALSE
    BY <1>4 DEF ForwardSettings, input, Goto, SendSettings, Garble
  <2> QED
    BY <1>0, <2>1, SameInv DEF Resting, Gone, Side
<1>5. ASSUME NEW g \in Side, ReadFails(g) PROVE RelayInv'
  <2>1. /\ UNCHANGED <<exchange, taken, overtaken, job, held, got, intact>>
        /\ pc[g] = "idle" /\ pc' = [pc EXCEPT ![g] = "ended"]
        /\ conn' = conn \/ conn' = [conn EXCEPT !["client"] = "closed"]
    BY <1>5 DEF ReadFails, input, Goto
  <2> QED
    BY <1>0, <2>1, SameInv DEF Resting, Gone, Side, PageSteps
<1>6. ASSUME NEW g \in Side, Stall(g) \/ Leave(g) PROVE RelayInv'
  <2>1. /\ UNCHANGED <<exchange, taken, overtaken, job, held, got, intact, pc>>
        /\ \/ conn' = [conn EXCEPT ![g] = "left"]
           \/ conn[g] = "open" /\ conn' = [conn EXCEPT ![g] = "stalled"]
    BY <1>6 DEF Stall, Leave, input
  <2>2. \A h \in Side : Gone(h) => Gone(h)'
    BY <1>0, <2>1 DEF Gone
  <2> QED
    BY <2>1, <2>2, SameInv
<1> QED
  BY <1>1, <1>2, <1>3, <1>4, <1>5, <1>6

\* The client goroutine writes a page only for a blocked request.
LEMMA PageFacts ==
  ASSUME TypeOK, RelayInv, NEW s \in Stream, Owed(s), pc["client"] \in PageSteps,
         job["client"] # None, job["client"].stream = s
  PROVE  /\ WorksOn("client", s) /\ taken["client"][s] # 0
         /\ exchange[s].verdict = "block" /\ Refused(s)
         /\ pc["client"] # "goaway" => Reached("client", s, 0)
<1>0. "client" \in Side /\ "server" \in Side
  BY DEF Side
<1>1. WorksOn("client", s) /\ taken["client"][s] # 0
  <2>1. taken["client"][s] \in 1..Len(exchange[s]["client"])
    BY <1>0 DEF RelayInv, JobOK
  <2>2. \A i \in 1..Len(exchange[s]["client"]) : i # 0
    OBVIOUS
  <2> QED
    BY <2>1, <2>2 DEF WorksOn
<1>2. Relay(s)
  BY DEF RelayInv
<1>3. exchange[s].verdict = "block"
  <2> SUFFICES ASSUME NEW g \in Side, Turn(g, s), Flow(g, s) PROVE FALSE
    BY <1>2 DEF Relay
  <2>1. g = "client"
    BY <1>1 DEF Turn, Side
  <2>2. Working("client", s, taken["client"][s])
    BY <1>1, <2>1 DEF Flow
  <2> QED
    BY <2>2 DEF Working, PageSteps
<1>4. Refused(s)
  BY <1>2, <1>3 DEF Relay
<1> QED
  BY <1>1, <1>3, <1>4 DEF Refused

\* Writing a page for a request keeps the invariant.
LEMMA PageRelay ==
  ASSUME TypeOK, RelayInv, PageSettings \/ WritePage \/ GoAway
  PROVE  RelayInv'
<1>0. "client" \in Side /\ "server" \in Side
  BY DEF Side
<1>1. pc["client"] \in PageSteps
  BY DEF PageSettings, WritePage, GoAway, PageSteps
<1>2. job["client"] # None /\ job["client"].stream \in Stream
  BY <1>0, <1>1, Busy DEF Resting, PageSteps
<1>3. PICK t \in Stream : t = job["client"].stream
  BY <1>2
<1>4. /\ UNCHANGED <<exchange, taken, overtaken, held>> /\ pc'["client"] \in {"page", "goaway", "ended"}
      /\ pc' = [pc EXCEPT !["client"] = pc'["client"]]
      /\ job' = job \/ job' = [job EXCEPT !["client"] = None]
      /\ pc'["client"] = "page" => got' = got
      /\ pc'["client"] = "ended" => job'["client"] = None
      /\ \A h \in Side : Gone(h) => Gone(h)'
      /\ \A h \in Side : \A r \in Stream : h # "client" \/ r # t => got'[h][r] = got[h][r]
  <2>1. CASE PageSettings
    <3>1. /\ UNCHANGED <<exchange, taken, overtaken, job, held, got, conn>>
          /\ pc' = [pc EXCEPT !["client"] = "page"]
          /\ intact' = intact \/ intact' = FALSE
      BY <2>1 DEF PageSettings, input, Goto, SendSettings, Garble
    <3> QED
      BY <1>0, <3>1 DEF Gone, TypeOK
  <2>2. CASE WritePage
    <3>1. /\ UNCHANGED <<exchange, taken, overtaken, job, held, conn>>
          /\ pc' = [pc EXCEPT !["client"] = "goaway"] /\ Send("client", t, Page)
      BY <1>3, <2>2 DEF WritePage, input, Goto
    <3>2. /\ \A h \in Side : Gone(h) => Gone(h)'
          /\ \A h \in Side : \A r \in Stream : h # "client" \/ r # t => got'[h][r] = got[h][r]
      BY <1>0, <3>1, SendElsewhere
    <3>3. pc'["client"] = "goaway"
      BY <1>0, <3>1 DEF TypeOK
    <3> QED
      BY <3>1, <3>2, <3>3
  <2>3. CASE GoAway
    <3>1. /\ UNCHANGED <<exchange, taken, overtaken, held, got>>
          /\ pc' = [pc EXCEPT !["client"] = "ended"]
          /\ job' = [job EXCEPT !["client"] = None]
          /\ conn' = [conn EXCEPT !["server"] = "closed"]
          /\ intact' = intact \/ intact' = FALSE
      BY <2>3 DEF GoAway, input, Garble
    <3> QED
      BY <1>0, <3>1 DEF Gone, TypeOK
  <2> QED
    BY <2>1, <2>2, <2>3
<1>5. ASSUME NEW s \in Stream, Relay(s), Owed(s) PROVE Relay(s)'
  <2>1. CASE s = t
    <3>1. /\ taken["client"][s] # 0 /\ exchange[s].verdict = "block" /\ Refused(s)
          /\ pc["client"] # "goaway" => Reached("client", s, 0)
      BY <1>1, <1>2, <1>3, <1>5, <2>1, PageFacts
    <3>2. taken' = taken /\ got'["server"][s] = << >> /\ exchange' = exchange
          /\ userData' = userData
      BY <1>0, <1>4, <3>1 DEF Refused, held
    <3>3. pc'["client"] = "page" => Reached("client", s, 0)'
      <4> SUFFICES ASSUME pc'["client"] = "page" PROVE Reached("client", s, 0)'
        OBVIOUS
      <4>1. pc["client"] # "goaway"
        BY <1>0, <1>4 DEF PageSettings, WritePage, GoAway, Goto, TypeOK
      <4>2. Reached("client", s, 0)
        BY <3>1, <4>1
      <4> QED
        BY <1>0, <1>4, <4>2, ReachedStays
    <3>4. WorksOn("client", s)' => pc'["client"] # "ended"
      BY <1>4 DEF WorksOn
    <3>5. Refused(s)'
      BY <1>4, <3>1, <3>2, <3>3, <3>4 DEF Refused, PageSteps
    <3> QED
      BY <1>5, <3>1, <3>2, <3>5 DEF Relay
  <2>2. CASE s # t
    <3>1. \A h \in Side : /\ WorksOn(h, s)' <=> WorksOn(h, s)
                          /\ WorksOn(h, s) => job'[h] = job[h] /\ pc'[h] = pc[h]
      <4>1. \A h \in Side \ {"client"} : job'[h] = job[h] /\ pc'[h] = pc[h]
        BY <1>4 DEF TypeOK
      <4>2. ~WorksOn("client", s) /\ ~WorksOn("client", s)'
        BY <1>0, <1>3, <1>4, <2>2 DEF WorksOn, TypeOK
      <4> QED
        BY <4>1, <4>2 DEF WorksOn
    <3>2. Same(s)
      BY <1>4, <2>2, <3>1 DEF Same, held, PageSteps
    <3> QED
      BY <1>5, <3>2, SameRelay
  <2> QED
    BY <2>1, <2>2
<1>6. \A g \in Side : job'[g] = job[g] \/ job'[g] = None
  BY <1>4 DEF TypeOK
<1> QED
  BY <1>4, <1>5, <1>6, IdleInv

\* The invariant holds when the connection begins.
LEMMA InitRelay ==
  ASSUME Init
  PROVE  RelayInv
<1>1. /\ exchange \in Exchanges
      /\ \A g \in Side : \A s \in Stream : taken[g][s] = 0 /\ got[g][s] = << >>
      /\ \A g \in Side : job[g] = None
      /\ \A s \in Stream : headers[s] = << >> /\ chunks[s] = << >>
  BY DEF Init
<1>2. ASSUME NEW s \in Stream PROVE Relay(s)
  <2>0. "client" \in Side /\ "server" \in Side
    BY DEF Side
  <2>1. Reached("client", s, 0) /\ Reached("server", s, 0)
    BY <1>1, <2>0, ReachedNone
  <2>2. \A x : Part(x, 1, 0) = << >>
    BY PartNone
  <2>3. Kept("client", s, 0, 0)
    BY <1>1, <2>1, <2>2 DEF Kept, Other
  <2>4. Turn("client", s) /\ Flow("client", s)
    BY <1>1, <2>0, <2>1, <2>3 DEF Turn, Flow, WorksOn, Sent, Holds
  <2>5. Refused(s)
    BY <1>1, <2>0, <2>1 DEF Refused, WorksOn
  <2> QED
    BY <1>1, <2>0, <2>4, <2>5 DEF Relay
<1>3. ASSUME NEW g \in Side PROVE JobOK(g) /\ \A s \in Stream : taken[g][s] <= Len(exchange[s][g])
  <2>1. \A s \in Stream : Len(exchange[s][g]) \in Nat
    BY <1>1, Given DEF Singles
  <2> QED
    BY <1>1, <2>1 DEF JobOK
<1> QED
  BY <1>2, <1>3 DEF RelayInv

\* What is held, and who has which stream, for any streams and exchanges.
LEMMA StepRelay == ASSUME TypeOK, RelayInv, [Next]_vars PROVE RelayInv'
<1>1. CASE UNCHANGED vars
  BY <1>1, SameInv DEF vars, held, Gone
<1>2. ASSUME NEW g \in Side, Process(g) PROVE RelayInv'
  BY <1>2, TakeDataRelay, TakeOtherRelay, ForwardRelay, KeepRelay, StoreRelay, DecideRelay,
     WriteRelay, ForgetRelay, FlushRelay, DropRelay, RestRelay DEF Process
<1>3. CASE ClientLoop
  BY <1>2, <1>3, PageRelay, TakeRequestRelay DEF ClientLoop, Side
<1>4. CASE ServerLoop
  BY <1>2, <1>4, RestRelay, ReplaceRelay, CleanRelay, TakeResponseRelay DEF ServerLoop, Side
<1> QED
  BY <1>1, <1>3, <1>4, RestRelay DEF Next

-----------------------------------------------------------------------------
(* The refinement.                                                         *)

\* What HeldBody sees.
Shows(side, s) == Tame(s) /\ (side = "server" \/ s \notin overtaken)
Shown == [side \in Side |-> [s \in Stream |->
            IF Tame(s) /\ (side = "server" \/ s \notin overtaken) THEN got[side][s] ELSE << >>]]
Waived == {s \in overtaken : Tame(s)}
Hides == UNCHANGED <<exchange, Shown, Waived>>

\* What was overtaken was requested in full.
Requests == \A s \in overtaken : Tame(s) => HasEnded(got["server"][s])

\* Nothing it sees changes.
LEMMA ShownStays ==
  ASSUME exchange' = exchange, overtaken' = overtaken,
         \A to \in Side : \A s \in Stream : Shows(to, s) => got'[to][s] = got[to][s]
  PROVE  Hides
<1>1. \A s : Tame(s)' <=> Tame(s)
  BY Fixed
<1>2. Shown' = Shown
  BY <1>1 DEF Shown, Shows
<1>3. Waived' = Waived
  BY <1>1 DEF Waived
<1> QED
  BY <1>2, <1>3 DEF Hides

\* It sees what one side gets on one stream.
LEMMA ShownChanges ==
  ASSUME exchange' = exchange, overtaken' = overtaken,
         NEW to \in Side, NEW s \in Stream, Shows(to, s),
         \A h \in Side : \A r \in Stream : h # to \/ r # s => got'[h][r] = got[h][r]
  PROVE  /\ Shown' = [Shown EXCEPT ![to][s] = got'[to][s]] /\ Shown[to][s] = got[to][s]
         /\ Waived' = Waived
<1>0. \A r : Tame(r)' <=> Tame(r)
  BY Fixed
<1>1. \A h, r : Shows(h, r)' <=> Shows(h, r)
  BY <1>0 DEF Shows
<1>12. Waived' = Waived
  BY <1>0 DEF Waived
<1>2. PICK frames : frames = got'[to][s]
  OBVIOUS
<1>3. PICK old : old = Shown
  OBVIOUS
<1>4. PICK new : new = Shown'
  OBVIOUS
<1>5. /\ old = [side \in Side |-> old[side]] /\ new = [side \in Side |-> new[side]]
      /\ \A side \in Side : /\ old[side] = [r \in Stream |-> old[side][r]]
                           /\ new[side] = [r \in Stream |-> new[side][r]]
  BY <1>3, <1>4 DEF Shown
<1>6. /\ \A side \in Side : \A r \in Stream :
           old[side][r] = (IF Shows(side, r) THEN got[side][r] ELSE << >>)
      /\ \A side \in Side : \A r \in Stream :
           new[side][r] = (IF Shows(side, r)' THEN got'[side][r] ELSE << >>)
  BY <1>3, <1>4 DEF Shown, Shows
<1>7. /\ new[to][s] = frames /\ old[to][s] = got[to][s]
      /\ \A side \in Side : \A r \in Stream : side # to \/ r # s => new[side][r] = old[side][r]
  BY <1>1, <1>2, <1>6
<1>8. \A side \in Side : side # to => new[side] = old[side]
  BY <1>5, <1>7
<1>9. new[to] = [old[to] EXCEPT ![s] = frames]
  <2>1. PICK o, w : o = old[to] /\ w = new[to]
    OBVIOUS
  <2>2. /\ o = [r \in Stream |-> o[r]] /\ w = [r \in Stream |-> w[r]]
        /\ w[s] = frames /\ \A r \in Stream : r # s => w[r] = o[r]
    BY <1>5, <1>7, <2>1
  <2>3. w = [o EXCEPT ![s] = frames]
    BY <2>2
  <2> QED
    BY <2>1, <2>3
<1>10. new = [old EXCEPT ![to] = new[to]]
  BY <1>5, <1>8
<1>11. new = [old EXCEPT ![to][s] = frames]
  BY <1>9, <1>10
<1> QED
  BY <1>2, <1>3, <1>4, <1>7, <1>11, <1>12

\* A sending side writes more only to a connection that is there.
LEMMA SendOpen ==
  ASSUME TypeOK, NEW to \in Side, NEW s \in Stream, NEW frames, Send(to, s, frames),
         conn' = conn, got'[to][s] # got[to][s]
  PROVE  ~Gone(to) /\ ~Gone(to)' /\ got'[to][s] = got[to][s] \o frames
<1>1. CASE got' = [got EXCEPT ![to][s] = @ \o frames] /\ intact' = intact
           /\ conn[to] = "open" /\ (to = "client" => intact)
  BY <1>1 DEF Gone, TypeOK
<1> QED
  BY <1>1 DEF Send

\* Sending the next frames of a stream is a Forward of HeldBody.
LEMMA SendForwards ==
  ASSUME TypeOK, NEW to \in Side, NEW s \in Stream, Owed(s), overtaken' = overtaken,
         NEW m \in Nat, NEW n \in Nat, m <= n, n <= Len(exchange[s][Other(to)]),
         Reached(to, s, m), Reached(to, s, n)', NEW frames, Send(to, s, frames),
         conn' = conn, exchange' = exchange
  PROVE  Held!Next \/ Hides
<1>1. PICK x : x = exchange[s][Other(to)]
  OBVIOUS
<1>2. \A h \in Side : \A r \in Stream : h # to \/ r # s => got'[h][r] = got[h][r]
  BY SendElsewhere
<1>0. Shows(to, s)
  BY DEF Owed, Shows
<1>3. CASE got'[to][s] = got[to][s]
  BY <1>2, <1>3, ShownStays
<1>4. CASE got'[to][s] # got[to][s]
  <2>1. got[to][s] = SubSeq(x, 1, m) /\ got'[to][s] = SubSeq(x, 1, n)
    BY <1>1, <1>4, SendOpen DEF Reached
  <2>2. x \in Seq(Frame) /\ Len(x) \in Nat
    <3>1. Other(to) \in Side
      BY DEF Other, Side
    <3> QED
      BY <1>1, <3>1, Given DEF TypeOK, Singles
  <2>3. m # n /\ m + 1 \in Nat /\ n \in (m + 1)..Len(x)
    BY <1>1, <1>4, <2>1, <2>2
  <2>4. Len(SubSeq(x, 1, m)) = m
    BY <1>1, <2>2, SubSeqProperties
  <2>5. /\ Shown' = [Shown EXCEPT ![to][s] = SubSeq(x, 1, n)] /\ Shown[to][s] = SubSeq(x, 1, m)
        /\ Waived' = Waived
    BY <1>0, <1>2, <2>1, ShownChanges
  <2>6. Held!Forward(to, s)
    <3>1. Held!Other(to) = Other(to)
      BY DEF Held!Other, Other
    <3> QED
      BY <1>1, <2>3, <2>4, <2>5, <3>1 DEF Held!Forward, Shown, Waived, Owed
  <2> QED
    BY <2>6 DEF Held!Next, Side
<1> QED
  BY <1>3, <1>4

\* A page in place of a response is a Replace of HeldBody.
LEMMA SendReplaces ==
  ASSUME TypeOK, NEW s \in Stream, Owed(s), overtaken' = overtaken,
         Reached("client", s, 0), Held!Unwanted(s),
         Send("client", s, Page), conn' = conn, exchange' = exchange
  PROVE  Held!Next \/ Hides
<1>0. "client" \in Side
  BY DEF Side
<1>1. \A h \in Side : \A r \in Stream : h # "client" \/ r # s => got'[h][r] = got[h][r]
  BY <1>0, SendElsewhere
<1>4. Shows("client", s)
  BY DEF Owed, Shows
<1>2. CASE got'["client"][s] = got["client"][s]
  BY <1>1, <1>2, ShownStays
<1>3. CASE got'["client"][s] # got["client"][s]
  <2>1. got["client"][s] = << >> /\ got'["client"][s] = << >> \o Page
    <3>1. ~Gone("client") /\ got'["client"][s] = got["client"][s] \o Page
      BY <1>0, <1>3, SendOpen
    <3>2. got["client"][s] = << >>
      BY <3>1, ReachedNone
    <3> QED
      BY <3>1, <3>2
  <2>2. << >> \o Page = Page
    BY ConstantsOK DEF ConstantsOK
  <2>3. /\ Shown' = [Shown EXCEPT !["client"][s] = Page] /\ Shown["client"][s] = << >>
        /\ Waived' = Waived
    BY <1>0, <1>1, <1>4, <2>1, <2>2, ShownChanges
  <2>4. Held!Replace(s)
    BY <2>3 DEF Held!Replace, Shown, Waived, Owed
  <2> QED
    BY <2>4 DEF Held!Next
<1> QED
  BY <1>2, <1>3

\* A goroutine that has read a request to its end, and written the end, has
\* nothing more to write of it.
LEMMA NothingMore ==
  ASSUME TypeOK, EndInv, Requests, NEW s \in overtaken, Tame(s), WorksOn("client", s)
  PROVE  pc["client"] \notin {"forward", "write", "flush"}
<1>0. "client" \in Side /\ Other("client") = "server" /\ s \in Stream
  BY DEF Side, Other, TypeOK
<1>1. Told("client", s)
  BY <1>0 DEF EndInv, EndsOnce, Requests
<1>2. pc["client"] # "forward"
  <2>1. /\ job["client"].frame = exchange[s]["client"][taken["client"][s]]
        /\ taken["client"][s] \in 1..Len(exchange[s]["client"])
        /\ pc["client"] = "forward" => job["client"].frame.type = "other"
    BY <1>0 DEF EndInv, WorkOK, WorksOn
  <2> QED
    BY <2>1, Tameness
<1> QED
  BY <1>1, <1>2 DEF Told

\* Writing to one side about a stream of which HeldBody does not see that side.
LEMMA SendElse ==
  ASSUME TypeOK, EndInv, Requests, NEW g \in Side, NEW s \in Stream, ~Owed(s),
         WorksOn(g, s), pc[g] \in {"forward", "write", "flush"},
         NEW frames, Send(Other(g), s, frames), conn' = conn, exchange' = exchange,
         overtaken' = overtaken
  PROVE  Hides
<1>0. Other(g) \in Side
  BY DEF Other, Side
<1>1. \A h \in Side : \A r \in Stream : h # Other(g) \/ r # s => got'[h][r] = got[h][r]
  BY <1>0, SendElsewhere
<1>2. ~Shows(Other(g), s)
  <2> SUFFICES ASSUME Tame(s), s \in overtaken, g = "client" PROVE FALSE
    BY DEF Owed, Shows, Other, Side
  <2> QED
    BY NothingMore
<1> QED
  BY <1>1, <1>2, ShownStays

\* A page goes only to the client.
LEMMA PageElse ==
  ASSUME TypeOK, NEW s \in Stream, ~Owed(s), NEW frames, Send("client", s, frames),
         conn' = conn, exchange' = exchange, overtaken' = overtaken
  PROVE  Hides
<1>0. "client" \in Side
  BY DEF Side
<1>1. \A h \in Side : \A r \in Stream : h # "client" \/ r # s => got'[h][r] = got[h][r]
  BY <1>0, SendElsewhere
<1> QED
  BY <1>1, ShownStays DEF Owed, Shows

\* Each kind of write, as HeldBody sees it.
LEMMA ForwardHeld ==
  ASSUME TypeOK, EndInv, RelayInv, Requests, NEW g \in Side, Forward(g)
  PROVE  Held!Next \/ Hides
<1>1. job[g] # None /\ job[g].stream \in Stream /\ Other(g) \in Side
  BY Busy DEF Forward, Resting, Other, Side
<1>2. PICK s \in Stream : s = job[g].stream
  BY <1>1
<1>3. ASSUME Owed(s) PROVE FALSE
  <2>1. AtWork(g, s, taken[g][s])
    BY <1>1, <1>2, <1>3, AtWorkFacts DEF Forward, PageSteps
  <2> QED
    BY <2>1 DEF AtWork, Working, Forward
<1> QED
  BY <1>1, <1>2, <1>3, SendElse DEF Forward, input, WorksOn

LEMMA WriteHeld ==
  ASSUME TypeOK, EndInv, RelayInv, Requests, NEW g \in Side, Write(g)
  PROVE  Held!Next \/ Hides
<1>1. /\ job[g] # None /\ job[g].stream \in Stream
      /\ Other(g) \in Side /\ Other(Other(g)) = g
  BY Busy DEF Write, Resting, Other, Side
<1>2. PICK s \in Stream : s = job[g].stream
  BY <1>1
<1>3. PICK f : f = [type |-> "headers", items |-> headers[s],
                    ended |-> chunks[s] = << >> /\ job[g].frame.ended]
  OBVIOUS
<1>4. /\ exchange' = exchange /\ conn' = conn /\ overtaken' = overtaken
      /\ WorksOn(g, s) /\ pc[g] = "write"
      /\ IF headers[s] = << >> THEN got' = got ELSE Send(Other(g), s, <<f>>)
  BY <1>1, <1>2, <1>3 DEF Write, input, WorksOn
<1>5. CASE headers[s] = << >>
  BY <1>4, <1>5, ShownStays
<1>6. CASE headers[s] # << >> /\ Owed(s)
  <2>1. PICK n : AtWork(g, s, n)
    BY <1>1, <1>2, <1>6, AtWorkFacts DEF Write, PageSteps
  <2>2. Reached(Other(g), s, 0) /\ Reached(Other(g), s, 1)'
    BY <1>6, <2>1, WriteReaches
  <2>3. 1 <= Len(exchange[s][g]) /\ 0 \in Nat /\ 1 \in Nat /\ 0 <= 1
    <3>1. n \in 1..Len(exchange[s][g]) /\ Len(exchange[s][g]) \in Nat
      BY <2>1 DEF AtWork, Ordinary, Singles
    <3> QED
      BY <3>1
  <2> QED
    BY <1>1, <1>4, <1>6, <2>2, <2>3, SendForwards
<1>7. CASE headers[s] # << >> /\ ~Owed(s)
  BY <1>1, <1>4, <1>7, SendElse
<1> QED
  BY <1>5, <1>6, <1>7

LEMMA FlushHeld ==
  ASSUME TypeOK, EndInv, RelayInv, Requests, NEW g \in Side, Flush(g)
  PROVE  Held!Next \/ Hides
<1>1. /\ job[g] # None /\ job[g].stream \in Stream
      /\ Other(g) \in Side /\ Other(Other(g)) = g
  BY Busy DEF Flush, Resting, Other, Side
<1>2. PICK s \in Stream : s = job[g].stream
  BY <1>1
<1>3. PICK f : f = DataFrames(job[g].copy, job[g].frame.ended)
  OBVIOUS
<1>4. /\ exchange' = exchange /\ conn' = conn /\ overtaken' = overtaken
      /\ WorksOn(g, s) /\ pc[g] = "flush" /\ Send(Other(g), s, f)
  BY <1>1, <1>2, <1>3 DEF Flush, WorksOn
<1>5. CASE Owed(s)
  <2>1. PICK n : AtWork(g, s, n)
    BY <1>1, <1>2, <1>5, AtWorkFacts DEF Flush, PageSteps
  <2>2. PICK m : m = From(g, s, n)
    OBVIOUS
  <2>3. /\ m \in Nat /\ n \in Nat /\ m <= n /\ n <= Len(exchange[s][Other(Other(g))])
        /\ Reached(Other(g), s, m) /\ Reached(Other(g), s, n)'
    BY <1>1, <2>1, <2>2, FlushReaches
  <2> QED
    BY <1>1, <1>4, <1>5, <2>3, SendForwards
<1>6. CASE ~Owed(s)
  BY <1>1, <1>4, <1>6, SendElse
<1> QED
  BY <1>5, <1>6

LEMMA ReplaceHeld ==
  ASSUME TypeOK, RelayInv, Replace
  PROVE  Held!Next \/ Hides
<1>0. "client" \in Side /\ "server" \in Side
  BY DEF Side
<1>1. job["server"] # None /\ job["server"].stream \in Stream
  BY <1>0, Busy DEF Replace, Resting
<1>2. PICK s \in Stream : s = job["server"].stream
  BY <1>1
<1>3. exchange' = exchange /\ conn' = conn /\ overtaken' = overtaken /\ Send("client", s, Page)
  BY <1>2 DEF Replace, input
<1>4. CASE Owed(s)
  <2>1. PICK n : AtWork("server", s, n)
    BY <1>0, <1>1, <1>2, <1>4, AtWorkFacts DEF Replace, PageSteps
  <2>2. Reached("client", s, 0) /\ Held!Unwanted(s)
    BY <2>1 DEF AtWork, Working, Replace
  <2> QED
    BY <1>3, <1>4, <2>2, SendReplaces
<1>5. CASE ~Owed(s)
  BY <1>3, <1>5, PageElse
<1> QED
  BY <1>4, <1>5

LEMMA PageHeld ==
  ASSUME TypeOK, RelayInv, WritePage
  PROVE  Held!Next \/ Hides
<1>0. "client" \in Side /\ pc["client"] = "page"
  BY DEF Side, WritePage
<1>1. job["client"] # None /\ job["client"].stream \in Stream
  BY <1>0, Busy DEF Resting
<1>2. PICK s \in Stream : s = job["client"].stream
  BY <1>1
<1>3. exchange' = exchange /\ conn' = conn /\ overtaken' = overtaken /\ Send("client", s, Page)
  BY <1>2 DEF WritePage, input
<1>4. CASE Owed(s)
  <2>1. pc["client"] \in PageSteps /\ pc["client"] # "goaway"
    BY <1>0 DEF PageSteps
  <2>2. exchange[s].verdict = "block" /\ Reached("client", s, 0)
    BY <1>1, <1>2, <1>4, <2>1, PageFacts
  <2>3. Held!Unwanted(s)
    BY <2>2 DEF Held!Unwanted
  <2> QED
    BY <1>3, <1>4, <2>2, <2>3, SendReplaces
<1>5. CASE ~Owed(s)
  BY <1>3, <1>5, PageElse
<1> QED
  BY <1>4, <1>5

\* An answer that overtakes the bookkeeping is a Waive of HeldBody: of the
\* request everything has been written, of the response nothing.
LEMMA RequestWritten ==
  ASSUME TypeOK, EndInv, RelayInv, NEW s \in Stream, Owed(s), Answering(s),
         conn["server"] \in {"open", "stalled"}, WorksOn("client", s)
  PROVE  got["server"][s] = exchange[s].client /\ got["client"][s] = << >>
<1>0. "client" \in Side /\ "server" \in Side /\ Other("client") = "server"
      /\ Other("server") = "client"
  BY DEF Side, Other
<1>1. PICK x : x = exchange[s]["client"]
  OBVIOUS
<1>2. Ordinary(x) /\ Singles(x) /\ x \in Seq(Frame) /\ Len(x) \in Nat
  <2>1. Tame(s)
    BY DEF Owed
  <2>2. Ordinary(x)
    BY <1>0, <1>1, <2>1, Given DEF TypeOK
  <2> QED
    BY <2>2 DEF Ordinary, Singles
<1>3. PICK n : n = taken["client"][s] /\ n \in 1..Len(x)
  BY <1>0, <1>1 DEF RelayInv, JobOK, WorksOn
<1>4. Over("client", s) /\ Told("client", s)
  <2>1. HasEnded(got["server"][s])
    BY Tameness DEF Answering, Owed, HasEnded
  <2> QED
    BY <1>0, <2>1 DEF EndInv, EndsOnce
<1>5. n = Len(x)
  <2>1. PICK i \in 1..n : x[i].ended
    BY <1>1, <1>3, <1>4 DEF Over
  <2>2. i \in 1..Len(x)
    BY <1>2, <1>3, <2>1
  <2>3. i = Len(x)
    BY <1>2, <2>1, <2>2 DEF Ordinary
  <2>4. i <= n /\ n <= Len(x) /\ n \in Int
    BY <1>2, <1>3, <2>1
  <2> QED
    BY <1>2, <2>3, <2>4
<1>6. pc["client"] \notin PageSteps
  BY <1>4 DEF Told, PageSteps
<1>7. AtWork("client", s, n)
  BY <1>0, <1>3, <1>6, AtWorkFacts DEF WorksOn
<1>8. Turn("client", s) /\ Working("client", s, n)
  BY <1>7 DEF AtWork
<1>9. ~Gone("server")
  BY DEF Gone
<1>10. got["server"][s] = SubSeq(x, 1, n)
  <2>1. CASE pc["client"] = "drop"
    BY <1>0, <1>1, <1>8, <1>9, <2>1 DEF Working, Reached
  <2>2. CASE pc["client"] = "forget" /\ job["client"].copy = << >>
    <3>1. PICK m : m = From("client", s, n)
      OBVIOUS
    <3>2. /\ m = (IF n = 1 THEN 1 ELSE n - 1) /\ m \in Nat /\ n \in Nat
      BY <1>2, <1>3, <3>1 DEF From, Holds
    <3>3. Part(x, m, n) = << >> /\ Reached("server", s, m)
      BY <1>0, <1>1, <1>8, <2>2, <3>1 DEF Working
    <3>4. n - m = 0
      <4>1. DOMAIN Part(x, m, n) = 1..(n - m)
        BY DEF Part
      <4>2. 1..(n - m) = {}
        BY <3>3, <4>1
      <4>3. n - m > 0 => 1 \in 1..(n - m)
        BY <3>2
      <4> QED
        BY <1>2, <1>3, <3>2, <4>2, <4>3
    <3>5. m = n
      BY <3>2, <3>4
    <3> QED
      BY <1>0, <1>1, <1>9, <3>3, <3>5 DEF Reached
  <2>3. pc["client"] \in {"drop", "forget"} /\ (pc["client"] = "forget" => job["client"].copy = << >>)
    BY <1>4, <1>8 DEF Told, Working
  <2> QED
    BY <2>1, <2>2, <2>3
<1>11. SubSeq(x, 1, Len(x)) = x
  BY <1>2, SubSeqFull
<1> QED
  BY <1>1, <1>5, <1>8, <1>10, <1>11 DEF Turn

\* Reading a frame.
Reading(g, s) ==
  TakeData(g, s) \/ TakeOther(g, s) \/ (g = "client" /\ TakeRequest(s))
    \/ (g = "server" /\ TakeResponse(s))

LEMMA ReadingFacts ==
  ASSUME NEW g \in Side, NEW s \in Stream, Reading(g, s)
  PROVE  /\ exchange' = exchange /\ got' = got /\ conn[g] \in {"open", "stalled"}
         /\ g = "server" => Answering(s)
         /\ overtaken' = IF g = "server" /\ WorksOn("client", s) THEN overtaken \cup {s} ELSE overtaken
BY DEF Reading, TakeData, TakeOther, TakeRequest, TakeResponse, Take, wire, Overtakes

LEMMA ReadingHeld ==
  ASSUME TypeOK, EndInv, RelayInv, NEW g \in Side, NEW s \in Stream, Reading(g, s)
  PROVE  Held!Next \/ Hides
<1>1. /\ exchange' = exchange /\ got' = got /\ conn[g] \in {"open", "stalled"}
      /\ g = "server" => Answering(s)
      /\ overtaken' = IF g = "server" /\ WorksOn("client", s) THEN overtaken \cup {s} ELSE overtaken
  BY ReadingFacts
<1>2. CASE overtaken' = overtaken
  BY <1>1, <1>2, ShownStays
<1>3. CASE overtaken' # overtaken
  <2>1. /\ g = "server" /\ WorksOn("client", s) /\ s \notin overtaken
        /\ overtaken' = overtaken \cup {s}
    BY <1>1, <1>3
  <2>2. \A r : Tame(r)' <=> Tame(r)
    BY <1>1, Fixed
  <2>3. CASE ~Tame(s)
    <3>1. Shown' = Shown
      BY <1>1, <2>1, <2>2, <2>3 DEF Shown
    <3>2. Waived' = Waived
      BY <2>1, <2>2, <2>3 DEF Waived
    <3> QED
      BY <1>1, <3>1, <3>2 DEF Hides
  <2>4. CASE Tame(s)
    <3>1. got["server"][s] = exchange[s].client /\ got["client"][s] = << >>
      BY <1>1, <2>1, <2>4, RequestWritten DEF Owed
    <3>2. Shown' = Shown
      <4>1. ASSUME NEW side \in Side, NEW r \in Stream
            PROVE  (IF Shows(side, r)' THEN got'[side][r] ELSE << >>)
                     = (IF Shows(side, r) THEN got[side][r] ELSE << >>)
        <5>1. CASE r = s
          BY <1>1, <2>1, <2>2, <3>1, <5>1 DEF Shows, Side
        <5>2. CASE r # s
          BY <1>1, <2>1, <2>2, <5>2 DEF Shows
        <5> QED
          BY <5>1, <5>2
      <4> QED
        BY <4>1 DEF Shown, Shows
    <3>3. Waived' = Waived \cup {s} /\ s \notin Waived
      BY <2>1, <2>2, <2>4 DEF Waived
    <3>4. Shown["server"][s] = exchange[s].client /\ Shown["client"][s] = << >>
      BY <2>1, <2>4, <3>1 DEF Shown, Side
    <3>5. Held!Waive(s)
      BY <1>1, <3>2, <3>3, <3>4 DEF Held!Waive, Shown, Waived
    <3> QED
      BY <3>5 DEF Held!Next
  <2> QED
    BY <2>3, <2>4
<1> QED
  BY <1>2, <1>3

\* Every step of the connection is one of HeldBody's, or none.
LEMMA StepHeld ==
  ASSUME TypeOK, EndInv, RelayInv, Requests, [Next]_vars
  PROVE  exchange' = exchange /\ (Held!Next \/ Hides)
<1>1. CASE UNCHANGED vars
  BY <1>1, ShownStays DEF vars
<1>2. ASSUME NEW g \in Side, NEW s \in Stream, Reading(g, s)
      PROVE  exchange' = exchange /\ (Held!Next \/ Hides)
  BY <1>2, ReadingHeld, ReadingFacts
<1>3. ASSUME NEW g \in Side, Process(g)
      PROVE  exchange' = exchange /\ (Held!Next \/ Hides)
  <2>1. CASE Forward(g)
    BY <2>1, ForwardHeld DEF Forward, input
  <2>2. CASE Write(g)
    BY <2>2, WriteHeld DEF Write, input
  <2>3. CASE Flush(g)
    BY <2>3, FlushHeld DEF Flush
  <2>4. CASE \E s \in Stream : TakeData(g, s) \/ TakeOther(g, s)
    BY <1>2, <2>4 DEF Reading
  <2>5. CASE Keep(g) \/ Store(g) \/ Decide(g) \/ Forget(g) \/ Drop(g) \/ ReadFails(g)
    <3>1. exchange' = exchange /\ got' = got /\ overtaken' = overtaken
      BY <2>5 DEF Keep, Store, Decide, Forget, Drop, ReadFails, input, wire
    <3> QED
      BY <3>1, ShownStays
  <2> QED
    BY <1>3, <2>1, <2>2, <2>3, <2>4, <2>5 DEF Process
<1>4. CASE WritePage
  BY <1>4, PageHeld DEF WritePage, input
<1>5. CASE Replace
  BY <1>5, ReplaceHeld DEF Replace, input
<1>6. CASE \E s \in Stream : TakeRequest(s) \/ TakeResponse(s)
  BY <1>2, <1>6 DEF Reading, Side
<1>7. CASE \/ Preface \/ PrefaceFails \/ PageSettings \/ GoAway
           \/ TakeSettings \/ ForwardSettings \/ Clean
           \/ \E side \in Side : Stall(side) \/ Leave(side)
  <2>1. exchange' = exchange /\ got' = got /\ overtaken' = overtaken
    BY <1>7 DEF Preface, PrefaceFails, PageSettings, GoAway, TakeSettings, ForwardSettings, Clean,
                Stall, Leave, input, wire
  <2> QED
    BY <2>1, ShownStays
<1> QED
  BY <1>1, <1>3, <1>4, <1>5, <1>6, <1>7 DEF Next, ClientLoop, ServerLoop, Side

\* A request that was overtaken stays as it is.
LEMMA StepRequests ==
  ASSUME TypeOK, EndInv, RelayInv, Requests, [Next]_vars
  PROVE  Requests'
<1>1. exchange' = exchange /\ \A s : Tame(s)' <=> Tame(s)
  BY StepHeld, Fixed
<1>2. ASSUME NEW g \in Side, NEW s \in Stream, Reading(g, s) PROVE Requests'
  <2>1. ASSUME NEW r \in overtaken', Tame(r) PROVE HasEnded(got'["server"][r])
    <3>1. CASE r \in overtaken
      BY <1>2, <2>1, <3>1, ReadingFacts DEF Requests
    <3>2. CASE r \notin overtaken
      <4>1. r = s /\ Answering(s) /\ got' = got
        BY <1>2, <2>1, <3>2, ReadingFacts
      <4> QED
        BY <2>1, <4>1, Tameness DEF Answering, HasEnded
    <3> QED
      BY <3>1, <3>2
  <2> QED
    BY <1>1, <2>1 DEF Requests, HasEnded
<1>3. ASSUME overtaken' = overtaken,
             \A s \in overtaken : Tame(s) => got'["server"][s] = got["server"][s]
      PROVE  Requests'
  BY <1>1, <1>3 DEF Requests, HasEnded
<1>4. ASSUME NEW g \in Side, Forward(g) \/ Write(g) \/ Flush(g) PROVE Requests'
  <2>1. job[g] # None /\ job[g].stream \in Stream /\ Other(g) \in Side
    BY <1>4, Busy DEF Forward, Write, Flush, Resting, Other, Side
  <2>2. PICK t \in Stream : t = job[g].stream
    BY <2>1
  <2>3. /\ overtaken' = overtaken /\ conn' = conn /\ WorksOn(g, t)
        /\ pc[g] \in {"forward", "write", "flush"}
        /\ got' = got \/ \E frames : Send(Other(g), t, frames)
    BY <1>4, <2>1, <2>2 DEF Forward, Write, Flush, WorksOn, input
  <2>4. \A h \in Side : \A r \in Stream : h # Other(g) \/ r # t => got'[h][r] = got[h][r]
    BY <2>1, <2>3, SendElsewhere
  <2>5. ASSUME NEW s \in overtaken, Tame(s) PROVE got'["server"][s] = got["server"][s]
    <3>1. s \in Stream /\ "server" \in Side
      BY DEF TypeOK, Side
    <3>2. g = "client" => s # t
      BY <2>3, <2>5, NothingMore
    <3> QED
      BY <2>4, <3>1, <3>2 DEF Other
  <2> QED
    BY <1>3, <2>3, <2>5
<1>5. ASSUME NEW t \in Stream, NEW frames, Send("client", t, frames), conn' = conn,
             overtaken' = overtaken
      PROVE  Requests'
  <2>1. "client" \in Side /\ "server" \in Side
    BY DEF Side
  <2>2. \A r \in Stream : got'["server"][r] = got["server"][r]
    BY <1>5, <2>1, SendElsewhere
  <2> QED
    BY <1>3, <1>5, <2>2 DEF TypeOK
<1>6. CASE WritePage \/ Replace
  <2>1. \A g \in Side : pc[g] \in {"page", "replace"} => job[g] # None /\ job[g].stream \in Stream
    BY Busy DEF Resting
  <2> QED
    BY <1>5, <1>6, <2>1 DEF WritePage, Replace, input, Side
<1>7. ASSUME overtaken' = overtaken, got' = got PROVE Requests'
  BY <1>3, <1>7
<1>8. ASSUME NEW g \in Side, Process(g) PROVE Requests'
  <2>1. CASE Keep(g) \/ Store(g) \/ Decide(g) \/ Forget(g) \/ Drop(g) \/ ReadFails(g)
    BY <1>7, <2>1 DEF Keep, Store, Decide, Forget, Drop, ReadFails, input, wire
  <2>2. CASE \E s \in Stream : TakeData(g, s) \/ TakeOther(g, s)
    BY <1>2, <2>2 DEF Reading
  <2> QED
    BY <1>4, <1>8, <2>1, <2>2 DEF Process
<1>9. CASE \E s \in Stream : TakeRequest(s) \/ TakeResponse(s)
  BY <1>2, <1>9 DEF Reading, Side
<1>10. CASE \/ Preface \/ PrefaceFails \/ PageSettings \/ GoAway
            \/ TakeSettings \/ ForwardSettings \/ Clean
            \/ (\E side \in Side : Stall(side) \/ Leave(side)) \/ UNCHANGED vars
  BY <1>7, <1>10 DEF Preface, PrefaceFails, PageSettings, GoAway, TakeSettings, ForwardSettings,
                     Clean, Stall, Leave, input, wire, vars
<1> QED
  BY <1>6, <1>8, <1>9, <1>10 DEF Next, ClientLoop, ServerLoop, Side

\* On an ordinary stream each side gets what the other one sent, frame for
\* frame and in order, or the client gets a page it was to get and nothing
\* else, whatever was held meanwhile (http2.go, readFrame and
\* writeDataAndHeaders): for any streams, exchanges, filters and pages.  Where
\* the answer overtakes the bookkeeping, this is said of the request only.
THEOREM HeldImplemented == ASSUME LengthIsNat PROVE Spec => ImplementsHeld
<1>1. Init => Held!Init /\ Requests
  <2> SUFFICES ASSUME Init PROVE Held!Init /\ Requests
    OBVIOUS
  <2>1. /\ exchange \in Exchanges /\ overtaken = {}
        /\ \A g \in Side : \A s \in Stream : got[g][s] = << >>
    BY DEF Init
  <2> QED
    BY <2>1 DEF Held!Init, Side, Requests
<1>2. TypeOK /\ EndInv /\ RelayInv /\ Requests /\ [Next]_vars =>
        [Held!Next]_<<exchange, Shown, Waived>>
  BY StepHeld DEF Hides
<1>3. TypeOK /\ RelayInv /\ [Next]_vars => RelayInv'
  BY StepRelay
<1>4. Init => RelayInv
  BY InitRelay
<1>5. TypeOK /\ EndInv /\ RelayInv /\ Requests /\ [Next]_vars => Requests'
  BY StepRequests
<1>6. Init => EndInv
  BY InitEnds
<1>7. TypeOK /\ EndInv /\ [Next]_vars => EndInv'
  BY StepEnds
<1> QED
  BY <1>1, <1>2, <1>3, <1>4, <1>5, <1>6, <1>7, TypeCorrect, PTL
     DEF Spec, ImplementsHeld, Held!Spec, Shown, Waived
=============================================================================
