------------------------- MODULE SharedConnProofs -------------------------
(***************************************************************************)
(* Proofs about SharedConn, for streams of any length over any bytes.      *)
(* Everything rests on one fact: a read takes a prefix off what its        *)
(* connection still holds (TlsReadTakesPrefix, HttpReadTakesPrefix), so    *)
(* that the bytes delivered, replayed and to come keep adding up to the    *)
(* client's stream.                                                        *)
(***************************************************************************)
EXTENDS SharedConn, SequenceTheorems, TLAPS

\* What a Read on the TLSConn, and on the HTTPConn, has yet to return.
TlsPending  == Held(tlsBuf) \o incoming
HttpPending == Held(httpBuf) \o TlsPending

\* NothingLost, with the concatenations grouped the way reads take them apart.
Conserved == delivered \o HttpPending = stream

\* Which connections exist: until TryHttp there is only the TLSConn, and the
\* HTTPConn has held bytes only if it is the one that is handed on.
Layers ==
  /\ stage = "peek" => tlsBuf = Nil
  /\ stage \in {"peek", "hello", "route"} => via = "tls"
  /\ via = "tls" => httpBuf = Nil

DoneDrained == stage = "done" => HttpPending = << >>

Inv == TypeOK /\ Layers /\ Conserved /\ DoneDrained

-----------------------------------------------------------------------------
(* Sequences.                                                              *)

\* A cut leaves two sequences that make up the one that was cut.
LEMMA Cut ==
  ASSUME NEW s \in Seq(Byte), NEW n \in 1..Len(s)
  PROVE  /\ Front(s, n) \in Seq(Byte)
         /\ Rest(s, n) \in Seq(Byte)
         /\ Len(Front(s, n)) = n
         /\ Front(s, n) \o Rest(s, n) = s
<1>0. Len(s) \in Nat /\ n \in Nat /\ 1 <= n /\ n <= Len(s)
  BY LenProperties
<1>e. \A i \in 1..Len(s) : s[i] \in Byte
  BY ElementOfSeq
<1>1. Front(s, n) \in Seq(Byte) /\ Len(Front(s, n)) = n
  <2>1. \A i \in 1..n : s[i] \in Byte
    BY <1>0, <1>e
  <2> QED
    BY <1>0, <2>1, SubSeqProperties DEF Front
<1>2. Rest(s, n) \in Seq(Byte)
  <2>1. \A i \in (n + 1)..Len(s) : s[i] \in Byte
    BY <1>0, <1>e
  <2> QED
    BY <1>0, <2>1, SubSeqProperties DEF Rest
<1>3. Front(s, n) \o Rest(s, n) = SubSeq(s, 1, Len(s))
  <2>1. 1 \in 1..(Len(s) + 1) /\ n \in (1 - 1)..Len(s) /\ Len(s) \in n..Len(s)
    BY <1>0
  <2> QED
    BY <2>1, ConcatAdjacentSubSeq DEF Front, Rest
<1> QED
  BY <1>1, <1>2, <1>3, SubSeqFull

\* The front of a concatenation whose first part is not empty is that part.
LEMMA FrontOfConcat ==
  ASSUME NEW s \in Seq(Byte), NEW t \in Seq(Byte), Len(s) >= 1
  PROVE  SubSeq(s \o t, 1, Len(s)) = s
<1>1. Len(s) \in Nat /\ 1 \in 1..Len(s) /\ Len(s) \in 1..Len(s)
  BY LenProperties
<1>2. SubSeq(s \o t, 1, Len(s)) = SubSeq(s, 1, Len(s))
  BY <1>1, SubSeqOfConcat1
<1> QED
  BY <1>2, SubSeqFull

\* ConcatAssociative for sequences of bytes.
LEMMA Assoc ==
  \A s, t, u \in Seq(Byte) : (s \o t) \o u = s \o (t \o u)
BY ConcatAssociative

\* The length of a concatenation of bytes.
LEMMA LenOfConcat ==
  \A s, t \in Seq(Byte) : Len(s \o t) = Len(s) + Len(t)
BY ConcatProperties

\* What a buffer holds is a sequence, also when it was dropped.
LEMMA HeldType ==
  ASSUME NEW b \in Seq(Byte) \cup {Nil}
  PROVE  Held(b) \in Seq(Byte)
BY EmptySeq DEF Held

\* A buffer that was not dropped holds itself.
LEMMA HeldSeq ==
  ASSUME NEW b \in Seq(Byte)
  PROVE  Held(b) = b
BY ConstantsOK DEF Held

\* A dropped buffer holds nothing, nor does an empty one.
LEMMA HeldNothing == Held(Nil) = << >> /\ Held(<< >>) = << >>
BY DEF Held

\* The two groupings of the same four sequences.
LEMMA Regroup ==
  ASSUME TypeOK
  PROVE  /\ TlsPending \in Seq(Byte)
         /\ HttpPending \in Seq(Byte)
         /\ Conserved <=> NothingLost
<1>1. /\ delivered \in Seq(Byte) /\ incoming \in Seq(Byte)
      /\ Held(tlsBuf) \in Seq(Byte) /\ Held(httpBuf) \in Seq(Byte)
  BY HeldType DEF TypeOK
<1>2. TlsPending \in Seq(Byte) /\ HttpPending \in Seq(Byte)
  BY <1>1, ConcatProperties DEF TlsPending, HttpPending
<1>3. delivered \o Held(httpBuf) \in Seq(Byte)
  BY <1>1, ConcatProperties
<1>4. delivered \o HttpPending = (delivered \o Held(httpBuf)) \o TlsPending
  BY <1>1, <1>2, Assoc DEF HttpPending
<1>5. (delivered \o Held(httpBuf)) \o TlsPending
        = ((delivered \o Held(httpBuf)) \o Held(tlsBuf)) \o incoming
  BY <1>1, <1>3, Assoc DEF TlsPending
<1> QED
  BY <1>2, <1>4, <1>5 DEF Conserved, NothingLost

-----------------------------------------------------------------------------
(* Reads.                                                                  *)

\* sharedConn.Read on the TLSConn takes a prefix off what it has to return.
LEMMA TlsReadTakesPrefix ==
  ASSUME TypeOK, NEW n \in Nat, TlsRead(n)
  PROVE  /\ n >= 1
         /\ tlsBuf' \in Seq(Byte) \cup {Nil}
         /\ incoming' \in Seq(Byte)
         /\ TlsBytes(n) \in Seq(Byte) /\ Len(TlsBytes(n)) = n
         /\ TlsPending' \in Seq(Byte)
         /\ TlsBytes(n) \o TlsPending' = TlsPending
<1>t. incoming \in Seq(Byte) /\ tlsBuf \in Seq(Byte) \cup {Nil} /\ Held(tlsBuf) \in Seq(Byte)
  BY HeldType DEF TypeOK
<1>1. CASE /\ n \in 1..Len(Held(tlsBuf))
           /\ tlsBuf' = Rest(tlsBuf, n)
           /\ UNCHANGED incoming
  <2>1. Held(tlsBuf) # << >> /\ Held(tlsBuf) = tlsBuf /\ tlsBuf \in Seq(Byte)
    <3>1. Held(tlsBuf) # << >>
      BY <1>1, EmptySeq
    <3> QED
      BY <3>1, <1>t, HeldNothing, HeldSeq
  <2>2. TlsBytes(n) = Front(tlsBuf, n)
    BY <2>1 DEF TlsBytes
  <2>3. /\ Front(tlsBuf, n) \in Seq(Byte) /\ Rest(tlsBuf, n) \in Seq(Byte)
        /\ Len(Front(tlsBuf, n)) = n /\ Front(tlsBuf, n) \o Rest(tlsBuf, n) = tlsBuf
    BY <1>1, <2>1, Cut
  <2>4. TlsPending' = Rest(tlsBuf, n) \o incoming
    <3>1. Held(tlsBuf') = Rest(tlsBuf, n)
      BY <1>1, <2>3, HeldSeq
    <3> QED
      BY <1>1, <3>1 DEF TlsPending, Held
  <2>5. Front(tlsBuf, n) \o (Rest(tlsBuf, n) \o incoming) = tlsBuf \o incoming
    <3>0. Front(tlsBuf, n) \in Seq(Byte) /\ Rest(tlsBuf, n) \in Seq(Byte) /\ incoming \in Seq(Byte)
      BY <1>t, <2>3
    <3>1. (Front(tlsBuf, n) \o Rest(tlsBuf, n)) \o incoming
            = Front(tlsBuf, n) \o (Rest(tlsBuf, n) \o incoming)
      BY <3>0, Assoc
    <3> QED
      BY <2>3, <3>1
  <2>6. TlsPending' \in Seq(Byte)
    BY <1>t, <2>3, <2>4, ConcatProperties
  <2>7. TlsPending = tlsBuf \o incoming
    BY <2>1 DEF TlsPending
  <2> QED
    BY <1>1, <1>t, <2>2, <2>3, <2>4, <2>5, <2>6, <2>7
<1>2. CASE /\ Held(tlsBuf) = << >>
           /\ n \in 1..Len(incoming)
           /\ tlsBuf' = Nil
           /\ incoming' = Rest(incoming, n)
  <2>1. TlsBytes(n) = Front(incoming, n)
    BY <1>2 DEF TlsBytes
  <2>2. /\ Front(incoming, n) \in Seq(Byte) /\ Rest(incoming, n) \in Seq(Byte)
        /\ Len(Front(incoming, n)) = n
        /\ Front(incoming, n) \o Rest(incoming, n) = incoming
    BY <1>2, <1>t, Cut
  <2>3. TlsPending' = Rest(incoming, n)
    <3>1. Held(tlsBuf)' = << >>
      BY <1>2 DEF Held
    <3>2. TlsPending' = << >> \o Rest(incoming, n)
      BY <1>2, <3>1 DEF TlsPending
    <3> QED
      BY <2>2, <3>2, ConcatEmptySeq
  <2>4. TlsPending = incoming
    BY <1>2, <1>t, ConcatEmptySeq DEF TlsPending
  <2>5. n >= 1 /\ tlsBuf' \in Seq(Byte) \cup {Nil} /\ incoming' \in Seq(Byte)
    BY <1>2, <2>2
  <2>6. TlsBytes(n) \o TlsPending' = TlsPending /\ TlsPending' \in Seq(Byte)
    BY <2>1, <2>2, <2>3, <2>4
  <2> QED
    BY <2>1, <2>2, <2>5, <2>6
<1> QED
  BY <1>1, <1>2 DEF TlsRead

\* sharedConn.Read on the HTTPConn does so with the one underneath.
LEMMA HttpReadTakesPrefix ==
  ASSUME TypeOK, NEW n \in Nat, HttpRead(n)
  PROVE  /\ n >= 1
         /\ httpBuf' \in Seq(Byte) \cup {Nil}
         /\ tlsBuf' \in Seq(Byte) \cup {Nil}
         /\ incoming' \in Seq(Byte)
         /\ HttpBytes(n) \in Seq(Byte) /\ Len(HttpBytes(n)) = n
         /\ HttpPending' \in Seq(Byte)
         /\ HttpBytes(n) \o HttpPending' = HttpPending
<1>t. /\ httpBuf \in Seq(Byte) \cup {Nil} /\ Held(httpBuf) \in Seq(Byte)
      /\ TlsPending \in Seq(Byte)
      /\ tlsBuf \in Seq(Byte) \cup {Nil} /\ incoming \in Seq(Byte)
  BY HeldType, Regroup DEF TypeOK
<1>1. CASE /\ n \in 1..Len(Held(httpBuf))
           /\ httpBuf' = Rest(httpBuf, n)
           /\ UNCHANGED <<tlsBuf, incoming>>
  <2>1. Held(httpBuf) # << >> /\ Held(httpBuf) = httpBuf /\ httpBuf \in Seq(Byte)
    <3>1. Held(httpBuf) # << >>
      BY <1>1, EmptySeq
    <3> QED
      BY <3>1, <1>t, HeldNothing, HeldSeq
  <2>2. HttpBytes(n) = Front(httpBuf, n)
    BY <2>1 DEF HttpBytes
  <2>3. /\ Front(httpBuf, n) \in Seq(Byte) /\ Rest(httpBuf, n) \in Seq(Byte)
        /\ Len(Front(httpBuf, n)) = n /\ Front(httpBuf, n) \o Rest(httpBuf, n) = httpBuf
    BY <1>1, <2>1, Cut
  <2>4. HttpPending' = Rest(httpBuf, n) \o TlsPending
    <3>1. Held(httpBuf') = Rest(httpBuf, n)
      BY <1>1, <2>3, HeldSeq
    <3> QED
      BY <1>1, <3>1 DEF HttpPending, TlsPending, Held
  <2>5. Front(httpBuf, n) \o (Rest(httpBuf, n) \o TlsPending) = httpBuf \o TlsPending
    <3>0. /\ Front(httpBuf, n) \in Seq(Byte) /\ Rest(httpBuf, n) \in Seq(Byte)
          /\ TlsPending \in Seq(Byte)
      BY <1>t, <2>3
    <3>1. (Front(httpBuf, n) \o Rest(httpBuf, n)) \o TlsPending
            = Front(httpBuf, n) \o (Rest(httpBuf, n) \o TlsPending)
      BY <3>0, Assoc
    <3> QED
      BY <2>3, <3>1
  <2>6. HttpPending' \in Seq(Byte)
    BY <1>t, <2>3, <2>4, ConcatProperties
  <2>7. HttpPending = httpBuf \o TlsPending
    BY <2>1 DEF HttpPending
  <2> QED
    BY <1>1, <1>t, <2>2, <2>3, <2>4, <2>5, <2>6, <2>7
<1>2. CASE Held(httpBuf) = << >> /\ httpBuf' = Nil /\ TlsRead(n)
  <2>1. HttpBytes(n) = TlsBytes(n)
    BY <1>2 DEF HttpBytes
  <2>2. /\ n >= 1 /\ tlsBuf' \in Seq(Byte) \cup {Nil} /\ incoming' \in Seq(Byte)
        /\ TlsBytes(n) \in Seq(Byte) /\ Len(TlsBytes(n)) = n
        /\ TlsPending' \in Seq(Byte) /\ TlsBytes(n) \o TlsPending' = TlsPending
    BY <1>2, TlsReadTakesPrefix
  <2>3. HttpPending' = TlsPending'
    <3>1. Held(httpBuf)' = << >>
      BY <1>2 DEF Held
    <3>2. HttpPending' = << >> \o TlsPending'
      BY <3>1 DEF HttpPending
    <3> QED
      BY <2>2, <3>2, ConcatEmptySeq
  <2>4. HttpPending = TlsPending
    BY <1>2, <1>t, ConcatEmptySeq DEF HttpPending
  <2> QED
    BY <1>2, <2>1, <2>2, <2>3, <2>4
<1> QED
  BY <1>1, <1>2 DEF HttpRead

-----------------------------------------------------------------------------
(* The invariant.                                                          *)

\* At first the stream is all to come.
LEMMA InitInv == Init => Inv
<1> SUFFICES ASSUME Init PROVE Inv
  OBVIOUS
<1>1. stream \in Seq(Byte)
  BY ConstantsOK DEF Init
<1>2. TypeOK
  BY <1>1, EmptySeq DEF Init, TypeOK, Stages
<1>3. Layers /\ DoneDrained
  BY DEF Init, Layers, DoneDrained
<1>4. Conserved
  <2>1. HttpPending = << >> \o (<< >> \o stream)
    BY HeldNothing DEF Init, HttpPending, TlsPending
  <2>2. << >> \o stream = stream
    BY <1>1, ConcatEmptySeq
  <2> QED
    BY <2>1, <2>2 DEF Init, Conserved
<1> QED
  BY <1>2, <1>3, <1>4 DEF Inv

\* A step that leaves the bytes where they are.
LEMMA BytesStay ==
  ASSUME Inv, UNCHANGED <<stream, delivered>>,
         Held(httpBuf)' = Held(httpBuf), Held(tlsBuf)' = Held(tlsBuf), incoming' = incoming
  PROVE  Conserved' /\ HttpPending' = HttpPending
<1>1. stream' = stream /\ delivered' = delivered
  OBVIOUS
<1>2. TlsPending' = TlsPending
  BY DEF TlsPending
<1>3. HttpPending' = HttpPending
  BY <1>2 DEF HttpPending
<1> QED
  BY <1>1, <1>3 DEF Inv, Conserved

\* A step that forwards what a read took.
LEMMA BytesForwarded ==
  ASSUME TypeOK, Conserved, UNCHANGED stream,
         NEW b \in Seq(Byte), delivered' = delivered \o b,
         HttpPending' \in Seq(Byte), b \o HttpPending' = HttpPending
  PROVE  Conserved' /\ delivered' \in Seq(Byte) /\ Len(delivered') = Len(delivered) + Len(b)
<1>1. delivered \in Seq(Byte)
  BY DEF TypeOK
<1>2. (delivered \o b) \o HttpPending' = delivered \o (b \o HttpPending')
  BY <1>1, Assoc
<1>3. delivered \o b \in Seq(Byte) /\ Len(delivered \o b) = Len(delivered) + Len(b)
  BY <1>1, ConcatProperties
<1>4. (delivered \o b) \o HttpPending' = stream
  BY <1>2 DEF Conserved
<1> QED
  BY <1>3, <1>4 DEF Conserved

\* Every step keeps the bytes, whichever layer they move to.
LEMMA StepInv == Inv /\ [Next]_vars => Inv'
<1> SUFFICES ASSUME Inv, [Next]_vars PROVE Inv'
  OBVIOUS
<1> USE DEF Inv
<1>t. /\ stream \in Streams /\ delivered \in Seq(Byte) /\ incoming \in Seq(Byte)
      /\ tlsBuf \in Seq(Byte) \cup {Nil} /\ httpBuf \in Seq(Byte) \cup {Nil}
      /\ Held(tlsBuf) \in Seq(Byte) /\ Held(httpBuf) \in Seq(Byte)
      /\ TlsPending \in Seq(Byte) /\ HttpPending \in Seq(Byte)
      /\ stream \in Seq(Byte) /\ Len(stream) \in Nat
  BY ConstantsOK, HeldType, Regroup, LenProperties DEF TypeOK
<1>n. << >> # Nil /\ << >> \in Seq(Byte)
  BY ConstantsOK, EmptySeq
<1>1. CASE Peek
  <2>1. Held(tlsBuf)' = Held(tlsBuf) /\ Held(httpBuf)' = Held(httpBuf)
    BY <1>1, <1>n, HeldNothing DEF Peek, Layers, Held
  <2>2. Conserved'
    BY <1>1, <2>1, BytesStay DEF Peek
  <2>3. TypeOK' /\ Layers' /\ DoneDrained'
    BY <1>1, <1>t, <1>n DEF Peek, TypeOK, Stages, Layers, DoneDrained
  <2> QED
    BY <2>2, <2>3
<1>2. CASE PeekFails \/ HelloDecided \/ RouteTls \/ RequestDecided \/ Dial \/ CopyFails
  <2>1. /\ UNCHANGED <<stream, delivered, incoming, tlsBuf, httpBuf>>
        /\ stage' # "done"
    BY <1>2 DEF PeekFails, HelloDecided, RouteTls, RequestDecided, Dial, CopyFails
  <2>2. Conserved'
    BY <2>1, BytesStay
  <2>3. TypeOK' /\ Layers' /\ DoneDrained'
    BY <1>2, <2>1 DEF PeekFails, HelloDecided, RouteTls, RequestDecided, Dial, CopyFails,
                      TypeOK, Stages, Layers, DoneDrained
  <2> QED
    BY <2>2, <2>3
<1>3. CASE ReadHello
  <2>1. PICK n \in 1..Len(incoming) : /\ tlsBuf' = tlsBuf \o Front(incoming, n)
                                     /\ incoming' = Rest(incoming, n)
    BY <1>3 DEF ReadHello
  <2>2. /\ Front(incoming, n) \in Seq(Byte) /\ Rest(incoming, n) \in Seq(Byte)
        /\ Front(incoming, n) \o Rest(incoming, n) = incoming
    BY <1>t, Cut
  <2>3. tlsBuf \in Seq(Byte) /\ Held(tlsBuf) = tlsBuf
    BY <1>3, <1>t, HeldSeq DEF ReadHello, TypeOK
  <2>4. tlsBuf' \in Seq(Byte) /\ Held(tlsBuf') = tlsBuf'
    BY <2>1, <2>2, <2>3, ConcatProperties, HeldSeq
  <2>5. TlsPending' = TlsPending
    <3>1. (tlsBuf \o Front(incoming, n)) \o Rest(incoming, n)
            = tlsBuf \o (Front(incoming, n) \o Rest(incoming, n))
      BY <2>2, <2>3, Assoc
    <3>2. TlsPending' = (tlsBuf \o Front(incoming, n)) \o Rest(incoming, n)
      BY <2>1, <2>4 DEF TlsPending
    <3>3. TlsPending = tlsBuf \o incoming
      BY <2>3 DEF TlsPending
    <3> QED
      BY <2>2, <3>1, <3>2, <3>3
  <2>6. Conserved'
    BY <1>3, <2>5 DEF ReadHello, Conserved, HttpPending
  <2>7. TypeOK' /\ Layers' /\ DoneDrained'
    BY <1>3, <1>t, <2>1, <2>2, <2>4, ConstantsOK
       DEF ReadHello, TypeOK, Stages, Layers, DoneDrained
  <2> QED
    BY <2>6, <2>7
<1>4. CASE TryHttp
  <2>1. Held(tlsBuf)' = Held(tlsBuf) /\ Held(httpBuf)' = Held(httpBuf)
    BY <1>4, <1>n, HeldNothing DEF TryHttp, Layers, Held
  <2>2. Conserved'
    BY <1>4, <2>1, BytesStay DEF TryHttp
  <2>3. TypeOK' /\ Layers' /\ DoneDrained'
    BY <1>4, <1>t, <1>n DEF TryHttp, TypeOK, Stages, Layers, DoneDrained
  <2> QED
    BY <2>2, <2>3
<1>5. CASE ReadRequest
  <2>1. PICK n \in 1..Len(stream) : TlsRead(n) /\ httpBuf' = httpBuf \o TlsBytes(n)
    BY <1>5 DEF ReadRequest
  <2>2. /\ tlsBuf' \in Seq(Byte) \cup {Nil} /\ incoming' \in Seq(Byte)
        /\ TlsBytes(n) \in Seq(Byte) /\ TlsPending' \in Seq(Byte)
        /\ TlsBytes(n) \o TlsPending' = TlsPending
    <3>1. n \in Nat
      BY <1>t
    <3> QED
      BY <2>1, <3>1, TlsReadTakesPrefix
  <2>3. httpBuf \in Seq(Byte) /\ Held(httpBuf) = httpBuf
    BY <1>5, <1>t, HeldSeq DEF ReadRequest, TypeOK
  <2>4. httpBuf' \in Seq(Byte) /\ Held(httpBuf') = httpBuf'
    BY <2>1, <2>2, <2>3, ConcatProperties, HeldSeq
  <2>5. HttpPending' = HttpPending
    <3>1. (httpBuf \o TlsBytes(n)) \o TlsPending' = httpBuf \o (TlsBytes(n) \o TlsPending')
      BY <2>2, <2>3, Assoc
    <3>2. HttpPending' = (httpBuf \o TlsBytes(n)) \o TlsPending'
      BY <2>1, <2>4 DEF HttpPending
    <3>3. HttpPending = httpBuf \o TlsPending
      BY <2>3 DEF HttpPending
    <3> QED
      BY <2>2, <3>1, <3>2, <3>3
  <2>6. Conserved'
    BY <1>5, <2>5 DEF ReadRequest, Conserved
  <2>7. TypeOK' /\ Layers' /\ DoneDrained'
    BY <1>5, <1>t, <2>2, <2>4, ConstantsOK
       DEF ReadRequest, TypeOK, Stages, Layers, DoneDrained
  <2> QED
    BY <2>6, <2>7
<1>6. CASE CopyTls
  <2>1. PICK n \in 1..Len(stream) : TlsRead(n) /\ delivered' = delivered \o TlsBytes(n)
    BY <1>6 DEF CopyTls
  <2>2. /\ tlsBuf' \in Seq(Byte) \cup {Nil} /\ incoming' \in Seq(Byte)
        /\ TlsBytes(n) \in Seq(Byte) /\ TlsPending' \in Seq(Byte)
        /\ TlsBytes(n) \o TlsPending' = TlsPending
    <3>1. n \in Nat
      BY <1>t
    <3> QED
      BY <2>1, <3>1, TlsReadTakesPrefix
  <2>3. HttpPending = TlsPending /\ HttpPending' = TlsPending'
    <3>1. Held(httpBuf) = << >> /\ Held(httpBuf)' = << >>
      BY <1>6, HeldNothing DEF CopyTls, Layers, Held
    <3>2. HttpPending = << >> \o TlsPending /\ HttpPending' = << >> \o TlsPending'
      BY <3>1 DEF HttpPending
    <3> QED
      BY <1>t, <2>2, <3>2, ConcatEmptySeq
  <2>4. Conserved' /\ delivered' \in Seq(Byte)
    BY <1>6, <2>1, <2>2, <2>3, BytesForwarded DEF CopyTls
  <2>5. TypeOK' /\ Layers' /\ DoneDrained'
    BY <1>6, <1>t, <2>2, <2>4 DEF CopyTls, TypeOK, Stages, Layers, DoneDrained
  <2> QED
    BY <2>4, <2>5
<1>7. CASE CopyHttp
  <2>1. PICK n \in 1..Len(stream) : HttpRead(n) /\ delivered' = delivered \o HttpBytes(n)
    BY <1>7 DEF CopyHttp
  <2>2. /\ httpBuf' \in Seq(Byte) \cup {Nil} /\ tlsBuf' \in Seq(Byte) \cup {Nil}
        /\ incoming' \in Seq(Byte) /\ HttpBytes(n) \in Seq(Byte)
        /\ HttpPending' \in Seq(Byte) /\ HttpBytes(n) \o HttpPending' = HttpPending
    <3>1. n \in Nat
      BY <1>t
    <3> QED
      BY <2>1, <3>1, HttpReadTakesPrefix
  <2>3. Conserved' /\ delivered' \in Seq(Byte)
    BY <1>7, <2>1, <2>2, BytesForwarded DEF CopyHttp
  <2>4. TypeOK' /\ Layers' /\ DoneDrained'
    BY <1>7, <1>t, <2>2, <2>3 DEF CopyHttp, TypeOK, Stages, Layers, DoneDrained
  <2> QED
    BY <2>3, <2>4
<1>8. CASE CopyEnds
  <2>1. Held(httpBuf) = << >> /\ Held(tlsBuf) = << >> /\ incoming = << >>
    BY <1>8, HeldNothing DEF CopyEnds, TlsEof, HttpEof, Layers
  <2>2. Held(httpBuf)' = << >> /\ Held(tlsBuf)' = << >> /\ incoming' = incoming
    BY <1>8 DEF CopyEnds, Held
  <2>3. Conserved' /\ HttpPending' = HttpPending
    BY <1>8, <2>1, <2>2, BytesStay DEF CopyEnds
  <2>4. HttpPending = << >>
    <3>1. << >> \o << >> = << >>
      BY <1>n, ConcatEmptySeq
    <3> QED
      BY <2>1, <3>1 DEF HttpPending, TlsPending
  <2>5. TypeOK' /\ Layers' /\ DoneDrained'
    BY <1>8, <1>t, <2>3, <2>4 DEF CopyEnds, TypeOK, Stages, Layers, DoneDrained
  <2> QED
    BY <2>3, <2>5
<1>9. CASE UNCHANGED vars
  <2>1. Conserved' /\ HttpPending' = HttpPending
    BY <1>9, BytesStay DEF vars
  <2>2. TypeOK' /\ Layers' /\ DoneDrained'
    BY <1>9, <2>1 DEF vars, TypeOK, Layers, DoneDrained
  <2> QED
    BY <2>1, <2>2
<1> QED
  BY <1>1, <1>2, <1>3, <1>4, <1>5, <1>6, <1>7, <1>8, <1>9 DEF Next

\* The invariant, from its two halves.
LEMMA InvCorrect == Spec => []Inv
BY InitInv, StepInv, PTL DEF Spec

-----------------------------------------------------------------------------
(* The theorems.                                                           *)

\* The types hold, and each parser has the buffer it tees into.
THEOREM TypeCorrect == Spec => []TypeOK
BY InvCorrect, PTL DEF Inv

\* No byte is lost, repeated or reordered, through one layer or two, however
\* the stream is cut and wherever the parsers stop.
THEOREM BytesConserved == Spec => []NothingLost
<1>1. Inv => NothingLost
  BY Regroup DEF Inv
<1> QED
  BY <1>1, InvCorrect, PTL

\* A copy that ends without an error forwarded everything.
THEOREM CopyComplete == Spec => []DoneDeliversAll
<1>1. Inv => DoneDeliversAll
  <2> SUFFICES ASSUME Inv, stage = "done" PROVE delivered = stream
    BY DEF DoneDeliversAll
  <2>1. HttpPending = << >> /\ delivered \in Seq(Byte)
    BY DEF Inv, DoneDrained, TypeOK
  <2>2. delivered \o << >> = delivered
    BY <2>1, ConcatEmptySeq
  <2> QED
    BY <2>1, <2>2 DEF Inv, Conserved
<1> QED
  BY <1>1, InvCorrect, PTL

\* Forwarding what a read took is reading the unread connection.
LEMMA ForwardIsRead ==
  ASSUME Inv, UNCHANGED stream, NEW n \in Nat, n >= 1,
         NEW b \in Seq(Byte), Len(b) = n, delivered' = delivered \o b,
         HttpPending' \in Seq(Byte), b \o HttpPending' = HttpPending
  PROVE  Unread!Next
<1>1. Conserved' /\ delivered' \in Seq(Byte) /\ Len(delivered') = Len(delivered) + n
  BY BytesForwarded DEF Inv
<1>2. Len(delivered) \in Nat /\ Len(HttpPending') \in Nat
  BY LenProperties DEF Inv, TypeOK
<1>3. stream = delivered' \o HttpPending'
  BY <1>1 DEF Conserved
<1>4. Len(stream) = Len(delivered') + Len(HttpPending')
  BY <1>1, <1>3, LenOfConcat
<1>5. n \in 1..(Len(stream) - Len(delivered))
  BY <1>1, <1>2, <1>4
<1>6. SubSeq(stream, 1, Len(delivered')) = delivered'
  <2>1. Len(delivered') >= 1
    BY <1>1, <1>2
  <2> QED
    BY <1>1, <1>3, <2>1, FrontOfConcat
<1>7. Unread!Read(n)
  BY <1>1, <1>6 DEF Unread!Read
<1> QED
  BY <1>5, <1>7 DEF Unread!Next

\* The wrapped connection is to its reader what vhost_http.go and vhost_tls.go
\* call it, a new, unread connection.
THEOREM IsUnread == Spec => ImplementsUnread
<1>1. Init => Unread!Init
  BY DEF Init, Unread!Init
<1>2. Inv /\ [Next]_vars => [Unread!Next]_<<stream, delivered>>
  <2> SUFFICES ASSUME Inv, [Next]_vars PROVE [Unread!Next]_<<stream, delivered>>
    OBVIOUS
  <2>t. Len(stream) \in Nat
    BY ConstantsOK, LenProperties DEF Inv, TypeOK
  <2>1. CASE CopyTls
    <3>1. PICK n \in 1..Len(stream) : TlsRead(n) /\ delivered' = delivered \o TlsBytes(n)
      BY <2>1 DEF CopyTls
    <3>2. n \in Nat
      BY <2>t
    <3>3. /\ n >= 1 /\ TlsBytes(n) \in Seq(Byte) /\ Len(TlsBytes(n)) = n
          /\ TlsPending' \in Seq(Byte) /\ TlsBytes(n) \o TlsPending' = TlsPending
      BY <3>1, <3>2, TlsReadTakesPrefix DEF Inv
    <3>4. HttpPending = TlsPending /\ HttpPending' = TlsPending'
      <4>1. Held(httpBuf) = << >> /\ Held(httpBuf)' = << >>
        BY <2>1, HeldNothing DEF CopyTls, Inv, Layers, Held
      <4>2. HttpPending = << >> \o TlsPending /\ HttpPending' = << >> \o TlsPending'
        BY <4>1 DEF HttpPending
      <4>3. TlsPending \in Seq(Byte)
        BY Regroup DEF Inv
      <4> QED
        BY <3>3, <4>2, <4>3, ConcatEmptySeq
    <3>5. stream' = stream
      BY <2>1 DEF CopyTls
    <3> QED
      BY <3>1, <3>2, <3>3, <3>4, <3>5, ForwardIsRead
  <2>2. CASE CopyHttp
    <3>1. PICK n \in 1..Len(stream) : HttpRead(n) /\ delivered' = delivered \o HttpBytes(n)
      BY <2>2 DEF CopyHttp
    <3>2. n \in Nat
      BY <2>t
    <3>3. /\ n >= 1 /\ HttpBytes(n) \in Seq(Byte) /\ Len(HttpBytes(n)) = n
          /\ HttpPending' \in Seq(Byte) /\ HttpBytes(n) \o HttpPending' = HttpPending
      BY <3>1, <3>2, HttpReadTakesPrefix DEF Inv
    <3>4. stream' = stream
      BY <2>2 DEF CopyHttp
    <3> QED
      BY <3>1, <3>2, <3>3, <3>4, ForwardIsRead
  <2>3. CASE ~(CopyTls \/ CopyHttp)
    <3>1. UNCHANGED <<stream, delivered>>
      BY <2>3 DEF Next, vars, Peek, PeekFails, ReadHello, HelloDecided, RouteTls, TryHttp,
                  ReadRequest, RequestDecided, Dial, CopyEnds, CopyFails
    <3> QED
      BY <3>1
  <2> QED
    BY <2>1, <2>2, <2>3
<1> QED
  BY <1>1, <1>2, InvCorrect, PTL DEF Spec, ImplementsUnread, Unread!Spec
=============================================================================
