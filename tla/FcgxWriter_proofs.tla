------------------------- MODULE FcgxWriter_proofs -------------------------
(***************************************************************************)
(* TLAPS proofs about FcgxWriter, for every buffer length, output call and *)
(* exit status.  IInv is inductive, so TypeOK, RecordsFit and              *)
(* StreamIntegrity are invariants of the specification and FCloseIsFinal   *)
(* is a property of its steps.  With the phases of FCGX_Finish_r and the   *)
(* flags of the streams (FinishIInv) come KeptConnectionIsClean and the    *)
(* refinement of ResponseChannel; with what a close has still to send      *)
(* (OrderIInv), ResponseOrder.                                             *)
(***************************************************************************)
EXTENDS FcgxWriter, SequenceTheorems, TLAPS

-----------------------------------------------------------------------------
(* Arithmetic and sequences.                                               *)

\* AlignInt8 (fcgiapp.c:1257) returns the next multiple of 8, which no
\* 8-aligned bound lies below.
LEMMA AlignInt8Props ==
    ASSUME NEW n \in Nat
    PROVE  /\ AlignInt8(n) \in Nat
           /\ AlignInt8(n) % 8 = 0
           /\ n <= AlignInt8(n) /\ AlignInt8(n) - n <= 7
           /\ \A b \in Nat : b % 8 = 0 /\ n <= b => AlignInt8(n) <= b
BY DEF AlignInt8

\* A run of bytes is a sequence of its length.
LEMMA RunProps ==
    ASSUME NEW f \in Nat, NEW n \in Nat
    PROVE  /\ Run(f, n) \in Seq(Nat) /\ Len(Run(f, n)) = n
           /\ Zeros(n) \in Seq(Nat) /\ Len(Zeros(n)) = n
<1>1. Run(f, n) \in [1..n -> Nat] /\ Zeros(n) \in [1..n -> Nat]
  BY DEF Run, Zeros
<1> QED BY <1>1

\* The bytes a stream took, followed by the next ones, are all it then took.
LEMMA UptoExtends ==
    ASSUME NEW a \in Nat, NEW n \in Nat
    PROVE  Upto(a) \o Run(a, n) = Upto(a + n)
<1>1. /\ Upto(a) \in Seq(Nat) /\ Len(Upto(a)) = a
      /\ Run(a, n) \in Seq(Nat) /\ Len(Run(a, n)) = n
      /\ Upto(a + n) \in Seq(Nat) /\ Len(Upto(a + n)) = a + n
  <2>1. 0 \in Nat /\ a + n \in Nat
    OBVIOUS
  <2> QED BY <2>1, RunProps, Zenon DEF Upto
<1>2. \A i \in 1..(a + n) : (Upto(a) \o Run(a, n))[i] = Upto(a + n)[i]
  BY <1>1 DEF Upto, Run
<1>3. /\ Upto(a) \o Run(a, n) \in Seq(Nat)
      /\ Len(Upto(a) \o Run(a, n)) = a + n
  BY <1>1, ConcatProperties
<1> HIDE DEF Upto
<1> QED BY <1>1, <1>2, <1>3, SeqEqual

\* Taking the content off the front of framed content gives it back.
LEMMA PrefixOfConcat ==
    ASSUME NEW b \in Seq(Nat), NEW z \in Seq(Nat)
    PROVE  SubSeq(b \o z, 1, Len(b)) = b
<1>1. b \o z \in Seq(Nat) /\ Len(b \o z) = Len(b) + Len(z)
  BY ConcatProperties
<1>2. /\ SubSeq(b \o z, 1, Len(b)) \in Seq(Nat)
      /\ Len(SubSeq(b \o z, 1, Len(b))) = Len(b)
  BY <1>1
<1>3. \A i \in 1..Len(b) : SubSeq(b \o z, 1, Len(b))[i] = b[i]
  BY <1>1
<1> QED BY <1>2, <1>3, SeqEqual

-----------------------------------------------------------------------------
(* One buffer.                                                             *)

\* A buffer whose bytes are whole 8-aligned units that the wire may take.
Ready(s, r) ==
    /\ r \in StreamState
    /\ r.raw \in Seq(Record)
    /\ Used(r) <= BuffLen[s]
    /\ Len(r.body) % 8 = 0
    /\ r.cLen <= Len(r.body) /\ Len(r.body) - r.cLen <= 7

\* A stream's buffer length is a multiple of 8 (NewStream, fcgiapp.c:1769-1775).
LEMMA BuffLenProps ==
    ASSUME NEW s \in Stream
    PROVE  /\ FCGI_MAX_LENGTH \in Nat
           /\ BuffLen[s] \in Nat
           /\ 24 <= BuffLen[s] /\ BuffLen[s] <= FCGI_MAX_LENGTH + 1
           /\ BuffLen[s] % 8 = 0
<1>1. FCGI_MAX_LENGTH \in Nat
  BY DEF FCGI_MAX_LENGTH
<1> QED BY <1>1, BuffLenAssumption

\* EmptyBuffProc's encapsulation stays inside the buffer (the comment at
\* fcgiapp.c:1390-1396), and the header announces exactly the content.
LEMMA FramedProps ==
    ASSUME NEW s \in Stream, NEW r \in StreamState,
           BufferOK(s, r), ~r.rawWrite
    PROVE  /\ Ready(s, Framed(r))
           /\ Content(Framed(r)) = r.body
           /\ Framed(r) = [r EXCEPT !.cLen = Framed(r).cLen,
                                    !.body = Framed(r).body]
<1> DEFINE n == Len(r.body)
           z == Zeros(AlignInt8(n) - n)
<1>1. /\ r.body \in Seq(Nat) /\ n \in Nat /\ r.raw = <<>>
      /\ HeaderLen + n <= BuffLen[s]
  BY DEF BufferOK, StreamState, Used, HeaderLen
<1>2. /\ AlignInt8(n) \in Nat /\ AlignInt8(n) % 8 = 0
      /\ n <= AlignInt8(n) /\ AlignInt8(n) - n <= 7
      /\ \A b \in Nat : b % 8 = 0 /\ n <= b => AlignInt8(n) <= b
  BY <1>1, AlignInt8Props
<1>3. HeaderLen + AlignInt8(n) <= BuffLen[s]
  <2>1. BuffLen[s] - 8 \in Nat /\ (BuffLen[s] - 8) % 8 = 0 /\ n <= BuffLen[s] - 8
    BY <1>1, BuffLenProps DEF HeaderLen
  <2>2. AlignInt8(n) <= BuffLen[s] - 8
    BY <1>2, <2>1
  <2> QED BY <2>2, <1>2, BuffLenProps DEF HeaderLen
<1>4. z \in Seq(Nat) /\ Len(z) = AlignInt8(n) - n
  <2>1. AlignInt8(n) - n \in Nat
    BY <1>1, <1>2
  <2> QED BY <2>1, RunProps
<1>5. r.body \o z \in Seq(Nat) /\ Len(r.body \o z) = AlignInt8(n)
  <2>1. Len(r.body \o z) = Len(r.body) + Len(z) /\ r.body \o z \in Seq(Nat)
    BY <1>1, <1>4, ConcatProperties, Zenon
  <2>2. n + (AlignInt8(n) - n) = AlignInt8(n)
    BY <1>1, <1>2
  <2> QED BY <2>1, <2>2, <1>4
<1>6. /\ Framed(r) \in StreamState
      /\ Framed(r).body = r.body \o z /\ Framed(r).cLen = n
      /\ Framed(r).raw = <<>> /\ Framed(r).rawWrite = FALSE
  BY <1>1, <1>5 DEF Framed, StreamState
<1>7. Used(Framed(r)) <= BuffLen[s]
  <2>1. Used(Framed(r)) = HeaderLen + Len(Framed(r).body) + 8 * Len(Framed(r).raw)
    BY <1>6, Zenon DEF Used
  <2>2. Used(Framed(r)) = HeaderLen + AlignInt8(n) + 8 * 0
    BY <2>1, <1>5, <1>6
  <2> QED BY <2>2, <1>2, <1>3 DEF HeaderLen
<1>8. Ready(s, Framed(r))
  <2>1. <<>> \in Seq(Record)
    OBVIOUS
  <2> QED BY <1>2, <1>1, <1>5, <1>6, <1>7, <2>1 DEF Ready
<1>9. Content(Framed(r)) = r.body
  BY <1>1, <1>4, <1>6, PrefixOfConcat DEF Content
<1>10. Framed(r) = [r EXCEPT !.cLen = Framed(r).cLen, !.body = Framed(r).body]
  BY <1>6 DEF Framed, StreamState
<1> QED BY <1>8, <1>9, <1>10

\* Behind a header, a buffer of at most FCGI_MAX_LENGTH + 1 bytes leaves no
\* more content than a record may have.
LEMMA ContentBound ==
    ASSUME NEW l \in Nat, NEW k \in Nat, NEW n \in Nat, NEW m \in Nat,
           n <= m + 1, HeaderLen + l + 8 * k <= n
    PROVE  l <= m
BY DEF HeaderLen

\* What a ready buffer puts on the wire is well-formed, and is content.
LEMMA UnitsProps ==
    ASSUME NEW s \in Stream, NEW r, Ready(s, r)
    PROVE  /\ Units(s, r) \in Seq(Record)
           /\ Content(r) \in Seq(Nat)
<1>1. /\ r.body \in Seq(Nat) /\ r.cLen \in Nat /\ Len(r.body) \in Nat
      /\ r.raw \in Seq(Record) /\ Len(r.raw) \in Nat
  <2>1. r \in StreamState /\ r.raw \in Seq(Record)
    BY Zenon DEF Ready
  <2>2. r.body \in Seq(Nat) /\ r.cLen \in Nat
    BY <2>1 DEF StreamState
  <2> QED BY <2>1, <2>2, LenProperties, Zenon
<1>2. DataUnit(s, r) \in Seq(Record)
  <2>1. CASE r.body = <<>>
    BY <2>1 DEF DataUnit
  <2>2. CASE r.body # <<>>
    <3>1. Len(r.body) - r.cLen \in Nat /\ r.cLen + (Len(r.body) - r.cLen) = Len(r.body)
      BY <1>1 DEF Ready
    <3>2. r.cLen <= FCGI_MAX_LENGTH
      <4>1. Used(r) = HeaderLen + Len(r.body) + 8 * Len(r.raw)
        BY <2>2, Zenon DEF Used
      <4>2. Used(r) <= BuffLen[s] /\ r.cLen <= Len(r.body)
        BY Zenon DEF Ready
      <4>3. /\ BuffLen[s] \in Nat /\ FCGI_MAX_LENGTH \in Nat
            /\ BuffLen[s] <= FCGI_MAX_LENGTH + 1
        BY BuffLenProps
      <4>4. Len(r.body) <= FCGI_MAX_LENGTH
        <5>1. Len(r.body) \in Nat /\ Len(r.raw) \in Nat
          BY <1>1
        <5>2. HeaderLen + Len(r.body) + 8 * Len(r.raw) <= BuffLen[s]
          BY <4>1, <4>2, Zenon
        <5> QED BY <5>1, <5>2, <4>3, ContentBound, Zenon
      <4> QED BY <1>1, <4>2, <4>3, <4>4
    <3>3. Header(s, r.cLen, Len(r.body) - r.cLen) \in Unit
      BY <3>1, <1>1 DEF Header, Unit
    <3>4. Header(s, r.cLen, Len(r.body) - r.cLen) \in Record
      BY <3>1, <3>2, <3>3 DEF Record, Header, Ready
    <3> QED BY <3>4, <2>2 DEF DataUnit
  <2> QED BY <2>1, <2>2
<1>3. Units(s, r) \in Seq(Record)
  BY <1>1, <1>2, ConcatProperties DEF Units
<1>4. Content(r) \in Seq(Nat)
  <2>1. \A i \in 1..r.cLen : r.body[i] \in Nat
    BY <1>1, ElementOfSeq DEF Ready
  <2> QED BY <1>1, <2>1, SubSeqProperties DEF Content
<1> QED BY <1>3, <1>4

-----------------------------------------------------------------------------
(* One write of a buffer.                                                  *)

\* Whatever write_it_all does, the wire stays well-formed, and the stream is
\* whole: the content is the server's, or the stream has failed.
LEMMA WriteStep ==
    ASSUME TypeOK, StreamIntegrity, wire \in Seq(Record),
           NEW s \in Stream, NEW r, Ready(s, r),
           NEW ok \in StreamState, NEW err \in StreamState,
           Buffered(ok) = <<>>,
           ~failed[s] => received[s] \o Content(r) = Upto(accepted[s]),
           WriteItAll(s, r, ok, err), accepted' = accepted
    PROVE  /\ \E q \in {ok, err} : stream' = [stream EXCEPT ![s] = q]
           /\ wire' \in Seq(Record)
           /\ link' \in {"up", "down"}
           /\ received' \in [Stream -> Seq(Nat)]
           /\ failed' \in [Stream -> BOOLEAN]
           /\ StreamIntegrity'
<1>1. /\ stream \in [Stream -> StreamState]
      /\ received \in [Stream -> Seq(Nat)] /\ failed \in [Stream -> BOOLEAN]
      /\ link \in {"up", "down"}
  BY Zenon DEF TypeOK
<1>2. Units(s, r) \in Seq(Record) /\ Content(r) \in Seq(Nat)
  BY UnitsProps, Zenon
<1>3. received[s] \o Content(r) \in Seq(Nat)
  BY <1>1, <1>2, ConcatProperties, Zenon
<1>4. CASE WriteOk(s, r, ok)
  <2>1. /\ stream' = [stream EXCEPT ![s] = ok]
        /\ received' = [received EXCEPT ![s] = received[s] \o Content(r)]
        /\ wire' = wire \o Units(s, r)
        /\ link' = link /\ failed' = failed
    BY <1>4, Zenon DEF WriteOk
  <2>2. wire' \in Seq(Record)
    BY <2>1, <1>2, ConcatProperties, Zenon
  <2>3. received' \in [Stream -> Seq(Nat)]
    BY <2>1, <1>1, <1>3
  <2>4. ASSUME NEW t \in Stream, ~failed'[t]
        PROVE  received'[t] \o Buffered(stream'[t]) = Upto(accepted'[t])
    <3>1. CASE t = s
      <4>1. received'[t] = received[s] \o Content(r) /\ stream'[t] = ok
        BY <3>1, <2>1, <1>1, Zenon
      <4>2. received[s] \o Content(r) = Upto(accepted[s])
        BY <3>1, <2>4, <2>1
      <4>3. (received[s] \o Content(r)) \o <<>> = received[s] \o Content(r)
        BY <1>3, ConcatEmptySeq, Zenon
      <4> QED BY <3>1, <4>1, <4>2, <4>3, Zenon
    <3>2. CASE t # s
      <4>1. received'[t] = received[t] /\ stream'[t] = stream[t]
        BY <3>2, <2>1, <1>1, Zenon
      <4>2. received[t] \o Buffered(stream[t]) = Upto(accepted[t])
        BY <2>4, <2>1, Zenon DEF StreamIntegrity
      <4> QED BY <4>1, <4>2
    <3> QED BY <3>1, <3>2
  <2>5. StreamIntegrity'
    BY <2>4, Zenon DEF StreamIntegrity
  <2> QED BY <2>1, <2>2, <2>3, <2>5, <1>1
<1>5. CASE WriteFails(s, r, err)
  <2>1. PICK k \in 0..(Len(Units(s, r)) - 1), to \in {"up", "down"} :
          /\ wire' = wire \o SubSeq(Units(s, r), 1, k)
          /\ received' = IF k = 0 THEN received
                         ELSE [received EXCEPT ![s] = received[s] \o Content(r)]
          /\ stream' = [stream EXCEPT ![s] = err]
          /\ link' = to
          /\ failed' = [failed EXCEPT ![s] = TRUE]
    BY <1>5, Zenon DEF WriteFails
  <2>2. SubSeq(Units(s, r), 1, k) \in Seq(Record)
    <3>1. \A i \in 1..k : Units(s, r)[i] \in Record
      BY <1>2, ElementOfSeq
    <3> QED BY <3>1, SubSeqProperties
  <2>3. wire' \in Seq(Record)
    BY <2>1, <2>2, ConcatProperties, Zenon
  <2>4. received' \in [Stream -> Seq(Nat)] /\ failed' \in [Stream -> BOOLEAN]
    BY <2>1, <1>1, <1>3
  <2>5. ASSUME NEW t \in Stream, ~failed'[t]
        PROVE  received'[t] \o Buffered(stream'[t]) = Upto(accepted'[t])
    <3>1. t # s
      BY <2>1, <2>5, <1>1
    <3>2. /\ received'[t] = received[t] /\ stream'[t] = stream[t]
          /\ failed'[t] = failed[t]
      BY <3>1, <2>1, <1>1
    <3>3. received[t] \o Buffered(stream[t]) = Upto(accepted[t])
      BY <2>5, <3>2, Zenon DEF StreamIntegrity
    <3> QED BY <3>2, <3>3
  <2>6. StreamIntegrity'
    BY <2>5, Zenon DEF StreamIntegrity
  <2> QED BY <2>1, <2>3, <2>4, <2>6
<1> QED BY <1>4, <1>5 DEF WriteItAll

\* An emptied or failed buffer is in bounds.
LEMMA WrittenProps ==
    ASSUME NEW s \in Stream, NEW r, Ready(s, r), ~r.wasFCloseCalled
    PROVE  /\ Emptied(r) \in StreamState /\ Errored(r) \in StreamState
           /\ BufferOK(s, Emptied(r)) /\ Buffered(Emptied(r)) = <<>>
           /\ r.rawWrite \/ r.raw = <<>> => BufferOK(s, Errored(r))
           /\ \A q \in {Emptied(r), Errored(r)} :
                 q.rawWrite = r.rawWrite /\ ~q.wasFCloseCalled
<1>1. /\ r \in StreamState /\ r.raw \in Seq(Record) /\ Used(r) <= BuffLen[s]
      /\ Len(r.body) % 8 = 0
      /\ r.cLen <= Len(r.body) /\ Len(r.body) - r.cLen <= 7
  BY Zenon DEF Ready
<1>2. /\ <<>> \in Seq(Record) /\ <<>> \in Seq(Unit) /\ <<>> \in Seq(Nat)
      /\ Len(<<>>) = 0 /\ 0 \in Nat
  OBVIOUS
<1>3. Emptied(r) \in StreamState /\ Errored(r) \in StreamState
  BY <1>1, <1>2 DEF Emptied, Errored, StreamState
<1>4. /\ Emptied(r).body = <<>> /\ Emptied(r).cLen = 0 /\ Emptied(r).raw = <<>>
      /\ Emptied(r).rawWrite = r.rawWrite /\ ~Emptied(r).wasFCloseCalled
      /\ Errored(r).body = r.body /\ Errored(r).cLen = r.cLen
      /\ Errored(r).raw = r.raw /\ Errored(r).rawWrite = r.rawWrite
      /\ ~Errored(r).wasFCloseCalled
  BY <1>1 DEF Emptied, Errored, StreamState
<1>5. BufferOK(s, Emptied(r))
  <2>1. Used(Emptied(r)) <= BuffLen[s]
    BY <1>2, <1>4, BuffLenProps DEF Used, HeaderLen
  <2>2. Len(<<>>) % 8 = 0 /\ 0 <= Len(<<>>) /\ Len(<<>>) - 0 <= 7
    OBVIOUS
  <2> QED BY <1>2, <1>4, <2>1, <2>2, Zenon DEF BufferOK
<1>6. Buffered(Emptied(r)) = <<>>
  <2>1. SubSeq(<<>>, 1, 0) = <<>>
    BY SubSeqEmpty
  <2> QED BY <1>4, <2>1, Zenon DEF Buffered, Content
<1>7. ASSUME r.rawWrite \/ r.raw = <<>>
      PROVE  BufferOK(s, Errored(r))
  <2>1. Used(Errored(r)) = Used(r)
    BY <1>4, Zenon DEF Used
  <2> QED BY <1>1, <1>4, <1>7, <2>1, Zenon DEF BufferOK
<1> QED BY <1>3, <1>4, <1>5, <1>6, <1>7, Zenon

-----------------------------------------------------------------------------
(* One step of one stream.                                                 *)

\* A step that replaces one stream by another in-bounds state.
LEMMA StreamsKept ==
    ASSUME IInv, NEW s \in Stream, NEW q \in StreamState, BufferOK(s, q),
           stream' = [stream EXCEPT ![s] = q]
    PROVE  /\ stream' \in [Stream -> StreamState]
           /\ \A t \in Stream : BufferOK(t, stream'[t])
           /\ stream'[s] = q
           /\ \A t \in Stream : t # s => stream'[t] = stream[t]
<1>1. stream \in [Stream -> StreamState]
  BY Zenon DEF IInv, TypeOK
<1>2. /\ stream' \in [Stream -> StreamState]
      /\ \A t \in Stream : stream'[t] = IF t = s THEN q ELSE stream[t]
  BY <1>1
<1>3. \A t \in Stream : BufferOK(t, stream[t])
  BY Zenon DEF IInv
<1> QED BY <1>2, <1>3, Zenon

\* It keeps WritersOK if the stream does not begin or end a close.
LEMMA WritersKept ==
    ASSUME IInv, NEW s \in Stream, NEW q \in StreamState,
           stream' = [stream EXCEPT ![s] = q],
           q.rawWrite = stream[s].rawWrite,
           q.wasFCloseCalled = stream[s].wasFCloseCalled,
           nWriters' = nWriters,
           \A t \in Stream : (call'.op = "close" /\ call'.s = t)
                                <=> (call.op = "close" /\ call.s = t)
    PROVE  WritersOK'
<1>1. stream \in [Stream -> StreamState]
  BY Zenon DEF IInv, TypeOK
<1>2. \A t \in Stream : stream'[t] = IF t = s THEN q ELSE stream[t]
  BY <1>1
<1>3. \A t \in Stream : /\ stream'[t].rawWrite = stream[t].rawWrite
                        /\ stream'[t].wasFCloseCalled = stream[t].wasFCloseCalled
  BY <1>2, Zenon
<1>4. OpenCount("out")' = OpenCount("out") /\ OpenCount("err")' = OpenCount("err")
  <2>1. "out" \in Stream /\ "err" \in Stream
    BY DEF Stream
  <2> QED BY <1>3, <2>1, Zenon DEF OpenCount
<1>5. /\ nWriters' = OpenCount("out")' + OpenCount("err")'
  BY <1>4, Zenon DEF IInv, WritersOK
<1>6. \A t \in Stream :
         stream'[t].rawWrite /\ ~stream'[t].wasFCloseCalled
             <=> call'.op = "close" /\ call'.s = t
  BY <1>3, ZenonT(40) DEF IInv, WritersOK
<1> QED BY <1>5, <1>6, Zenon DEF WritersOK

\* What a stream's fields say of its mode.
LEMMA ModeProps ==
    ASSUME IInv, NEW s \in Stream
    PROVE  /\ stream[s] \in StreamState
           /\ stream[s].body \in Seq(Nat) /\ stream[s].raw \in Seq(Record)
           /\ Used(stream[s]) \in Nat
           /\ stream[s].rawWrite \in BOOLEAN
           /\ stream[s].wasFCloseCalled \in BOOLEAN
           /\ BufferOK(s, stream[s])
           /\ accepted[s] \in Nat /\ received[s] \in Seq(Nat)
<1>1. /\ stream[s] \in StreamState /\ accepted[s] \in Nat
      /\ received[s] \in Seq(Nat)
  BY DEF IInv, TypeOK
<1>2. /\ stream[s].body \in Seq(Nat) /\ stream[s].rawWrite \in BOOLEAN
      /\ stream[s].wasFCloseCalled \in BOOLEAN
  BY <1>1 DEF StreamState
<1>3. BufferOK(s, stream[s]) /\ stream[s].raw \in Seq(Record)
  BY Zenon DEF IInv, BufferOK
<1>4. Len(stream[s].body) \in Nat /\ Len(stream[s].raw) \in Nat
  BY <1>2, <1>3, LenProperties, Zenon
<1>5. Used(stream[s]) \in Nat
  <2>1. \A x, y \in Nat : 8 * y \in Nat /\ HeaderLen + x + 8 * y \in Nat
    BY DEF HeaderLen
  <2> QED BY <1>4, <2>1, Zenon DEF Used
<1> QED BY <1>1, <1>2, <1>3, <1>5

\* EmptyBuffProc(stream, FALSE), in either mode.
LEMMA EmptyBuffStep ==
    ASSUME IInv, NEW s \in Stream, ~stream[s].wasFCloseCalled,
           EmptyBuff(s), accepted' = accepted
    PROVE  /\ \E q \in StreamState :
                 /\ stream' = [stream EXCEPT ![s] = q]
                 /\ BufferOK(s, q)
                 /\ q.rawWrite = stream[s].rawWrite
                 /\ q.wasFCloseCalled = stream[s].wasFCloseCalled
           /\ wire' \in Seq(Record)
           /\ link' \in {"up", "down"}
           /\ received' \in [Stream -> Seq(Nat)]
           /\ failed' \in [Stream -> BOOLEAN]
           /\ StreamIntegrity'
<1> DEFINE r == IF stream[s].rawWrite THEN stream[s] ELSE Framed(stream[s])
<1>1. /\ Ready(s, r) /\ r.rawWrite = stream[s].rawWrite
      /\ r.wasFCloseCalled = stream[s].wasFCloseCalled
      /\ r.rawWrite \/ r.raw = <<>>
      /\ Content(r) = Buffered(stream[s])
  <2>1. CASE stream[s].rawWrite
    <3>1. Ready(s, stream[s])
      BY <2>1, ModeProps, Zenon DEF Ready, BufferOK
    <3> QED BY <2>1, <3>1, Zenon DEF Buffered
  <2>2. CASE ~stream[s].rawWrite
    <3>1. /\ Ready(s, Framed(stream[s]))
          /\ Content(Framed(stream[s])) = stream[s].body
      BY <2>2, ModeProps, FramedProps, Zenon
    <3>2. /\ Framed(stream[s]).rawWrite = stream[s].rawWrite
          /\ Framed(stream[s]).wasFCloseCalled = stream[s].wasFCloseCalled
          /\ Framed(stream[s]).raw = stream[s].raw
      BY ModeProps DEF Framed, StreamState
    <3>3. stream[s].raw = <<>>
      BY <2>2, ModeProps, Zenon DEF BufferOK
    <3> QED BY <2>2, <3>1, <3>2, <3>3, Zenon DEF Buffered
  <2> QED BY <2>1, <2>2
<1>2. WriteItAll(s, r, Emptied(r), Errored(r))
  BY Zenon DEF EmptyBuff
<1> HIDE DEF r
<1>3. /\ Emptied(r) \in StreamState /\ Errored(r) \in StreamState
      /\ BufferOK(s, Emptied(r)) /\ Buffered(Emptied(r)) = <<>>
      /\ BufferOK(s, Errored(r))
      /\ \A q \in {Emptied(r), Errored(r)} :
            q.rawWrite = r.rawWrite /\ ~q.wasFCloseCalled
  BY <1>1, WrittenProps, Zenon
<1>4. ~failed[s] => received[s] \o Content(r) = Upto(accepted[s])
  BY <1>1, Zenon DEF IInv, StreamIntegrity
<1>5. TypeOK /\ StreamIntegrity /\ wire \in Seq(Record)
  BY Zenon DEF IInv
<1>6. /\ \E q \in {Emptied(r), Errored(r)} : stream' = [stream EXCEPT ![s] = q]
      /\ wire' \in Seq(Record)
      /\ link' \in {"up", "down"}
      /\ received' \in [Stream -> Seq(Nat)]
      /\ failed' \in [Stream -> BOOLEAN]
      /\ StreamIntegrity'
  BY <1>1, <1>2, <1>3, <1>4, <1>5, WriteStep, Zenon
<1>7. \E q \in StreamState :
         /\ stream' = [stream EXCEPT ![s] = q]
         /\ BufferOK(s, q)
         /\ q.rawWrite = stream[s].rawWrite
         /\ q.wasFCloseCalled = stream[s].wasFCloseCalled
  <2>1. PICK q \in {Emptied(r), Errored(r)} : stream' = [stream EXCEPT ![s] = q]
    BY <1>6, Zenon
  <2>2. /\ q \in StreamState /\ BufferOK(s, q) /\ q.rawWrite = stream[s].rawWrite
        /\ ~q.wasFCloseCalled
    BY <1>1, <1>3, <2>1
  <2>3. q.wasFCloseCalled = FALSE /\ stream[s].wasFCloseCalled = FALSE
    BY <2>2, ModeProps DEF StreamState
  <2> QED BY <2>1, <2>2, <2>3, Zenon
<1> QED BY <1>6, <1>7

\* The bytes that PutStr moves fit, and extend what the stream took.
LEMMA MoveStep ==
    ASSUME IInv, NEW s \in Stream, NEW m \in Nat, m <= Room(s),
           call.op # "close", Move(s, m)
    PROVE  /\ \E q \in StreamState :
                 /\ stream' = [stream EXCEPT ![s] = q]
                 /\ BufferOK(s, q)
                 /\ q.rawWrite = stream[s].rawWrite
                 /\ q.wasFCloseCalled = stream[s].wasFCloseCalled
           /\ accepted' \in [Stream -> Nat]
           /\ StreamIntegrity'
<1> DEFINE r == stream[s]
           b == r.body \o Run(accepted[s], m)
           q == [r EXCEPT !.body = b]
<1>1. /\ stream' = [stream EXCEPT ![s] = q]
      /\ accepted' = [accepted EXCEPT ![s] = accepted[s] + m]
      /\ received' = received /\ failed' = failed
  BY DEF Move, peer
<1>2. /\ r \in StreamState /\ r.body \in Seq(Nat) /\ r.raw \in Seq(Record)
      /\ Used(r) \in Nat /\ r.rawWrite \in BOOLEAN /\ r.wasFCloseCalled \in BOOLEAN
      /\ BufferOK(s, r) /\ accepted[s] \in Nat /\ received[s] \in Seq(Nat)
  BY ModeProps, Zenon
<1>3. Run(accepted[s], m) \in Seq(Nat) /\ Len(Run(accepted[s], m)) = m
  BY <1>2, RunProps, Zenon
<1>4. b \in Seq(Nat) /\ Len(b) = Len(r.body) + m
  <2>1. b \in Seq(Nat) /\ Len(b) = Len(r.body) + Len(Run(accepted[s], m))
    BY <1>2, <1>3, ConcatProperties, Zenon
  <2> QED BY <2>1, <1>3
<1> HIDE DEF b
<1>5. /\ q \in StreamState /\ q.body = b /\ q.cLen = r.cLen /\ q.raw = r.raw
      /\ q.rawWrite = r.rawWrite /\ q.wasFCloseCalled = r.wasFCloseCalled
      /\ q.isClosed = r.isClosed
  BY <1>2, <1>4 DEF StreamState
<1> HIDE DEF q
<1>6. /\ BufferOK(s, q)
      /\ ~failed[s] => received[s] \o Buffered(q) = Upto(accepted[s] + m)
  <2>1. ~failed[s] => received[s] \o Buffered(r) = Upto(accepted[s])
    BY Zenon DEF IInv, StreamIntegrity
  <2>2. CASE r.wasFCloseCalled
    <3>1. m = 0
      BY <2>2 DEF Room
    <3>2. Run(accepted[s], m) = <<>>
      BY <3>1, <1>3, EmptySeq
    <3>3. b = r.body
      BY <3>2, <1>2, ConcatEmptySeq, Zenon DEF b
    <3>4. Used(q) = Used(r)
      BY <3>3, <1>5, Zenon DEF Used
    <3>5. BufferOK(s, q)
      BY <3>3, <3>4, <1>2, <1>5, Zenon DEF BufferOK
    <3>6. Buffered(q) = Buffered(r)
      BY <3>3, <1>5, Zenon DEF Buffered, Content
    <3>7. accepted[s] + m = accepted[s]
      BY <3>1, <1>2
    <3> QED BY <2>1, <3>5, <3>6, <3>7, Zenon
  <2>3. CASE ~r.wasFCloseCalled
    <3>1. ~r.rawWrite
      BY <2>3, Zenon DEF IInv, WritersOK
    <3>2. r.raw = <<>>
      BY <3>1, <1>2, Zenon DEF BufferOK
    <3>3. Used(q) = Used(r) + m
      <4>1. /\ Used(q) = HeaderLen + Len(b) + 8 * Len(r.raw)
            /\ Used(r) = HeaderLen + Len(r.body) + 8 * Len(r.raw)
        BY <3>1, <1>5, Zenon DEF Used
      <4>2. Len(r.body) \in Nat /\ Len(r.raw) \in Nat
        BY <1>2, LenProperties, Zenon
      <4>3. \A x, y, n \in Nat : n = x + m
                => HeaderLen + n + 8 * y = HeaderLen + x + 8 * y + m
        BY DEF HeaderLen
      <4>4. Len(b) \in Nat
        BY <1>4, <4>2
      <4>5. HeaderLen + Len(b) + 8 * Len(r.raw)
              = HeaderLen + Len(r.body) + 8 * Len(r.raw) + m
        BY <4>2, <4>3, <4>4, <1>4, Zenon
      <4> QED BY <4>1, <4>5
    <3>4. Used(q) <= BuffLen[s]
      <4>1. m <= BuffLen[s] - Used(r)
        BY <2>3 DEF Room
      <4> QED BY <4>1, <3>3, <1>2, BuffLenProps
    <3>5. BufferOK(s, q)
      BY <3>1, <3>2, <3>4, <1>2, <1>5, <2>3, Zenon DEF BufferOK
    <3>6. Buffered(q) = r.body \o Run(accepted[s], m) /\ Buffered(r) = r.body
      BY <3>1, <1>5, Zenon DEF Buffered, b
    <3>7. received[s] \o (r.body \o Run(accepted[s], m))
            = (received[s] \o r.body) \o Run(accepted[s], m)
      <4>1. \A x, y, z \in Seq(Nat) : (x \o y) \o z = x \o (y \o z)
        BY ConcatAssociative, SMTT(30)
      <4> QED BY <1>2, <1>3, <4>1, Zenon
    <3>8. Upto(accepted[s]) \o Run(accepted[s], m) = Upto(accepted[s] + m)
      BY <1>2, UptoExtends, Zenon
    <3> QED BY <2>1, <3>5, <3>6, <3>7, <3>8, Zenon
  <2> QED BY <2>2, <2>3, Zenon
<1>7. accepted' \in [Stream -> Nat]
  <2>1. accepted \in [Stream -> Nat] /\ accepted[s] + m \in Nat
    BY <1>2 DEF IInv, TypeOK
  <2> QED BY <1>1, <2>1
<1>8. StreamIntegrity'
  <2>1. ASSUME NEW t \in Stream, ~failed'[t]
        PROVE  received'[t] \o Buffered(stream'[t]) = Upto(accepted'[t])
    <3>1. stream \in [Stream -> StreamState] /\ accepted \in [Stream -> Nat]
      BY Zenon DEF IInv, TypeOK
    <3>2. CASE t = s
      <4>1. stream'[t] = q /\ accepted'[t] = accepted[s] + m
        BY <3>1, <3>2, <1>1
      <4> QED BY <1>1, <1>6, <2>1, <3>2, <4>1, Zenon
    <3>3. CASE t # s
      <4>1. stream'[t] = stream[t] /\ accepted'[t] = accepted[t]
        BY <3>1, <3>3, <1>1
      <4>2. received[t] \o Buffered(stream[t]) = Upto(accepted[t])
        BY <1>1, <2>1, Zenon DEF IInv, StreamIntegrity
      <4> QED BY <1>1, <4>1, <4>2, Zenon
    <3> QED BY <3>2, <3>3
  <2> QED BY <2>1, Zenon DEF StreamIntegrity
<1> QED BY <1>1, <1>5, <1>6, <1>7, <1>8, Zenon

\* There is never negative room.
LEMMA RoomProps ==
    ASSUME IInv, NEW s \in Stream
    PROVE  Room(s) \in Nat
<1>1. /\ Used(stream[s]) \in Nat /\ Used(stream[s]) <= BuffLen[s]
      /\ BuffLen[s] \in Nat
  BY ModeProps, BuffLenProps, Zenon DEF BufferOK
<1>2. BuffLen[s] - Used(stream[s]) \in Nat
  BY <1>1
<1> QED BY <1>2 DEF Room

-----------------------------------------------------------------------------
(* The invariant, action by action.                                        *)

\* A step that leaves the streams and the wire alone.
LEMMA QuietStep ==
    ASSUME IInv, TypeOK', UNCHANGED <<stream, wire, received, accepted, failed>>,
           nWriters' = nWriters, call'.todo \in Seq(Record),
           \A t \in Stream : (call'.op = "close" /\ call'.s = t)
                                <=> (call.op = "close" /\ call.s = t)
    PROVE  IInv'
<1>1. \A t \in Stream : BufferOK(t, stream'[t])
  BY Zenon DEF IInv
<1>2. wire' \in Seq(Record)
  BY Zenon DEF IInv
<1>3. WritersOK'
  BY DEF IInv, WritersOK, OpenCount
<1>4. StreamIntegrity'
  BY DEF IInv, StreamIntegrity
<1> QED BY <1>1, <1>2, <1>3, <1>4, Zenon DEF IInv

\* The initial state of a request's streams.
LEMMA NewWriterProps ==
    ASSUME NEW s \in Stream
    PROVE  /\ NewWriter \in StreamState
           /\ BufferOK(s, NewWriter)
           /\ ~NewWriter.rawWrite /\ ~NewWriter.wasFCloseCalled
           /\ Buffered(NewWriter) = <<>>
<1>1. /\ NewWriter.body = <<>> /\ NewWriter.raw = <<>> /\ NewWriter.cLen = 0
      /\ NewWriter.rawWrite = FALSE /\ NewWriter.wasFCloseCalled = FALSE
  BY DEF NewWriter
<1>2. NewWriter \in StreamState
  BY DEF NewWriter, StreamState
<1>3. <<>> \in Seq(Record) /\ Len(<<>>) = 0
  OBVIOUS
<1>4. Used(NewWriter) = HeaderLen + 0 + 8 * 0
  BY <1>1, <1>3 DEF Used
<1>5. Used(NewWriter) <= BuffLen[s]
  BY <1>4, BuffLenProps DEF HeaderLen
<1>6. BufferOK(s, NewWriter)
  BY <1>1, <1>3, <1>5, Zenon DEF BufferOK
<1> QED BY <1>1, <1>2, <1>6, Zenon DEF Buffered

\* Nothing taken, nothing received, nothing buffered.
LEMMA NothingTaken == <<>> \o <<>> = Upto(0)
<1>1. Upto(0) \in Seq(Nat) /\ Len(Upto(0)) = 0
  BY RunProps DEF Upto
<1>2. Upto(0) = <<>>
  BY <1>1, EmptySeq
<1>3. <<>> \in Seq(Nat)
  OBVIOUS
<1> QED BY <1>2, <1>3, ConcatEmptySeq, Zenon

\* The streams FCGX_Accept_r makes (fcgiapp.c:2250-2253) satisfy the invariant.
LEMMA InitIInv == Init => IInv
<1> SUFFICES ASSUME Init PROVE IInv
  OBVIOUS
<1>1. TypeOK
  <2>1. stream \in [Stream -> StreamState]
    BY NewWriterProps DEF Init
  <2>2. call \in Call /\ appStatus \in Status
    BY CallsAssumption DEF Init, Idle, Call, Stream
  <2>3. /\ wire \in Seq(Unit) /\ nWriters \in 0..2
        /\ received \in [Stream -> Seq(Nat)] /\ accepted \in [Stream -> Nat]
        /\ failed \in [Stream -> BOOLEAN]
    BY DEF Init
  <2> QED BY <2>1, <2>2, <2>3 DEF Init, TypeOK
<1>2. \A s \in Stream : BufferOK(s, stream[s])
  BY NewWriterProps DEF Init
<1>3. wire \in Seq(Record) /\ call.todo \in Seq(Record)
  BY DEF Init, Idle
<1>4. WritersOK
  <2>1. \A s \in Stream : ~stream[s].rawWrite /\ ~stream[s].wasFCloseCalled
    BY NewWriterProps DEF Init
  <2>2. call.op # "close" /\ nWriters = 2
    BY DEF Init, Idle
  <2>3. OpenCount("out") = 1 /\ OpenCount("err") = 1
    BY <2>1 DEF OpenCount, Stream
  <2> QED BY <2>1, <2>2, <2>3 DEF WritersOK
<1>5. StreamIntegrity
  <2>1. \A s \in Stream : /\ received[s] = <<>> /\ accepted[s] = 0
                          /\ Buffered(stream[s]) = <<>>
    BY NewWriterProps DEF Init
  <2> QED BY <2>1, NothingTaken, Zenon DEF StreamIntegrity
<1> QED BY <1>1, <1>2, <1>3, <1>4, <1>5 DEF IInv

\* FCGX_Accept_r's streams for the next request satisfy it again.
LEMMA AcceptIInv == IInv /\ Accept => IInv'
<1> SUFFICES ASSUME IInv, Accept PROVE IInv'
  OBVIOUS
<1>1. TypeOK'
  <2>1. stream' \in [Stream -> StreamState]
    BY NewWriterProps DEF Accept
  <2>2. /\ wire' \in Seq(Unit) /\ nWriters' \in 0..2
        /\ received' \in [Stream -> Seq(Nat)] /\ accepted' \in [Stream -> Nat]
        /\ failed' \in [Stream -> BOOLEAN]
    BY DEF Accept
  <2> QED BY <2>1, <2>2 DEF Accept, IInv, TypeOK
<1>2. \A s \in Stream : BufferOK(s, stream'[s])
  BY NewWriterProps DEF Accept
<1>3. wire' \in Seq(Record) /\ call'.todo \in Seq(Record)
  BY DEF Accept, IInv
<1>4. WritersOK'
  <2>1. \A s \in Stream : ~stream'[s].rawWrite /\ ~stream'[s].wasFCloseCalled
    BY NewWriterProps DEF Accept
  <2>2. call'.op # "close" /\ nWriters' = 2
    BY DEF Accept
  <2>3. OpenCount("out")' = 1 /\ OpenCount("err")' = 1
    BY <2>1 DEF OpenCount, Stream
  <2> QED BY <2>1, <2>2, <2>3 DEF WritersOK
<1>5. StreamIntegrity'
  <2>1. \A s \in Stream : /\ received'[s] = <<>> /\ accepted'[s] = 0
                          /\ Buffered(stream'[s]) = <<>>
    BY NewWriterProps DEF Accept
  <2> QED BY <2>1, NothingTaken, Zenon DEF StreamIntegrity
<1> QED BY <1>1, <1>2, <1>3, <1>4, <1>5 DEF IInv

\* The calls that only begin or end something.
LEMMA QuietActions ==
    ASSUME IInv,
           \/ \E s \in Stream : \/ \E counts \in Prints : VFPrintF(s, counts)
                                \/ PutRefused(s) \/ FinishSkips(s)
                                \/ CloseDrops(s)
           \/ \E status \in Status : SetExitStatus(status)
           \/ PutReturns \/ FinishBegins \/ FinishFrees
    PROVE  IInv'
<1>1. ASSUME NEW s \in Stream, NEW counts \in Prints, VFPrintF(s, counts)
      PROVE  IInv'
  <2>1. counts \in Seq(Nat)
    BY CallsAssumption
  <2>2. call' \in Call
    BY <1>1, <2>1 DEF VFPrintF, Call
  <2>3. TypeOK'
    BY <1>1, <2>2 DEF VFPrintF, IInv, TypeOK, request, peer, ghosts
  <2>4. call.op = "idle" /\ call'.op = "put" /\ call'.todo \in Seq(Record)
    BY <1>1 DEF VFPrintF, AppMayCall
  <2> QED BY <1>1, <2>3, <2>4, QuietStep DEF VFPrintF, request, peer
<1>2. ASSUME NEW s \in Stream, PutRefused(s) \/ PutReturns
      PROVE  IInv'
  <2>1. call' = Idle /\ call.op = "put"
    BY <1>2 DEF PutRefused, PutReturns, Putting
  <2>2. call' \in Call
    BY <2>1 DEF Call, Idle, Stream
  <2>3. TypeOK'
    BY <1>2, <2>2 DEF PutRefused, PutReturns, IInv, TypeOK, request, peer, ghosts
  <2>4. call'.op = "idle" /\ call'.todo \in Seq(Record)
    BY <2>1 DEF Idle
  <2> QED BY <1>2, <2>1, <2>3, <2>4, QuietStep
          DEF PutRefused, PutReturns, request, peer
<1>3. ASSUME NEW s \in Stream, CloseDrops(s)
      PROVE  IInv'
  <2>1. call' = [call EXCEPT !.todo = <<>>] /\ call \in Call
    BY <1>3 DEF CloseDrops, IInv, TypeOK
  <2>2. /\ call' \in Call /\ call'.op = call.op /\ call'.s = call.s
        /\ call'.todo \in Seq(Record)
    <3>1. <<>> \in Seq(Record) /\ <<>> \in Seq(Unit)
      OBVIOUS
    <3> QED BY <2>1, <3>1 DEF Call
  <2>3. TypeOK'
    BY <1>3, <2>2 DEF CloseDrops, IInv, TypeOK, request, peer, ghosts
  <2> QED BY <1>3, <2>2, <2>3, QuietStep DEF CloseDrops, request, peer
<1>4. ASSUME NEW s \in Stream, FinishSkips(s) \/ FinishBegins
      PROVE  IInv'
  <2>1. finish' \in {"no", "err", "out", "free"}
    BY <1>4 DEF FinishSkips, FinishBegins, AfterClose, IInv, TypeOK
  <2>2. TypeOK'
    BY <1>4, <2>1 DEF FinishSkips, FinishBegins, IInv, TypeOK, request, peer, ghosts
  <2>3. call'.todo \in Seq(Record)
    BY <1>4 DEF FinishSkips, FinishBegins, IInv
  <2> QED BY <1>4, <2>2, <2>3, QuietStep
          DEF FinishSkips, FinishBegins, request, peer
<1>5. ASSUME FinishFrees
      PROVE  IInv'
  <2>1. TypeOK'
    BY <1>5 DEF FinishFrees, IInv, TypeOK, peer, ghosts
  <2>2. call'.todo \in Seq(Record)
    BY <1>5 DEF FinishFrees, IInv
  <2> QED BY <1>5, <2>1, <2>2, QuietStep DEF FinishFrees, peer
<1>6. ASSUME NEW status \in Status, SetExitStatus(status)
      PROVE  IInv'
  <2>1. TypeOK'
    BY <1>6 DEF SetExitStatus, IInv, TypeOK, peer
  <2>2. call'.todo \in Seq(Record)
    BY <1>6 DEF SetExitStatus, IInv
  <2> QED BY <1>6, <2>1, <2>2, QuietStep DEF SetExitStatus, peer
<1>7. "out" \in Stream
  BY DEF Stream
<1> QED BY <1>1, <1>2, <1>3, <1>4, <1>5, <1>6, <1>7, Zenon

\* The steps of the output calls and of FCGX_FFlush.
LEMMA PutMoves ==
    ASSUME IInv, NEW s \in Stream, PutFits(s) \/ PutFills(s)
    PROVE  IInv'
<1>1. /\ call.op = "put" /\ call.pieces # <<>> /\ call \in Call
      /\ call.pieces \in Seq(Nat) /\ call.todo \in Seq(Record)
  BY DEF PutFits, PutFills, Putting, IInv, TypeOK, Call
<1>2. /\ Head(call.pieces) \in Nat /\ Tail(call.pieces) \in Seq(Nat)
      /\ Room(s) \in Nat
  BY <1>1, HeadTailProperties, RoomProps, Zenon
<1>3. PICK m \in Nat : m <= Room(s) /\ Move(s, m)
  <2>1. CASE PutFits(s)
    BY <2>1, <1>2 DEF PutFits
  <2>2. CASE PutFills(s)
    BY <2>2, <1>2 DEF PutFills
  <2> QED BY <2>1, <2>2
<1>4. \E p \in Seq(Nat) : call' = [call EXCEPT !.pieces = p]
  <2>1. CASE PutFits(s)
    BY <2>1, <1>2 DEF PutFits
  <2>2. CASE PutFills(s)
    <3>1. Head(call.pieces) - Room(s) \in Nat
      BY <2>2, <1>2 DEF PutFills
    <3>2. <<Head(call.pieces) - Room(s)>> \in Seq(Nat)
      BY <3>1
    <3>3. <<Head(call.pieces) - Room(s)>> \o Tail(call.pieces) \in Seq(Nat)
      BY <3>2, <1>2, ConcatProperties, Zenon
    <3> QED BY <2>2, <3>3 DEF PutFills
  <2> QED BY <2>1, <2>2
<1>5. /\ call' \in Call /\ call'.op = "put" /\ call'.s = call.s
      /\ call'.todo = call.todo
  BY <1>1, <1>4 DEF Call
<1>6. /\ \E q \in StreamState :
            /\ stream' = [stream EXCEPT ![s] = q]
            /\ BufferOK(s, q)
            /\ q.rawWrite = stream[s].rawWrite
            /\ q.wasFCloseCalled = stream[s].wasFCloseCalled
      /\ accepted' \in [Stream -> Nat]
      /\ StreamIntegrity'
  <2>1. call.op # "close"
    BY <1>1
  <2> QED BY <1>3, <2>1, MoveStep, Zenon
<1>7. /\ stream' \in [Stream -> StreamState]
      /\ \A t \in Stream : BufferOK(t, stream'[t])
  BY <1>6, StreamsKept, Zenon
<1>8. UNCHANGED <<nWriters, appStatus, keepConnection, conn, finish, link, wire,
                  received, failed, cleared, statusSet>>
  BY <1>3 DEF Move, request, peer, ghosts
<1>9. TypeOK'
  BY <1>5, <1>6, <1>7, <1>8 DEF IInv, TypeOK
<1>10. WritersOK'
  <2>1. \A t \in Stream : (call'.op = "close" /\ call'.s = t)
                             <=> (call.op = "close" /\ call.s = t)
    BY <1>1, <1>5
  <2> QED BY <1>6, <1>8, <2>1, WritersKept, Zenon
<1>11. wire' \in Seq(Record) /\ call'.todo \in Seq(Record)
  BY <1>1, <1>5, <1>8 DEF IInv
<1> QED BY <1>6, <1>7, <1>9, <1>10, <1>11, Zenon DEF IInv

\* EmptyBuffProc, called by FCGX_PutStr, FCGX_FFlush or WriteCloseRecords,
\* preserves the invariant whether its writes succeed or fail.
LEMMA Empties ==
    ASSUME IInv, NEW s \in Stream, PutEmpties(s) \/ FFlush(s) \/ CloseEmpties(s)
    PROVE  IInv'
<1>1. /\ EmptyBuff(s)
      /\ UNCHANGED <<nWriters, appStatus, keepConnection, conn, call, finish,
                     accepted, cleared, statusSet>>
  BY DEF PutEmpties, FFlush, CloseEmpties, request, ghosts
<1>2. ~stream[s].wasFCloseCalled
  <2>1. ~stream[s].isClosed
    BY Zenon DEF PutEmpties, FFlush, CloseEmpties
  <2> QED BY <2>1, ModeProps, Zenon DEF BufferOK
<1>3. /\ \E q \in StreamState :
            /\ stream' = [stream EXCEPT ![s] = q]
            /\ BufferOK(s, q)
            /\ q.rawWrite = stream[s].rawWrite
            /\ q.wasFCloseCalled = stream[s].wasFCloseCalled
      /\ wire' \in Seq(Record)
      /\ link' \in {"up", "down"}
      /\ received' \in [Stream -> Seq(Nat)]
      /\ failed' \in [Stream -> BOOLEAN]
      /\ StreamIntegrity'
  BY <1>1, <1>2, EmptyBuffStep, Zenon
<1>4. /\ stream' \in [Stream -> StreamState]
      /\ \A t \in Stream : BufferOK(t, stream'[t])
  BY <1>3, StreamsKept, Zenon
<1>5. wire' \in Seq(Unit)
  <2>1. Record \subseteq Unit
    BY DEF Record
  <2> QED BY <1>3, <2>1, SeqMonotonic, Zenon
<1>6. TypeOK'
  BY <1>1, <1>3, <1>4, <1>5 DEF IInv, TypeOK
<1>7. WritersOK'
  BY <1>1, <1>3, WritersKept, Zenon
<1>8. call'.todo \in Seq(Record)
  BY <1>1 DEF IInv
<1> QED BY <1>3, <1>4, <1>6, <1>7, <1>8, Zenon DEF IInv

\* A change of one stream that keeps its bytes, its mode and the wire.
LEMMA SameBytesStep ==
    ASSUME IInv, TypeOK', NEW s \in Stream, NEW q \in StreamState,
           stream' = [stream EXCEPT ![s] = q],
           BufferOK(s, q), Buffered(q) = Buffered(stream[s]),
           UNCHANGED <<wire, received, accepted, failed>>,
           call'.todo \in Seq(Record), WritersOK'
    PROVE  IInv'
<1>1. /\ \A t \in Stream : BufferOK(t, stream'[t])
      /\ stream'[s] = q
      /\ \A t \in Stream : t # s => stream'[t] = stream[t]
  BY StreamsKept, Zenon
<1>2. StreamIntegrity'
  <2>1. \A t \in Stream : Buffered(stream'[t]) = Buffered(stream[t])
    BY <1>1, Zenon
  <2> QED BY <2>1, Zenon DEF IInv, StreamIntegrity
<1>3. wire' \in Seq(Record)
  BY DEF IInv
<1> QED BY <1>1, <1>2, <1>3, Zenon DEF IInv

\* FCGX_ClearError, which drops the error code and nothing else.
LEMMA ClearErrorIInv ==
    ASSUME IInv, NEW s \in Stream, ClearError(s)
    PROVE  IInv'
<1> DEFINE q == [stream[s] EXCEPT !.error = FALSE]
<1>1. /\ stream' = [stream EXCEPT ![s] = q]
      /\ UNCHANGED <<nWriters, appStatus, keepConnection, conn, call, finish,
                     link, wire, received, accepted, failed, statusSet>>
      /\ cleared' = TRUE
  BY DEF ClearError, request, peer
<1>2. /\ q \in StreamState
      /\ q.body = stream[s].body /\ q.cLen = stream[s].cLen
      /\ q.raw = stream[s].raw /\ q.rawWrite = stream[s].rawWrite
      /\ q.isClosed = stream[s].isClosed
      /\ q.wasFCloseCalled = stream[s].wasFCloseCalled
  BY ModeProps DEF StreamState
<1> HIDE DEF q
<1>3. Used(q) = Used(stream[s]) /\ Buffered(q) = Buffered(stream[s])
  BY <1>2, Zenon DEF Used, Buffered, Content
<1>4. BufferOK(s, q)
  BY <1>2, <1>3, ModeProps, Zenon DEF BufferOK
<1>5. stream' \in [Stream -> StreamState]
  BY <1>1, <1>2, <1>4, StreamsKept, Zenon
<1>6. TypeOK'
  BY <1>1, <1>5 DEF IInv, TypeOK
<1>7. WritersOK'
  BY <1>1, <1>2, WritersKept, Zenon
<1>8. call'.todo \in Seq(Record)
  BY <1>1 DEF IInv
<1> QED BY <1>1, <1>2, <1>3, <1>4, <1>6, <1>7, <1>8, SameBytesStep

-----------------------------------------------------------------------------
(* FCGX_FClose.                                                            *)

\* The closing records are well-formed.
LEMMA CloseRecordsProps ==
    ASSUME IInv, NEW s \in Stream, NEW r
    PROVE  CloseRecords(s, r) \in Seq(Record)
<1>1. appStatus \in Status
  BY Zenon DEF IInv, TypeOK
<1>2. Header(s, 0, 0) \in Record
  BY DEF Header, Record, Unit, FCGI_MAX_LENGTH
<1>3. Header("end", 8, 0) \in Record
  BY DEF Header, Record, Unit, FCGI_MAX_LENGTH
<1>4. EndBody(appStatus) \in Record
  BY <1>1 DEF EndBody, Record, Unit, FCGI_MAX_LENGTH
<1>5. EofRecord(s) \in Seq(Record) /\ EndRecord(appStatus) \in Seq(Record)
  BY <1>2, <1>3, <1>4 DEF EofRecord, EndRecord
<1>6. <<>> \in Seq(Record)
  OBVIOUS
<1> QED BY <1>5, <1>6, ConcatProperties, Zenon DEF CloseRecords

\* WriteCloseRecords' switch to rawWrite mode frames what was buffered.
LEMMA FCloseBeginsIInv ==
    ASSUME IInv, NEW s \in Stream, FCloseBegins(s)
    PROVE  IInv'
<1> DEFINE f == Framed(stream[s])
           q == [f EXCEPT !.rawWrite = TRUE]
<1>1. /\ stream' = [stream EXCEPT ![s] = q]
      /\ call' = [op |-> "close", s |-> s, pieces |-> <<>>,
                  todo |-> CloseRecords(s, stream[s])]
      /\ call.op = "idle" /\ ~stream[s].wasFCloseCalled
      /\ UNCHANGED <<nWriters, appStatus, keepConnection, conn, finish, link,
                     wire, received, accepted, failed, cleared, statusSet>>
  BY DEF FCloseBegins, request, peer, ghosts
<1>2. ~stream[s].rawWrite
  BY <1>1, Zenon DEF IInv, WritersOK
<1>3. Ready(s, f) /\ Content(f) = stream[s].body
  BY <1>2, ModeProps, FramedProps, Zenon
<1>4. /\ f \in StreamState /\ f.wasFCloseCalled = FALSE /\ f.rawWrite = FALSE
      /\ f.raw = stream[s].raw
  BY <1>1, <1>2, <1>3, ModeProps DEF Framed, StreamState, Ready
<1> HIDE DEF f
<1>5. /\ q \in StreamState /\ q.body = f.body /\ q.cLen = f.cLen
      /\ q.raw = f.raw /\ q.rawWrite = TRUE /\ q.wasFCloseCalled = FALSE
  BY <1>4 DEF StreamState
<1> HIDE DEF q
<1>6. BufferOK(s, q)
  <2>1. f.raw = <<>>
    BY <1>2, <1>4, ModeProps, Zenon DEF BufferOK
  <2>2. CASE f.body = <<>>
    <3>1. Used(q) = 8 * Len(f.raw)
      BY <1>5, <2>2, Zenon DEF Used
    <3>2. Used(q) <= BuffLen[s]
      BY <3>1, <2>1, BuffLenProps
    <3> QED BY <3>2, <1>3, <1>5, Zenon DEF BufferOK, Ready
  <2>3. CASE f.body # <<>>
    <3>1. Used(q) = Used(f)
      BY <1>5, <2>3, Zenon DEF Used
    <3> QED BY <3>1, <1>3, <1>5, Zenon DEF BufferOK, Ready
  <2> QED BY <2>2, <2>3
<1>7. Buffered(q) = Buffered(stream[s])
  <2>1. Buffered(q) = Content(f)
    BY <1>5, Zenon DEF Buffered, Content
  <2> QED BY <2>1, <1>2, <1>3, Zenon DEF Buffered
<1>8. CloseRecords(s, stream[s]) \in Seq(Record)
  BY CloseRecordsProps, Zenon
<1>9. call' \in Call
  <2>1. Record \subseteq Unit
    BY DEF Record
  <2>2. CloseRecords(s, stream[s]) \in Seq(Unit)
    BY <1>8, <2>1, SeqMonotonic, Zenon
  <2>3. <<>> \in Seq(Nat)
    OBVIOUS
  <2> QED BY <1>1, <2>2, <2>3 DEF Call
<1>10. stream' \in [Stream -> StreamState]
  BY <1>1, <1>5, <1>6, StreamsKept, Zenon
<1>11. TypeOK'
  BY <1>1, <1>9, <1>10 DEF IInv, TypeOK
<1>12. WritersOK'
  <2>1. /\ stream'[s] = q
        /\ \A t \in Stream : t # s => stream'[t] = stream[t]
    BY <1>1, <1>5, <1>6, StreamsKept, Zenon
  <2>2. /\ OpenCount("out")' = OpenCount("out")
        /\ OpenCount("err")' = OpenCount("err")
    <3>1. \A t \in Stream :
             stream'[t].wasFCloseCalled = stream[t].wasFCloseCalled
      BY <2>1, <1>1, <1>5, ModeProps
    <3>2. "out" \in Stream /\ "err" \in Stream
      BY DEF Stream
    <3> QED BY <3>1, <3>2, Zenon DEF OpenCount
  <2>3. nWriters' = OpenCount("out")' + OpenCount("err")'
    BY <1>1, <2>2, Zenon DEF IInv, WritersOK
  <2>4. call'.op = "close" /\ call'.s = s
    BY <1>1
  <2>5. ASSUME NEW t \in Stream
        PROVE  stream'[t].rawWrite /\ ~stream'[t].wasFCloseCalled
                 <=> call'.op = "close" /\ call'.s = t
    <3>1. CASE t = s
      BY <3>1, <2>1, <2>4, <1>5
    <3>2. CASE t # s
      <4>1. ~(stream[t].rawWrite /\ ~stream[t].wasFCloseCalled)
        BY <1>1 DEF IInv, WritersOK
      <4> QED BY <3>2, <4>1, <2>1, <2>4
    <3> QED BY <3>1, <3>2
  <2> QED BY <2>3, <2>5, Zenon DEF WritersOK
<1>13. call'.todo \in Seq(Record)
  BY <1>1, <1>8
<1> QED BY <1>1, <1>5, <1>6, <1>7, <1>11, <1>12, <1>13, SameBytesStep

\* WriteCloseRecords' PutStr of a unit into a buffer with room.
LEMMA ClosePutsIInv ==
    ASSUME IInv, NEW s \in Stream, ClosePuts(s)
    PROVE  IInv'
<1> DEFINE r == stream[s]
           w == Append(r.raw, Head(call.todo))
           q == [r EXCEPT !.raw = w]
<1>1. /\ stream' = [stream EXCEPT ![s] = q]
      /\ call' = [call EXCEPT !.todo = Tail(call.todo)]
      /\ call.op = "close" /\ call.s = s /\ call.todo # <<>> /\ Room(s) >= 8
      /\ UNCHANGED <<nWriters, appStatus, keepConnection, conn, finish, link,
                     wire, received, accepted, failed, cleared, statusSet>>
  BY DEF ClosePuts, Closing, request, peer, ghosts
<1>2. r.rawWrite /\ ~r.wasFCloseCalled
  BY <1>1, Zenon DEF IInv, WritersOK
<1>3. /\ r \in StreamState /\ r.raw \in Seq(Record) /\ r.body \in Seq(Nat)
      /\ Used(r) \in Nat /\ BufferOK(s, r)
  BY ModeProps, Zenon
<1>4. /\ call \in Call /\ call.todo \in Seq(Record)
      /\ Head(call.todo) \in Record /\ Tail(call.todo) \in Seq(Record)
  <2>1. call \in Call /\ call.todo \in Seq(Record)
    BY Zenon DEF IInv, TypeOK
  <2> QED BY <1>1, <2>1, HeadTailProperties, Zenon
<1>5. Record \subseteq Unit
  BY DEF Record
<1>6. w \in Seq(Record) /\ w \in Seq(Unit) /\ Len(w) = Len(r.raw) + 1
  <2>1. w \in Seq(Record) /\ Len(w) = Len(r.raw) + 1
    BY <1>3, <1>4, AppendProperties
  <2> QED BY <2>1, <1>5, SeqMonotonic, Zenon
<1> HIDE DEF w
<1>7. /\ q \in StreamState /\ q.body = r.body /\ q.cLen = r.cLen /\ q.raw = w
      /\ q.rawWrite = r.rawWrite /\ q.wasFCloseCalled = r.wasFCloseCalled
      /\ q.isClosed = r.isClosed
  BY <1>3, <1>6 DEF StreamState
<1> HIDE DEF q
<1>8. Used(q) <= BuffLen[s]
  <2>1. Used(r) + 8 <= BuffLen[s]
    <3>1. BuffLen[s] - Used(r) >= 8
      BY <1>1, <1>2, Zenon DEF Room
    <3> QED BY <3>1, <1>3, BuffLenProps
  <2>2. Len(r.body) \in Nat /\ Len(r.raw) \in Nat
    BY <1>3, LenProperties, Zenon
  <2>3. \A x, y \in Nat : /\ 8 * (y + 1) = 8 * y + 8
                          /\ HeaderLen + x + 8 * (y + 1) = HeaderLen + x + 8 * y + 8
    BY DEF HeaderLen
  <2>4. Used(q) = Used(r) + 8
    BY <1>6, <1>7, <2>2, <2>3, Zenon DEF Used
  <2> QED BY <2>1, <2>4, Zenon
<1>9. BufferOK(s, q)
  BY <1>2, <1>3, <1>6, <1>7, <1>8, Zenon DEF BufferOK
<1>10. Buffered(q) = Buffered(stream[s])
  BY <1>7, Zenon DEF Buffered, Content
<1>11. /\ call' \in Call /\ call'.op = call.op /\ call'.s = call.s
       /\ call'.todo \in Seq(Record)
  <2>1. Tail(call.todo) \in Seq(Unit)
    BY <1>4, <1>5, SeqMonotonic, Zenon
  <2> QED BY <2>1, <1>1, <1>4 DEF Call
<1>12. stream' \in [Stream -> StreamState]
  BY <1>1, <1>7, <1>9, StreamsKept, Zenon
<1>13. TypeOK'
  BY <1>1, <1>11, <1>12 DEF IInv, TypeOK
<1>14. WritersOK'
  BY <1>1, <1>7, <1>11, WritersKept, Zenon
<1> QED BY <1>1, <1>7, <1>9, <1>10, <1>11, <1>13, <1>14, SameBytesStep

\* Marking a stream closed for good keeps its buffer.
LEMMA ClosedProps ==
    ASSUME NEW s \in Stream, NEW r \in StreamState, BufferOK(s, r), r.rawWrite
    PROVE  /\ Closed(r) \in StreamState /\ BufferOK(s, Closed(r))
           /\ Buffered(Closed(r)) = Buffered(r)
           /\ Closed(r).wasFCloseCalled = TRUE
<1>1. /\ Closed(r) \in StreamState
      /\ Closed(r).body = r.body /\ Closed(r).cLen = r.cLen
      /\ Closed(r).raw = r.raw /\ Closed(r).rawWrite = r.rawWrite
      /\ Closed(r).wasFCloseCalled = TRUE /\ Closed(r).isClosed = TRUE
  BY DEF Closed, StreamState
<1>2. Used(Closed(r)) = Used(r)
  BY <1>1, Zenon DEF Used
<1>3. BufferOK(s, Closed(r))
  BY <1>1, <1>2, Zenon DEF BufferOK
<1> QED BY <1>1, <1>3, Zenon DEF Buffered, Content

\* FCGX_FClose's last flush and its marking of the stream as closed.
LEMMA FCloseEndsIInv ==
    ASSUME IInv, NEW s \in Stream, FCloseEnds(s)
    PROVE  IInv'
<1>0. PICK r : r = stream[s]
  OBVIOUS
<1> DEFINE ok == Closed(Emptied(r))
           err == Closed(Errored(r))
<1>1. /\ call.op = "close" /\ call.s = s
      /\ nWriters' = nWriters - 1
      /\ call' = Idle
      /\ finish' = AfterClose(s)
      /\ UNCHANGED <<appStatus, keepConnection, conn, accepted, cleared, statusSet>>
  BY DEF FCloseEnds, Closing, ghosts
<1>2. r.rawWrite /\ ~r.wasFCloseCalled
  BY <1>0, <1>1, Zenon DEF IInv, WritersOK
<1>3. r \in StreamState /\ BufferOK(s, r)
  BY <1>0, ModeProps, Zenon
<1>4. Ready(s, r)
  BY <1>2, <1>3, Zenon DEF Ready, BufferOK
<1>5. /\ ok \in StreamState /\ BufferOK(s, ok) /\ Buffered(ok) = <<>>
      /\ err \in StreamState /\ BufferOK(s, err)
      /\ ok.wasFCloseCalled = TRUE /\ err.wasFCloseCalled = TRUE
      /\ Closed(r) \in StreamState /\ BufferOK(s, Closed(r))
      /\ Buffered(Closed(r)) = Buffered(r) /\ Closed(r).wasFCloseCalled = TRUE
  <2>1. /\ Emptied(r) \in StreamState /\ Errored(r) \in StreamState
        /\ BufferOK(s, Emptied(r)) /\ Buffered(Emptied(r)) = <<>>
        /\ BufferOK(s, Errored(r))
        /\ Emptied(r).rawWrite /\ Errored(r).rawWrite
    BY <1>2, <1>4, WrittenProps
  <2> QED BY <1>2, <1>3, <2>1, ClosedProps, Zenon
<1>6. TypeOK /\ StreamIntegrity /\ wire \in Seq(Record)
  BY Zenon DEF IInv
<1>7. ~failed[s] => received[s] \o Buffered(r) = Upto(accepted[s])
  BY <1>0, <1>6, Zenon DEF StreamIntegrity
<1>8. /\ \E q \in {ok, err, Closed(r)} : stream' = [stream EXCEPT ![s] = q]
      /\ wire' \in Seq(Record) /\ link' \in {"up", "down"}
      /\ received' \in [Stream -> Seq(Nat)] /\ failed' \in [Stream -> BOOLEAN]
      /\ StreamIntegrity'
  <2>1. CASE Used(r) = 0
    <3>1. /\ stream' = [stream EXCEPT ![s] = Closed(r)]
          /\ UNCHANGED <<link, wire, received, failed>>
      BY <1>0, <2>1 DEF FCloseEnds, peer
    <3>2. \A t \in Stream : Buffered(stream'[t]) = Buffered(stream[t])
      <4>1. /\ stream'[s] = Closed(r)
            /\ \A t \in Stream : t # s => stream'[t] = stream[t]
        BY <3>1, <1>5, StreamsKept, Zenon
      <4> QED BY <4>1, <1>0, <1>5, Zenon
    <3>3. StreamIntegrity'
      BY <1>1, <1>6, <3>1, <3>2, Zenon DEF StreamIntegrity
    <3>4. wire' \in Seq(Record) /\ link' \in {"up", "down"}
          /\ received' \in [Stream -> Seq(Nat)] /\ failed' \in [Stream -> BOOLEAN]
      BY <1>6, <3>1 DEF TypeOK
    <3> QED BY <3>1, <3>3, <3>4
  <2>2. CASE Used(r) # 0
    <3>1. WriteItAll(s, r, ok, err)
      BY <1>0, <2>2 DEF FCloseEnds, WriteItAll, WriteOk, WriteFails
    <3>2. ~failed[s] => received[s] \o Content(r) = Upto(accepted[s])
      BY <1>2, <1>7, Zenon DEF Buffered
    <3>3. accepted' = accepted
      BY <1>1
    <3>4. ok \in StreamState /\ err \in StreamState /\ Buffered(ok) = <<>>
      BY <1>5, Zenon
    <3> HIDE DEF ok, err
    <3>5. /\ \E q \in {ok, err} : stream' = [stream EXCEPT ![s] = q]
          /\ wire' \in Seq(Record)
          /\ link' \in {"up", "down"}
          /\ received' \in [Stream -> Seq(Nat)]
          /\ failed' \in [Stream -> BOOLEAN]
          /\ StreamIntegrity'
      BY <1>4, <3>1, <3>2, <3>3, <3>4, <1>6, WriteStep, Zenon
    <3> QED BY <3>5
  <2> QED BY <2>1, <2>2
<1>9. PICK q \in {ok, err, Closed(r)} : stream' = [stream EXCEPT ![s] = q]
  BY <1>8, Zenon
<1>10. q \in StreamState /\ BufferOK(s, q) /\ q.wasFCloseCalled = TRUE
  BY <1>5, <1>9
<1>11. /\ stream' \in [Stream -> StreamState]
       /\ \A t \in Stream : BufferOK(t, stream'[t])
       /\ stream'[s] = q
       /\ \A t \in Stream : t # s => stream'[t] = stream[t]
  BY <1>9, <1>10, StreamsKept, Zenon
<1>12. WritersOK' /\ nWriters' \in 0..2
  <2>1. OpenCount(s) = 1 /\ OpenCount(s)' = 0
    BY <1>0, <1>2, <1>10, <1>11 DEF OpenCount
  <2>2. \A t \in Stream : t # s => OpenCount(t)' = OpenCount(t)
    BY <1>11 DEF OpenCount
  <2>3. OpenCount("out") \in {0, 1} /\ OpenCount("err") \in {0, 1}
    BY DEF OpenCount
  <2>4. nWriters = OpenCount("out") + OpenCount("err")
    BY Zenon DEF IInv, WritersOK
  <2>5. nWriters' = OpenCount("out")' + OpenCount("err")'
    <3>1. CASE s = "out"
      <4>1. OpenCount("err")' = OpenCount("err")
        BY <2>2, <3>1 DEF Stream
      <4> QED BY <3>1, <4>1, <2>1, <2>3, <2>4, <1>1
    <3>2. CASE s = "err"
      <4>1. OpenCount("out")' = OpenCount("out")
        BY <2>2, <3>2 DEF Stream
      <4> QED BY <3>2, <4>1, <2>1, <2>3, <2>4, <1>1
    <3> QED BY <3>1, <3>2 DEF Stream
  <2>6. OpenCount("out")' \in {0, 1} /\ OpenCount("err")' \in {0, 1}
    BY DEF OpenCount
  <2>7. call'.op # "close"
    BY <1>1 DEF Idle
  <2>8. ASSUME NEW t \in Stream
        PROVE  stream'[t].rawWrite /\ ~stream'[t].wasFCloseCalled
                 <=> call'.op = "close" /\ call'.s = t
    <3>1. CASE t = s
      BY <3>1, <2>7, <1>10, <1>11
    <3>2. CASE t # s
      <4>1. ~(stream[t].rawWrite /\ ~stream[t].wasFCloseCalled)
        BY <3>2, <1>1 DEF IInv, WritersOK
      <4> QED BY <3>2, <4>1, <2>7, <1>11
    <3> QED BY <3>1, <3>2
  <2> QED BY <2>5, <2>6, <2>8 DEF WritersOK
<1>13. TypeOK'
  <2>1. Record \subseteq Unit
    BY DEF Record
  <2>2. wire' \in Seq(Unit)
    BY <1>8, <2>1, SeqMonotonic, Zenon
  <2>3. call' \in Call
    BY <1>1 DEF Idle, Call, Stream
  <2>4. finish' \in {"no", "err", "out", "free"}
    BY <1>1, <1>6 DEF AfterClose, TypeOK
  <2> QED BY <1>1, <1>6, <1>8, <1>11, <1>12, <2>2, <2>3, <2>4 DEF TypeOK
<1>14. call'.todo \in Seq(Record)
  BY <1>1 DEF Idle
<1> QED BY <1>8, <1>11, <1>12, <1>13, <1>14, Zenon DEF IInv

-----------------------------------------------------------------------------
(* The theorems.                                                           *)

\* Every step of the application and of the library preserves the invariant.
LEMMA NextIInv == IInv /\ [Next]_vars => IInv'
<1> SUFFICES ASSUME IInv, [Next]_vars PROVE IInv'
  OBVIOUS
<1>1. ASSUME NEW s \in Stream, PutFits(s) \/ PutFills(s) PROVE IInv'
  BY <1>1, PutMoves
<1>2. ASSUME NEW s \in Stream, PutEmpties(s) \/ FFlush(s) \/ CloseEmpties(s)
      PROVE  IInv'
  BY <1>2, Empties
<1>3. ASSUME NEW s \in Stream, ClearError(s) PROVE IInv'
  BY <1>3, ClearErrorIInv
<1>4. ASSUME NEW s \in Stream, FCloseBegins(s) PROVE IInv'
  BY <1>4, FCloseBeginsIInv
<1>5. ASSUME NEW s \in Stream, ClosePuts(s) PROVE IInv'
  BY <1>5, ClosePutsIInv
<1>6. ASSUME NEW s \in Stream, FCloseEnds(s) PROVE IInv'
  BY <1>6, FCloseEndsIInv
<1>7. CASE Accept
  BY <1>7, AcceptIInv
<1>8. CASE UNCHANGED vars
  <2>1. UNCHANGED <<stream, wire, received, accepted, failed, nWriters, call>>
    BY <1>8 DEF vars, request, peer
  <2>2. TypeOK'
    BY <1>8 DEF vars, request, peer, ghosts, IInv, TypeOK
  <2>3. call'.todo \in Seq(Record)
    BY <2>1 DEF IInv
  <2> QED BY <2>1, <2>2, <2>3, QuietStep
<1>9. CASE App
  <2>1. ASSUME NEW s \in Stream, NEW counts \in Prints, VFPrintF(s, counts)
        PROVE  IInv'
    BY <2>1, QuietActions, Zenon
  <2>2. ASSUME NEW status \in Status, SetExitStatus(status) PROVE IInv'
    BY <2>2, QuietActions, Zenon
  <2>3. ASSUME FinishBegins PROVE IInv'
    BY <2>3, QuietActions, Zenon
  <2> QED BY <1>2, <1>3, <1>4, <1>7, <1>9, <2>1, <2>2, <2>3, Zenon DEF App
<1>10. CASE Library
  <2>1. ASSUME NEW s \in Stream, PutRefused(s) \/ FinishSkips(s) \/ CloseDrops(s)
        PROVE  IInv'
    BY <2>1, QuietActions, Zenon
  <2>2. ASSUME PutReturns \/ FinishFrees PROVE IInv'
    BY <2>2, QuietActions, Zenon
  <2> QED BY <1>1, <1>2, <1>4, <1>5, <1>6, <1>10, <2>1, <2>2, Zenon DEF Library
<1> QED BY <1>8, <1>9, <1>10 DEF Next

\* IInv holds in every state, for every buffer length and every output call.
THEOREM IInvariant == Spec => []IInv
<1>1. Init => IInv
  BY InitIInv
<1>2. IInv /\ [Next]_vars => IInv'
  BY NextIInv
<1> QED BY <1>1, <1>2, PTL DEF Spec

\* Type correctness, with nWriters between 0 and 2: no stream is counted out
\* twice, whoever closes it and however its writes end.
THEOREM TypeCorrect == Spec => []TypeOK
<1>1. IInv => TypeOK
  BY DEF IInv
<1> QED BY <1>1, IInvariant, PTL

\* The server's bytes followed by the buffer's are the application's bytes, on
\* every stream no write of which has failed (fcgiapp.c:281-341, 1386-1430).
THEOREM Integrity == Spec => []StreamIntegrity
<1>1. IInv => StreamIntegrity
  BY DEF IInv
<1> QED BY <1>1, IInvariant, PTL

\* "Padding can't overflow the buffer" (fcgiapp.c:1393) and the ASSERTs of
\* MakeHeader hold for every buffer NewStream makes, after failed writes too.
THEOREM RecordsAlwaysFit == Spec => []RecordsFit
<1>1. ASSUME IInv PROVE RecordsFit
  <2>1. ASSUME NEW s \in Stream
        PROVE  /\ Used(stream[s]) <= BuffLen[s]
               /\ ~stream[s].rawWrite => Used(Framed(stream[s])) <= BuffLen[s]
               /\ stream[s].rawWrite => Used(stream[s]) % 8 = 0
    <3>1. stream[s] \in StreamState /\ BufferOK(s, stream[s])
      BY <1>1, ModeProps, Zenon
    <3>2. Used(stream[s]) <= BuffLen[s]
      BY <3>1, Zenon DEF BufferOK
    <3>3. ~stream[s].rawWrite => Used(Framed(stream[s])) <= BuffLen[s]
      BY <3>1, FramedProps, Zenon DEF Ready
    <3>4. ASSUME stream[s].rawWrite PROVE Used(stream[s]) % 8 = 0
      <4>1. /\ Len(stream[s].body) \in Nat /\ Len(stream[s].raw) \in Nat
            /\ Len(stream[s].body) % 8 = 0
        BY <1>1, <3>1, <3>4, ModeProps, LenProperties, Zenon DEF BufferOK
      <4>2. \A x, y \in Nat : x % 8 = 0 =>
               (8 * y) % 8 = 0 /\ (HeaderLen + x + 8 * y) % 8 = 0
        BY DEF HeaderLen
      <4> QED BY <4>1, <4>2, Zenon DEF Used
    <3> QED BY <3>2, <3>3, <3>4
  <2>2. \A i \in 1..Len(wire) : wire[i] \in Record
    BY <1>1, ElementOfSeq DEF IInv
  <2> QED BY <2>1, <2>2, Zenon DEF RecordsFit
<1> QED BY <1>1, IInvariant, PTL

-----------------------------------------------------------------------------
(* A closed stream is closed for good.                                     *)

\* A write of one stream's buffer leaves the other stream alone.
LEMMA WriteOthers ==
    ASSUME IInv, NEW s \in Stream, NEW r, NEW ok, NEW err,
           WriteItAll(s, r, ok, err), NEW t \in Stream, t # s
    PROVE  /\ stream'[t] = stream[t] /\ received'[t] = received[t]
           /\ failed'[t] = failed[t]
<1>1. stream \in [Stream -> StreamState] /\ received \in [Stream -> Seq(Nat)]
      /\ failed \in [Stream -> BOOLEAN]
  BY Zenon DEF IInv, TypeOK
<1>2. CASE WriteOk(s, r, ok)
  BY <1>1, <1>2, Zenon DEF WriteOk
<1>3. CASE WriteFails(s, r, err)
  <2>1. PICK k \in 0..(Len(Units(s, r)) - 1) :
          /\ received' = IF k = 0 THEN received
                         ELSE [received EXCEPT ![s] = received[s] \o Content(r)]
          /\ stream' = [stream EXCEPT ![s] = err]
          /\ failed' = [failed EXCEPT ![s] = TRUE]
    BY <1>3, Zenon DEF WriteFails
  <2> QED BY <2>1, <1>1, Zenon
<1> QED BY <1>2, <1>3 DEF WriteItAll

\* What FCloseIsFinal says of one stream.
Final(t) ==
    /\ accepted'[t] = accepted[t]
    /\ received'[t] = received[t]
    /\ stream'[t].raw = stream[t].raw

\* A stream that FCGX_FClose returned for has no room and is closed, and is not
\* the one that a close in progress is about.
LEMMA FClosedProps ==
    ASSUME IInv, NEW t \in Stream, stream[t].wasFCloseCalled
    PROVE  /\ Room(t) = 0 /\ stream[t].isClosed /\ stream[t].rawWrite
           /\ ~Closing(t)
<1>1. BufferOK(t, stream[t])
  BY Zenon DEF IInv
<1> QED BY <1>1, Zenon DEF Room, BufferOK, Closing, IInv, WritersOK

\* An output call moves nothing into a stream that is closed for good, and
\* never touches the other stream.
LEMMA MoveIsFinal ==
    ASSUME IInv, NEW s \in Stream, PutFits(s) \/ PutFills(s),
           NEW t \in Stream, stream[t].wasFCloseCalled
    PROVE  Final(t)
<1>1. /\ stream[s] \in StreamState /\ accepted[s] \in Nat
      /\ accepted \in [Stream -> Nat] /\ stream \in [Stream -> StreamState]
      /\ call.pieces \in Seq(Nat)
  BY ModeProps, Zenon DEF IInv, TypeOK, Call
<1>2. PICK m \in Nat : Move(s, m) /\ m <= Room(s)
  <2>1. CASE PutFits(s)
    <3>1. Head(call.pieces) \in Nat
      BY <1>1, <2>1, HeadTailProperties, Zenon DEF PutFits, Putting
    <3> QED BY <2>1, <3>1 DEF PutFits
  <2>2. CASE PutFills(s)
    <3>1. Room(s) \in Nat
      BY RoomProps
    <3> QED BY <2>2, <3>1 DEF PutFills
  <2> QED BY <2>1, <2>2
<1>3. /\ stream' = [stream EXCEPT ![s].body = @ \o Run(accepted[s], m)]
      /\ accepted' = [accepted EXCEPT ![s] = @ + m]
      /\ received' = received
  BY <1>2 DEF Move, peer
<1>4. stream'[t].raw = stream[t].raw
  <2>1. CASE t = s
    BY <2>1, <1>1, <1>3 DEF StreamState
  <2>2. CASE t # s
    BY <2>2, <1>1, <1>3
  <2> QED BY <2>1, <2>2
<1>5. accepted'[t] = accepted[t]
  <2>1. CASE t = s
    <3>1. m = 0
      BY <2>1, <1>2, FClosedProps
    <3> QED BY <2>1, <3>1, <1>1, <1>3
  <2>2. CASE t # s
    BY <2>2, <1>1, <1>3
  <2> QED BY <2>1, <2>2
<1> QED BY <1>3, <1>4, <1>5 DEF Final

\* A buffer that is emptied is another stream's.
LEMMA EmptyingIsFinal ==
    ASSUME IInv, NEW s \in Stream, NEW t \in Stream, stream[t].wasFCloseCalled,
           PutEmpties(s) \/ FFlush(s) \/ CloseEmpties(s)
    PROVE  Final(t)
<1>1. ~stream[s].isClosed /\ EmptyBuff(s) /\ accepted' = accepted
  BY DEF PutEmpties, FFlush, CloseEmpties
<1>2. t # s
  BY <1>1, FClosedProps
<1>3. stream'[t] = stream[t] /\ received'[t] = received[t]
  BY <1>1, <1>2, WriteOthers, Zenon DEF EmptyBuff
<1> QED BY <1>1, <1>3, Zenon DEF Final

\* So are the close that begins and the one that goes on.
LEMMA ClosingIsFinal ==
    ASSUME IInv, NEW s \in Stream, NEW t \in Stream, stream[t].wasFCloseCalled,
           FCloseBegins(s) \/ ClosePuts(s) \/ CloseDrops(s) \/ FCloseEnds(s)
    PROVE  Final(t)
<1>0. stream \in [Stream -> StreamState]
  BY Zenon DEF IInv, TypeOK
<1>1. CASE FCloseBegins(s)
  <2>1. /\ t # s /\ UNCHANGED <<received, accepted>>
        /\ stream' = [stream EXCEPT ![s] = [Framed(@) EXCEPT !.rawWrite = TRUE]]
    BY <1>1 DEF FCloseBegins, peer
  <2> QED BY <1>0, <2>1, Zenon DEF Final
<1>2. CASE ClosePuts(s)
  <2>1. /\ t # s /\ UNCHANGED <<received, accepted>>
        /\ stream' = [stream EXCEPT ![s].raw = Append(@, Head(call.todo))]
    BY <1>2, FClosedProps DEF ClosePuts, peer
  <2> QED BY <1>0, <2>1, Zenon DEF Final
<1>3. CASE CloseDrops(s)
  BY <1>3 DEF CloseDrops, peer, Final
<1>4. CASE FCloseEnds(s)
  <2>1. t # s /\ accepted' = accepted
    BY <1>4, FClosedProps DEF FCloseEnds
  <2>2. CASE Used(stream[s]) = 0
    <3>1. stream' = [stream EXCEPT ![s] = Closed(stream[s])] /\ received' = received
      BY <1>4, <2>2 DEF FCloseEnds, peer
    <3> QED BY <1>0, <2>1, <3>1, Zenon DEF Final
  <2>3. CASE Used(stream[s]) # 0
    <3>1. WriteItAll(s, stream[s], Closed(Emptied(stream[s])),
                     Closed(Errored(stream[s])))
      BY <1>4, <2>3 DEF FCloseEnds
    <3>2. stream'[t] = stream[t] /\ received'[t] = received[t]
      BY <2>1, <3>1, WriteOthers, Zenon
    <3> QED BY <2>1, <3>2, Zenon DEF Final
  <2> QED BY <2>2, <2>3
<1> QED BY <1>1, <1>2, <1>3, <1>4

\* No step of the application or of the library moves a byte or a record in or
\* out of a closed stream, before the next request.
LEMMA FinalStep ==
    ASSUME IInv, [Next]_vars, NEW t \in Stream, stream[t].wasFCloseCalled,
           conn = "open"
    PROVE  Final(t)
<1>1. ASSUME UNCHANGED <<stream, received, accepted>> PROVE Final(t)
  BY <1>1 DEF Final
<1>2. CASE UNCHANGED vars
  BY <1>1, <1>2 DEF vars, peer
<1>3. CASE App
  <2>1. ASSUME NEW s \in Stream, NEW counts \in Prints, VFPrintF(s, counts)
        PROVE  Final(t)
    BY <1>1, <2>1 DEF VFPrintF, peer
  <2>2. ASSUME NEW s \in Stream, FFlush(s) PROVE Final(t)
    BY <2>2, EmptyingIsFinal
  <2>3. ASSUME NEW s \in Stream, ClearError(s) PROVE Final(t)
    <3>1. /\ stream' = [stream EXCEPT ![s].error = FALSE]
          /\ UNCHANGED <<received, accepted>>
      BY <2>3 DEF ClearError, peer
    <3>2. stream \in [Stream -> StreamState]
      BY Zenon DEF IInv, TypeOK
    <3> QED BY <3>1, <3>2 DEF Final, StreamState
  <2>4. ASSUME NEW s \in Stream, FCloseBegins(s) PROVE Final(t)
    BY <2>4, ClosingIsFinal
  <2>5. ASSUME NEW status \in Status, SetExitStatus(status) PROVE Final(t)
    BY <1>1, <2>5 DEF SetExitStatus, peer
  <2>6. ASSUME FinishBegins PROVE Final(t)
    BY <1>1, <2>6 DEF FinishBegins, peer
  <2>7. ~Accept
    BY DEF Accept
  <2> QED BY <1>3, <2>1, <2>2, <2>3, <2>4, <2>5, <2>6, <2>7, Zenon DEF App
<1>4. CASE Library
  <2>1. ASSUME NEW s \in Stream, PutFits(s) \/ PutFills(s) PROVE Final(t)
    BY <2>1, MoveIsFinal
  <2>2. ASSUME NEW s \in Stream, PutEmpties(s) \/ CloseEmpties(s) PROVE Final(t)
    BY <2>2, EmptyingIsFinal
  <2>3. ASSUME NEW s \in Stream, PutRefused(s) \/ FinishSkips(s) PROVE Final(t)
    BY <1>1, <2>3 DEF PutRefused, FinishSkips, peer
  <2>4. ASSUME NEW s \in Stream,
               FCloseBegins(s) \/ ClosePuts(s) \/ CloseDrops(s) \/ FCloseEnds(s)
        PROVE  Final(t)
    BY <2>4, ClosingIsFinal
  <2>5. ASSUME PutReturns \/ FinishFrees PROVE Final(t)
    BY <1>1, <2>5 DEF PutReturns, FinishFrees, peer
  <2> QED BY <1>4, <2>1, <2>2, <2>3, <2>4, <2>5, Zenon DEF Library
<1> QED BY <1>2, <1>3, <1>4 DEF Next

\* After FCGX_FClose returned, nothing enters or leaves the stream until the next
\* request: not by a late output call, and not by FCGX_Finish_r, which closes it
\* a second time (FCGX_PutStr, fcgiapp.c:310-342, FCGX_FClose, 912-929,
\* and FCGX_Finish_r, 2003-2022).
THEOREM CloseIsFinal == Spec => FCloseIsFinal
<1>1. IInv /\ [Next]_vars =>
        [\A s \in Stream :
            stream[s].wasFCloseCalled /\ conn = "open" =>
                /\ accepted'[s] = accepted[s]
                /\ received'[s] = received[s]
                /\ stream'[s].raw = stream[s].raw]_vars
  BY FinalStep, Zenon DEF Final
<1> QED BY <1>1, IInvariant, PTL DEF Spec, FCloseIsFinal

-----------------------------------------------------------------------------
(* What FCGX_Finish_r finds.                                               *)

\* A stream stays closed until the next request.
LEMMA ClosedStays ==
    ASSUME IInv, [Next]_vars, conn = "open",
           NEW t \in Stream, stream[t].wasFCloseCalled
    PROVE  stream'[t].wasFCloseCalled
<1>0. stream \in [Stream -> StreamState]
  BY Zenon DEF IInv, TypeOK
<1>1. ASSUME UNCHANGED stream PROVE stream'[t].wasFCloseCalled
  BY <1>1
<1>2. ASSUME NEW s \in Stream, NEW q \in StreamState,
             stream' = [stream EXCEPT ![s] = q],
             stream[s].wasFCloseCalled => q.wasFCloseCalled
      PROVE  stream'[t].wasFCloseCalled
  BY <1>0, <1>2
<1>3. ASSUME NEW s \in Stream, PutFits(s) \/ PutFills(s)
      PROVE  stream'[t].wasFCloseCalled
  <2>1. stream' = [stream EXCEPT ![s].body = stream'[s].body]
    BY <1>0, <1>3 DEF PutFits, PutFills, Move
  <2> QED BY <2>1, <1>0 DEF StreamState
<1>4. ASSUME NEW s \in Stream,
             PutEmpties(s) \/ FFlush(s) \/ CloseEmpties(s) \/ FCloseBegins(s)
             \/ ClosePuts(s) \/ CloseDrops(s) \/ FCloseEnds(s)
      PROVE  stream'[t].wasFCloseCalled
  <2>1. CASE t = s
    <3>1. FALSE \/ CloseDrops(s)
      BY <1>4, <2>1, FClosedProps DEF PutEmpties, FFlush, CloseEmpties, FCloseBegins,
                                      ClosePuts, FCloseEnds
    <3> QED BY <3>1, <1>1 DEF CloseDrops
  <2>2. CASE t # s
    <3>1. CASE FCloseBegins(s) \/ ClosePuts(s) \/ CloseDrops(s)
      BY <1>0, <2>2, <3>1 DEF FCloseBegins, ClosePuts, CloseDrops
    <3>2. CASE PutEmpties(s) \/ FFlush(s) \/ CloseEmpties(s)
      <4>1. EmptyBuff(s)
        BY <3>2 DEF PutEmpties, FFlush, CloseEmpties
      <4> QED BY <4>1, <2>2, WriteOthers, Zenon DEF EmptyBuff
    <3>3. CASE FCloseEnds(s) /\ Used(stream[s]) = 0
      BY <1>0, <2>2, <3>3 DEF FCloseEnds
    <3>4. CASE FCloseEnds(s) /\ Used(stream[s]) # 0
      <4>1. WriteItAll(s, stream[s], Closed(Emptied(stream[s])),
                       Closed(Errored(stream[s])))
        BY <3>4 DEF FCloseEnds
      <4> QED BY <4>1, <2>2, WriteOthers, Zenon
    <3> QED BY <1>4, <3>1, <3>2, <3>3, <3>4
  <2> QED BY <2>1, <2>2
<1>5. ASSUME NEW s \in Stream, ClearError(s) PROVE stream'[t].wasFCloseCalled
  BY <1>0, <1>5 DEF ClearError, StreamState
<1>6. CASE App
  <2>1. ASSUME NEW s \in Stream, NEW counts \in Prints, VFPrintF(s, counts)
        PROVE  stream'[t].wasFCloseCalled
    BY <1>1, <2>1 DEF VFPrintF
  <2>2. ASSUME NEW status \in Status, SetExitStatus(status)
        PROVE  stream'[t].wasFCloseCalled
    BY <1>1, <2>2 DEF SetExitStatus
  <2>3. ASSUME FinishBegins PROVE stream'[t].wasFCloseCalled
    BY <1>1, <2>3 DEF FinishBegins
  <2>4. ~Accept
    BY DEF Accept
  <2> QED BY <1>4, <1>5, <1>6, <2>1, <2>2, <2>3, <2>4, Zenon DEF App
<1>7. CASE Library
  <2>1. ASSUME NEW s \in Stream, PutRefused(s) \/ FinishSkips(s)
        PROVE  stream'[t].wasFCloseCalled
    BY <1>1, <2>1 DEF PutRefused, FinishSkips
  <2>2. ASSUME PutReturns \/ FinishFrees PROVE stream'[t].wasFCloseCalled
    BY <1>1, <2>2 DEF PutReturns, FinishFrees
  <2> QED BY <1>3, <1>4, <1>7, <2>1, <2>2, Zenon DEF Library
<1>8. CASE UNCHANGED vars
  BY <1>1, <1>8 DEF vars
<1> QED BY <1>6, <1>7, <1>8 DEF Next

\* A call in progress tells where FCGX_Finish_r is.
LEMMA CallPhases ==
    ASSUME FinishIInv
    PROVE  /\ call.op = "put" => conn = "open" /\ finish = "no"
           /\ \A s \in Stream : Closing(s) => conn = "open" /\ finish \in {"no", s}
           /\ conn \in {"open", "kept", "closed"}
           /\ finish \in {"no", "err", "out", "free"}
<1>1. conn \in {"open", "kept", "closed"} /\ finish \in {"no", "err", "out", "free"}
  BY Zenon DEF FinishIInv, IInv, TypeOK
<1> QED BY <1>1 DEF FinishIInv, Phases, Closing, Stream

\* The close that ends takes FCGX_Finish_r on to the other stream, or to the
\* connection when both are closed.
LEMMA AfterClosePhases ==
    ASSUME FinishIInv, NEW s \in Stream, conn = "open", finish \in {"no", s},
           stream'[s].wasFCloseCalled,
           \A t \in Stream : stream[t].wasFCloseCalled => stream'[t].wasFCloseCalled,
           call'.op = "idle", conn' = conn, finish' = AfterClose(s)
    PROVE  Phases'
<1>1. CASE finish = "no"
  BY <1>1 DEF Phases, AfterClose, Stream
<1>2. CASE finish = s /\ s = "err"
  BY <1>2 DEF Phases, AfterClose, Stream
<1>3. CASE finish = s /\ s = "out"
  <2>1. stream["err"].wasFCloseCalled
    BY <1>3 DEF FinishIInv, Phases
  <2> QED BY <1>3, <2>1 DEF Phases, AfterClose, Stream
<1> QED BY <1>1, <1>2, <1>3 DEF Stream

\* Every step keeps to the order of FCGX_Finish_r (fcgiapp.c:2003-2046).
LEMMA PhasesStep == FinishIInv /\ [Next]_vars => Phases'
<1> SUFFICES ASSUME FinishIInv, [Next]_vars PROVE Phases'
  OBVIOUS
<1>0. IInv /\ Phases
  BY DEF FinishIInv
<1>1. ASSUME conn' = "open", finish' = "no" PROVE Phases'
  BY <1>1 DEF Phases, Stream
<1>2. ASSUME conn = "open" PROVE
         \A t \in Stream : stream[t].wasFCloseCalled => stream'[t].wasFCloseCalled
  BY <1>0, <1>2, ClosedStays
<1>3. ASSUME NEW s \in Stream, call'.op = "close", call'.s = s,
             conn = "open", finish \in {"no", s}, conn' = conn, finish' = finish
      PROVE  Phases'
  <2>1. finish = "out" => stream'["err"].wasFCloseCalled
    BY <1>0, <1>2, <1>3 DEF Phases, Stream
  <2> QED BY <1>3, <2>1 DEF Phases, Stream
<1>4. CASE App
  <2>1. CASE FinishBegins
    BY <2>1 DEF FinishBegins, AppMayCall, request, Phases, Stream
  <2>2. CASE Accept
    BY <1>0, <1>1, <2>2 DEF Accept, Phases
  <2>3. ASSUME NEW s \in Stream, NEW counts \in Prints, VFPrintF(s, counts)
        PROVE  Phases'
    BY <1>1, <2>3 DEF VFPrintF, AppMayCall, request
  <2>4. ASSUME NEW s \in Stream, FFlush(s) \/ ClearError(s) PROVE Phases'
    BY <1>1, <2>4 DEF FFlush, ClearError, AppMayCall, request
  <2>5. ASSUME NEW s \in Stream, finish = "no" /\ FCloseBegins(s) PROVE Phases'
    BY <1>1, <2>5 DEF FCloseBegins, request
  <2>6. ASSUME NEW status \in Status, SetExitStatus(status) PROVE Phases'
    BY <1>1, <2>6 DEF SetExitStatus, AppMayCall
  <2> QED BY <1>4, <2>1, <2>2, <2>3, <2>4, <2>5, <2>6, Zenon DEF App
<1>5. CASE Library
  <2>1. ASSUME NEW s \in Stream,
               PutFits(s) \/ PutFills(s) \/ PutEmpties(s) \/ PutRefused(s)
        PROVE  Phases'
    <3>1. call.op = "put" /\ conn' = conn /\ finish' = finish
      BY <2>1 DEF PutFits, PutFills, PutEmpties, PutRefused, Putting, Move, request
    <3> QED BY <3>1, <1>1, CallPhases
  <2>2. ASSUME NEW s \in Stream, FCloseBegins(s) PROVE Phases'
    <3>1. /\ call'.op = "close" /\ call'.s = s /\ conn = "open"
          /\ finish \in {"no", s} /\ conn' = conn /\ finish' = finish
      BY <2>2 DEF FCloseBegins, request
    <3> QED BY <3>1, <1>3
  <2>3. ASSUME NEW s \in Stream, ClosePuts(s) \/ CloseEmpties(s) \/ CloseDrops(s)
        PROVE  Phases'
    <3>1. call \in Call
      BY <1>0, Zenon DEF IInv, TypeOK
    <3>2. Closing(s) /\ conn' = conn /\ finish' = finish
      BY <2>3 DEF ClosePuts, CloseEmpties, CloseDrops, request
    <3>3. call'.op = call.op /\ call'.s = call.s
      BY <2>3, <3>1 DEF ClosePuts, CloseEmpties, CloseDrops, Call
    <3> QED BY <3>2, <3>3, <1>3, CallPhases DEF Closing
  <2>4. ASSUME NEW s \in Stream, FCloseEnds(s) PROVE Phases'
    <3>1. conn = "open" /\ finish \in {"no", s}
      BY <2>4, CallPhases DEF FCloseEnds
    <3>2. call'.op = "idle" /\ conn' = conn /\ finish' = AfterClose(s)
      BY <2>4 DEF FCloseEnds, Idle
    <3>3. stream'[s].wasFCloseCalled
      <4>0. stream \in [Stream -> StreamState] /\ stream[s] \in StreamState
        BY <1>0, Zenon DEF IInv, TypeOK
      <4>1. \E q \in {Closed(stream[s]), Closed(Emptied(stream[s])),
                      Closed(Errored(stream[s]))} :
               stream' = [stream EXCEPT ![s] = q]
        BY <2>4 DEF FCloseEnds, WriteItAll, WriteOk, WriteFails
      <4>2. \A r \in StreamState : Closed(r).wasFCloseCalled
        BY DEF Closed, StreamState
      <4>3. Emptied(stream[s]) \in StreamState /\ Errored(stream[s]) \in StreamState
        <5>1. /\ <<>> \in Seq(Nat) /\ <<>> \in Seq(Unit) /\ 0 \in Nat
              /\ TRUE \in BOOLEAN
          OBVIOUS
        <5> QED BY <4>0, <5>1 DEF Emptied, Errored, StreamState
      <4> QED BY <4>0, <4>1, <4>2, <4>3, Zenon
    <3> QED BY <3>1, <3>2, <3>3, <1>2, AfterClosePhases
  <2>5. ASSUME NEW s \in Stream, FinishSkips(s) PROVE Phases'
    <3>1. conn = "open"
      BY <1>0, <2>5 DEF FinishSkips, Phases, Stream
    <3>2. /\ finish = s /\ stream'[s].wasFCloseCalled
          /\ call'.op = "idle" /\ conn' = conn /\ finish' = AfterClose(s)
      BY <2>5 DEF FinishSkips, request
    <3> QED BY <3>1, <3>2, <1>2, AfterClosePhases
  <2>6. CASE PutReturns
    <3>1. call.op = "put" /\ conn' = conn /\ finish' = finish
      BY <2>6 DEF PutReturns, request
    <3> QED BY <3>1, <1>1, CallPhases
  <2>7. CASE FinishFrees
    BY <1>0, <2>7 DEF FinishFrees, Phases, Stream
  <2> QED BY <1>5, <2>1, <2>2, <2>3, <2>4, <2>5, <2>6, <2>7, Zenon DEF Library
<1>6. CASE UNCHANGED vars
  BY <1>0, <1>6 DEF vars, request, Phases
<1> QED BY <1>4, <1>5, <1>6 DEF Next

\* A write of a buffer keeps the flags true, however it ends.
LEMMA WriteFlags ==
    ASSUME FinishIInv, NEW s \in Stream, NEW r, NEW ok, NEW err,
           WriteItAll(s, r, ok, err),
           ok.wasFCloseCalled => ok.body = <<>>,
           ok.isClosed => ok.wasFCloseCalled,
           ok.error = stream[s].error, ok.isAnythingWritten,
           err.error, err.isAnythingWritten, cleared' = cleared
    PROVE  \A t \in Stream : FlagsOK(t, stream[t])'
<1>1. /\ stream \in [Stream -> StreamState] /\ failed \in [Stream -> BOOLEAN]
      /\ \A t \in Stream : FlagsOK(t, stream[t])
  BY Zenon DEF FinishIInv, IInv, TypeOK
<1>2. ASSUME NEW t \in Stream, t # s PROVE FlagsOK(t, stream[t])'
  <2>1. /\ stream'[t] = stream[t] /\ received'[t] = received[t]
        /\ failed'[t] = failed[t]
    BY <1>2, WriteOthers, Zenon DEF FinishIInv
  <2> QED BY <2>1, <1>1, Zenon DEF FlagsOK
<1>3. FlagsOK(s, stream[s])'
  <2>1. CASE WriteOk(s, r, ok)
    <3>1. stream'[s] = ok /\ failed' = failed
      BY <1>1, <2>1, Zenon DEF WriteOk
    <3>2. FlagsOK(s, stream[s])
      BY <1>1
    <3> QED BY <3>1, <3>2, Zenon DEF FlagsOK
  <2>2. CASE WriteFails(s, r, err)
    <3>1. stream'[s] = err /\ failed'[s] = TRUE
      BY <1>1, <2>2, Zenon DEF WriteFails
    <3> QED BY <3>1, Zenon DEF FlagsOK
  <2> QED BY <2>1, <2>2 DEF WriteItAll
<1> QED BY <1>2, <1>3

\* What emptying, failing and closing a buffer do to its flags.
LEMMA FlagsOfWrites ==
    ASSUME NEW r \in StreamState
    PROVE  /\ Emptied(r).body = <<>> /\ Emptied(r).raw = <<>>
           /\ Emptied(r).isAnythingWritten /\ Errored(r).isAnythingWritten
           /\ Emptied(r).error = r.error /\ Errored(r).error
           /\ Emptied(r).isClosed = r.isClosed
           /\ Emptied(r).wasFCloseCalled = r.wasFCloseCalled
           /\ Emptied(r).rawWrite = r.rawWrite
           /\ Emptied(r) \in StreamState /\ Errored(r) \in StreamState
           /\ Closed(r).body = r.body /\ Closed(r).error = r.error
           /\ Closed(r).isAnythingWritten = r.isAnythingWritten
           /\ Closed(r).wasFCloseCalled /\ Closed(r).isClosed
           /\ Framed(r).error = r.error /\ Framed(r).isClosed = r.isClosed
           /\ Framed(r).wasFCloseCalled = r.wasFCloseCalled
           /\ Framed(r).isAnythingWritten = r.isAnythingWritten
<1>1. /\ <<>> \in Seq(Nat) /\ <<>> \in Seq(Unit) /\ 0 \in Nat
      /\ TRUE \in BOOLEAN
  OBVIOUS
<1>2. Emptied(r) \in StreamState /\ Errored(r) \in StreamState
  BY <1>1 DEF Emptied, Errored, StreamState
<1> QED BY <1>2 DEF Emptied, Errored, Closed, Framed, StreamState

\* Emptying the buffer of a stream that is open.
LEMMA EmptyingFlags ==
    ASSUME FinishIInv, NEW s \in Stream,
           PutEmpties(s) \/ FFlush(s) \/ CloseEmpties(s)
    PROVE  \A t \in Stream : FlagsOK(t, stream[t])'
<1>1. ~stream[s].isClosed /\ EmptyBuff(s) /\ cleared' = cleared
  BY DEF PutEmpties, FFlush, CloseEmpties, ghosts
<1>2. stream[s] \in StreamState /\ ~stream[s].wasFCloseCalled
  BY <1>1, ModeProps, FClosedProps, Zenon DEF FinishIInv
<1> DEFINE r == IF stream[s].rawWrite THEN stream[s] ELSE Framed(stream[s])
<1>3. /\ r \in StreamState /\ ~r.isClosed /\ ~r.wasFCloseCalled
      /\ r.error = stream[s].error
  <2>1. CASE stream[s].rawWrite
    BY <1>1, <1>2, <2>1
  <2>2. CASE ~stream[s].rawWrite
    <3>1. Framed(stream[s]) \in StreamState
      <4>1. BufferOK(s, stream[s])
        BY ModeProps, Zenon DEF FinishIInv
      <4> QED BY <2>2, <4>1, <1>2, FramedProps, Zenon DEF Ready
    <3> QED BY <1>1, <1>2, <2>2, <3>1, FlagsOfWrites, Zenon
  <2> QED BY <2>1, <2>2
<1>4. WriteItAll(s, r, Emptied(r), Errored(r))
  BY <1>1, Zenon DEF EmptyBuff
<1> HIDE DEF r
<1>5. /\ ~Emptied(r).wasFCloseCalled /\ ~Emptied(r).isClosed
      /\ Emptied(r).error = stream[s].error /\ Emptied(r).isAnythingWritten
      /\ Errored(r).error /\ Errored(r).isAnythingWritten
  BY <1>3, FlagsOfWrites, Zenon
<1> QED BY <1>1, <1>4, <1>5, WriteFlags, Zenon

\* A step that replaces a stream and writes nothing.
LEMMA QuietFlags ==
    ASSUME FinishIInv, NEW s \in Stream, NEW q,
           stream' = [stream EXCEPT ![s] = q], FlagsOK(s, q),
           UNCHANGED <<received, failed, cleared>>
    PROVE  \A t \in Stream : FlagsOK(t, stream[t])'
<1>1. /\ stream \in [Stream -> StreamState]
      /\ \A t \in Stream : FlagsOK(t, stream[t])
  BY Zenon DEF FinishIInv, IInv, TypeOK
<1>2. \A t \in Stream : stream'[t] = IF t = s THEN q ELSE stream[t]
  BY <1>1, Zenon
<1>3. \A t \in Stream : FlagsOK(t, stream'[t])
  BY <1>1, <1>2, Zenon
<1> QED BY <1>3, Zenon DEF FlagsOK

\* An output call puts nothing into a closed stream.
LEMMA MoveFlags ==
    ASSUME FinishIInv, NEW s \in Stream, PutFits(s) \/ PutFills(s)
    PROVE  \A t \in Stream : FlagsOK(t, stream[t])'
<1>1. /\ stream[s] \in StreamState /\ accepted[s] \in Nat
      /\ call.pieces \in Seq(Nat) /\ FlagsOK(s, stream[s])
      /\ Room(s) \in Nat
  BY ModeProps, RoomProps, Zenon DEF FinishIInv, IInv, TypeOK, Call
<1>2. PICK m \in Nat : Move(s, m) /\ m <= Room(s)
  <2>1. CASE PutFits(s)
    <3>1. Head(call.pieces) \in Nat
      BY <1>1, <2>1, HeadTailProperties, Zenon DEF PutFits, Putting
    <3> QED BY <2>1, <3>1 DEF PutFits
  <2>2. CASE PutFills(s)
    BY <2>2, <1>1 DEF PutFills
  <2> QED BY <2>1, <2>2
<1> DEFINE b == stream[s].body \o Run(accepted[s], m)
           q == [stream[s] EXCEPT !.body = b]
<1>3. /\ stream' = [stream EXCEPT ![s] = q]
      /\ UNCHANGED <<received, failed, cleared>>
  BY <1>2 DEF Move, peer, ghosts
<1>4. stream[s].wasFCloseCalled => b = stream[s].body
  <2> SUFFICES ASSUME stream[s].wasFCloseCalled PROVE b = stream[s].body
    OBVIOUS
  <2>1. m = 0
    BY <1>2, FClosedProps DEF FinishIInv
  <2>2. Run(accepted[s], 0) = <<>>
    BY DEF Run
  <2>3. stream[s].body \in Seq(Nat)
    BY <1>1 DEF StreamState
  <2> QED BY <2>1, <2>2, <2>3, ConcatEmptySeq
<1> HIDE DEF b
<1>5. /\ q.body = b /\ q.wasFCloseCalled = stream[s].wasFCloseCalled
      /\ q.error = stream[s].error /\ q.isClosed = stream[s].isClosed
      /\ q.isAnythingWritten = stream[s].isAnythingWritten
  BY <1>1 DEF StreamState
<1> HIDE DEF q
<1>6. FlagsOK(s, q)
  BY <1>1, <1>4, <1>5, Zenon DEF FlagsOK
<1> QED BY <1>3, <1>6, QuietFlags, Zenon

\* The steps of FCGX_FClose.
LEMMA ClosingFlags ==
    ASSUME FinishIInv, NEW s \in Stream,
           FCloseBegins(s) \/ ClosePuts(s) \/ FCloseEnds(s)
    PROVE  \A t \in Stream : FlagsOK(t, stream[t])'
<1> DEFINE r == stream[s]
<1>1. /\ r \in StreamState /\ FlagsOK(s, r)
      /\ \A t \in Stream : FlagsOK(t, stream[t])
  BY ModeProps, Zenon DEF FinishIInv
<1>2. CASE FCloseBegins(s)
  <2> DEFINE f == Framed(r)
             q == [f EXCEPT !.rawWrite = TRUE]
  <2>1. /\ stream' = [stream EXCEPT ![s] = q]
        /\ UNCHANGED <<received, failed, cleared>> /\ ~r.wasFCloseCalled
    BY <1>2 DEF FCloseBegins, peer, ghosts
  <2>2. /\ f \in StreamState
        /\ f.error = r.error /\ f.isClosed = r.isClosed
        /\ ~f.wasFCloseCalled /\ f.isAnythingWritten = r.isAnythingWritten
    <3>1. BufferOK(s, r) /\ ~r.rawWrite
      BY <1>2, ModeProps, Zenon DEF FinishIInv, IInv, WritersOK, FCloseBegins
    <3>2. f \in StreamState
      BY <1>1, <3>1, FramedProps, Zenon DEF Ready
    <3> QED BY <1>1, <2>1, <3>2, FlagsOfWrites, Zenon
  <2> HIDE DEF f
  <2>3. /\ q.error = f.error /\ q.isClosed = f.isClosed
        /\ q.wasFCloseCalled = f.wasFCloseCalled
        /\ q.isAnythingWritten = f.isAnythingWritten
    BY <2>2 DEF StreamState
  <2> HIDE DEF q
  <2>4. FlagsOK(s, q)
    BY <1>1, <2>1, <2>2, <2>3, Zenon DEF FlagsOK
  <2> QED BY <2>1, <2>4, QuietFlags, Zenon
<1>3. CASE ClosePuts(s)
  <2> DEFINE w == Append(r.raw, Head(call.todo))
             q == [r EXCEPT !.raw = w]
  <2>1. /\ stream' = [stream EXCEPT ![s] = q]
        /\ UNCHANGED <<received, failed, cleared>>
    BY <1>3 DEF ClosePuts, peer, ghosts
  <2> HIDE DEF w
  <2>2. /\ q.error = r.error /\ q.isClosed = r.isClosed /\ q.body = r.body
        /\ q.wasFCloseCalled = r.wasFCloseCalled
        /\ q.isAnythingWritten = r.isAnythingWritten
    BY <1>1 DEF StreamState
  <2> HIDE DEF q
  <2>3. FlagsOK(s, q)
    BY <1>1, <2>2, Zenon DEF FlagsOK
  <2> QED BY <2>1, <2>3, QuietFlags, Zenon
<1>4. CASE FCloseEnds(s)
  <2>0. cleared' = cleared
    BY <1>4 DEF FCloseEnds, ghosts
  <2>1. CASE Used(r) = 0
    <3>1. /\ stream' = [stream EXCEPT ![s] = Closed(r)]
          /\ UNCHANGED <<received, failed, cleared>>
      BY <1>4, <2>0, <2>1 DEF FCloseEnds, peer
    <3>2. r.body = <<>>
      <4>1. r.body \in Seq(Nat) /\ r.raw \in Seq(Unit)
        BY <1>1 DEF StreamState
      <4>2. Len(r.body) \in Nat /\ Len(r.raw) \in Nat
        BY <4>1, LenProperties, Zenon
      <4>3. \A x, y \in Nat : HeaderLen + x + 8 * y # 0
        BY DEF HeaderLen
      <4> QED BY <2>1, <4>2, <4>3, Zenon DEF Used
    <3>3. FlagsOK(s, Closed(r))
      <4>1. /\ Closed(r).body = r.body /\ Closed(r).error = r.error
            /\ Closed(r).isAnythingWritten = r.isAnythingWritten
            /\ Closed(r).wasFCloseCalled /\ Closed(r).isClosed
        BY <1>1, FlagsOfWrites
      <4> QED BY <1>1, <3>2, <4>1, Zenon DEF FlagsOK
    <3> HIDE DEF r
    <3> QED BY <3>1, <3>3, QuietFlags, Zenon
  <2>2. CASE Used(r) # 0
    <3> DEFINE ok == Closed(Emptied(r))
               err == Closed(Errored(r))
    <3>1. WriteItAll(s, r, ok, err)
      BY <1>4, <2>2 DEF FCloseEnds
    <3>2. /\ ok.body = <<>> /\ ok.wasFCloseCalled
          /\ ok.error = r.error /\ ok.isAnythingWritten
          /\ err.error /\ err.isAnythingWritten
      <4>1. /\ Emptied(r) \in StreamState /\ Errored(r) \in StreamState
            /\ Emptied(r).body = <<>> /\ Emptied(r).error = r.error
            /\ Emptied(r).isAnythingWritten
            /\ Errored(r).error /\ Errored(r).isAnythingWritten
        BY <1>1, FlagsOfWrites
      <4> QED BY <4>1, FlagsOfWrites, Zenon
    <3> HIDE DEF ok, err
    <3> QED BY <2>0, <3>1, <3>2, WriteFlags, Zenon
  <2> QED BY <2>1, <2>2
<1> QED BY <1>2, <1>3, <1>4

\* Every step keeps the flags true.
LEMMA FlagsStep ==
    FinishIInv /\ [Next]_vars => (\A t \in Stream : FlagsOK(t, stream[t])')
<1> SUFFICES ASSUME FinishIInv, [Next]_vars
             PROVE  \A t \in Stream : FlagsOK(t, stream[t])'
  OBVIOUS
<1>0. /\ stream \in [Stream -> StreamState]
      /\ \A t \in Stream : FlagsOK(t, stream[t])
  BY Zenon DEF FinishIInv, IInv, TypeOK
<1>1. ASSUME UNCHANGED <<stream, received, failed, cleared>>
      PROVE  \A t \in Stream : FlagsOK(t, stream[t])'
  BY <1>0, <1>1, Zenon DEF FlagsOK
<1>2. CASE App
  <2>1. ASSUME NEW s \in Stream, NEW counts \in Prints, VFPrintF(s, counts)
        PROVE  \A t \in Stream : FlagsOK(t, stream[t])'
    BY <1>1, <2>1 DEF VFPrintF, peer, ghosts
  <2>2. ASSUME NEW s \in Stream, ClearError(s)
        PROVE  \A t \in Stream : FlagsOK(t, stream[t])'
    <3> DEFINE q == [stream[s] EXCEPT !.error = FALSE]
    <3>1. /\ stream' = [stream EXCEPT ![s] = q]
          /\ UNCHANGED <<received, failed>> /\ cleared' = TRUE
      BY <2>2 DEF ClearError, peer
    <3>2. /\ q.isClosed = stream[s].isClosed /\ q.body = stream[s].body
          /\ q.wasFCloseCalled = stream[s].wasFCloseCalled
          /\ q.isAnythingWritten = stream[s].isAnythingWritten
      BY <1>0 DEF StreamState
    <3> HIDE DEF q
    <3>3. \A t \in Stream : stream'[t] = IF t = s THEN q ELSE stream[t]
      BY <1>0, <3>1, Zenon
    <3> QED BY <1>0, <3>1, <3>2, <3>3, Zenon DEF FlagsOK
  <2>3. ASSUME NEW status \in Status, SetExitStatus(status)
        PROVE  \A t \in Stream : FlagsOK(t, stream[t])'
    BY <1>1, <2>3 DEF SetExitStatus, peer
  <2>4. ASSUME FinishBegins PROVE \A t \in Stream : FlagsOK(t, stream[t])'
    BY <1>1, <2>4 DEF FinishBegins, peer, ghosts
  <2>5. ASSUME Accept PROVE \A t \in Stream : FlagsOK(t, stream[t])'
    <3>1. \A t \in Stream : /\ stream'[t] = NewWriter /\ received'[t] = <<>>
                            /\ failed'[t] = FALSE
      BY <2>5 DEF Accept
    <3>2. ~NewWriter.wasFCloseCalled /\ ~NewWriter.isClosed
      BY DEF NewWriter
    <3> QED BY <3>1, <3>2, Zenon DEF FlagsOK
  <2> QED BY <1>2, <2>1, <2>2, <2>3, <2>4, <2>5, EmptyingFlags, ClosingFlags, Zenon
          DEF App
<1>3. CASE Library
  <2>1. ASSUME NEW s \in Stream, PutRefused(s) \/ CloseDrops(s) \/ FinishSkips(s)
        PROVE  \A t \in Stream : FlagsOK(t, stream[t])'
    BY <1>1, <2>1 DEF PutRefused, CloseDrops, FinishSkips, peer, ghosts
  <2>2. ASSUME PutReturns \/ FinishFrees
        PROVE  \A t \in Stream : FlagsOK(t, stream[t])'
    BY <1>1, <2>2 DEF PutReturns, FinishFrees, peer, ghosts
  <2> QED BY <1>3, <2>1, <2>2, MoveFlags, EmptyingFlags, ClosingFlags, Zenon
          DEF Library
<1>4. CASE UNCHANGED vars
  BY <1>1, <1>4 DEF vars, peer, ghosts
<1> QED BY <1>2, <1>3, <1>4 DEF Next

\* Only FCGX_Free keeps a connection, and it looks at both error codes.
LEMMA KeptStep == FinishIInv /\ [Next]_vars => KeptConnectionIsClean'
<1> SUFFICES ASSUME FinishIInv, [Next]_vars, conn' = "kept", ~cleared'
             PROVE  NoFailure'
  BY DEF KeptConnectionIsClean
<1>1. CASE FinishFrees
  <2>1. /\ \A s \in Stream : ~stream[s].error
        /\ UNCHANGED <<failed, cleared>>
    BY <1>1 DEF FinishFrees, FinishKeeps, ghosts
  <2> QED BY <2>1, Zenon DEF FinishIInv, FlagsOK, NoFailure
<1>2. CASE UNCHANGED <<conn, failed, cleared>>
  BY <1>2 DEF FinishIInv, KeptConnectionIsClean, NoFailure
<1>3. ASSUME conn' = conn, conn = "open" PROVE NoFailure'
  BY <1>3
<1>4. CASE App
  BY <1>3, <1>4 DEF App, VFPrintF, FFlush, ClearError, FCloseBegins, SetExitStatus,
                    FinishBegins, Accept, AppMayCall, request
<1>5. CASE Library
  <2>1. ASSUME NEW s \in Stream,
               PutFits(s) \/ PutFills(s) \/ PutEmpties(s) \/ PutRefused(s)
        PROVE  NoFailure'
    <3>1. call.op = "put" /\ conn' = conn
      BY <2>1 DEF PutFits, PutFills, PutEmpties, PutRefused, Putting, Move, request
    <3> QED BY <3>1, <1>3, CallPhases
  <2>2. ASSUME NEW s \in Stream,
               FCloseBegins(s) \/ ClosePuts(s) \/ CloseEmpties(s) \/ CloseDrops(s)
               \/ FCloseEnds(s)
        PROVE  NoFailure'
    <3>1. conn' = conn /\ (conn = "open" \/ Closing(s))
      BY <2>2 DEF FCloseBegins, ClosePuts, CloseEmpties, CloseDrops, FCloseEnds,
                  request
    <3> QED BY <3>1, <1>3, CallPhases
  <2>3. ASSUME NEW s \in Stream, FinishSkips(s) PROVE NoFailure'
    BY <1>2, <2>3 DEF FinishSkips, request, ghosts
  <2>4. CASE PutReturns
    BY <1>2, <2>4 DEF PutReturns, request, ghosts
  <2> QED BY <1>1, <1>5, <2>1, <2>2, <2>3, <2>4, Zenon DEF Library
<1>6. CASE UNCHANGED vars
  BY <1>2, <1>6 DEF vars, request, ghosts
<1> QED BY <1>4, <1>5, <1>6 DEF Next

\* Nothing is written, closed or failed when a request begins.
LEMMA InitFinishIInv == Init => FinishIInv
<1> SUFFICES ASSUME Init PROVE FinishIInv
  OBVIOUS
<1>1. Phases /\ KeptConnectionIsClean
  BY DEF Init, Phases, KeptConnectionIsClean, Stream
<1>2. \A s \in Stream : FlagsOK(s, stream[s])
  <2>1. \A t \in Stream : /\ stream[t] = NewWriter /\ received[t] = <<>>
                          /\ failed[t] = FALSE
    BY DEF Init
  <2>2. ~NewWriter.wasFCloseCalled /\ ~NewWriter.isClosed
    BY DEF NewWriter
  <2> QED BY <2>1, <2>2, Zenon DEF FlagsOK
<1> QED BY <1>1, <1>2, InitIInv DEF FinishIInv

\* FinishIInv is inductive.
LEMMA NextFinishIInv == FinishIInv /\ [Next]_vars => FinishIInv'
<1> SUFFICES ASSUME FinishIInv, [Next]_vars PROVE FinishIInv'
  OBVIOUS
<1>1. IInv'
  BY NextIInv DEF FinishIInv
<1> QED BY <1>1, PhasesStep, FlagsStep, KeptStep, Zenon DEF FinishIInv

\* A connection is kept for the next request only if no write of this one failed,
\* or FCGX_ClearError dropped the error that says so (FCGX_Finish_r and FCGX_Free,
\* fcgiapp.c:2003-2046).
THEOREM KeptIsClean == Spec => []KeptConnectionIsClean
<1>1. FinishIInv => KeptConnectionIsClean
  BY DEF FinishIInv
<1> QED BY <1>1, InitFinishIInv, NextFinishIInv, PTL DEF Spec

-----------------------------------------------------------------------------
(* The refinement.                                                         *)

\* What the channel calls got.
Got == [s \in Stream |-> IF failed[s] THEN <<>> ELSE received[s]]

\* A step that the channel does not see, and the steps that it does.
ChannelStep == Channel!Next \/ UNCHANGED <<accepted, Got, failed, conn # "open">>

\* Both modules number the bytes of a stream alike.
LEMMA UptoAgrees == \A n \in Nat : Channel!Upto(n) = Upto(n)
<1>1. \A n \in Nat : \A i \in 1..n : 0 + i = i
  OBVIOUS
<1> QED BY <1>1, Zenon DEF Channel!Upto, Upto, Run

\* A write delivers all that its stream took, or breaks the stream.
LEMMA WriteRefines ==
    ASSUME FinishIInv, NEW s \in Stream, NEW r, NEW ok, NEW err,
           WriteItAll(s, r, ok, err),
           ~failed[s] => Content(r) = Buffered(stream[s]),
           conn = "open", conn' = conn, accepted' = accepted
    PROVE  ChannelStep
<1>1. /\ received \in [Stream -> Seq(Nat)] /\ failed \in [Stream -> BOOLEAN]
      /\ accepted \in [Stream -> Nat] /\ StreamIntegrity
      /\ Buffered(stream[s]) \in Seq(Nat)
  <2>1. stream[s] \in StreamState /\ BufferOK(s, stream[s])
    BY ModeProps, Zenon DEF FinishIInv
  <2>2. Buffered(stream[s]) \in Seq(Nat)
    <3>1. CASE stream[s].rawWrite
      <4>1. Ready(s, stream[s])
        BY <2>1, <3>1, Zenon DEF Ready, BufferOK
      <4> QED BY <3>1, <4>1, UnitsProps, Zenon DEF Buffered
    <3>2. CASE ~stream[s].rawWrite
      BY <2>1, <3>2 DEF Buffered, StreamState
    <3> QED BY <3>1, <3>2
  <2> QED BY <2>2, Zenon DEF FinishIInv, IInv, TypeOK
<1>2. CASE WriteOk(s, r, ok)
  <2>1. /\ received' = [received EXCEPT ![s] = received[s] \o Content(r)]
        /\ failed' = failed
    BY <1>2, Zenon DEF WriteOk
  <2>2. CASE failed[s]
    <3>1. Got' = Got
      BY <1>1, <2>1, <2>2 DEF Got
    <3> QED BY <2>1, <3>1 DEF ChannelStep
  <2>3. CASE ~failed[s]
    <3>1. received[s] \o Content(r) = Upto(accepted[s])
      BY <1>1, <2>3, Zenon DEF StreamIntegrity
    <3>2. Got' = [Got EXCEPT ![s] = Channel!Upto(accepted[s])]
      <4>1. Channel!Upto(accepted[s]) = received[s] \o Content(r)
        BY <1>1, <3>1, UptoAgrees, Zenon
      <4>2. received' = [received EXCEPT ![s] = Channel!Upto(accepted[s])]
        BY <2>1, <4>1, Zenon
      <4> HIDE DEF Channel!Upto
      <4> QED BY <1>1, <2>1, <2>3, <4>2 DEF Got
    <3>3. accepted[s] \in Len(Got[s])..accepted[s]
      <4>1. Got[s] = received[s] /\ received[s] \in Seq(Nat) /\ accepted[s] \in Nat
        BY <1>1, <2>3 DEF Got
      <4>2. Len(Upto(accepted[s])) = accepted[s]
        <5>1. 0 \in Nat
          OBVIOUS
        <5> QED BY <4>1, <5>1, RunProps, Zenon DEF Upto
      <4>3. Len(received[s]) + Len(Buffered(stream[s])) = accepted[s]
        <5>1. received[s] \o Buffered(stream[s]) = Upto(accepted[s])
          BY <1>1, <2>3, Zenon DEF StreamIntegrity
        <5>2. Buffered(stream[s]) \in Seq(Nat)
          BY <1>1
        <5>3. Len(received[s] \o Buffered(stream[s]))
                  = Len(received[s]) + Len(Buffered(stream[s]))
          BY <4>1, <5>2, ConcatProperties, Zenon
        <5> QED BY <4>2, <5>1, <5>3
      <4>4. Len(Buffered(stream[s])) \in Nat /\ Len(received[s]) \in Nat
        BY <1>1, <4>1, LenProperties, Zenon
      <4>5. \A x, y, z \in Nat : x + y = z => z \in x..z
        OBVIOUS
      <4> QED BY <4>1, <4>3, <4>4, <4>5, Zenon
    <3>4. Channel!Deliver(s)
      BY <2>1, <2>3, <3>2, <3>3, Zenon DEF Channel!Deliver, Got
    <3> QED BY <3>4 DEF ChannelStep, Channel!Next
  <2> QED BY <2>2, <2>3
<1>3. CASE WriteFails(s, r, err)
  <2>1. PICK k \in 0..(Len(Units(s, r)) - 1) :
          /\ received' = IF k = 0 THEN received
                         ELSE [received EXCEPT ![s] = received[s] \o Content(r)]
          /\ failed' = [failed EXCEPT ![s] = TRUE]
    BY <1>3, Zenon DEF WriteFails
  <2>2. Got' = [Got EXCEPT ![s] = <<>>]
    <3>1. \A t \in Stream : t # s => received'[t] = received[t]
      BY <1>1, <2>1, Zenon
    <3>2. \A t \in Stream : failed'[t] = IF t = s THEN TRUE ELSE failed[t]
      BY <1>1, <2>1, Zenon
    <3> QED BY <3>1, <3>2 DEF Got
  <2>3. Channel!Break(s)
    BY <2>1, <2>2, Zenon DEF Channel!Break, Got
  <2> QED BY <2>3 DEF ChannelStep, Channel!Next
<1> QED BY <1>2, <1>3 DEF WriteItAll

\* The buffer that EmptyBuffProc writes has the stream's content.
LEMMA EmptyingRefines ==
    ASSUME FinishIInv, NEW s \in Stream,
           PutEmpties(s) \/ FFlush(s) \/ CloseEmpties(s), conn = "open"
    PROVE  ChannelStep
<1>1. EmptyBuff(s) /\ conn' = conn /\ accepted' = accepted
  BY DEF PutEmpties, FFlush, CloseEmpties, request
<1>2. stream[s] \in StreamState /\ BufferOK(s, stream[s])
  BY ModeProps, Zenon DEF FinishIInv
<1> DEFINE r == IF stream[s].rawWrite THEN stream[s] ELSE Framed(stream[s])
<1>3. Content(r) = Buffered(stream[s])
  <2>1. CASE stream[s].rawWrite
    BY <2>1, Zenon DEF Buffered
  <2>2. CASE ~stream[s].rawWrite
    <3>1. Content(Framed(stream[s])) = stream[s].body
      BY <1>2, <2>2, FramedProps, Zenon
    <3> QED BY <2>2, <3>1, Zenon DEF Buffered
  <2> QED BY <2>1, <2>2
<1>4. WriteItAll(s, r, Emptied(r), Errored(r))
  BY <1>1, Zenon DEF EmptyBuff
<1> HIDE DEF r
<1> QED BY <1>1, <1>3, <1>4, WriteRefines

\* An output call takes bytes, into an open stream.
LEMMA MoveRefines ==
    ASSUME FinishIInv, NEW s \in Stream, PutFits(s) \/ PutFills(s), conn = "open"
    PROVE  ChannelStep
<1>1. /\ accepted \in [Stream -> Nat] /\ call.pieces \in Seq(Nat)
      /\ Room(s) \in Nat
  BY RoomProps, Zenon DEF FinishIInv, IInv, TypeOK, Call
<1>2. PICK m \in Nat : Move(s, m)
  <2>1. CASE PutFits(s)
    <3>1. Head(call.pieces) \in Nat
      BY <1>1, <2>1, HeadTailProperties, Zenon DEF PutFits, Putting
    <3> QED BY <2>1, <3>1 DEF PutFits
  <2>2. CASE PutFills(s)
    BY <2>2, <1>1 DEF PutFills
  <2> QED BY <2>1, <2>2
<1>3. /\ accepted' = [accepted EXCEPT ![s] = @ + m]
      /\ UNCHANGED <<received, failed, conn>>
  BY <1>2 DEF Move, peer, request
<1>4. /\ accepted'[s] \in Nat /\ accepted'[s] >= accepted[s]
      /\ accepted' = [accepted EXCEPT ![s] = accepted'[s]]
  BY <1>1, <1>3
<1>5. Got' = Got
  BY <1>3, Zenon DEF Got
<1>6. Channel!Take(s)
  BY <1>3, <1>4, <1>5, Zenon DEF Channel!Take, Got
<1> QED BY <1>6 DEF ChannelStep, Channel!Next

\* The connection is given up when both streams are closed, and then what the
\* server got of a stream that never failed is all that the stream took.
LEMMA FinishRefines == FinishIInv /\ FinishFrees => ChannelStep
<1> SUFFICES ASSUME FinishIInv, FinishFrees PROVE ChannelStep
  OBVIOUS
<1>1. /\ conn = "open" /\ conn' # "open"
      /\ UNCHANGED <<accepted, received, failed>>
      /\ \A s \in Stream : stream[s].wasFCloseCalled
  BY DEF FinishIInv, Phases, FinishFrees, peer
<1>2. ASSUME NEW s \in Stream, ~failed[s]
      PROVE  Got[s] = Channel!Upto(accepted[s])
  <2>1. /\ stream[s].body = <<>> /\ BufferOK(s, stream[s])
        /\ received[s] \in Seq(Nat) /\ accepted[s] \in Nat
        /\ stream[s] \in StreamState
        /\ received[s] \o Buffered(stream[s]) = Upto(accepted[s])
    BY <1>1, <1>2, ModeProps, Zenon DEF FinishIInv, IInv, FlagsOK, StreamIntegrity
  <2>2. Buffered(stream[s]) = <<>>
    <3>1. stream[s].cLen \in Nat
      BY <2>1 DEF StreamState
    <3>2. stream[s].rawWrite => stream[s].cLen <= 0
      BY <2>1 DEF BufferOK
    <3>3. stream[s].rawWrite => stream[s].cLen = 0
      BY <3>1, <3>2
    <3>4. SubSeq(<<>>, 1, 0) = <<>>
      BY SubSeqEmpty
    <3> QED BY <2>1, <3>3, <3>4, Zenon DEF Buffered, Content
  <2>3. received[s] = Upto(accepted[s])
    BY <2>1, <2>2, ConcatEmptySeq
  <2> QED BY <1>2, <2>1, <2>3, UptoAgrees DEF Got
<1>3. Got' = Got
  BY <1>1, Zenon DEF Got
<1>4. Channel!End
  BY <1>1, <1>2, <1>3, Zenon DEF Channel!End, Got
<1> QED BY <1>4 DEF ChannelStep, Channel!Next

\* The next request begins with new streams.
LEMMA AcceptRefines == FinishIInv /\ Accept => ChannelStep
<1> SUFFICES ASSUME FinishIInv, Accept PROVE ChannelStep
  OBVIOUS
<1>1. /\ conn # "open" /\ conn' = "open"
      /\ accepted' = [s \in Stream |-> 0] /\ failed' = [s \in Stream |-> FALSE]
      /\ received' = [s \in Stream |-> <<>>]
  BY DEF Accept
<1>2. Got' = [s \in Stream |-> <<>>]
  BY <1>1 DEF Got
<1>3. Channel!Begin
  BY <1>1, <1>2 DEF Channel!Begin, Got
<1> QED BY <1>3 DEF ChannelStep, Channel!Next

\* Every step of the streams is a step of the channel, or none.
LEMMA StepRefines == FinishIInv /\ [Next]_vars => ChannelStep
<1> SUFFICES ASSUME FinishIInv, [Next]_vars PROVE ChannelStep
  OBVIOUS
<1>1. ASSUME UNCHANGED <<accepted, received, failed, conn>> PROVE ChannelStep
  <2>1. Got' = Got
    BY <1>1, Zenon DEF Got
  <2> QED BY <1>1, <2>1 DEF ChannelStep
<1>2. ASSUME NEW s \in Stream, FCloseBegins(s) \/ ClosePuts(s) \/ CloseDrops(s)
      PROVE  ChannelStep
  BY <1>1, <1>2 DEF FCloseBegins, ClosePuts, CloseDrops, peer, request
<1>3. ASSUME NEW s \in Stream, FCloseEnds(s) PROVE ChannelStep
  <2>1. /\ conn = "open" /\ conn' = conn /\ accepted' = accepted
        /\ stream[s].rawWrite
    BY <1>3, CallPhases, Zenon DEF FCloseEnds, Closing, FinishIInv, IInv, WritersOK
  <2>2. CASE Used(stream[s]) = 0
    BY <1>1, <1>3, <2>1, <2>2 DEF FCloseEnds, peer
  <2>3. CASE Used(stream[s]) # 0
    <3>1. WriteItAll(s, stream[s], Closed(Emptied(stream[s])),
                     Closed(Errored(stream[s])))
      BY <1>3, <2>3 DEF FCloseEnds
    <3>2. Content(stream[s]) = Buffered(stream[s])
      BY <2>1, Zenon DEF Buffered
    <3> QED BY <2>1, <3>1, <3>2, WriteRefines
  <2> QED BY <2>2, <2>3
<1>4. CASE App
  <2>1. ASSUME NEW s \in Stream, NEW counts \in Prints, VFPrintF(s, counts)
        PROVE  ChannelStep
    BY <1>1, <2>1 DEF VFPrintF, peer, request
  <2>2. ASSUME NEW s \in Stream, FFlush(s) PROVE ChannelStep
    BY <2>2, EmptyingRefines DEF FFlush, AppMayCall
  <2>3. ASSUME NEW s \in Stream, ClearError(s) PROVE ChannelStep
    BY <1>1, <2>3 DEF ClearError, peer, request
  <2>4. ASSUME NEW status \in Status, SetExitStatus(status) PROVE ChannelStep
    BY <1>1, <2>4 DEF SetExitStatus, peer
  <2>5. ASSUME FinishBegins PROVE ChannelStep
    BY <1>1, <2>5 DEF FinishBegins, peer, request
  <2> QED BY <1>2, <1>4, <2>1, <2>2, <2>3, <2>4, <2>5, AcceptRefines, Zenon DEF App
<1>5. CASE Library
  <2>1. ASSUME NEW s \in Stream, PutFits(s) \/ PutFills(s) PROVE ChannelStep
    <3>1. conn = "open"
      BY <2>1, CallPhases DEF PutFits, PutFills, Putting
    <3> QED BY <2>1, <3>1, MoveRefines
  <2>2. ASSUME NEW s \in Stream, PutEmpties(s) \/ CloseEmpties(s) PROVE ChannelStep
    <3>1. conn = "open"
      BY <2>2, CallPhases DEF PutEmpties, CloseEmpties, Putting
    <3> QED BY <2>2, <3>1, EmptyingRefines
  <2>3. ASSUME NEW s \in Stream, PutRefused(s) \/ FinishSkips(s) PROVE ChannelStep
    BY <1>1, <2>3 DEF PutRefused, FinishSkips, peer, request
  <2>4. CASE PutReturns
    BY <1>1, <2>4 DEF PutReturns, peer, request
  <2> QED BY <1>2, <1>3, <1>5, <2>1, <2>2, <2>3, <2>4, FinishRefines, Zenon
          DEF Library
<1>6. CASE UNCHANGED vars
  BY <1>1, <1>6 DEF vars, peer, request
<1> QED BY <1>4, <1>5, <1>6 DEF Next

\* Buffers, records, closes and failing writes are no more than the abstract
\* channel, which delivers what each stream took, in order, up to a failure, and
\* ends only when every stream that did not fail is delivered whole.
THEOREM Refinement == Spec => ImplementsChannel
<1>1. Init => Channel!Init
  BY DEF Init, Channel!Init
<1>2. FinishIInv /\ [Next]_vars => [Channel!Next]_(Channel!vars)
  BY StepRefines DEF ChannelStep, Got, Channel!vars
<1> QED BY <1>1, <1>2, InitFinishIInv, NextFinishIInv, PTL
        DEF Spec, ImplementsChannel, Channel!Spec

-----------------------------------------------------------------------------
(* The order of records in a sequence.                                     *)

\* Where the elements of a concatenation come from.
LEMMA ConcatAt ==
    ASSUME NEW x \in Seq(Record), NEW y \in Seq(Record)
    PROVE  /\ DOMAIN x = 1..Len(x) /\ DOMAIN y = 1..Len(y)
           /\ DOMAIN (x \o y) = 1..(Len(x) + Len(y))
           /\ Len(x) \in Nat /\ Len(y) \in Nat
           /\ \A i \in DOMAIN x : i \in DOMAIN (x \o y) /\ (x \o y)[i] = x[i]
           /\ \A j \in DOMAIN y : /\ Len(x) + j \in DOMAIN (x \o y)
                                  /\ (x \o y)[Len(x) + j] = y[j]
           /\ \A i \in DOMAIN (x \o y) :
                 i \in DOMAIN x \/ \E j \in DOMAIN y : i = Len(x) + j
<1>1. /\ x \o y \in Seq(Record) /\ Len(x \o y) = Len(x) + Len(y)
      /\ \A i \in 1 .. Len(x) + Len(y) :
            (x \o y)[i] = IF i <= Len(x) THEN x[i] ELSE y[i - Len(x)]
  BY ConcatProperties
<1>2. /\ Len(x) \in Nat /\ Len(y) \in Nat /\ DOMAIN x = 1..Len(x)
      /\ DOMAIN y = 1..Len(y) /\ DOMAIN (x \o y) = 1..Len(x \o y)
  BY <1>1, LenProperties, Zenon
<1> DEFINE a == Len(x)
           b == Len(y)
           z == x \o y
<1>3. /\ a \in Nat /\ b \in Nat
      /\ \A i \in 1..(a + b) : z[i] = IF i <= a THEN x[i] ELSE y[i - a]
      /\ DOMAIN x = 1..a /\ DOMAIN y = 1..b /\ DOMAIN z = 1..(a + b)
  BY <1>1, <1>2, Zenon
<1> HIDE DEF a, b, z
<1>4. \A i \in 1..a : i \in 1..(a + b) /\ z[i] = x[i]
  BY <1>3
<1>5. \A j \in 1..b : a + j \in 1..(a + b) /\ z[a + j] = y[j]
  <2> SUFFICES ASSUME NEW j \in 1..b
               PROVE  a + j \in 1..(a + b) /\ z[a + j] = y[j]
    OBVIOUS
  <2>1. a + j \in 1..(a + b) /\ ~(a + j <= a) /\ (a + j) - a = j
    BY <1>3
  <2> QED BY <2>1, <1>3, Zenon
<1>6. \A i \in 1..(a + b) : i \in 1..a \/ \E j \in 1..b : i = a + j
  <2> SUFFICES ASSUME NEW i \in 1..(a + b), i \notin 1..a
               PROVE  \E j \in 1..b : i = a + j
    OBVIOUS
  <2>1. i - a \in 1..b /\ i = a + (i - a)
    BY <1>3
  <2> QED BY <2>1, Zenon
<1> QED BY <1>3, <1>4, <1>5, <1>6, Zenon DEF a, b, z

LEMMA ConcatAssoc == \A x, y, z \in Seq(Record) : (x \o y) \o z = x \o (y \o z)
BY ConcatAssociative

\* A concatenation has elements of a set if its parts have.
LEMMA ConcatIn ==
    ASSUME NEW x \in Seq(Record), NEW y \in Seq(Record), NEW S
    PROVE  x \o y \in Seq(S) <=> x \in Seq(S) /\ y \in Seq(S)
<1>1. ASSUME x \in Seq(S), y \in Seq(S) PROVE x \o y \in Seq(S)
  BY <1>1, ConcatProperties, Zenon
<1>2. ASSUME x \o y \in Seq(S) PROVE x \in Seq(S) /\ y \in Seq(S)
  <2>1. \A i \in DOMAIN (x \o y) : (x \o y)[i] \in S
    BY <1>2, LenProperties, ElementOfSeq, Zenon
  <2>2. \A i \in DOMAIN x : x[i] \in S
    BY <2>1, ConcatAt, Zenon
  <2>3. \A i \in DOMAIN y : y[i] \in S
    <3>1. \A j \in DOMAIN y : /\ Len(x) + j \in DOMAIN (x \o y)
                             /\ (x \o y)[Len(x) + j] = y[j]
      BY ConcatAt, Zenon
    <3> QED BY <2>1, <3>1, Zenon
  <2>4. \A w \in Seq(Record) : (\A i \in DOMAIN w : w[i] \in S) => w \in Seq(S)
    OBVIOUS
  <2> QED BY <2>2, <2>3, <2>4, Zenon
<1> QED BY <1>1, <1>2

NoEnd == {u \in Record : u.type # "end"}

\* A concatenation has one END_REQUEST header if its parts have one between them.
LEMMA ConcatOneEnd ==
    ASSUME NEW x \in Seq(Record), NEW y \in Seq(Record)
    PROVE  OneEnd(x \o y) <=> /\ OneEnd(x) /\ OneEnd(y)
                              /\ x \in Seq(NoEnd) \/ y \in Seq(NoEnd)
<1> DEFINE a == Len(x)
           z == x \o y
<1>1. /\ \A i \in DOMAIN x : i \in DOMAIN z /\ z[i] = x[i]
      /\ \A j \in DOMAIN y : a + j \in DOMAIN z /\ z[a + j] = y[j]
      /\ \A i \in DOMAIN z : i \in DOMAIN x \/ \E j \in DOMAIN y : i = a + j
      /\ DOMAIN x = 1..a /\ DOMAIN y = 1..Len(y) /\ a \in Nat /\ Len(y) \in Nat
  BY ConcatAt, Zenon
<1>2. ASSUME NEW w \in Seq(Record)
      PROVE  w \in Seq(NoEnd) <=> \A i \in DOMAIN w : w[i].type # "end"
  BY DEF NoEnd
<1> HIDE DEF a, z
<1>3. ASSUME NEW i \in DOMAIN x, NEW j \in DOMAIN y PROVE i # a + j
  BY <1>1, <1>3
<1>4. ASSUME NEW i \in DOMAIN y, NEW j \in DOMAIN y PROVE a + i = a + j => i = j
  BY <1>1, <1>4
<1>5. ASSUME OneEnd(z) PROVE OneEnd(x)
  BY <1>1, <1>5, Zenon DEF OneEnd
<1>6. ASSUME OneEnd(z) PROVE OneEnd(y)
  BY <1>1, <1>4, <1>6, Zenon DEF OneEnd
<1>7. ASSUME OneEnd(z) PROVE x \in Seq(NoEnd) \/ y \in Seq(NoEnd)
  <2> SUFFICES ASSUME NEW i \in DOMAIN x, x[i].type = "end",
                      NEW j \in DOMAIN y, y[j].type = "end"
               PROVE  FALSE
    BY <1>2
  <2>1. i = a + j
    BY <1>1, <1>7, Zenon DEF OneEnd
  <2> QED BY <2>1, <1>3
<1>8. ASSUME OneEnd(x), y \in Seq(NoEnd) PROVE OneEnd(z)
  <2> SUFFICES ASSUME NEW i \in DOMAIN z, z[i].type = "end",
                      NEW j \in DOMAIN z, z[j].type = "end"
               PROVE  i = j
    BY DEF OneEnd
  <2>1. \A k \in DOMAIN z : z[k].type = "end" => k \in DOMAIN x /\ x[k].type = "end"
    <3>1. \A k \in DOMAIN y : y[k].type # "end"
      BY <1>2, <1>8
    <3> QED BY <3>1, <1>1
  <2> QED BY <2>1, <1>8, Zenon DEF OneEnd
<1>9. ASSUME OneEnd(y), x \in Seq(NoEnd) PROVE OneEnd(z)
  <2> SUFFICES ASSUME NEW i \in DOMAIN z, z[i].type = "end",
                      NEW j \in DOMAIN z, z[j].type = "end"
               PROVE  i = j
    BY DEF OneEnd
  <2>1. \A k \in DOMAIN z : z[k].type = "end" =>
           \E l \in DOMAIN y : k = a + l /\ y[l].type = "end"
    <3>1. \A k \in DOMAIN x : x[k].type # "end"
      BY <1>2, <1>9
    <3> QED BY <3>1, <1>1
  <2> QED BY <2>1, <1>9, Zenon DEF OneEnd
<1> QED BY <1>5, <1>6, <1>7, <1>8, <1>9, Zenon DEF z

\* The front of a sequence in order is in order, and if it has END_REQUEST's body
\* there is nothing behind it.
LEMMA FrontInOrder ==
    ASSUME NEW x \in Seq(Record), NEW y \in Seq(Record), InOrder(x \o y)
    PROVE  /\ InOrder(x)
           /\ \A i \in DOMAIN x : x[i].type = "endBody" => y = <<>>
<1> DEFINE a == Len(x)
           z == x \o y
<1>1. /\ \A i \in DOMAIN x : i \in DOMAIN z /\ z[i] = x[i]
      /\ \A j \in DOMAIN y : a + j \in DOMAIN z /\ z[a + j] = y[j]
      /\ DOMAIN x = 1..a /\ DOMAIN y = 1..Len(y) /\ a \in Nat /\ Len(y) \in Nat
  BY ConcatAt, Zenon
<1> HIDE DEF a, z
<1>2. InOrder(z)
  BY DEF z
<1>3. InOrder(x)
  BY <1>1, <1>2, Zenon DEF InOrder
<1>4. ASSUME NEW i \in DOMAIN x, x[i].type = "endBody", y # <<>> PROVE FALSE
  <2>1. 1 \in DOMAIN y
    <3>1. Len(y) # 0
      BY <1>4, EmptySeq
    <3> QED BY <3>1, <1>1
  <2>2. a + 1 \in DOMAIN z /\ i \in DOMAIN z /\ z[i].type = "endBody" /\ i < a + 1
    BY <1>1, <1>4, <2>1
  <2> QED BY <1>2, <2>2, Zenon DEF InOrder
<1> QED BY <1>3, <1>4

\* A record goes behind a sequence in order, if END_REQUEST is not before it (or
\* is about to have its body) and its stream has not ended.
LEMMA AppendInOrder ==
    ASSUME NEW x \in Seq(Record), InOrder(x), NEW u \in Record,
           \A i \in DOMAIN x : /\ x[i].type # "endBody"
                               /\ x[i].type = "end" => u.type = "endBody"
                               /\ IsEof(x[i]) => u.type # x[i].type
    PROVE  x \o <<u>> \in Seq(Record) /\ InOrder(x \o <<u>>)
<1> DEFINE a == Len(x)
           z == x \o <<u>>
<1>0. <<u>> \in Seq(Record) /\ Len(<<u>>) = 1 /\ <<u>>[1] = u
  OBVIOUS
<1>1. /\ \A i \in DOMAIN x : z[i] = x[i]
      /\ \A j \in DOMAIN <<u>> : z[a + j] = <<u>>[j]
      /\ \A i \in DOMAIN z : i \in DOMAIN x \/ \E j \in DOMAIN <<u>> : i = a + j
      /\ DOMAIN x = 1..a /\ DOMAIN <<u>> = 1..1 /\ a \in Nat
      /\ DOMAIN z = 1..(a + 1)
  <2>1. /\ \A i \in DOMAIN x : z[i] = x[i]
        /\ \A j \in DOMAIN <<u>> : z[a + j] = <<u>>[j]
        /\ \A i \in DOMAIN z : i \in DOMAIN x \/ \E j \in DOMAIN <<u>> : i = a + j
        /\ DOMAIN x = 1..a /\ a \in Nat /\ DOMAIN z = 1..(a + Len(<<u>>))
        /\ DOMAIN <<u>> = 1..Len(<<u>>)
    BY <1>0, ConcatAt, Zenon
  <2> QED BY <1>0, <2>1, Zenon
<1> HIDE DEF a, z
<1>2. /\ \A i \in DOMAIN z : i \in DOMAIN x \/ i = a + 1
      /\ z[a + 1] = u
      /\ \A i \in DOMAIN x : i < a + 1 /\ ~(a + 1 < i)
  <2>1. 1 \in DOMAIN <<u>> /\ \A j \in DOMAIN <<u>> : j = 1
    BY <1>1
  <2>2. \A i \in DOMAIN x : i < a + 1 /\ ~(a + 1 < i)
    BY <1>1
  <2> QED BY <1>0, <1>1, <2>1, <2>2, Zenon
<1>3. ~(a + 1 < a + 1)
  BY <1>1
<1>4. InOrder(z)
  <2> SUFFICES ASSUME NEW i \in DOMAIN z, NEW j \in DOMAIN z, i < j
               PROVE  /\ z[i].type # "endBody"
                      /\ z[i].type = "end" => z[j].type = "endBody"
                      /\ IsEof(z[i]) => z[j].type # z[i].type
    BY Zenon DEF InOrder
  <2>1. CASE i \in DOMAIN x /\ j \in DOMAIN x
    BY <1>1, <2>1, Zenon DEF InOrder
  <2>2. CASE i \in DOMAIN x /\ j = a + 1
    BY <1>1, <1>2, <2>2, Zenon
  <2>3. CASE i = a + 1
    BY <1>2, <1>3, <2>3, Zenon
  <2> QED BY <1>2, <2>1, <2>2, <2>3, Zenon
<1>5. z \in Seq(Record)
  BY <1>0, ConcatProperties, Zenon DEF z
<1> QED BY <1>4, <1>5 DEF z

\* The EOF of a stream is in one of the parts.
LEMMA ConcatEof ==
    ASSUME NEW x \in Seq(Record), NEW y \in Seq(Record), NEW s
    PROVE  EofIn(x \o y, s) <=> EofIn(x, s) \/ EofIn(y, s)
<1> DEFINE a == Len(x)
           z == x \o y
<1>1. /\ \A i \in DOMAIN x : i \in DOMAIN z /\ z[i] = x[i]
      /\ \A j \in DOMAIN y : a + j \in DOMAIN z /\ z[a + j] = y[j]
      /\ \A i \in DOMAIN z : i \in DOMAIN x \/ \E j \in DOMAIN y : i = a + j
  BY ConcatAt, Zenon
<1> HIDE DEF a, z
<1>2. EofIn(x, s) => EofIn(z, s)
  BY <1>1, Zenon DEF EofIn
<1>3. EofIn(y, s) => EofIn(z, s)
  BY <1>1, Zenon DEF EofIn
<1>4. EofIn(z, s) => EofIn(x, s) \/ EofIn(y, s)
  <2> SUFFICES ASSUME NEW k \in DOMAIN z, IsEof(z[k]), z[k].type = s
               PROVE  EofIn(x, s) \/ EofIn(y, s)
    BY DEF EofIn
  <2>1. CASE k \in DOMAIN x
    BY <1>1, <2>1, Zenon DEF EofIn
  <2>2. ASSUME NEW j \in DOMAIN y, k = a + j PROVE EofIn(y, s)
    <3>1. z[k] = y[j]
      BY <1>1, <2>2, Zenon
    <3> QED BY <2>2, <3>1, Zenon DEF EofIn
  <2> QED BY <1>1, <2>1, <2>2, Zenon
<1> QED BY <1>2, <1>3, <1>4 DEF z

\* What a write passes on is the front of the units.
LEMMA UnitsSplit ==
    ASSUME NEW x \in Seq(Record), NEW k \in 0..(Len(x) - 1)
    PROVE  /\ SubSeq(x, 1, k) \in Seq(Record)
           /\ SubSeq(x, k + 1, Len(x)) \in Seq(Record)
           /\ SubSeq(x, 1, k) \o SubSeq(x, k + 1, Len(x)) = x
           /\ Len(SubSeq(x, 1, k)) = k
           /\ \A i \in 1..k : SubSeq(x, 1, k)[i] = x[i]
<1>1. Len(x) \in Nat /\ \A i \in 1..Len(x) : x[i] \in Record
  BY LenProperties, ElementOfSeq, Zenon
<1> DEFINE n == Len(x)
<1>2. n \in Nat /\ k \in 0..(n - 1) /\ \A i \in 1..n : x[i] \in Record
  BY <1>1
<1>3. SubSeq(x, 1, n) = x
  BY SubSeqFull
<1> HIDE DEF n
<1>4. /\ 1 \in Int /\ k \in Int /\ n \in Int /\ k + 1 \in Int
      /\ \A i \in 1..k : x[i] \in Record
      /\ \A i \in (k + 1)..n : x[i] \in Record
      /\ k - 1 + 1 = k /\ (1 <= k \/ k = 0) /\ \A i \in 1..k : 1 + i - 1 = i
  BY <1>2
<1>5. /\ SubSeq(x, 1, k) \in Seq(Record)
      /\ Len(SubSeq(x, 1, k)) = IF 1 <= k THEN k - 1 + 1 ELSE 0
      /\ \A i \in 1..(k - 1 + 1) : SubSeq(x, 1, k)[i] = x[1 + i - 1]
  BY <1>4, SubSeqProperties
<1>6. SubSeq(x, k + 1, n) \in Seq(Record)
  BY <1>4, SubSeqProperties, Zenon
<1>7. SubSeq(x, 1, k) \o SubSeq(x, k + 1, n) = SubSeq(x, 1, n)
  <2>1. n = Len(x)
    BY DEF n
  <2>2. 1 \in 1..(Len(x) + 1) /\ k \in (1 - 1)..Len(x) /\ Len(x) \in k..Len(x)
    BY <2>1, <1>2
  <2>3. SubSeq(x, 1, k) \o SubSeq(x, k + 1, Len(x)) = SubSeq(x, 1, Len(x))
    BY <2>2, ConcatAdjacentSubSeq
  <2> QED BY <2>1, <2>3
<1>8. Len(SubSeq(x, 1, k)) = k
  BY <1>4, <1>5, Zenon
<1>9. \A i \in 1..k : SubSeq(x, 1, k)[i] = x[i]
  BY <1>4, <1>5, Zenon
<1> QED BY <1>3, <1>5, <1>6, <1>7, <1>8, <1>9 DEF n

\* The empty response.
LEMMA EmptyOrder ==
    /\ \A S : <<>> \in Seq(S)
    /\ OneEnd(<<>>) /\ InOrder(<<>>) /\ \A s : ~EofIn(<<>>, s)
BY DEF OneEnd, InOrder, EofIn

-----------------------------------------------------------------------------
(* What a close in progress has still to send.                             *)

\* The response is a sequence of well-formed records.
LEMMA ResponseProps ==
    ASSUME IInv
    PROVE  /\ wire \in Seq(Record) /\ Pending \in Seq(Record)
           /\ Response \in Seq(Record) /\ call.todo \in Seq(Record)
           /\ call.op # "close" => Pending = <<>> /\ Response = wire
           /\ \A s \in Stream : Closing(s) =>
                 /\ Units(s, stream[s]) \in Seq(Record)
                 /\ Pending = Units(s, stream[s]) \o call.todo
           /\ call.op = "close" => \E s \in Stream : Closing(s)
<1>1. wire \in Seq(Record) /\ call.todo \in Seq(Record) /\ call.s \in Stream
  BY DEF IInv, TypeOK, Call
<1>2. ASSUME NEW s \in Stream, Closing(s)
      PROVE  /\ Units(s, stream[s]) \in Seq(Record)
             /\ Pending = Units(s, stream[s]) \o call.todo
  <2>1. stream[s] \in StreamState /\ BufferOK(s, stream[s]) /\ stream[s].rawWrite
    BY <1>2, ModeProps, Zenon DEF IInv, WritersOK, Closing
  <2>2. Ready(s, stream[s])
    BY <2>1, Zenon DEF Ready, BufferOK
  <2>3. Units(s, stream[s]) \in Seq(Record)
    BY <2>2, UnitsProps, Zenon
  <2>4. Pending = Units(s, stream[s]) \o call.todo
    BY <1>2, Zenon DEF Pending, Closing
  <2> QED BY <2>3, <2>4
<1>3. CASE call.op = "close"
  <2>1. Closing(call.s)
    BY <1>3 DEF Closing
  <2>2. Pending \in Seq(Record)
    BY <1>1, <1>2, <2>1, ConcatProperties, Zenon
  <2>3. Response \in Seq(Record)
    BY <1>1, <2>2, ConcatProperties, Zenon DEF Response
  <2> QED BY <1>1, <1>2, <1>3, <2>1, <2>2, <2>3
<1>4. CASE call.op # "close"
  <2>1. Pending = <<>>
    BY <1>4, Zenon DEF Pending
  <2>2. Response = wire
    BY <1>1, <2>1, ConcatEmptySeq, Zenon DEF Response
  <2>3. <<>> \in Seq(Record)
    OBVIOUS
  <2> QED BY <1>1, <1>2, <1>4, <2>1, <2>2, <2>3
<1> QED BY <1>3, <1>4

\* A step that leaves the response as it is keeps its order.
LEMMA SameResponse ==
    ASSUME OrderIInv, Response' = Response, EndIsHeldBack',
           NoFailure' => NoFailure,
           \A s \in Stream : Ended(s)' <=> Ended(s),
           \A s \in Stream : Ended(s) => accepted'[s] = accepted[s]
    PROVE  EndsOnce' /\ EndsInOrder'
<1>1. Ending' <=> Ending
  BY Zenon DEF Ending
<1>2. EndsOnce'
  BY <1>1, Zenon DEF OrderIInv, EndsOnce
<1>3. EndsInOrder'
  <2> SUFFICES ASSUME NoFailure'
               PROVE  /\ InOrder(Response)
                      /\ \A s \in Stream :
                            IF Ended(s)'
                            THEN EofIn(Response, s) \/ (s = "err" /\ accepted'[s] = 0)
                            ELSE Response \in Seq(NoEof(s))
                      /\ Ending' => /\ Response # <<>>
                                    /\ Response[Len(Response)].type = "endBody"
    BY Zenon DEF EndsInOrder
  <2>1. /\ InOrder(Response)
        /\ \A s \in Stream : IF Ended(s)
              THEN EofIn(Response, s) \/ (s = "err" /\ accepted[s] = 0)
              ELSE Response \in Seq(NoEof(s))
        /\ Ending => Response # <<>> /\ Response[Len(Response)].type = "endBody"
    BY Zenon DEF OrderIInv, EndsInOrder
  <2>2. ASSUME NEW s \in Stream
        PROVE  IF Ended(s)'
               THEN EofIn(Response, s) \/ (s = "err" /\ accepted'[s] = 0)
               ELSE Response \in Seq(NoEof(s))
    <3>1. CASE Ended(s)
      BY <2>1, <3>1, Zenon
    <3>2. CASE ~Ended(s)
      BY <2>1, <3>2, Zenon
    <3> QED BY <3>1, <3>2
  <2> QED BY <1>1, <2>1, <2>2, Zenon
<1> QED BY <1>2, <1>3

\* Nor does a step that neither writes, nor begins, ends or is part of a close.
LEMMA IdleOrder ==
    ASSUME OrderIInv, IInv', call.op # "close", call'.op # "close",
           wire' = wire, failed' = failed,
           \A t \in Stream :
              /\ stream'[t].wasFCloseCalled = stream[t].wasFCloseCalled
              /\ stream[t].wasFCloseCalled => accepted'[t] = accepted[t]
    PROVE  EndsOnce' /\ EndsInOrder'
<1>1. Response' = Response
  <2>1. Response = wire
    BY ResponseProps DEF OrderIInv, FinishIInv
  <2>2. Pending' = <<>> /\ Pending = <<>>
    BY Zenon DEF Pending
  <2> QED BY <2>2, Zenon DEF Response
<1>2. EndIsHeldBack'
  BY Zenon DEF EndIsHeldBack
<1>3. NoFailure' => NoFailure
  BY Zenon DEF NoFailure
<1>4. \A t \in Stream : /\ Ended(t)' <=> Ended(t)
                        /\ Ended(t) => accepted'[t] = accepted[t]
  BY Zenon DEF Ended, Closing
<1> QED BY <1>1, <1>2, <1>3, <1>4, SameResponse

\* The calls that do not write: only an open stream takes bytes.
LEMMA QuietOrder ==
    ASSUME OrderIInv, [Next]_vars,
           \/ \E s \in Stream :
                 \/ \E counts \in Prints : VFPrintF(s, counts)
                 \/ ClearError(s) \/ PutFits(s) \/ PutFills(s) \/ PutRefused(s)
                 \/ FinishSkips(s)
           \/ \E status \in Status : SetExitStatus(status)
           \/ FinishBegins \/ PutReturns \/ FinishFrees
    PROVE  EndsOnce' /\ EndsInOrder'
<1>0. /\ IInv /\ IInv' /\ stream \in [Stream -> StreamState] /\ call \in Call
      /\ \A t \in Stream : stream[t] \in StreamState
  <2>1. IInv
    BY DEF OrderIInv, FinishIInv
  <2>2. stream \in [Stream -> StreamState] /\ call \in Call
    BY <2>1, Zenon DEF IInv, TypeOK
  <2> QED BY <2>1, <2>2, NextIInv
<1>1. ASSUME call.op # "close", call'.op # "close",
             UNCHANGED <<wire, failed, stream, accepted>>
      PROVE  EndsOnce' /\ EndsInOrder'
  BY <1>0, <1>1, IdleOrder
<1>2. ASSUME NEW s \in Stream, PutFits(s) \/ PutFills(s)
      PROVE  EndsOnce' /\ EndsInOrder'
  <2>1. /\ call.op # "close" /\ call'.op # "close" /\ UNCHANGED <<wire, failed>>
        /\ stream' = [stream EXCEPT ![s].body = stream'[s].body]
    BY <1>0, <1>2, ZenonT(40) DEF PutFits, PutFills, Putting, Move, peer, Call
  <2>2. \A t \in Stream : stream'[t].wasFCloseCalled = stream[t].wasFCloseCalled
    BY <1>0, <2>1 DEF StreamState
  <2>3. \A t \in Stream : stream[t].wasFCloseCalled => accepted'[t] = accepted[t]
    BY <1>0, <1>2, MoveIsFinal DEF Final
  <2> QED BY <1>0, <2>1, <2>2, <2>3, IdleOrder
<1>3. ASSUME NEW s \in Stream, ClearError(s) PROVE EndsOnce' /\ EndsInOrder'
  <2>1. /\ call.op # "close" /\ call'.op # "close"
        /\ UNCHANGED <<wire, failed, accepted>>
        /\ stream' = [stream EXCEPT ![s].error = FALSE]
    BY <1>3 DEF ClearError, AppMayCall, peer
  <2>2. \A t \in Stream : stream'[t].wasFCloseCalled = stream[t].wasFCloseCalled
    BY <1>0, <2>1 DEF StreamState
  <2> QED BY <1>0, <2>1, <2>2, IdleOrder
<1>4. ASSUME NEW s \in Stream,
             (\E counts \in Prints : VFPrintF(s, counts)) \/ PutRefused(s)
             \/ FinishSkips(s)
      PROVE  EndsOnce' /\ EndsInOrder'
  BY <1>1, <1>4 DEF VFPrintF, PutRefused, FinishSkips, AppMayCall, Putting, Idle, peer
<1>5. ASSUME \/ \E status \in Status : SetExitStatus(status)
             \/ FinishBegins \/ PutReturns
      PROVE  EndsOnce' /\ EndsInOrder'
  BY <1>1, <1>5 DEF SetExitStatus, FinishBegins, PutReturns, AppMayCall, Idle, peer
<1>6. CASE FinishFrees
  <2>1. call.op = "idle"
    BY <1>6 DEF OrderIInv, FinishIInv, Phases, FinishFrees
  <2> QED BY <1>1, <1>6, <2>1 DEF FinishFrees, peer
<1> QED BY <1>2, <1>3, <1>4, <1>5, <1>6

-----------------------------------------------------------------------------
(* What is appended to a response.                                         *)

LEMMA TypesDiffer ==
    /\ "end" \notin Stream /\ "endBody" \notin Stream /\ "out" # "err"
    /\ StreamRecord \subseteq NoEnd /\ StreamRecord \subseteq Record
BY DEF Stream, StreamRecord, NoEnd

\* A sequence without an END_REQUEST header has one at most.
LEMMA NoEndOneEnd == \A x \in Seq(NoEnd) : OneEnd(x)
BY DEF NoEnd, OneEnd

\* The framed content of an open stream is one record of it with content, or none.
LEMMA DataProps ==
    ASSUME IInv, NEW s \in Stream, ~stream[s].rawWrite
    PROVE  /\ Units(s, Framed(stream[s])) = DataUnit(s, Framed(stream[s]))
           /\ \/ DataUnit(s, Framed(stream[s])) = <<>>
              \/ \E d \in StreamRecord : /\ d.type = s /\ d.cLen # 0
                                         /\ DataUnit(s, Framed(stream[s])) = <<d>>
<1> DEFINE r == stream[s]
           f == Framed(r)
           d == Header(s, f.cLen, Len(f.body) - f.cLen)
<1>1. /\ r \in StreamState /\ BufferOK(s, r) /\ r.raw = <<>>
      /\ Ready(s, f) /\ f \in StreamState /\ r.body \in Seq(Nat)
  <2>1. r \in StreamState /\ BufferOK(s, r) /\ r.body \in Seq(Nat)
    BY ModeProps, Zenon
  <2>2. Ready(s, f)
    BY <2>1, FramedProps, Zenon
  <2> QED BY <2>1, <2>2, Zenon DEF Ready, BufferOK
<1>2. f.raw = <<>> /\ f.cLen = Len(r.body)
      /\ f.body = r.body \o Zeros(AlignInt8(Len(r.body)) - Len(r.body))
  BY <1>1 DEF Framed, StreamState
<1>3. Units(s, f) = DataUnit(s, f) /\ DataUnit(s, f) \in Seq(Record)
  <2>1. Units(s, f) \in Seq(Record)
    BY <1>1, UnitsProps, Zenon
  <2>2. DataUnit(s, f) = <<>> \/ DataUnit(s, f) = <<d>>
    BY Zenon DEF DataUnit
  <2>3. <<>> \o <<>> = <<>> /\ <<d>> \o <<>> = <<d>>
    OBVIOUS
  <2>4. Units(s, f) = DataUnit(s, f)
    BY <1>2, <2>2, <2>3, Zenon DEF Units
  <2> QED BY <2>1, <2>4
<1>4. CASE f.body = <<>>
  BY <1>3, <1>4, Zenon DEF DataUnit
<1>5. CASE f.body # <<>>
  <2>1. DataUnit(s, f) = <<d>>
    BY <1>5, Zenon DEF DataUnit
  <2>2. d \in Record
    <3>1. <<d>> \in Seq(Record)
      BY <1>3, <2>1
    <3> HIDE DEF d
    <3> QED BY <3>1
  <2>3. d.type = s /\ d.cLen = f.cLen
    BY DEF Header
  <2>4. r.body # <<>>
    <3> SUFFICES ASSUME r.body = <<>> PROVE FALSE
      OBVIOUS
    <3>1. AlignInt8(0) = 0 /\ Len(<<>>) = 0 /\ 0 - 0 = 0
      BY DEF AlignInt8
    <3>2. Zeros(0) = <<>>
      BY DEF Zeros
    <3>3. <<>> \o <<>> = <<>>
      OBVIOUS
    <3> QED BY <1>2, <1>5, <3>1, <3>2, <3>3, Zenon
  <2>5. Len(r.body) # 0
    BY <1>1, <2>4, EmptySeq
  <2>6. d \in StreamRecord
    BY <2>2, <2>3, Zenon DEF StreamRecord
  <2> QED BY <1>2, <1>3, <2>1, <2>3, <2>5, <2>6, Zenon
<1> QED BY <1>4, <1>5

\* What appending records to a response leaves true: the streams that have ended
\* stay so, and those that y does not end have had no EOF.
Appends(x, y) ==
    /\ \A t \in Stream : EofIn(x, t) => EofIn(x \o y, t)
    /\ \A t \in Stream :
          x \in Seq(NoEof(t)) /\ y \in Seq(NoEof(t)) => x \o y \in Seq(NoEof(t))

LEMMA ConcatAppends ==
    ASSUME NEW x \in Seq(Record), NEW y \in Seq(Record)
    PROVE  Appends(x, y)
BY ConcatIn, ConcatEof, Zenon DEF Appends

\* A stream's record goes behind the records of streams, if its stream has had no
\* EOF.
LEMMA AppendStreamRecord ==
    ASSUME NEW x \in Seq(StreamRecord), NEW u \in StreamRecord, InOrder(x),
           x \in Seq(NoEof(u.type))
    PROVE  InOrder(x \o <<u>>) /\ x \o <<u>> \in Seq(StreamRecord)
<1>1. /\ x \in Seq(Record) /\ u \in Record /\ <<u>> \in Seq(StreamRecord)
      /\ u.type \in Stream
  <2>1. x \in Seq(Record)
    BY TypesDiffer, SeqMonotonic, Zenon
  <2> QED BY <2>1 DEF StreamRecord
<1>2. \A i \in DOMAIN x : /\ x[i] \in StreamRecord /\ x[i] \in NoEof(u.type)
  BY LenProperties, ElementOfSeq, Zenon
<1>3. \A i \in DOMAIN x : /\ x[i].type # "endBody" /\ x[i].type # "end"
                          /\ IsEof(x[i]) => u.type # x[i].type
  BY <1>2, TypesDiffer DEF StreamRecord, NoEof
<1>4. InOrder(x \o <<u>>)
  BY <1>1, <1>3, AppendInOrder, Zenon
<1>5. x \o <<u>> \in Seq(StreamRecord)
  BY <1>1, ConcatProperties, Zenon
<1> QED BY <1>4, <1>5

\* The content of a buffer, as a record or none, goes behind a response that has
\* no EOF of its stream, and is no EOF.
LEMMA AppendData ==
    ASSUME NEW s \in Stream, NEW x \in Seq(StreamRecord), NEW y,
           \/ y = <<>>
           \/ \E d \in StreamRecord : d.type = s /\ d.cLen # 0 /\ y = <<d>>
    PROVE  /\ y \in Seq(StreamRecord) /\ x \o y \in Seq(StreamRecord)
           /\ \A t \in Stream : y \in Seq(NoEof(t))
           /\ InOrder(x) /\ x \in Seq(NoEof(s)) => InOrder(x \o y)
<1>1. CASE y = <<>>
  BY <1>1, ConcatEmptySeq, EmptyOrder
<1>2. CASE \E d \in StreamRecord : d.type = s /\ d.cLen # 0 /\ y = <<d>>
  <2>1. PICK d \in StreamRecord : d.type = s /\ d.cLen # 0 /\ y = <<d>>
    BY <1>2
  <2>2. y \in Seq(StreamRecord)
    BY <2>1
  <2>3. x \o y \in Seq(StreamRecord)
    BY <2>2, ConcatProperties, Zenon
  <2>4. \A t \in Stream : y \in Seq(NoEof(t))
    <3>1. \A t \in Stream : d \in NoEof(t)
      BY <2>1 DEF NoEof, IsEof, StreamRecord
    <3> QED BY <2>1, <3>1
  <2>5. ASSUME InOrder(x), x \in Seq(NoEof(s)) PROVE InOrder(x \o y)
    BY <2>1, <2>5, AppendStreamRecord, Zenon
  <2> QED BY <2>2, <2>3, <2>4, <2>5
<1> QED BY <1>1, <1>2

\* A stream's EOF record, or none.
LEMMA AppendEof ==
    ASSUME NEW s \in Stream, NEW x \in Seq(StreamRecord), NEW y,
           y = <<>> \/ y = EofRecord(s)
    PROVE  /\ y \in Seq(StreamRecord) /\ x \o y \in Seq(StreamRecord)
           /\ \A t \in Stream : t # s => y \in Seq(NoEof(t))
           /\ y = EofRecord(s) => EofIn(x \o y, s)
           /\ InOrder(x) /\ x \in Seq(NoEof(s)) => InOrder(x \o y)
<1>1. CASE y = <<>>
  BY <1>1, ConcatEmptySeq, EmptyOrder DEF EofRecord
<1>2. CASE y = EofRecord(s)
  <2> DEFINE u == Header(s, 0, 0)
  <2>1. u \in StreamRecord /\ u.type = s /\ u.cLen = 0
    BY DEF Header, StreamRecord, Record, Unit, FCGI_MAX_LENGTH
  <2>2. y = <<u>>
    BY <1>2 DEF EofRecord
  <2> HIDE DEF u
  <2>3. y \in Seq(StreamRecord)
    BY <2>1, <2>2
  <2>4. x \o y \in Seq(StreamRecord)
    BY <2>3, ConcatProperties, Zenon
  <2>5. \A t \in Stream : t # s => y \in Seq(NoEof(t))
    <3>1. \A t \in Stream : t # s => u \in NoEof(t)
      BY <2>1 DEF NoEof, StreamRecord
    <3> QED BY <2>2, <3>1
  <2>6. EofIn(x \o y, s)
    <3>1. EofIn(y, s)
      <4>1. 1 \in DOMAIN y /\ y[1] = u
        BY <2>2
      <4> QED BY <2>1, <4>1, Zenon DEF EofIn, IsEof
    <3>2. x \in Seq(Record) /\ y \in Seq(Record)
      BY <2>3, TypesDiffer, SeqMonotonic, Zenon
    <3> QED BY <3>1, <3>2, ConcatEof, Zenon
  <2>7. ASSUME InOrder(x), x \in Seq(NoEof(s)) PROVE InOrder(x \o y)
    BY <2>1, <2>2, <2>7, AppendStreamRecord, Zenon
  <2> QED BY <2>3, <2>4, <2>5, <2>6, <2>7
<1> QED BY <1>1, <1>2

\* END_REQUEST goes behind the records of streams, and is one header and a body.
LEMMA AppendEnd ==
    ASSUME NEW x \in Seq(StreamRecord), NEW a \in Status
    PROVE  /\ EndRecord(a) \in Seq(Record) /\ EndRecord(a) # <<>>
           /\ OneEnd(x \o EndRecord(a))
           /\ \A t \in Stream : EndRecord(a) \in Seq(NoEof(t))
           /\ x \o EndRecord(a) # <<>>
           /\ (x \o EndRecord(a))[Len(x \o EndRecord(a))].type = "endBody"
           /\ InOrder(x) => InOrder(x \o EndRecord(a))
<1> DEFINE h == Header("end", 8, 0)
           b == EndBody(a)
<1>1. /\ h \in Record /\ h.type = "end"
      /\ b \in Record /\ b.type = "endBody"
  BY DEF Header, EndBody, Record, Unit, FCGI_MAX_LENGTH
<1>2. EndRecord(a) = <<h, b>>
  BY DEF EndRecord
<1> HIDE DEF h, b
<1>3. /\ <<h>> \in Seq(Record) /\ <<b>> \in Seq(Record)
      /\ EndRecord(a) \in Seq(Record) /\ EndRecord(a) # <<>>
      /\ EndRecord(a) = <<h>> \o <<b>>
  <2>1. <<h>> \in Seq(Record) /\ <<b>> \in Seq(Record) /\ <<h, b>> \in Seq(Record)
    BY <1>1
  <2>2. <<h, b>> = <<h>> \o <<b>>
    <3>1. /\ <<h>> \o <<b>> \in Seq(Record) /\ Len(<<h>> \o <<b>>) = 2
          /\ (<<h>> \o <<b>>)[1] = h /\ (<<h>> \o <<b>>)[2] = b
      BY <2>1
    <3>2. /\ Len(<<h, b>>) = 2 /\ <<h, b>>[1] = h /\ <<h, b>>[2] = b
          /\ \A i \in 1..2 : i = 1 \/ i = 2
      OBVIOUS
    <3>3. \A i \in 1..Len(<<h, b>>) : <<h, b>>[i] = (<<h>> \o <<b>>)[i]
      BY <3>1, <3>2, Zenon
    <3> QED BY <2>1, <3>1, <3>2, <3>3, SeqEqual, Zenon
  <2>3. <<h, b>> # <<>>
    OBVIOUS
  <2> QED BY <1>2, <2>1, <2>2, <2>3, Zenon
<1>4. x \in Seq(Record) /\ x \in Seq(NoEnd)
  BY TypesDiffer, SeqMonotonic, Zenon
<1>5. OneEnd(x \o EndRecord(a))
  <2>1. OneEnd(EndRecord(a))
    BY <1>1, <1>2 DEF OneEnd
  <2>2. OneEnd(x)
    BY <1>4, NoEndOneEnd
  <2> QED BY <1>3, <1>4, <2>1, <2>2, ConcatOneEnd, Zenon
<1>6. \A t \in Stream : EndRecord(a) \in Seq(NoEof(t))
  <2>1. \A t \in Stream : h \in NoEof(t) /\ b \in NoEof(t)
    BY <1>1, TypesDiffer DEF NoEof, IsEof
  <2> QED BY <1>2, <2>1
<1>7. /\ x \o EndRecord(a) # <<>>
      /\ (x \o EndRecord(a))[Len(x \o EndRecord(a))].type = "endBody"
  <2>1. 2 \in DOMAIN EndRecord(a) /\ EndRecord(a)[2] = b /\ Len(EndRecord(a)) = 2
    BY <1>2
  <2>2. \A j \in DOMAIN EndRecord(a) : (x \o EndRecord(a))[Len(x) + j] = EndRecord(a)[j]
    BY <1>3, <1>4, ConcatAt, Zenon
  <2>3. Len(x \o EndRecord(a)) = Len(x) + 2
    <3>1. Len(x \o EndRecord(a)) = Len(x) + Len(EndRecord(a))
      BY <1>3, <1>4, ConcatProperties, Zenon
    <3> QED BY <2>1, <3>1
  <2>4. x \o EndRecord(a) # <<>>
    BY <1>2, <1>3, <1>4, ConcatEqualIffEmpty
  <2>5. (x \o EndRecord(a))[Len(x) + 2] = b
    BY <2>1, <2>2, Zenon
  <2> QED BY <1>1, <2>3, <2>4, <2>5
<1>8. ASSUME InOrder(x) PROVE InOrder(x \o EndRecord(a))
  <2>1. \A i \in DOMAIN x : x[i] \in StreamRecord
    BY LenProperties, ElementOfSeq, Zenon
  <2>2. \A i \in DOMAIN x : /\ x[i].type # "endBody" /\ x[i].type # "end"
                            /\ x[i].type # "end" /\ x[i].type \in Stream
    BY <2>1, TypesDiffer DEF StreamRecord
  <2> DEFINE y == x \o <<h>>
  <2>3. y \in Seq(Record) /\ InOrder(y)
    <3>1. \A i \in DOMAIN x : /\ x[i].type # "endBody"
                              /\ x[i].type = "end" => h.type = "endBody"
                              /\ IsEof(x[i]) => h.type # x[i].type
      BY <1>1, <2>2, TypesDiffer
    <3> QED BY <1>1, <1>4, <1>8, <3>1, AppendInOrder, Zenon
  <2>4. \A i \in DOMAIN y : /\ y[i].type # "endBody"
                            /\ y[i].type = "end" => b.type = "endBody"
                            /\ IsEof(y[i]) => b.type # y[i].type
    <3>1. \A i \in DOMAIN y : y[i].type \in Stream \/ y[i] = h
      <4>1. /\ \A i \in DOMAIN x : y[i] = x[i]
            /\ \A j \in DOMAIN <<h>> : y[Len(x) + j] = <<h>>[j]
            /\ \A i \in DOMAIN y : i \in DOMAIN x
                                   \/ \E j \in DOMAIN <<h>> : i = Len(x) + j
        BY <1>3, <1>4, ConcatAt, Zenon
      <4>2. \A j \in DOMAIN <<h>> : <<h>>[j] = h
        OBVIOUS
      <4> HIDE DEF y
      <4>3. ASSUME NEW i \in DOMAIN y PROVE y[i].type \in Stream \/ y[i] = h
        <5>1. CASE i \in DOMAIN x
          BY <2>2, <4>1, <5>1, Zenon
        <5>2. ASSUME NEW j \in DOMAIN <<h>>, i = Len(x) + j PROVE y[i] = h
          BY <4>1, <4>2, <5>2, Zenon
        <5> QED BY <4>1, <5>1, <5>2, Zenon
      <4> QED BY <4>3
    <3> QED BY <1>1, <3>1, TypesDiffer
  <2>5. InOrder(y \o <<b>>)
    <3> HIDE DEF y
    <3> QED BY <1>1, <2>3, <2>4, AppendInOrder, Zenon
  <2>6. y \o <<b>> = x \o EndRecord(a)
    <3>1. (x \o <<h>>) \o <<b>> = x \o (<<h>> \o <<b>>)
      BY <1>3, <1>4, ConcatAssociative
    <3> QED BY <1>3, <3>1
  <2> QED BY <2>5, <2>6
<1> QED BY <1>3, <1>5, <1>6, <1>7, <1>8

\* Response x with the closing records e and f of stream s is response z.
CloseAppended(s, x, e, f, z) ==
    /\ OneEnd(z)
    /\ f = <<>> => z \in Seq(StreamRecord)
    /\ f # <<>> => z # <<>> /\ z[Len(z)].type = "endBody"
    /\ InOrder(x) /\ x \in Seq(NoEof(s)) => InOrder(z)
    /\ e # <<>> => EofIn(z, s)
    /\ \A t \in Stream : t # s =>
          /\ EofIn(x, t) => EofIn(z, t)
          /\ x \in Seq(NoEof(t)) => z \in Seq(NoEof(t))

\* What FCGX_FClose adds to a response: the stream's buffered content, its EOF and,
\* for the last stream, END_REQUEST.
LEMMA AppendClose ==
    ASSUME NEW s \in Stream, NEW x \in Seq(StreamRecord), NEW d, NEW e, NEW f,
           NEW a \in Status,
           \/ d = <<>>
           \/ \E u \in StreamRecord : u.type = s /\ u.cLen # 0 /\ d = <<u>>,
           e = <<>> \/ e = EofRecord(s), f = <<>> \/ f = EndRecord(a),
           NEW z, z = x \o (d \o (e \o f))
    PROVE  CloseAppended(s, x, e, f, z)
<1> DEFINE x1 == x \o d
           x2 == x1 \o e
           x3 == x2 \o f
<1>1. /\ d \in Seq(StreamRecord) /\ x1 \in Seq(StreamRecord)
      /\ \A t \in Stream : d \in Seq(NoEof(t))
      /\ InOrder(x) /\ x \in Seq(NoEof(s)) => InOrder(x1)
  BY AppendData
<1> HIDE DEF x1
<1>2. /\ e \in Seq(StreamRecord) /\ x2 \in Seq(StreamRecord)
      /\ \A t \in Stream : t # s => e \in Seq(NoEof(t))
      /\ e = EofRecord(s) => EofIn(x2, s)
      /\ InOrder(x1) /\ x1 \in Seq(NoEof(s)) => InOrder(x2)
  BY <1>1, AppendEof
<1> HIDE DEF x2
<1>3. /\ f \in Seq(Record) /\ OneEnd(x3)
      /\ \A t \in Stream : f \in Seq(NoEof(t))
      /\ f = <<>> => x3 = x2
      /\ f # <<>> => x3 # <<>> /\ x3[Len(x3)].type = "endBody"
      /\ InOrder(x2) => InOrder(x3)
  <2>1. CASE f = <<>>
    <3>1. x3 = x2 /\ f \in Seq(Record) /\ \A t \in Stream : f \in Seq(NoEof(t))
      BY <1>2, <2>1, ConcatEmptySeq, EmptyOrder
    <3>2. OneEnd(x2)
      <4>1. x2 \in Seq(NoEnd)
        BY <1>2, TypesDiffer, SeqMonotonic, Zenon
      <4> QED BY <4>1, NoEndOneEnd
    <3> QED BY <2>1, <3>1, <3>2, Zenon
  <2>2. CASE f = EndRecord(a)
    BY <1>2, <2>2, AppendEnd, Zenon
  <2> QED BY <2>1, <2>2
<1>4. /\ x \in Seq(Record) /\ d \in Seq(Record) /\ e \in Seq(Record)
      /\ x1 \in Seq(Record) /\ x2 \in Seq(Record)
  BY <1>1, <1>2, TypesDiffer, SeqMonotonic, Zenon
<1>5. z = x3
  <2>1. e \o f \in Seq(Record)
    BY <1>3, <1>4, ConcatProperties, Zenon
  <2>2. (x \o d) \o (e \o f) = x \o (d \o (e \o f))
    <3> DEFINE y == e \o f
    <3>1. x \in Seq(Record) /\ d \in Seq(Record) /\ y \in Seq(Record)
      BY <1>4, <2>1, Zenon
    <3> HIDE DEF y
    <3>2. (x \o d) \o y = x \o (d \o y)
      BY <3>1, ConcatAssoc, Zenon
    <3> QED BY <3>2 DEF y
  <2>3. (x1 \o e) \o f = x1 \o (e \o f)
    BY <1>3, <1>4, ConcatAssoc, Zenon
  <2> QED BY <2>2, <2>3, Zenon DEF x1, x2
<1> HIDE DEF x3
<1>6. Appends(x, d) /\ Appends(x1, e) /\ Appends(x2, f)
  BY <1>3, <1>4, ConcatAppends, Zenon
<1>7. ASSUME NEW t \in Stream, t # s
      PROVE  /\ EofIn(x, t) => EofIn(x3, t)
             /\ x \in Seq(NoEof(t)) => x3 \in Seq(NoEof(t))
  BY <1>1, <1>2, <1>3, <1>6, <1>7, Zenon DEF Appends, x1, x2, x3
<1>8. e # <<>> => EofIn(x3, s)
  BY <1>2, <1>6, Zenon DEF Appends, x3
<1>9. x \in Seq(NoEof(s)) => x1 \in Seq(NoEof(s))
  BY <1>1, <1>6, Zenon DEF Appends, x1
<1>10. InOrder(x) /\ x \in Seq(NoEof(s)) => InOrder(x3)
  BY <1>1, <1>2, <1>3, <1>9, Zenon
<1> QED BY <1>2, <1>3, <1>5, <1>7, <1>8, <1>10, Zenon DEF CloseAppended

\* END_REQUEST's header is the last but one of the closing records.
LEMMA EndPlace ==
    ASSUME NEW s \in Stream, NEW e, NEW f, NEW a \in Status,
           e = <<>> \/ e = EofRecord(s), f = <<>> \/ f = EndRecord(a),
           NEW i \in DOMAIN (e \o f), (e \o f)[i].type = "end"
    PROVE  i = Len(e \o f) - 1
<1> DEFINE u == Header(s, 0, 0)
           h == Header("end", 8, 0)
           b == EndBody(a)
<1>1. u \in Record /\ u.type # "end" /\ h \in Record /\ b \in Record /\ b.type # "end"
  BY TypesDiffer DEF Header, EndBody, Record, Unit, FCGI_MAX_LENGTH
<1>2. EofRecord(s) = <<u>> /\ EndRecord(a) = <<h, b>>
  BY DEF EofRecord, EndRecord
<1> HIDE DEF u, h, b
<1>3. /\ e \in Seq(Record) /\ \A j \in DOMAIN e : e[j].type # "end"
  <2>1. CASE e = <<>>
    BY <2>1
  <2>2. CASE e = EofRecord(s)
    BY <1>1, <1>2, <2>2
  <2> QED BY <2>1, <2>2
<1>4. f \in Seq(Record) /\ \A j \in DOMAIN f : f[j].type = "end" => j = 1 /\ Len(f) = 2
  <2>1. CASE f = <<>>
    BY <2>1
  <2>2. CASE f = EndRecord(a)
    BY <1>1, <1>2, <2>2
  <2> QED BY <2>1, <2>2
<1>5. /\ \A j \in DOMAIN e : (e \o f)[j] = e[j]
      /\ \A j \in DOMAIN f : (e \o f)[Len(e) + j] = f[j]
      /\ i \in DOMAIN e \/ \E j \in DOMAIN f : i = Len(e) + j
  <2>1. e \in Seq(Record) /\ f \in Seq(Record)
    BY <1>3, <1>4
  <2>2. /\ \A j \in DOMAIN e : (e \o f)[j] = e[j]
        /\ \A j \in DOMAIN f : (e \o f)[Len(e) + j] = f[j]
        /\ \A k \in DOMAIN (e \o f) :
              k \in DOMAIN e \/ \E j \in DOMAIN f : k = Len(e) + j
    BY <2>1, ConcatAt, Zenon
  <2> QED BY <2>2, Zenon
<1>6. PICK j \in DOMAIN f : i = Len(e) + j
  BY <1>3, <1>5
<1>7. j = 1 /\ Len(f) = 2
  BY <1>4, <1>5, <1>6, Zenon
<1>8. Len(e \o f) = Len(e) + Len(f) /\ Len(e) \in Nat
  <2>1. e \in Seq(Record) /\ f \in Seq(Record)
    BY <1>3, <1>4
  <2> QED BY <2>1, ConcatProperties, LenProperties, Zenon
<1> QED BY <1>6, <1>7, <1>8

\* A stream that never failed and never was written to, and has no content, took
\* no byte.
LEMMA UnusedTookNothing ==
    ASSUME FinishIInv, NEW s \in Stream, ~failed[s], ~stream[s].isAnythingWritten,
           ~stream[s].rawWrite, stream[s].body = <<>>
    PROVE  accepted[s] = 0
<1>1. received[s] \o Buffered(stream[s]) = Upto(accepted[s]) /\ received[s] = <<>>
  BY Zenon DEF FinishIInv, IInv, StreamIntegrity, FlagsOK
<1>2. Buffered(stream[s]) = <<>> /\ accepted[s] \in Nat /\ 0 \in Nat
  BY ModeProps, Zenon DEF Buffered, FinishIInv
<1>3. <<>> \o <<>> = <<>> /\ Len(<<>>) = 0
  OBVIOUS
<1>4. Len(Upto(accepted[s])) = accepted[s]
  BY <1>2, RunProps, Zenon DEF Upto
<1> QED BY <1>1, <1>2, <1>3, <1>4, Zenon

\* A stream has not ended as long as a call but its close is on it; then the response
\* is not ending either.
LEMMA OpenNotEnding ==
    ASSUME OrderIInv, NEW s \in Stream, ~stream[s].wasFCloseCalled, ~Closing(s)
    PROVE  /\ ~Ended(s) /\ ~Ending /\ ~stream[s].rawWrite
           /\ Response \in Seq(StreamRecord)
           /\ NoFailure => Response \in Seq(NoEof(s)) /\ InOrder(Response)
<1>1. ~Ended(s) /\ ~Ending
  BY Zenon DEF Ended, Ending
<1>2. ~stream[s].rawWrite
  BY Zenon DEF OrderIInv, FinishIInv, IInv, WritersOK, Closing
<1> QED BY <1>1, <1>2, Zenon DEF OrderIInv, EndsOnce, EndsInOrder

\* FCGX_FClose of the last stream finds nWriters = 1.
LEMMA LastWriter ==
    ASSUME IInv, NEW s \in Stream, ~stream[s].wasFCloseCalled
    PROVE  nWriters = 1 <=> \A t \in Stream : t # s => stream[t].wasFCloseCalled
<1>1. nWriters = OpenCount("out") + OpenCount("err")
  BY Zenon DEF IInv, WritersOK
<1>2. \A t \in Stream : OpenCount(t) = IF stream[t].wasFCloseCalled THEN 0 ELSE 1
  BY DEF OpenCount
<1> QED BY <1>1, <1>2 DEF Stream

\* The closing records that FCGX_FClose makes keep the response in order.
LEMMA FCloseBeginsOrder ==
    ASSUME OrderIInv, NEW s \in Stream, FCloseBegins(s)
    PROVE  EndsOnce' /\ EndsInOrder'
<1> DEFINE r == stream[s]
           g == Framed(r)
           q == [g EXCEPT !.rawWrite = TRUE]
           d == DataUnit(s, g)
           e == IF s = "err" /\ r.body = <<>> /\ ~r.isAnythingWritten
                THEN <<>> ELSE EofRecord(s)
           f == IF nWriters = 1 THEN EndRecord(appStatus) ELSE <<>>
           z == wire \o (d \o (e \o f))
<1>0. FinishIInv /\ IInv /\ stream \in [Stream -> StreamState] /\ appStatus \in Status
  BY Zenon DEF OrderIInv, FinishIInv, IInv, TypeOK
<1>1. /\ stream' = [stream EXCEPT ![s] = q]
      /\ call'.op = "close" /\ call'.s = s
      /\ call'.todo = e \o f
      /\ call.op = "idle" /\ ~r.wasFCloseCalled
      /\ UNCHANGED <<wire, accepted, failed>>
  BY DEF FCloseBegins, CloseRecords, peer
<1>2. /\ ~Ended(s) /\ ~Ending /\ ~r.rawWrite /\ ~Closing(s)
      /\ wire \in Seq(StreamRecord) /\ wire = Response
      /\ NoFailure => wire \in Seq(NoEof(s)) /\ InOrder(wire)
  <2>1. ~Closing(s) /\ Response = wire
    BY <1>0, <1>1, ResponseProps DEF Closing
  <2> QED BY <1>1, <2>1, OpenNotEnding
<1>3. /\ Units(s, g) = d
      /\ \/ d = <<>>
         \/ \E u \in StreamRecord : u.type = s /\ u.cLen # 0 /\ d = <<u>>
  BY <1>0, <1>2, DataProps, Zenon
<1>4. g \in StreamState /\ g.raw = <<>> /\ ~g.wasFCloseCalled
  <2>1. r \in StreamState /\ BufferOK(s, r)
    BY <1>0, ModeProps, Zenon
  <2>2. g \in StreamState
    BY <1>2, <2>1, FramedProps, Zenon DEF Ready
  <2>3. r.raw = <<>>
    BY <1>2, <2>1, Zenon DEF BufferOK
  <2>4. g.raw = r.raw /\ g.wasFCloseCalled = r.wasFCloseCalled
    BY <2>1 DEF Framed, StreamState
  <2> QED BY <1>1, <2>2, <2>3, <2>4
<1>5. /\ q.raw = <<>> /\ q.body = g.body /\ q.cLen = g.cLen
      /\ q.wasFCloseCalled = g.wasFCloseCalled
  BY <1>4 DEF StreamState
<1>6. (e = <<>> \/ e = EofRecord(s)) /\ (f = <<>> \/ f = EndRecord(appStatus))
  BY Zenon
<1>7. (f # <<>> <=> nWriters = 1) /\ (e = <<>> => s = "err" /\ r.body = <<>>
                                                  /\ ~r.isAnythingWritten)
  <2>1. EndRecord(appStatus) # <<>> /\ EofRecord(s) # <<>>
    BY DEF EndRecord, EofRecord
  <2> QED BY <2>1
<1> HIDE DEF g, q, d, e, f, z
<1>8. stream'[s] = q /\ \A t \in Stream : t # s => stream'[t] = stream[t]
  BY <1>0, <1>1, Zenon
<1>9. Response' = z
  <2>1. Units(s, q) = Units(s, g)
    BY <1>4, <1>5, Zenon DEF Units, DataUnit
  <2>2. Pending' = Units(s, q) \o (e \o f)
    BY <1>1, <1>8, Zenon DEF Pending
  <2> QED BY <1>1, <1>3, <2>1, <2>2, Zenon DEF Response, z
<1>10. CloseAppended(s, wire, e, f, z)
  <2>1. z = wire \o (d \o (e \o f))
    BY DEF z
  <2> QED BY <1>0, <1>2, <1>3, <1>6, <2>1, AppendClose, Zenon
<1>11. /\ Ended(s)' /\ \A t \in Stream : t # s => (Ended(t)' <=> Ended(t))
       /\ \A t \in Stream : t # s => (Ended(t) <=> stream[t].wasFCloseCalled)
  BY <1>1, <1>8, Zenon DEF Ended, Closing
<1>12. Ending' <=> nWriters = 1
  BY <1>0, <1>1, <1>11, LastWriter, Zenon DEF Ending
<1>13. EndsOnce'
  <2>1. EndIsHeldBack'
    <3>1. stream'[call'.s].raw \o call'.todo = e \o f
      <4>1. e \o f \in Seq(Record)
        <5>1. e \in Seq(Record) /\ f \in Seq(Record)
          BY <1>0, <1>2, <1>6, AppendEof, AppendEnd, EmptyOrder, TypesDiffer,
             SeqMonotonic, Zenon
        <5> QED BY <5>1, ConcatProperties, Zenon
      <4>2. <<>> \o (e \o f) = e \o f
        BY <4>1, ConcatEmptySeq, Zenon
      <4> QED BY <1>1, <1>5, <1>8, <4>2, Zenon
    <3>2. \A i \in DOMAIN (e \o f) : (e \o f)[i].type = "end" => i = Len(e \o f) - 1
      BY <1>0, <1>6, EndPlace
    <3> QED BY <3>1, <3>2, Zenon DEF EndIsHeldBack
  <2> QED BY <1>7, <1>9, <1>10, <1>12, <2>1, Zenon DEF EndsOnce, CloseAppended
<1>14. ASSUME NoFailure'
       PROVE  /\ InOrder(z)
              /\ \A t \in Stream :
                    IF Ended(t)'
                    THEN EofIn(z, t) \/ (t = "err" /\ accepted'[t] = 0)
                    ELSE z \in Seq(NoEof(t))
              /\ Ending' => z # <<>> /\ z[Len(z)].type = "endBody"
  <2>1. NoFailure
    BY <1>1, <1>14, Zenon DEF NoFailure
  <2>2. InOrder(z)
    BY <1>2, <1>10, <2>1, Zenon DEF CloseAppended
  <2>3. EofIn(z, s) \/ (s = "err" /\ accepted'[s] = 0)
    <3>1. CASE e # <<>>
      BY <1>10, <3>1, Zenon DEF CloseAppended
    <3>2. CASE e = <<>>
      <4>1. accepted[s] = 0
        BY <1>0, <1>2, <1>7, <2>1, <3>2, UnusedTookNothing, Zenon DEF NoFailure
      <4> QED BY <1>1, <1>7, <3>2, <4>1
    <3> QED BY <3>1, <3>2
  <2>4. ASSUME NEW t \in Stream, t # s
        PROVE  IF Ended(t)
               THEN EofIn(z, t) \/ (t = "err" /\ accepted'[t] = 0)
               ELSE z \in Seq(NoEof(t))
    <3>1. IF Ended(t)
          THEN EofIn(wire, t) \/ (t = "err" /\ accepted[t] = 0)
          ELSE wire \in Seq(NoEof(t))
      BY <1>2, <2>1, Zenon DEF OrderIInv, EndsInOrder
    <3> QED BY <1>1, <1>10, <2>4, <3>1, Zenon DEF CloseAppended
  <2>5. Ending' => z # <<>> /\ z[Len(z)].type = "endBody"
    BY <1>7, <1>10, <1>12, Zenon DEF CloseAppended
  <2> QED BY <1>11, <2>2, <2>3, <2>4, <2>5, Zenon
<1>15. EndsInOrder'
  BY <1>9, <1>14, Zenon DEF EndsInOrder
<1> QED BY <1>13, <1>15

\* What a write of buffer r of s does to what the order of records is about.
LEMMA WriteEffects ==
    ASSUME IInv, NEW s \in Stream, NEW r, NEW ok, NEW err,
           Units(s, r) \in Seq(Record), WriteItAll(s, r, ok, err)
    PROVE  \/ /\ wire' = wire \o Units(s, r) /\ failed' = failed
              /\ stream' = [stream EXCEPT ![s] = ok]
           \/ /\ stream' = [stream EXCEPT ![s] = err] /\ ~NoFailure'
              /\ \E p, v \in Seq(Record) :
                    /\ wire' = wire \o p /\ p \o v = Units(s, r)
                    /\ Len(p) \in 0..(Len(Units(s, r)) - 1)
<1>0. failed \in [Stream -> BOOLEAN]
  BY Zenon DEF IInv, TypeOK
<1>1. CASE WriteOk(s, r, ok)
  BY <1>1, Zenon DEF WriteOk
<1>2. CASE WriteFails(s, r, err)
  <2> DEFINE u == Units(s, r)
  <2>1. PICK k \in 0..(Len(u) - 1) :
          /\ wire' = wire \o SubSeq(u, 1, k)
          /\ stream' = [stream EXCEPT ![s] = err]
          /\ failed' = [failed EXCEPT ![s] = TRUE]
    BY <1>2, Zenon DEF WriteFails
  <2>2. ~NoFailure'
    <3>1. failed'[s] = TRUE
      BY <1>0, <2>1
    <3> QED BY <3>1, Zenon DEF NoFailure
  <2> DEFINE p == SubSeq(u, 1, k)
             v == SubSeq(u, k + 1, Len(u))
  <2>3. p \in Seq(Record) /\ v \in Seq(Record) /\ p \o v = u /\ Len(p) = k
    <3>1. u \in Seq(Record)
      OBVIOUS
    <3> HIDE DEF u
    <3> QED BY <2>1, <3>1, UnitsSplit
  <2> HIDE DEF p, v, u
  <2>4. \E a, b \in Seq(Record) :
          /\ wire' = wire \o a /\ a \o b = u /\ Len(a) \in 0..(Len(u) - 1)
    BY <2>1, <2>3, Zenon DEF p
  <2> QED BY <2>1, <2>2, <2>4 DEF u
<1> QED BY <1>1, <1>2 DEF WriteItAll

\* EmptyBuffProc outside of a close writes one record with content of an open
\* stream, or fails.
LEMMA EmptyingOrder ==
    ASSUME OrderIInv, NEW s \in Stream, PutEmpties(s) \/ FFlush(s)
    PROVE  EndsOnce' /\ EndsInOrder'
<1> DEFINE r == Framed(stream[s])
           d == DataUnit(s, r)
<1>0. FinishIInv /\ IInv /\ stream \in [Stream -> StreamState]
  BY Zenon DEF OrderIInv, FinishIInv, IInv, TypeOK
<1>1. /\ ~stream[s].isClosed /\ EmptyBuff(s) /\ call.op # "close"
      /\ accepted' = accepted /\ call' = call
  BY DEF PutEmpties, FFlush, Putting, AppMayCall
<1>2. ~stream[s].wasFCloseCalled /\ ~Closing(s)
  BY <1>0, <1>1, FClosedProps DEF Closing
<1>3. /\ ~Ended(s) /\ ~Ending /\ ~stream[s].rawWrite
      /\ wire = Response /\ wire \in Seq(StreamRecord)
      /\ NoFailure => wire \in Seq(NoEof(s)) /\ InOrder(wire)
  <2>1. Response = wire
    BY <1>0, <1>1, ResponseProps
  <2> QED BY <1>2, <2>1, OpenNotEnding
<1>4. /\ Units(s, r) = d
      /\ \/ d = <<>>
         \/ \E u \in StreamRecord : u.type = s /\ u.cLen # 0 /\ d = <<u>>
  BY <1>0, <1>3, DataProps, Zenon
<1>5. /\ d \in Seq(StreamRecord) /\ d \in Seq(Record) /\ wire \in Seq(Record)
      /\ wire \o d \in Seq(StreamRecord) /\ Appends(wire, d)
      /\ \A t \in Stream : d \in Seq(NoEof(t))
      /\ InOrder(wire) /\ wire \in Seq(NoEof(s)) => InOrder(wire \o d)
  <2>1. /\ d \in Seq(StreamRecord) /\ wire \o d \in Seq(StreamRecord)
        /\ \A t \in Stream : d \in Seq(NoEof(t))
        /\ InOrder(wire) /\ wire \in Seq(NoEof(s)) => InOrder(wire \o d)
    <3> HIDE DEF d
    <3> QED BY <1>3, <1>4, AppendData
  <2>2. d \in Seq(Record) /\ wire \in Seq(Record)
    BY <1>3, <2>1, TypesDiffer, SeqMonotonic, Zenon
  <2> QED BY <2>1, <2>2, ConcatAppends
<1>6. WriteItAll(s, r, Emptied(r), Errored(r))
  BY <1>1, <1>3, Zenon DEF EmptyBuff
<1>7. /\ ~Emptied(r).wasFCloseCalled /\ ~Errored(r).wasFCloseCalled
  <2>1. stream[s] \in StreamState /\ BufferOK(s, stream[s])
    BY <1>0, ModeProps, Zenon
  <2>2. Ready(s, r)
    BY <1>3, <2>1, FramedProps, Zenon
  <2>3. ~r.wasFCloseCalled
    BY <1>2, <2>1, FlagsOfWrites
  <2> QED BY <2>2, <2>3, WrittenProps
<1> HIDE DEF r, d
<1>8. \/ /\ wire' = wire \o d /\ failed' = failed
         /\ stream' = [stream EXCEPT ![s] = Emptied(r)]
      \/ /\ stream' = [stream EXCEPT ![s] = Errored(r)] /\ ~NoFailure'
         /\ \E p, v \in Seq(Record) : wire' = wire \o p /\ p \o v = d
  <2>1. Units(s, r) \in Seq(Record)
    BY <1>4, <1>5
  <2>2. \/ /\ wire' = wire \o Units(s, r) /\ failed' = failed
           /\ stream' = [stream EXCEPT ![s] = Emptied(r)]
        \/ /\ stream' = [stream EXCEPT ![s] = Errored(r)] /\ ~NoFailure'
           /\ \E p, v \in Seq(Record) :
                 /\ wire' = wire \o p /\ p \o v = Units(s, r)
                 /\ Len(p) \in 0..(Len(Units(s, r)) - 1)
    BY <1>0, <1>6, <2>1, WriteEffects, Zenon
  <2> QED BY <1>4, <2>2, Zenon
<1>9. /\ \A t \in Stream : Ended(t)' <=> Ended(t)
      /\ Response' = wire'
  <2>1. \E q : ~q.wasFCloseCalled /\ stream' = [stream EXCEPT ![s] = q]
    BY <1>7, <1>8, Zenon
  <2>2. \A t \in Stream : stream'[t].wasFCloseCalled <=> stream[t].wasFCloseCalled
    BY <1>0, <1>2, <2>1, Zenon
  <2>3. \A t \in Stream : Ended(t)' <=> Ended(t)
    BY <1>1, <2>2, Zenon DEF Ended, Closing
  <2>4. Pending' = <<>>
    BY <1>1, Zenon DEF Pending
  <2>5. wire' \o <<>> = wire'
    <3>1. wire' \in Seq(Record)
      BY <1>5, <1>8, ConcatProperties, Zenon
    <3> QED BY <3>1, ConcatEmptySeq, Zenon
  <2> QED BY <2>3, <2>4, <2>5, Zenon DEF Response
<1>10. wire' \in Seq(StreamRecord)
  <2>1. CASE wire' = wire \o d
    BY <1>5, <2>1
  <2>2. CASE \E p, v \in Seq(Record) : wire' = wire \o p /\ p \o v = d
    <3>1. PICK p \in Seq(Record), v \in Seq(Record) : wire' = wire \o p /\ p \o v = d
      BY <2>2
    <3>2. p \in Seq(StreamRecord)
      BY <1>5, <3>1, ConcatIn, Zenon
    <3> QED BY <1>3, <3>1, <3>2, ConcatProperties, Zenon
  <2> QED BY <1>8, <2>1, <2>2
<1>11. EndsOnce'
  <2>1. OneEnd(wire')
    <3>1. wire' \in Seq(NoEnd)
      BY <1>10, TypesDiffer, SeqMonotonic, Zenon
    <3> QED BY <3>1, NoEndOneEnd
  <2>2. EndIsHeldBack'
    BY <1>1, Zenon DEF EndIsHeldBack
  <2> QED BY <1>9, <1>10, <2>1, <2>2, Zenon DEF EndsOnce
<1>12. EndsInOrder'
  <2> SUFFICES ASSUME NoFailure'
               PROVE  /\ InOrder(wire')
                      /\ \A t \in Stream :
                            IF Ended(t)'
                            THEN EofIn(wire', t) \/ (t = "err" /\ accepted'[t] = 0)
                            ELSE wire' \in Seq(NoEof(t))
                      /\ ~Ending'
    BY <1>9, Zenon DEF EndsInOrder
  <2>1. wire' = wire \o d /\ NoFailure
    BY <1>8, Zenon DEF NoFailure
  <2>2. ASSUME NEW t \in Stream
        PROVE  IF Ended(t)
               THEN EofIn(wire', t) \/ (t = "err" /\ accepted'[t] = 0)
               ELSE wire' \in Seq(NoEof(t))
    <3>1. IF Ended(t)
          THEN EofIn(wire, t) \/ (t = "err" /\ accepted[t] = 0)
          ELSE wire \in Seq(NoEof(t))
      BY <1>3, <2>1, Zenon DEF OrderIInv, EndsInOrder
    <3> QED BY <1>1, <1>5, <2>1, <3>1, Zenon DEF Appends
  <2>3. ~Ending'
    BY <1>3, <1>9, Zenon DEF Ending
  <2> QED BY <1>3, <1>5, <1>9, <2>1, <2>2, <2>3, Zenon
<1> QED BY <1>11, <1>12

\* A unit that moves into the buffer stays in its place of the response.
LEMMA ShiftHead ==
    ASSUME NEW x \in Seq(Record), NEW y \in Seq(Record), y # <<>>
    PROVE  /\ Append(x, Head(y)) \in Seq(Record) /\ Tail(y) \in Seq(Record)
           /\ Append(x, Head(y)) \o Tail(y) = x \o y
<1>1. Head(y) \in Record /\ Tail(y) \in Seq(Record)
  BY HeadTailProperties, Zenon
<1> DEFINE h == Head(y)
           w == Tail(y)
<1>2. <<h>> \in Seq(Record) /\ Append(x, h) = x \o <<h>> /\ x \o <<h>> \in Seq(Record)
  <2> HIDE DEF h
  <2> QED BY <1>1, AppendIsConcat DEF h
<1>3. <<h>> \o w = y
  OBVIOUS
<1>4. (x \o <<h>>) \o w = x \o (<<h>> \o w)
  <2> HIDE DEF h, w
  <2>1. w \in Seq(Record)
    BY <1>1 DEF w
  <2> QED BY <1>2, <2>1, ConcatAssoc
<1> QED BY <1>1, <1>2, <1>3, <1>4, Zenon

LEMMA ClosePutsOrder ==
    ASSUME OrderIInv, NEW s \in Stream, ClosePuts(s)
    PROVE  EndsOnce' /\ EndsInOrder'
<1> DEFINE r == stream[s]
           w == Append(r.raw, Head(call.todo))
           q == [r EXCEPT !.raw = w]
           dd == DataUnit(s, r)
<1>0. /\ FinishIInv /\ IInv /\ stream \in [Stream -> StreamState]
      /\ call \in Call /\ r \in StreamState /\ r.raw \in Seq(Record)
  BY ModeProps, Zenon DEF OrderIInv, FinishIInv, IInv, TypeOK
<1>1. /\ Closing(s) /\ call.todo # <<>>
      /\ stream' = [stream EXCEPT ![s] = q]
      /\ call' = [call EXCEPT !.todo = Tail(call.todo)]
      /\ UNCHANGED <<wire, accepted, failed>>
  BY DEF ClosePuts, peer
<1>2. /\ call.todo \in Seq(Record) /\ wire \in Seq(Record)
      /\ Units(s, r) \in Seq(Record)
      /\ Pending = Units(s, r) \o call.todo
  BY <1>0, <1>1, ResponseProps
<1>3. w \in Seq(Record) /\ Tail(call.todo) \in Seq(Record)
      /\ w \o Tail(call.todo) = r.raw \o call.todo
  BY <1>0, <1>1, <1>2, ShiftHead
<1> HIDE DEF w
<1>4. /\ q.raw = w /\ q.body = r.body /\ q.cLen = r.cLen
      /\ q.wasFCloseCalled = r.wasFCloseCalled
  BY <1>0 DEF StreamState
<1>5. call'.op = "close" /\ call'.s = s /\ call'.todo = Tail(call.todo) /\ Closing(s)'
  <2>1. call'.op = call.op /\ call'.s = call.s /\ call'.todo = Tail(call.todo)
    BY <1>0, <1>1 DEF Call
  <2> QED BY <1>1, <2>1 DEF Closing
<1> HIDE DEF q
<1>6. stream'[s] = q /\ \A t \in Stream : t # s => stream'[t] = stream[t]
  BY <1>0, <1>1, Zenon
<1>7. dd \in Seq(Record)
  <2>1. dd = <<>> \/ dd \o r.raw \in Seq(Record)
    BY <1>2, Zenon DEF Units
  <2>2. dd = <<>> \/ dd = <<Header(s, r.cLen, Len(r.body) - r.cLen)>>
    BY Zenon DEF DataUnit
  <2>3. \A a : <<a>> \o r.raw \in Seq(Record) => a \in Record
    <3> SUFFICES ASSUME NEW a, <<a>> \o r.raw \in Seq(Record) PROVE a \in Record
      OBVIOUS
    <3>1. r.raw \in Seq(Record)
      BY <1>0
    <3>2. 1 \in 1..Len(<<a>> \o r.raw) /\ (<<a>> \o r.raw)[1] = a
      BY <3>1
    <3> QED BY <3>2, ElementOfSeq, Zenon
  <2>4. \A a \in Record : <<a>> \in Seq(Record)
    OBVIOUS
  <2> QED BY <2>1, <2>2, <2>3, <2>4, EmptyOrder, Zenon
<1>8. Response' = Response
  <2>1. Units(s, q) = dd \o w
    BY <1>4, Zenon DEF Units, DataUnit
  <2>2. Pending' = (dd \o w) \o Tail(call.todo)
    BY <1>5, <1>6, <2>1, Zenon DEF Pending
  <2>3. Pending = (dd \o r.raw) \o call.todo
    BY <1>2, Zenon DEF Units
  <2> HIDE DEF dd, r
  <2>4. /\ (dd \o w) \o Tail(call.todo) = dd \o (w \o Tail(call.todo))
        /\ (dd \o r.raw) \o call.todo = dd \o (r.raw \o call.todo)
    BY <1>0, <1>2, <1>3, <1>7, ConcatAssoc, ZenonT(40)
  <2> QED BY <1>1, <1>3, <2>2, <2>3, <2>4, Zenon DEF Response
<1>9. EndIsHeldBack'
  <2>1. call.op = "close" /\ call.s = s
    BY <1>1 DEF Closing
  <2>2. stream'[call'.s].raw \o call'.todo = stream[call.s].raw \o call.todo
    BY <1>3, <1>4, <1>5, <1>6, <2>1, Zenon
  <2> QED BY <1>1, <2>1, <2>2, Zenon DEF EndIsHeldBack, OrderIInv, EndsOnce
<1>10. \A t \in Stream : Ended(t)' <=> Ended(t)
  BY <1>1, <1>4, <1>5, <1>6, Zenon DEF Ended, Closing
<1>11. NoFailure' => NoFailure
  BY <1>1, Zenon DEF NoFailure
<1>12. \A t \in Stream : accepted'[t] = accepted[t]
  BY <1>1
<1> HIDE DEF r
<1> QED BY <1>8, <1>9, <1>10, <1>11, <1>12, SameResponse, Zenon

\* A close in progress empties the buffer on the way: what fails has not sent
\* END_REQUEST, whose body is still to come.
LEMMA CloseEmptiesOrder ==
    ASSUME OrderIInv, NEW s \in Stream, CloseEmpties(s)
    PROVE  EndsOnce' /\ EndsInOrder'
<1> DEFINE r == stream[s]
           u == Units(s, r)
           q == r.raw \o call.todo
<1>0. /\ FinishIInv /\ IInv /\ stream \in [Stream -> StreamState]
      /\ r \in StreamState /\ r.raw \in Seq(Record)
  BY ModeProps, Zenon DEF OrderIInv, FinishIInv, IInv, TypeOK
<1>1. /\ Closing(s) /\ call.op = "close" /\ call.s = s /\ call.todo # <<>>
      /\ ~r.isClosed /\ EmptyBuff(s) /\ accepted' = accepted /\ call' = call
  BY DEF CloseEmpties, Closing
<1>2. r.rawWrite /\ ~r.wasFCloseCalled
  BY <1>0, <1>1, Zenon DEF IInv, WritersOK
<1>3. /\ call.todo \in Seq(Record) /\ wire \in Seq(Record) /\ u \in Seq(Record)
      /\ Pending = u \o call.todo
  BY <1>0, <1>1, ResponseProps
<1>4. WriteItAll(s, r, Emptied(r), Errored(r))
  BY <1>1, <1>2, Zenon DEF EmptyBuff
<1>5. /\ Emptied(r).body = <<>> /\ Emptied(r).raw = <<>>
      /\ ~Emptied(r).wasFCloseCalled /\ ~Errored(r).wasFCloseCalled
      /\ Errored(r).raw = r.raw /\ Errored(r).body = r.body
      /\ Errored(r).cLen = r.cLen
  BY <1>0, <1>2 DEF Emptied, Errored, StreamState
<1>6. \A i \in DOMAIN q : q[i].type = "end" => i = Len(q) - 1
  BY <1>1, Zenon DEF OrderIInv, EndsOnce, EndIsHeldBack
<1> HIDE DEF r
<1>7. ASSUME NEW x, stream' = [stream EXCEPT ![s] = x], ~x.wasFCloseCalled
      PROVE  /\ stream'[s] = x
             /\ \A t \in Stream : Ended(t)' <=> Ended(t)
             /\ Pending' = Units(s, x) \o call.todo
  <2>1. stream'[s] = x /\ \A t \in Stream : t # s => stream'[t] = stream[t]
    BY <1>0, <1>7, Zenon
  <2>2. \A t \in Stream : Ended(t)' <=> Ended(t)
    BY <1>1, <1>2, <1>7, <2>1, Zenon DEF Ended, Closing, r
  <2>3. Pending' = Units(s, x) \o call.todo
    BY <1>1, <2>1, Zenon DEF Pending
  <2> QED BY <2>1, <2>2, <2>3
<1>8. CASE /\ wire' = wire \o u /\ failed' = failed
           /\ stream' = [stream EXCEPT ![s] = Emptied(r)]
  <2>1. /\ stream'[s] = Emptied(r)
        /\ \A t \in Stream : Ended(t)' <=> Ended(t)
        /\ Pending' = Units(s, Emptied(r)) \o call.todo
    BY <1>5, <1>7, <1>8, Zenon
  <2>2. Pending' = call.todo
    <3>1. <<>> \o <<>> = <<>>
      OBVIOUS
    <3>2. Units(s, Emptied(r)) = <<>>
      BY <1>5, <3>1, Zenon DEF Units, DataUnit
    <3>3. <<>> \o call.todo = call.todo
      BY <1>3, ConcatEmptySeq, Zenon
    <3> QED BY <2>1, <3>2, <3>3, Zenon
  <2>3. Response' = Response
    <3>1. (wire \o u) \o call.todo = wire \o (u \o call.todo)
      <4> HIDE DEF u
      <4> QED BY <1>3, ConcatAssoc, Zenon
    <3> QED BY <1>3, <1>8, <2>2, <3>1, Zenon DEF Response
  <2>4. EndIsHeldBack'
    <3> DEFINE w == call.todo
    <3>1. stream'[call'.s].raw \o call'.todo = w
      <4>1. <<>> \o call.todo = call.todo
        BY <1>3, ConcatEmptySeq, Zenon
      <4> QED BY <1>1, <1>5, <2>1, <4>1, Zenon
    <3>2. ASSUME NEW i \in DOMAIN w, w[i].type = "end" PROVE i = Len(w) - 1
      <4>1. /\ Len(r.raw) + i \in DOMAIN q /\ q[Len(r.raw) + i] = w[i]
            /\ Len(r.raw) \in Nat /\ Len(w) \in Nat /\ DOMAIN w = 1..Len(w)
        BY <1>0, <1>3, <3>2, ConcatAt, Zenon
      <4>2. Len(q) = Len(r.raw) + Len(w)
        BY <1>0, <1>3, ConcatProperties, Zenon
      <4>3. Len(r.raw) + i = Len(q) - 1
        <5> HIDE DEF q, w
        <5> QED BY <1>6, <3>2, <4>1, Zenon
      <4> HIDE DEF q, w
      <4>4. i \in 1..Len(w)
        BY <3>2, <4>1
      <4> QED BY <4>1, <4>2, <4>3, <4>4
    <3> QED BY <3>1, <3>2, Zenon DEF EndIsHeldBack
  <2>5. NoFailure' => NoFailure
    BY <1>8, Zenon DEF NoFailure
  <2>6. \A t \in Stream : accepted'[t] = accepted[t]
    BY <1>1
  <2> QED BY <2>1, <2>3, <2>4, <2>5, <2>6, SameResponse, Zenon
<1>9. CASE /\ stream' = [stream EXCEPT ![s] = Errored(r)] /\ ~NoFailure'
           /\ \E p, v \in Seq(Record) :
                 /\ wire' = wire \o p /\ p \o v = u /\ Len(p) \in 0..(Len(u) - 1)
  <2>1. /\ stream'[s] = Errored(r)
        /\ \A t \in Stream : Ended(t)' <=> Ended(t)
        /\ Pending' = Units(s, Errored(r)) \o call.todo
    BY <1>5, <1>7, <1>9, Zenon
  <2>2. Pending' = Pending
    <3>1. Units(s, Errored(r)) = u
      BY <1>5, Zenon DEF Units, DataUnit
    <3> QED BY <1>3, <2>1, <3>1, Zenon
  <2>3. PICK p \in Seq(Record), v \in Seq(Record) :
          /\ wire' = wire \o p /\ p \o v = u /\ Len(p) \in 0..(Len(u) - 1)
    BY <1>9, Zenon
  <2>4. Pending \in Seq(Record) /\ Response = wire \o Pending
    BY <1>0, ResponseProps, Zenon DEF Response
  <2>4a. wire \in Seq(Record) /\ call.todo \in Seq(Record)
    BY <1>3
  <2>5. p \in Seq(NoEnd)
    <3> DEFINE d == DataUnit(s, r)
    <3>1. u = d \o r.raw /\ (d = <<>> \/ \E a : a.type = s /\ d = <<a>>)
      <4>1. Header(s, r.cLen, Len(r.body) - r.cLen).type = s
        BY DEF Header
      <4> QED BY <4>1, Zenon DEF Units, DataUnit
    <3>2. d \in Seq(Record) /\ \A i \in DOMAIN d : d[i].type = s
      <4>1. CASE d = <<>>
        BY <4>1
      <4>2. ASSUME NEW a, a.type = s, d = <<a>>
            PROVE  d \in Seq(Record) /\ \A i \in DOMAIN d : d[i].type = s
        <5>1. 1 \in 1..Len(<<a>> \o r.raw) /\ (<<a>> \o r.raw)[1] = a
          BY <1>0
        <5>2. a \in Record
          BY <1>3, <3>1, <4>2, <5>1, ElementOfSeq, Zenon
        <5>3. \A i \in DOMAIN <<a>> : <<a>>[i] = a
          OBVIOUS
        <5>4. <<a>> \in Seq(Record)
          BY <5>2
        <5> QED BY <4>2, <5>3, <5>4, Zenon
      <4> QED BY <3>1, <4>1, <4>2, Zenon
    <3> HIDE DEF d
    <3>3. ASSUME NEW i \in DOMAIN p PROVE p[i].type # "end"
      <4> SUFFICES ASSUME p[i].type = "end" PROVE FALSE
        OBVIOUS
      <4>1. /\ u[i] = p[i] /\ i \in DOMAIN u /\ DOMAIN p = 1..Len(p)
            /\ Len(p) \in Nat
        <5>1. \A k \in DOMAIN p : k \in DOMAIN (p \o v) /\ (p \o v)[k] = p[k]
          BY ConcatAt, Zenon
        <5>2. DOMAIN p = 1..Len(p) /\ Len(p) \in Nat
          BY ConcatAt, Zenon
        <5> QED BY <2>3, <3>3, <5>1, <5>2, Zenon
      <4>2. i \notin DOMAIN d
        <5>1. \A k \in DOMAIN d : (d \o r.raw)[k] = d[k]
          BY <1>0, <3>2, ConcatAt, Zenon
        <5>2. \A k \in DOMAIN d : u[k] = d[k]
          BY <3>1, <5>1, Zenon
        <5> QED BY <3>2, <4>1, <5>2, TypesDiffer, Zenon
      <4>3. \E j \in DOMAIN r.raw : i = Len(d) + j
        <5>1. \A k \in DOMAIN (d \o r.raw) :
                 k \in DOMAIN d \/ \E j \in DOMAIN r.raw : k = Len(d) + j
          BY <1>0, <3>2, ConcatAt, Zenon
        <5> QED BY <3>1, <4>1, <4>2, <5>1, Zenon
      <4>4. PICK j \in DOMAIN r.raw : i = Len(d) + j
        BY <4>3
      <4>5. /\ u[i] = r.raw[j] /\ Len(u) = Len(d) + Len(r.raw)
            /\ Len(d) \in Nat /\ Len(r.raw) \in Nat
            /\ DOMAIN r.raw = 1..Len(r.raw)
        <5>1. \A k \in DOMAIN r.raw : (d \o r.raw)[Len(d) + k] = r.raw[k]
          BY <1>0, <3>2, ConcatAt, Zenon
        <5>2. Len(d \o r.raw) = Len(d) + Len(r.raw)
          BY <1>0, <3>2, ConcatProperties, Zenon
        <5>3. /\ Len(d) \in Nat /\ Len(r.raw) \in Nat
              /\ DOMAIN r.raw = 1..Len(r.raw)
          BY <1>0, <3>2, LenProperties, Zenon
        <5> QED BY <3>1, <4>4, <5>1, <5>2, <5>3, Zenon
      <4>6. /\ q[j] = r.raw[j] /\ j \in DOMAIN q
            /\ Len(q) = Len(r.raw) + Len(call.todo)
        <5>1. /\ \A k \in DOMAIN r.raw : /\ k \in DOMAIN (r.raw \o call.todo)
                                         /\ (r.raw \o call.todo)[k] = r.raw[k]
          BY <1>0, <2>4a, ConcatAt, Zenon
        <5>2. Len(r.raw \o call.todo) = Len(r.raw) + Len(call.todo)
          BY <1>0, <2>4a, ConcatProperties, Zenon
        <5> QED BY <5>1, <5>2, Zenon
      <4>7. j = Len(q) - 1
        <5> HIDE DEF q
        <5> QED BY <1>6, <4>1, <4>5, <4>6, Zenon
      <4>8. Len(call.todo) \in Nat /\ Len(call.todo) # 0
        BY <1>1, <1>3, EmptySeq
      <4>9. i \in 1..Len(p) /\ Len(p) <= Len(u) - 1
        BY <2>3, <3>3, <4>1
      <4> DEFINE ld == Len(d)
                 lr == Len(r.raw)
                 lt == Len(call.todo)
                 lp == Len(p)
                 lu == Len(u)
                 lq == Len(q)
      <4>10. /\ ld \in Nat /\ lr \in Nat /\ lt \in Nat /\ lt # 0 /\ lp \in Nat
             /\ lu = ld + lr /\ lq = lr + lt /\ j = lq - 1 /\ i = ld + j
             /\ i \in 1..lp /\ lp <= lu - 1 /\ j \in 1..lr
        BY <4>1, <4>4, <4>5, <4>6, <4>7, <4>8, <4>9
      <4> HIDE DEF ld, lr, lt, lp, lu, lq
      <4> QED BY <4>10
    <3> QED BY <2>3, <3>3 DEF NoEnd
  <2>6. Response' = (wire \o p) \o Pending
    BY <2>2, <2>3, Zenon DEF Response
  <2>7. OneEnd(Response')
    <3>1. /\ OneEnd(wire) /\ OneEnd(Pending)
          /\ wire \in Seq(NoEnd) \/ Pending \in Seq(NoEnd)
      <4>1. OneEnd(wire \o Pending)
        BY <2>4, Zenon DEF OrderIInv, EndsOnce
      <4> QED BY <2>4, <2>4a, <4>1, ConcatOneEnd, Zenon
    <3>2. OneEnd(p)
      BY <2>5, NoEndOneEnd, Zenon
    <3>3. /\ OneEnd(wire \o p) /\ wire \o p \in Seq(Record)
          /\ wire \in Seq(NoEnd) => wire \o p \in Seq(NoEnd)
      BY <1>3, <2>3, <2>5, <3>1, <3>2, ConcatOneEnd, ConcatProperties, Zenon
    <3> DEFINE y == wire \o p
    <3> HIDE DEF y
    <3>4. OneEnd(y \o Pending)
      BY <2>4, <3>1, <3>3, ConcatOneEnd, Zenon DEF y
    <3> QED BY <2>6, <3>4, Zenon DEF y
  <2>8. ~Ending' => Response' \in Seq(StreamRecord)
    <3> SUFFICES ASSUME ~Ending' PROVE Response' \in Seq(StreamRecord)
      OBVIOUS
    <3>1. ~Ending
      BY <2>1, Zenon DEF Ending
    <3>2. wire \in Seq(StreamRecord) /\ Pending \in Seq(StreamRecord)
      <4>1. wire \o Pending \in Seq(StreamRecord)
        BY <2>4, <3>1, Zenon DEF OrderIInv, EndsOnce
      <4> QED BY <2>4, <2>4a, <4>1, ConcatIn, Zenon
    <3>3. u \in Seq(StreamRecord)
      BY <1>3, <2>4, <3>2, ConcatIn, Zenon
    <3>4. p \in Seq(StreamRecord)
      BY <2>3, <3>3, ConcatIn, Zenon
    <3>5. wire \o p \in Seq(StreamRecord)
      BY <3>2, <3>4, ConcatProperties, Zenon
    <3> QED BY <2>6, <3>2, <3>5, ConcatProperties, Zenon
  <2>9. EndIsHeldBack'
    <3>1. stream'[call'.s].raw \o call'.todo = q
      BY <1>1, <1>5, <2>1, Zenon
    <3> QED BY <1>6, <3>1, Zenon DEF EndIsHeldBack
  <2>10. EndsInOrder'
    BY <1>9, Zenon DEF EndsInOrder
  <2> QED BY <2>7, <2>8, <2>9, <2>10, Zenon DEF EndsOnce
<1> HIDE DEF u
<1>10. \/ /\ wire' = wire \o u /\ failed' = failed
          /\ stream' = [stream EXCEPT ![s] = Emptied(r)]
       \/ /\ stream' = [stream EXCEPT ![s] = Errored(r)] /\ ~NoFailure'
          /\ \E p, v \in Seq(Record) :
                 /\ wire' = wire \o p /\ p \o v = u /\ Len(p) \in 0..(Len(u) - 1)
  BY <1>0, <1>3, <1>4, WriteEffects, Zenon DEF u
<1> QED BY <1>8, <1>9, <1>10, Zenon

\* A response that loses what a failed close had still to send keeps what is left
\* in order.
LEMMA FrontOrder ==
    ASSUME OrderIInv, NEW p \in Seq(Record), NEW v \in Seq(Record),
           Pending = p \o v, Response' = wire \o p, ~NoFailure', EndIsHeldBack',
           \A s \in Stream : Ended(s)' <=> Ended(s)
    PROVE  EndsOnce' /\ EndsInOrder'
<1> DEFINE x == wire \o p
<1>1. wire \in Seq(Record) /\ x \in Seq(Record)
  <2>1. wire \in Seq(Record)
    BY ResponseProps, Zenon DEF OrderIInv, FinishIInv
  <2> QED BY <2>1, ConcatProperties, Zenon
<1>2. Response = x \o v
  BY <1>1, ConcatAssoc, Zenon DEF Response
<1> HIDE DEF x
<1>3. OneEnd(x)
  <2>1. OneEnd(x \o v)
    BY <1>2, Zenon DEF OrderIInv, EndsOnce
  <2> QED BY <1>1, <2>1, ConcatOneEnd, Zenon
<1>4. ~Ending' => x \in Seq(StreamRecord)
  <2> SUFFICES ASSUME ~Ending' PROVE x \in Seq(StreamRecord)
    OBVIOUS
  <2>1. ~Ending
    BY Zenon DEF Ending
  <2>2. x \o v \in Seq(StreamRecord)
    BY <1>2, <2>1, Zenon DEF OrderIInv, EndsOnce
  <2> QED BY <1>1, <2>2, ConcatIn, Zenon
<1>5. EndsInOrder'
  BY Zenon DEF EndsInOrder
<1> QED BY <1>3, <1>4, <1>5, Zenon DEF x, EndsOnce

\* FCGX_FClose gives its closing records up only on a stream that failed.
LEMMA CloseDropsOrder ==
    ASSUME OrderIInv, NEW s \in Stream, CloseDrops(s)
    PROVE  EndsOnce' /\ EndsInOrder'
<1> DEFINE r == stream[s]
<1>0. FinishIInv /\ IInv /\ call \in Call
  BY Zenon DEF OrderIInv, FinishIInv, IInv, TypeOK
<1>1. /\ Closing(s) /\ r.isClosed /\ call' = [call EXCEPT !.todo = <<>>]
      /\ stream' = stream /\ wire' = wire /\ failed' = failed
  BY DEF CloseDrops, peer
<1>2. /\ wire \in Seq(Record) /\ call.todo \in Seq(Record)
      /\ Units(s, r) \in Seq(Record) /\ Pending = Units(s, r) \o call.todo
  BY <1>0, <1>1, ResponseProps, Zenon
<1>3. call'.op = "close" /\ call'.s = s /\ call'.todo = <<>>
  BY <1>0, <1>1 DEF Call, Closing
<1>4. ~NoFailure'
  <2>1. ~r.wasFCloseCalled
    BY <1>0, <1>1, Zenon DEF IInv, WritersOK, Closing
  <2>2. failed[s]
    BY <1>0, <1>1, <2>1, Zenon DEF FinishIInv, FlagsOK
  <2> QED BY <1>1, <2>2, Zenon DEF NoFailure
<1>5. Response' = wire \o Units(s, r)
  <2>1. Pending' = Units(s, r) \o <<>>
    BY <1>1, <1>3, Zenon DEF Pending
  <2>2. Units(s, r) \o <<>> = Units(s, r)
    BY <1>2, ConcatEmptySeq, Zenon
  <2> QED BY <1>1, <2>1, <2>2, Zenon DEF Response
<1>6. EndIsHeldBack'
  BY <1>3, Zenon DEF EndIsHeldBack
<1>7. \A t \in Stream : Ended(t)' <=> Ended(t)
  BY <1>1, <1>3, Zenon DEF Ended, Closing
<1> HIDE DEF r
<1> QED BY <1>2, <1>4, <1>5, <1>6, <1>7, FrontOrder, Zenon

\* FCGX_FClose returns with the response on the wire, or with the front of it.
LEMMA FCloseEndsOrder ==
    ASSUME OrderIInv, NEW s \in Stream, FCloseEnds(s)
    PROVE  EndsOnce' /\ EndsInOrder'
<1> DEFINE r == stream[s]
           u == Units(s, r)
<1>0. /\ FinishIInv /\ IInv /\ stream \in [Stream -> StreamState]
      /\ r \in StreamState
  BY ModeProps, Zenon DEF OrderIInv, FinishIInv, IInv, TypeOK
<1>1. /\ Closing(s) /\ call.todo = <<>> /\ accepted' = accepted /\ call' = Idle
      /\ \/ /\ Used(r) = 0 /\ stream' = [stream EXCEPT ![s] = Closed(r)]
            /\ wire' = wire /\ failed' = failed
         \/ WriteItAll(s, r, Closed(Emptied(r)), Closed(Errored(r)))
  BY Zenon DEF FCloseEnds, peer
<1>2. call'.op # "close"
  BY <1>1 DEF Idle
<1>3. /\ wire \in Seq(Record) /\ u \in Seq(Record) /\ Pending = u
  <2>1. /\ wire \in Seq(Record) /\ u \in Seq(Record) /\ Pending = u \o <<>>
    BY <1>0, <1>1, ResponseProps, Zenon
  <2> QED BY <2>1, ConcatEmptySeq, Zenon
<1>4. \/ /\ wire' = wire \o u /\ failed' = failed
         /\ stream' = [stream EXCEPT ![s] = Closed(r)]
      \/ /\ wire' = wire \o u /\ failed' = failed
         /\ stream' = [stream EXCEPT ![s] = Closed(Emptied(r))]
      \/ /\ stream' = [stream EXCEPT ![s] = Closed(Errored(r))] /\ ~NoFailure'
         /\ \E p, v \in Seq(Record) : wire' = wire \o p /\ p \o v = u
  <2>1. CASE /\ Used(r) = 0 /\ stream' = [stream EXCEPT ![s] = Closed(r)]
             /\ wire' = wire /\ failed' = failed
    <3>1. r.rawWrite
      BY <1>0, <1>1, Zenon DEF IInv, WritersOK, Closing
    <3>2. /\ r.body = <<>> /\ 8 * Len(r.raw) = 0 /\ r.raw \in Seq(Unit)
      <4>1. r.body \in Seq(Nat) /\ r.raw \in Seq(Unit)
        BY <1>0 DEF StreamState
      <4>2. Len(r.body) \in Nat /\ Len(r.raw) \in Nat
        BY <4>1, LenProperties
      <4> DEFINE a == Len(r.body)
                 b == Len(r.raw)
      <4>3. r.body # <<>> => HeaderLen + a + 8 * b = 0
        BY <2>1, Zenon DEF Used
      <4>4. r.body = <<>>
        <5> HIDE DEF a, b
        <5>1. a \in Nat /\ b \in Nat
          BY <4>2 DEF a, b
        <5> QED BY <4>3, <5>1 DEF HeaderLen
      <4> QED BY <2>1, <3>1, <4>1, <4>4, Zenon DEF Used
    <3>3. r.raw = <<>>
      <4>1. Len(r.raw) \in Nat
        BY <3>2, LenProperties
      <4>2. Len(r.raw) = 0
        BY <3>2, <4>1
      <4> QED BY <3>2, <4>2, EmptySeq
    <3>4. u = <<>>
      <4>1. <<>> \o <<>> = <<>>
        OBVIOUS
      <4> QED BY <3>2, <3>3, <4>1, Zenon DEF Units, DataUnit
    <3>5. wire \o <<>> = wire
      BY <1>3, ConcatEmptySeq, Zenon
    <3> QED BY <2>1, <3>4, <3>5, Zenon
  <2>2. CASE WriteItAll(s, r, Closed(Emptied(r)), Closed(Errored(r)))
    <3>1. \/ /\ wire' = wire \o Units(s, r) /\ failed' = failed
             /\ stream' = [stream EXCEPT ![s] = Closed(Emptied(r))]
          \/ /\ stream' = [stream EXCEPT ![s] = Closed(Errored(r))] /\ ~NoFailure'
             /\ \E p, v \in Seq(Record) :
                   /\ wire' = wire \o p /\ p \o v = Units(s, r)
                   /\ Len(p) \in 0..(Len(Units(s, r)) - 1)
      <4> HIDE DEF r
      <4> QED BY <1>0, <1>3, <2>2, WriteEffects, Zenon
    <3> QED BY <3>1, Zenon
  <2> QED BY <1>1, <2>1, <2>2, Zenon
<1>5. /\ Closed(r).wasFCloseCalled /\ Closed(Emptied(r)).wasFCloseCalled
      /\ Closed(Errored(r)).wasFCloseCalled
  BY <1>0, FlagsOfWrites
<1> HIDE DEF r, u
<1>6. \A t \in Stream : Ended(t)' <=> Ended(t)
  <2>1. \E q : q.wasFCloseCalled /\ stream' = [stream EXCEPT ![s] = q]
    BY <1>4, <1>5, Zenon
  <2>2. stream'[s].wasFCloseCalled /\ \A t \in Stream : t # s => stream'[t] = stream[t]
    BY <1>0, <2>1, Zenon
  <2> QED BY <1>1, <1>2, <2>2, Zenon DEF Ended, Closing
<1>7. EndIsHeldBack' /\ Pending' = <<>>
  BY <1>2, Zenon DEF EndIsHeldBack, Pending
<1>8. ASSUME NEW x \in Seq(Record), wire' = wire \o x PROVE Response' = wire \o x
  <2>1. (wire \o x) \o <<>> = wire \o x
    BY <1>3, ConcatProperties, ConcatEmptySeq, Zenon
  <2> QED BY <1>7, <1>8, <2>1, Zenon DEF Response
<1>9. CASE wire' = wire \o u /\ failed' = failed
  <2>1. Response' = Response
    BY <1>3, <1>8, <1>9, Zenon DEF Response
  <2>2. NoFailure' => NoFailure
    BY <1>9, Zenon DEF NoFailure
  <2>3. \A t \in Stream : accepted'[t] = accepted[t]
    BY <1>1
  <2> QED BY <1>6, <1>7, <2>1, <2>2, <2>3, SameResponse, Zenon
<1>10. CASE ~NoFailure' /\ \E p, v \in Seq(Record) : wire' = wire \o p /\ p \o v = u
  <2>1. PICK p \in Seq(Record), v \in Seq(Record) : wire' = wire \o p /\ p \o v = u
    BY <1>10
  <2>2. Response' = wire \o p /\ Pending = p \o v
    BY <1>3, <1>8, <2>1, Zenon
  <2> QED BY <1>6, <1>7, <1>10, <2>2, FrontOrder, Zenon
<1> QED BY <1>4, <1>9, <1>10, Zenon

\* A request begins with streams that are open and the empty response.
NothingSent ==
    /\ \A s \in Stream : ~stream[s].wasFCloseCalled
    /\ call.op # "close"
    /\ wire = <<>>

LEMMA NewResponse == NothingSent => EndsOnce /\ EndsInOrder
<1> SUFFICES ASSUME NothingSent PROVE EndsOnce /\ EndsInOrder
  OBVIOUS
<1>1. /\ Response = <<>> /\ EndIsHeldBack
  <2>1. <<>> \o <<>> = <<>>
    OBVIOUS
  <2> QED BY <2>1, Zenon DEF NothingSent, Response, Pending, EndIsHeldBack
<1>2. ~Ending /\ \A s \in Stream : ~Ended(s)
  <2>1. \A s \in Stream : ~Ended(s)
    BY Zenon DEF NothingSent, Ended, Closing
  <2>2. "out" \in Stream
    BY DEF Stream
  <2> QED BY <2>1, <2>2, Zenon DEF Ending
<1> QED BY <1>1, <1>2, EmptyOrder, Zenon DEF EndsOnce, EndsInOrder

\* The first request.
LEMMA InitOrderIInv == Init => OrderIInv
<1>1. Init => NothingSent
  BY DEF NothingSent, Init, Idle, NewWriter
<1> QED BY <1>1, InitFinishIInv, NewResponse, Zenon DEF OrderIInv

\* OrderIInv is inductive.
LEMMA NextOrderIInv == OrderIInv /\ [Next]_vars => OrderIInv'
<1> SUFFICES ASSUME OrderIInv, [Next]_vars PROVE EndsOnce' /\ EndsInOrder'
  BY NextFinishIInv, Zenon DEF OrderIInv
<1>1. ASSUME NEW s \in Stream, \/ \E counts \in Prints : VFPrintF(s, counts)
                               \/ ClearError(s) \/ PutFits(s) \/ PutFills(s)
                               \/ PutRefused(s) \/ FinishSkips(s)
      PROVE  EndsOnce' /\ EndsInOrder'
  BY <1>1, QuietOrder, Zenon
<1>2. CASE \/ \E status \in Status : SetExitStatus(status)
           \/ FinishBegins \/ PutReturns \/ FinishFrees
  BY <1>2, QuietOrder, Zenon
<1>3. CASE Accept
  <2>1. NothingSent'
    BY <1>3 DEF Accept, NewWriter, AppMayCall, NothingSent
  <2> QED BY <2>1, NewResponse, PTL
<1>4. CASE UNCHANGED vars
  <2>1. /\ Response' = Response /\ EndIsHeldBack' /\ NoFailure' = NoFailure
        /\ accepted' = accepted
        /\ \A s \in Stream : Ended(s)' <=> Ended(s)
    BY <1>4, Zenon DEF OrderIInv, EndsOnce, Response, Pending, EndIsHeldBack, Ended,
       Closing, NoFailure, vars, peer, request
  <2> QED BY <2>1, SameResponse, Zenon
<1>5. CASE App
  <2>1. ASSUME NEW s \in Stream, FFlush(s) PROVE EndsOnce' /\ EndsInOrder'
    BY <2>1, EmptyingOrder, Zenon
  <2>2. ASSUME NEW s \in Stream, FCloseBegins(s) PROVE EndsOnce' /\ EndsInOrder'
    BY <2>2, FCloseBeginsOrder, Zenon
  <2> QED BY <1>1, <1>2, <1>3, <1>5, <2>1, <2>2, Zenon DEF App
<1>6. CASE Library
  <2>1. ASSUME NEW s \in Stream, PutEmpties(s) PROVE EndsOnce' /\ EndsInOrder'
    BY <2>1, EmptyingOrder, Zenon
  <2>2. ASSUME NEW s \in Stream, FCloseBegins(s) PROVE EndsOnce' /\ EndsInOrder'
    BY <2>2, FCloseBeginsOrder, Zenon
  <2>3. ASSUME NEW s \in Stream, ClosePuts(s) PROVE EndsOnce' /\ EndsInOrder'
    BY <2>3, ClosePutsOrder, Zenon
  <2>4. ASSUME NEW s \in Stream, CloseEmpties(s) PROVE EndsOnce' /\ EndsInOrder'
    BY <2>4, CloseEmptiesOrder, Zenon
  <2>5. ASSUME NEW s \in Stream, CloseDrops(s) PROVE EndsOnce' /\ EndsInOrder'
    BY <2>5, CloseDropsOrder, Zenon
  <2>6. ASSUME NEW s \in Stream, FCloseEnds(s) PROVE EndsOnce' /\ EndsInOrder'
    BY <2>6, FCloseEndsOrder, Zenon
  <2> QED BY <1>1, <1>2, <1>6, <2>1, <2>2, <2>3, <2>4, <2>5, <2>6, Zenon
          DEF Library
<1> QED BY <1>4, <1>5, <1>6, Zenon DEF Next

\* A closed stream that never failed is delivered whole.
LEMMA ClosedIsWhole ==
    ASSUME FinishIInv, NEW s \in Stream, ~failed[s], Ended(s), Pending = <<>>
    PROVE  received[s] = Upto(accepted[s])
<1> DEFINE r == stream[s]
<1>0. IInv /\ r \in StreamState /\ BufferOK(s, r)
  BY ModeProps, Zenon DEF FinishIInv
<1>1. r.body = <<>>
  <2>1. CASE r.wasFCloseCalled
    BY <2>1, Zenon DEF FinishIInv, FlagsOK
  <2>2. CASE Closing(s)
    <3>1. /\ Units(s, r) \in Seq(Record) /\ call.todo \in Seq(Record)
          /\ Units(s, r) \o call.todo = <<>>
      BY <1>0, <2>2, ResponseProps, Zenon
    <3>2. Units(s, r) = <<>>
      <4> DEFINE u == Units(s, r)
                 w == call.todo
      <4> HIDE DEF u, w
      <4>1. u \in Seq(Record) /\ w \in Seq(Record) /\ u \o w = <<>>
        BY <3>1 DEF u, w
      <4>2. u = <<>>
        BY <4>1, ConcatProperties, EmptySeq
      <4> QED BY <4>2 DEF u
    <3>3. r.raw \in Seq(Unit)
      BY <1>0 DEF StreamState
    <3>4. \A a : <<a>> \o r.raw # <<>>
      BY <3>3
    <3> QED BY <3>2, <3>4, Zenon DEF Units, DataUnit
  <2> QED BY <2>1, <2>2 DEF Ended
<1>2. /\ received[s] \in Seq(Nat) /\ received[s] \o Buffered(r) = Upto(accepted[s])
  BY <1>0, Zenon DEF IInv, TypeOK, StreamIntegrity
<1>3. Buffered(r) = <<>>
  <2>1. r.rawWrite => r.cLen = 0
    <3>1. r.cLen \in Nat
      BY <1>0 DEF StreamState
    <3>2. r.rawWrite => r.cLen <= 0
      BY <1>0, <1>1 DEF BufferOK
    <3> QED BY <3>1, <3>2
  <2>2. SubSeq(<<>>, 1, 0) = <<>>
    BY SubSeqEmpty
  <2> QED BY <1>1, <2>1, <2>2, Zenon DEF Buffered, Content
<1> QED BY <1>2, <1>3, ConcatEmptySeq, Zenon

\* END_REQUEST's body on the wire has nothing behind it, and the streams have ended.
LEMMA EndIsWire ==
    ASSUME OrderIInv, NoFailure, EndSent
    PROVE  Ending /\ Pending = <<>> /\ Response = wire
<1>1. /\ wire \in Seq(Record) /\ Pending \in Seq(Record) /\ InOrder(wire \o Pending)
      /\ Response = wire \o Pending
  BY ResponseProps, Zenon DEF OrderIInv, FinishIInv, EndsInOrder, Response
<1>2. Len(wire) \in DOMAIN wire /\ wire[Len(wire)].type = "endBody"
  <2>1. Len(wire) \in Nat /\ Len(wire) # 0 /\ DOMAIN wire = 1..Len(wire)
    <3>1. Len(wire) \in Nat /\ DOMAIN wire = 1..Len(wire) /\ wire # <<>>
      BY <1>1, LenProperties, Zenon DEF EndSent
    <3> QED BY <1>1, <3>1, EmptySeq
  <2> QED BY <2>1 DEF EndSent
<1>3. Pending = <<>>
  BY <1>1, <1>2, FrontInOrder, Zenon
<1>4. Response = wire
  BY <1>1, <1>3, ConcatEmptySeq, Zenon
<1>5. Ending
  <2> SUFFICES ASSUME ~Ending PROVE FALSE
    OBVIOUS
  <2>1. wire \in Seq(StreamRecord)
    BY <1>4, Zenon DEF OrderIInv, EndsOnce
  <2>2. wire[Len(wire)] \in StreamRecord
    BY <1>1, <1>2, <2>1, LenProperties, ElementOfSeq, Zenon
  <2> QED BY <1>2, <2>2, TypesDiffer DEF StreamRecord
<1> QED BY <1>3, <1>4, <1>5

\* What OrderIInv says of the wire.
LEMMA OrderedResponse == OrderIInv => ResponseOrder
<1> SUFFICES ASSUME OrderIInv PROVE ResponseOrder
  OBVIOUS
<1>1. /\ wire \in Seq(Record) /\ Pending \in Seq(Record)
      /\ Response = wire \o Pending /\ FinishIInv /\ IInv
  BY ResponseProps, Zenon DEF OrderIInv, FinishIInv, Response
<1>2. EndAtMostOnce
  <2>1. OneEnd(wire \o Pending)
    BY <1>1, Zenon DEF OrderIInv, EndsOnce
  <2> QED BY <1>1, <2>1, ConcatOneEnd, Zenon DEF EndAtMostOnce
<1>3. ASSUME NoFailure PROVE EndIsLast /\ EndMeansComplete
  <2>1. EndIsLast
    <3>1. InOrder(wire \o Pending)
      BY <1>1, <1>3, Zenon DEF OrderIInv, EndsInOrder
    <3> QED BY <1>1, <3>1, FrontInOrder, Zenon DEF EndIsLast
  <2>2. ASSUME conn # "open" PROVE EndSent
    <3>1. call.op # "close" /\ \A s \in Stream : stream[s].wasFCloseCalled
      BY <2>2 DEF OrderIInv, FinishIInv, Phases
    <3>2. Response = wire /\ Ending
      BY <1>1, <3>1, ResponseProps, Zenon DEF Ending, Ended
    <3> QED BY <1>3, <3>2, Zenon DEF OrderIInv, EndsInOrder, EndSent
  <2>3. ASSUME EndSent, NEW s \in Stream
        PROVE  /\ received[s] = Upto(accepted[s])
               /\ EofIn(wire, s) \/ (s = "err" /\ accepted[s] = 0)
    <3>1. Ending /\ Pending = <<>> /\ Response = wire
      BY <1>3, <2>3, EndIsWire
    <3>2. Ended(s) /\ ~failed[s]
      BY <1>3, <3>1, Zenon DEF Ending, NoFailure
    <3>3. received[s] = Upto(accepted[s])
      BY <1>1, <3>1, <3>2, ClosedIsWhole
    <3>4. EofIn(wire, s) \/ (s = "err" /\ accepted[s] = 0)
      BY <1>3, <3>1, <3>2, Zenon DEF OrderIInv, EndsInOrder
    <3> QED BY <3>3, <3>4
  <2> QED BY <2>1, <2>2, <2>3, Zenon DEF EndMeansComplete
<1> QED BY <1>2, <1>3 DEF ResponseOrder

\* A response has END_REQUEST at most once and, unless a write failed, as its last
\* record, behind everything the streams took and the EOF of each; and a request is
\* over only with it (FCGX_FClose and WriteCloseRecords, fcgiapp.c:853-936, and
\* FCGX_Finish_r, 2003-2046).
THEOREM ResponseAlwaysOrdered == Spec => []ResponseOrder
BY InitOrderIInv, NextOrderIInv, OrderedResponse, PTL DEF Spec

=============================================================================
