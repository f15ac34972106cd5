----------------------- MODULE NXFFmpegExtractorProofs -----------------------
(***************************************************************************)
(* Proofs about the FFmpeg extractor, for one track or two, any length of  *)
(* the file, limits of the queues, and numbers of seeks and of failed      *)
(* calls: a read that asked for a position gets a packet from there, the   *)
(* end is told after the last packet, and the file is closed under nobody. *)
(***************************************************************************)
EXTENDS NXFFmpegExtractor, SequenceTheorems, FiniteSetTheorems, TLAPS

\* Where the reader carries out a seek, where it has closed the audio, and where
\* a read asks for a seek.
SeekAt == {"flushA", "flushV", "seeked"}
AudioClosedAt == {"closeV", "endV", "close", "done"}
Asking == {"flushA", "flushV", "ask"}

\* The reader holds a packet only between reading and putting it.
PacketInv == /\ rpc = "put" <=> pkt # <<>>
             /\ pkt # <<>> => pkt[1] \in Tracks /\ pkt[2].kind = "data" /\ pkt[2].pos = pos

\* A queue is closed once its track was told of the end or a stop is asked for,
\* and stays empty.
CloseInv ==
  /\ \A t \in Tracks : ~idx[t] => /\ queue[t] = <<>> /\ rpc \in AudioClosedAt
                                  /\ EOSReceived[t] \/ mAbortRequest
  /\ rpc \in AudioClosedAt => ~Valid("audio")
  /\ rpc \in {"close", "done"} => ~Valid("video")

\* A stop joins the reader it has asked to end, once.
StopInv == /\ mAbortRequest => spc = "join" \/ ~mReaderThreadStarted
           /\ spc = "join" <=> mLock = "stop"

\* A read asks for a position with the lock of the extractor.
LockInv == \A t \in Tracks : tpc[t] \in Asking <=> mLock = t

SeekSet == {u \in Tracks : tpc[u] = "seek"}
CountInv == seeks + Cardinality(SeekSet) <= MaxSeeks

\* Positions only grow, since they are numbered under the lock: the one asked
\* for is new until the reader has been there.
PosInv ==
  /\ pos <= mSeekPos /\ mSeekPos <= seeks
  /\ mSeekReq /\ rpc \notin SeekAt => pos < mSeekPos
  /\ rpc \in SeekAt => mSeekReq
  /\ \A t \in Tracks : tpc[t] \in Asking => asked[t] = seeks /\ mSeekPos < seeks
  /\ \A t \in Tracks : tpc[t] \in {"idle", "seek"} => asked[t] = 0

\* The packets of a queue q: none is from a position after p; all, or none, are
\* from p; those behind a flush packet are from p; no packet follows a mark of
\* the end of its position.
Used(q, p) == \A i \in 1 .. Len(q) : q[i].kind # "flush" => q[i].pos <= p
AllAt(q, p) == \A i \in 1 .. Len(q) : q[i].kind = "data" => q[i].pos = p
NoneAt(q, p) == \A i \in 1 .. Len(q) : q[i].kind = "data" => q[i].pos # p
HasFlush(q) == \E i \in 1 .. Len(q) : q[i].kind = "flush"
BehindFlush(q, p) ==
  \A i, j \in 1 .. Len(q) : i < j /\ q[i].kind = "flush" /\ q[j].kind = "data" => q[j].pos = p
MarksLast(q) ==
  \A i, j \in 1 .. Len(q) : i < j /\ q[i].kind = "eos" /\ q[j].kind = "data" => q[j].pos # q[i].pos

\* Nothing comes from a position the reader has not been at.
UsedInv ==
  \A t \in Tracks : /\ Used(queue[t], pos)
                    /\ hand[t].kind = "eos" => hand[t].pos <= pos

\* What a mark of the end of position p, in the queue of t or taken from it,
\* stands for.
Ended(t, p) == /\ p = pos => left = 0
               /\ pkt # <<>> => pkt[1] # t \/ pkt[2].pos # p

Marked(t) ==
  /\ MarksLast(queue[t])
  /\ \A i \in 1 .. Len(queue[t]) : queue[t][i].kind = "eos" => Ended(t, queue[t][i].pos)
  /\ hand[t].kind = "eos" => Ended(t, hand[t].pos) /\ NoneAt(queue[t], hand[t].pos)

\* A mark of the end is put when the file has no more, and no packet of its
\* position follows it.
EndInv == errors = 0 /\ ~mAbortRequest =>
  /\ rpc \in {"eosV", "eosA"} => eof
  /\ eof /\ rpc \notin SeekAt => left = 0
  /\ \A t \in Tracks : Marked(t)

\* While one seek is on its way at a time: until it is asked for, the reader
\* seeks nowhere, and no flush packet outlives the emptying of the queue; from
\* then on what follows a flush packet is from the position asked for, and so
\* is everything once the read has taken one.
Emptied(t) == tpc[t] = "ask" \/ (t = "audio" /\ tpc[t] = "flushV")
Landed(t) == IF seeking[t]
             THEN /\ BehindFlush(queue[t], asked[t])
                  /\ HasFlush(queue[t]) => pos = asked[t]
             ELSE pos = asked[t] /\ AllAt(queue[t], asked[t])
SoleSeek == \A t, u \in Tracks : asked[t] # 0 /\ asked[u] # 0 => t = u
AskInv(t) == tpc[t] \in Asking => ~mSeekReq /\ (Emptied(t) => ~HasFlush(queue[t]))
LandInv(t) == asked[t] # 0 /\ tpc[t] \notin Asking =>
  /\ mSeekReq => mSeekPos = asked[t]
  /\ rpc \in {"flushA", "flushV"} => pos = asked[t]
  /\ Landed(t)
  /\ tpc[t] = "have" => hand[t].pos = asked[t]
SeekInv == ~contended => SoleSeek /\ \A t \in Tracks : AskInv(t) /\ LandInv(t)

IInv == /\ TypeOK /\ PacketInv /\ CloseInv /\ StopInv /\ LockInv /\ CountInv /\ PosInv
        /\ UsedInv /\ EndInv /\ SeekInv

-----------------------------------------------------------------------------
(* Packets and their queues.                                               *)

\* The three kinds of packets and what each carries.
LEMMA Kinds ==
  /\ flush_pkt \in Packets /\ flush_pkt.kind = "flush" /\ None.kind = "none"
  /\ \A p \in 0 .. MaxSeeks : Eos(p) \in Packets /\ Eos(p).kind = "eos" /\ Eos(p).pos = p
  /\ \A p \in 0 .. MaxSeeks, k \in BOOLEAN :
       Data(p, k) \in Packets /\ Data(p, k).kind = "data" /\ Data(p, k).pos = p
  /\ \A x \in Packets : /\ x.kind \in {"flush", "eos", "data"}
                        /\ x.kind # "flush" => x.pos \in 0 .. MaxSeeks
BY DEF flush_pkt, None, Eos, Data, Packets

\* An emptied queue, and one that then got its flush packet.
LEMMA SmallQueues ==
  /\ <<>> \in Seq(Packets) /\ Len(<<>>) = 0
  /\ <<flush_pkt>> \in Seq(Packets) /\ Len(<<flush_pkt>>) = 1 /\ <<flush_pkt>>[1] = flush_pkt
BY Kinds

\* A put leaves the packets of a queue in their places,
LEMMA PutQueue ==
  ASSUME NEW q \in Seq(Packets), NEW x \in Packets
  PROVE  /\ Append(q, x) \in Seq(Packets) /\ Len(q) \in Nat /\ Len(Append(q, x)) = Len(q) + 1
         /\ \A i \in 1 .. Len(q) : Append(q, x)[i] = q[i]
         /\ Append(q, x)[Len(q) + 1] = x
BY AppendProperties, LenProperties

\* and a get moves them up by one.
LEMMA GetQueue ==
  ASSUME NEW q \in Seq(Packets), q # <<>>
  PROVE  /\ Tail(q) \in Seq(Packets) /\ Len(q) \in Nat /\ Len(q) > 0 /\ Len(Tail(q)) = Len(q) - 1
         /\ \A i \in 1 .. Len(Tail(q)) : Tail(q)[i] = q[i + 1]
         /\ Head(q) = q[1] /\ Head(q) \in Packets
BY HeadTailProperties, LenProperties, EmptySeq

\* What holds of a queue that is emptied, flushed, put to or taken from.
LEMMA EmptyHolds ==
  ASSUME NEW p
  PROVE  /\ Used(<<>>, p) /\ AllAt(<<>>, p) /\ NoneAt(<<>>, p) /\ BehindFlush(<<>>, p)
         /\ MarksLast(<<>>) /\ ~HasFlush(<<>>)
BY DEF Used, AllAt, NoneAt, BehindFlush, MarksLast, HasFlush

\* What holds of a queue with nothing but a flush packet.
LEMMA FlushHolds ==
  ASSUME NEW p
  PROVE  LET q == <<flush_pkt>>
         IN  /\ Used(q, p) /\ AllAt(q, p) /\ NoneAt(q, p) /\ BehindFlush(q, p) /\ MarksLast(q)
             /\ \A i \in 1 .. Len(q) : q[i].kind = "flush"
BY Kinds, SmallQueues DEF Used, AllAt, NoneAt, BehindFlush, MarksLast

\* What a put keeps of a queue, by the packet that is put,
LEMMA PutHolds ==
  ASSUME NEW q \in Seq(Packets), NEW x \in Packets, NEW p
  PROVE  LET r == Append(q, x)
         IN  /\ Used(q, p) /\ x.pos <= p => Used(r, p)
             /\ AllAt(q, p) /\ (x.kind = "data" => x.pos = p) => AllAt(r, p)
             /\ NoneAt(q, p) /\ (x.kind = "data" => x.pos # p) => NoneAt(r, p)
             /\ x.kind # "flush" /\ HasFlush(r) => HasFlush(q)
             /\ BehindFlush(q, p) /\ (HasFlush(q) /\ x.kind = "data" => x.pos = p)
                  => BehindFlush(r, p)
             /\ MarksLast(q) => MarksLast(r) \/ \E i \in 1 .. Len(q) : /\ q[i].kind = "eos"
                                                                      /\ x.kind = "data"
                                                                      /\ q[i].pos = x.pos
<1> DEFINE r == Append(q, x)
           n == Len(q)
<1>1. /\ n \in Nat /\ Len(r) = n + 1 /\ r[n + 1] = x
      /\ \A i \in 1 .. n : r[i] = q[i]
  BY PutQueue
<1> HIDE DEF r
<1>2. \A i \in 1 .. n + 1 : i \in 1 .. n \/ i = n + 1
  BY <1>1
<1>3. Used(q, p) /\ x.pos <= p => Used(r, p)
  BY <1>1, <1>2 DEF Used
<1>4. AllAt(q, p) /\ (x.kind = "data" => x.pos = p) => AllAt(r, p)
  BY <1>1, <1>2 DEF AllAt
<1>5. NoneAt(q, p) /\ (x.kind = "data" => x.pos # p) => NoneAt(r, p)
  BY <1>1, <1>2 DEF NoneAt
<1>6. x.kind # "flush" /\ HasFlush(r) => HasFlush(q)
  BY <1>1, <1>2 DEF HasFlush
<1>7. ASSUME BehindFlush(q, p), HasFlush(q) /\ x.kind = "data" => x.pos = p
      PROVE  BehindFlush(r, p)
  <2> SUFFICES ASSUME NEW i \in 1 .. n + 1, NEW j \in 1 .. n + 1, i < j,
                      r[i].kind = "flush", r[j].kind = "data"
               PROVE  r[j].pos = p
    BY <1>1 DEF BehindFlush
  <2>1. i \in 1 .. n /\ r[i] = q[i]
    BY <1>1
  <2>2. CASE j = n + 1
    BY <1>1, <1>7, <2>1, <2>2 DEF HasFlush
  <2>3. CASE j \in 1 .. n
    BY <1>1, <1>7, <2>1, <2>3 DEF BehindFlush
  <2> QED BY <1>2, <2>2, <2>3
<1>8. ASSUME MarksLast(q), ~\E i \in 1 .. n : q[i].kind = "eos" /\ x.kind = "data" /\ q[i].pos = x.pos
      PROVE  MarksLast(r)
  <2> SUFFICES ASSUME NEW i \in 1 .. n + 1, NEW j \in 1 .. n + 1, i < j,
                      r[i].kind = "eos", r[j].kind = "data"
               PROVE  r[j].pos # r[i].pos
    BY <1>1 DEF MarksLast
  <2>1. i \in 1 .. n /\ r[i] = q[i]
    BY <1>1
  <2>2. CASE j = n + 1
    BY <1>1, <1>8, <2>1, <2>2
  <2>3. CASE j \in 1 .. n
    BY <1>1, <1>8, <2>1, <2>3 DEF MarksLast
  <2> QED BY <1>2, <2>2, <2>3
<1> QED BY <1>3, <1>4, <1>5, <1>6, <1>7, <1>8 DEF r

\* and what a get keeps, and says of the packet it takes.
LEMMA GetHolds ==
  ASSUME NEW q \in Seq(Packets), q # <<>>, NEW p
  PROVE  LET r == Tail(q)
             x == Head(q)
         IN  /\ Used(q, p) => Used(r, p) /\ (x.kind # "flush" => x.pos <= p)
             /\ AllAt(q, p) => AllAt(r, p) /\ (x.kind = "data" => x.pos = p)
             /\ NoneAt(q, p) => NoneAt(r, p)
             /\ HasFlush(r) => HasFlush(q)
             /\ x.kind = "flush" => HasFlush(q)
             /\ BehindFlush(q, p) => BehindFlush(r, p) /\ (x.kind = "flush" => AllAt(r, p))
             /\ MarksLast(q) => MarksLast(r) /\ (x.kind = "eos" => NoneAt(r, x.pos))
<1> DEFINE r == Tail(q)
           x == Head(q)
           n == Len(q)
<1>1. /\ n \in Nat /\ n > 0 /\ Len(r) = n - 1 /\ x = q[1] /\ 1 \in 1 .. n
      /\ \A i \in 1 .. n - 1 : r[i] = q[i + 1] /\ i + 1 \in 1 .. n /\ 1 < i + 1
      /\ \A i, j \in 1 .. n - 1 : i < j => i + 1 < j + 1
  BY GetQueue
<1> HIDE DEF r, x, n
<1>2. Used(q, p) => Used(r, p) /\ (x.kind # "flush" => x.pos <= p)
  BY <1>1 DEF Used, n
<1>3. AllAt(q, p) => AllAt(r, p) /\ (x.kind = "data" => x.pos = p)
  BY <1>1 DEF AllAt, n
<1>4. NoneAt(q, p) => NoneAt(r, p)
  BY <1>1 DEF NoneAt, n
<1>5. (HasFlush(r) => HasFlush(q)) /\ (x.kind = "flush" => HasFlush(q))
  BY <1>1 DEF HasFlush, n
<1>6. BehindFlush(q, p) => BehindFlush(r, p) /\ (x.kind = "flush" => AllAt(r, p))
  <2>1. BehindFlush(q, p) => BehindFlush(r, p)
    BY <1>1 DEF BehindFlush, n
  <2>2. BehindFlush(q, p) /\ x.kind = "flush" => AllAt(r, p)
    BY <1>1 DEF BehindFlush, AllAt, n
  <2> QED BY <2>1, <2>2
<1>7. MarksLast(q) => MarksLast(r) /\ (x.kind = "eos" => NoneAt(r, x.pos))
  <2>1. ASSUME MarksLast(q) PROVE MarksLast(r)
    <3> SUFFICES ASSUME NEW i \in 1 .. n - 1, NEW j \in 1 .. n - 1, i < j,
                        r[i].kind = "eos", r[j].kind = "data"
                 PROVE  r[j].pos # r[i].pos
      BY <1>1 DEF MarksLast
    <3>1. /\ r[i] = q[i + 1] /\ i + 1 \in 1 .. n /\ r[j] = q[j + 1] /\ j + 1 \in 1 .. n
          /\ i + 1 < j + 1
      BY <1>1
    <3> QED BY <2>1, <3>1 DEF MarksLast, n
  <2>2. MarksLast(q) /\ x.kind = "eos" => NoneAt(r, x.pos)
    BY <1>1 DEF MarksLast, NoneAt, n
  <2> QED BY <2>1, <2>2
<1> QED BY <1>2, <1>3, <1>4, <1>5, <1>6, <1>7 DEF r, x

-----------------------------------------------------------------------------
(* Who steps, and what that leaves alone.                                  *)

TrackStep(t) == Read(t) \/ \E s \in BOOLEAN : ReadCall(t, s)
StopStep == Stop \/ \E t \in Tracks : StopCall(t)

\* Every step is one of the reader, of one track or of the stop, and leaves the others'
\* variables alone.
LEMMA Who ==
  ASSUME [Next]_vars
  PROVE  \/ Reader /\ UNCHANGED <<notReader, mSeekPos, mAbortRequest, mReaderThreadStarted,
                                  EOSReceived>>
         \/ \E t \in Tracks : TrackStep(t) /\ UNCHANGED <<notTrack, abort_request, idx>>
         \/ StopStep /\ UNCHANGED notStop
         \/ UNCHANGED vars
<1>1. ASSUME Reader PROVE UNCHANGED <<notReader, mSeekPos, mAbortRequest, mReaderThreadStarted,
                                      EOSReceived>>
  BY <1>1 DEF Reader, ReaderTop, SeekFile, SeekDone, IfFull, AutoExit, av_read_frame, PutPacket,
              SeekFlush, PutEos, WaitAbort, CloseInput, CloseAbort, CloseEnd, flagVars
<1>2. ASSUME NEW t \in Tracks, NEW s \in BOOLEAN, ReadCall(t, s)
      PROVE  UNCHANGED <<notTrack, abort_request, idx>>
  BY <1>2 DEF ReadCall, queueVars
<1>3. ASSUME NEW t \in Tracks, Read(t) PROVE UNCHANGED <<notTrack, abort_request, idx>>
  BY <1>3 DEF Read, StreamSeekRefused, StreamSeek, StreamSeekAsk, StreamSeekFlush, GetAborted,
              Drop, GetFlush, GetEos, GetData, GetPacket, ReturnData, reachedEOS, queueVars
<1>4. ASSUME StopStep PROVE UNCHANGED notStop
  BY <1>4 DEF StopStep, Stop, StopTrack, StopReader, StopJoin, StopCall
<1> QED BY <1>1, <1>2, <1>3, <1>4 DEF Next, TrackStep, StopStep

\* The bounds are numbers.
LEMMA Bounds == FileLen \in Nat /\ MaxSeeks \in Nat /\ MaxErrors \in Nat
BY ExtractorParameters

\* The reader's variables keep their types,
LEMMA StepReaderType ==
  ReaderType /\ FlagType /\ [Next]_vars => ReaderType'
<1> SUFFICES ASSUME ReaderType, FlagType, [Next]_vars PROVE ReaderType'
  OBVIOUS
<1>1. CASE Reader
  <2>1. CASE ReaderTop \/ SeekDone \/ IfFull \/ AutoExit \/ WaitAbort \/ CloseInput
    BY <2>1 DEF ReaderTop, SeekDone, IfFull, AutoExit, WaitAbort, CloseInput, RGoto, ReaderType,
                fileVars
  <2>2. CASE SeekFile
    <3>1. rpc' \in {"full", "flushA", "seeked"} /\ UNCHANGED <<eof, pkt>>
          /\ (left' \in 0 .. FileLen \/ UNCHANGED left) /\ pos' \in {pos, mSeekPos}
      BY <2>2 DEF SeekFile, fileVars
    <3>2. errors' = errors \/ (errors < MaxErrors /\ errors' = errors + 1)
      BY <2>2 DEF SeekFile
    <3>3. errors' \in 0 .. MaxErrors
      BY <3>2, Bounds DEF ReaderType
    <3> QED BY <3>1, <3>3 DEF ReaderType, FlagType
  <2>3. CASE av_read_frame
    <3>0. /\ left' = left \/ (left > 0 /\ left' = left - 1)
          /\ errors' = errors \/ (errors < MaxErrors /\ errors' = errors + 1)
      BY <2>3 DEF av_read_frame
    <3>1. /\ rpc' \in {"put", "top", "wait"} /\ eof' \in {eof, TRUE} /\ UNCHANGED pos
      BY <2>3 DEF av_read_frame
    <3>4. left' \in 0 .. FileLen /\ errors' \in 0 .. MaxErrors
      BY <3>0, Bounds DEF ReaderType
    <3>2. UNCHANGED pkt \/ \E t \in Tracks, key \in BOOLEAN : pkt' = <<t, Data(pos, key)>>
      BY <2>3 DEF av_read_frame
    <3>3. pkt' = <<>> \/ pkt' \in Tracks \X Packets
      BY <3>2, Kinds DEF ReaderType
    <3> QED BY <3>1, <3>3, <3>4 DEF ReaderType
  <2>4. CASE PutPacket
    BY <2>4 DEF PutPacket, RGoto, ReaderType, fileVars
  <2>5. CASE \/ SeekFlush("audio", "flushA", "flushV") \/ SeekFlush("video", "flushV", "seeked")
             \/ PutEos("video", "eosV", "eosA") \/ PutEos("audio", "eosA", "exit?")
    BY <2>5 DEF SeekFlush, PutEos, RGoto, ReaderType, fileVars
  <2>6. CASE \/ CloseAbort("audio", "closeA", "endA", "closeV") \/ CloseEnd("audio", "endA", "closeV")
             \/ CloseAbort("video", "closeV", "endV", "close") \/ CloseEnd("video", "endV", "close")
    BY <2>6 DEF CloseAbort, CloseEnd, RGoto, ReaderType, fileVars
  <2> QED BY <1>1, <2>1, <2>2, <2>3, <2>4, <2>5, <2>6 DEF Reader
<1>2. CASE UNCHANGED notTrack \/ UNCHANGED notStop \/ UNCHANGED vars
  BY <1>2 DEF notTrack, notStop, vars, ReaderType, fileVars
<1> QED BY <1>1, <1>2, Who

\* A step of a read on t moves t only.
LEMMA ReadMoves ==
  ASSUME ReadType, NEW t \in Tracks, TrackStep(t)
  PROVE  /\ tpc' \in [Tracks -> {"idle", "seek", "flushA", "flushV", "ask", "get", "eos", "have"}]
         /\ \A u \in Tracks \ {t} : tpc'[u] = tpc[u] /\ hand'[u] = hand[u]
                                    /\ asked'[u] = asked[u] /\ seeking'[u] = seeking[u]
<1>1. ASSUME NEW f, NEW x \in {"idle", "seek", "flushA", "flushV", "ask", "get", "eos", "have"},
             TGoto(t, f, x)
      PROVE  /\ tpc' \in [Tracks -> {"idle", "seek", "flushA", "flushV", "ask", "get", "eos", "have"}]
             /\ \A u \in Tracks \ {t} : tpc'[u] = tpc[u]
  BY <1>1 DEF TGoto, ReadType
<1>2. \E f, x : TGoto(t, f, x)
                /\ x \in {"idle", "seek", "flushA", "flushV", "ask", "get", "eos", "have"}
  BY DEF TrackStep, ReadCall, Read, StreamSeekRefused, StreamSeek, StreamSeekAsk,
         StreamSeekFlush, GetAborted, Drop, GetFlush, GetEos, GetData, GetPacket, ReturnData,
         reachedEOS
<1>3. \A u \in Tracks \ {t} : hand'[u] = hand[u]
  BY DEF TrackStep, ReadCall, Read, StreamSeekRefused, StreamSeek, StreamSeekAsk,
         StreamSeekFlush, GetAborted, Drop, GetFlush, GetEos, GetData, GetPacket, ReturnData,
         reachedEOS, Return, ReadType
<1>4. \A u \in Tracks \ {t} : asked'[u] = asked[u]
  BY DEF TrackStep, ReadCall, Read, StreamSeekRefused, StreamSeek, StreamSeekAsk,
         StreamSeekFlush, GetAborted, Drop, GetFlush, GetEos, GetData, GetPacket, ReturnData,
         reachedEOS, Return, ReadType
<1>5. \A u \in Tracks \ {t} : seeking'[u] = seeking[u]
  BY DEF TrackStep, ReadCall, Read, StreamSeekRefused, StreamSeek, StreamSeekAsk,
         StreamSeekFlush, GetAborted, Drop, GetFlush, GetEos, GetData, GetPacket, ReturnData,
         reachedEOS, Return, ReadType
<1> QED BY <1>1, <1>2, <1>3, <1>4, <1>5


\* What a step of the reader does to the queues.
LEMMA ReaderQueue ==
  ASSUME ReaderType, QueueType, PacketInv, Reader
  PROVE  \/ UNCHANGED queue
         \/ \E u \in Tracks : /\ Valid(u) /\ rpc \in {"flushA", "flushV"}
                              /\ queue' = [queue EXCEPT ![u] = <<flush_pkt>>]
         \/ \E u \in Tracks : /\ Valid(u) /\ rpc \in {"eosV", "eosA"}
                              /\ queue' = [queue EXCEPT ![u] = Append(queue[u], Eos(pos))]
         \/ /\ pkt # <<>> /\ rpc = "put" /\ pkt[1] \in Tracks /\ pkt[2] \in Packets
            /\ queue' = [queue EXCEPT ![pkt[1]] = Append(queue[pkt[1]], pkt[2])]
         \/ \E u \in Tracks : /\ rpc \in {"endA", "endV"} /\ ~idx'[u]
                              /\ queue' = [queue EXCEPT ![u] = <<>>]
<1>1. CASE \/ ReaderTop \/ SeekFile \/ SeekDone \/ IfFull \/ AutoExit \/ av_read_frame \/ WaitAbort
           \/ CloseInput \/ CloseAbort("audio", "closeA", "endA", "closeV")
           \/ CloseAbort("video", "closeV", "endV", "close")
  BY <1>1 DEF ReaderTop, SeekFile, SeekDone, IfFull, AutoExit, av_read_frame, WaitAbort, CloseInput,
              CloseAbort, queueVars
<1>2. ASSUME NEW u, NEW from, NEW to, SeekFlush(u, from, to), from \in {"flushA", "flushV"}
      PROVE  UNCHANGED queue \/ /\ u \in Tracks /\ Valid(u) /\ rpc \in {"flushA", "flushV"}
                                /\ queue' = [queue EXCEPT ![u] = <<flush_pkt>>]
  BY <1>2 DEF SeekFlush, RGoto, Valid
<1>3. ASSUME NEW u, NEW from, NEW to, PutEos(u, from, to), from \in {"eosV", "eosA"}
      PROVE  UNCHANGED queue \/ /\ u \in Tracks /\ Valid(u) /\ rpc \in {"eosV", "eosA"}
                                /\ queue' = [queue EXCEPT ![u] = Append(queue[u], Eos(pos))]
  BY <1>3 DEF PutEos, RGoto, Valid, packet_queue_put
<1>4. CASE PutPacket
  BY <1>4 DEF PutPacket, RGoto, PacketInv, packet_queue_put, ReaderType
<1>5. ASSUME NEW u \in {"audio", "video"}, NEW from, NEW to, CloseEnd(u, from, to),
             from \in {"endA", "endV"}
      PROVE  \/ UNCHANGED queue
             \/ /\ u \in Tracks /\ rpc \in {"endA", "endV"} /\ ~idx'[u]
                /\ queue' = [queue EXCEPT ![u] = <<>>]
  <2>1. CASE u \in Tracks
    BY <1>5, <2>1 DEF CloseEnd, RGoto, QueueType
  <2>2. CASE u \notin Tracks
    BY <1>5, <2>2 DEF CloseEnd, RGoto, QueueType
  <2> QED BY <2>1, <2>2
<1>6. CASE SeekFlush("audio", "flushA", "flushV") \/ SeekFlush("video", "flushV", "seeked")
  BY <1>2, <1>6
<1>7. CASE PutEos("video", "eosV", "eosA") \/ PutEos("audio", "eosA", "exit?")
  BY <1>3, <1>7
<1>8. CASE CloseEnd("audio", "endA", "closeV") \/ CloseEnd("video", "endV", "close")
  BY <1>5, <1>8
<1> QED BY <1>1, <1>4, <1>6, <1>7, <1>8 DEF Reader

\* What a step of a read of t does to the queues.
LEMMA TrackQueue ==
  ASSUME QueueType, NEW t \in Tracks, TrackStep(t)
  PROVE  \/ UNCHANGED queue
         \/ \E u \in Tracks : /\ tpc[t] \in {"flushA", "flushV"}
                              /\ queue' = [queue EXCEPT ![u] = <<>>]
         \/ /\ tpc[t] = "get" /\ queue[t] # <<>>
            /\ queue' = [queue EXCEPT ![t] = Tail(queue[t])]
<1>1. CASE \/ StreamSeekRefused(t) \/ StreamSeek(t) \/ StreamSeekAsk(t) \/ GetAborted(t)
           \/ ReturnData(t) \/ reachedEOS(t) \/ \E s \in BOOLEAN : ReadCall(t, s)
  BY <1>1 DEF StreamSeekRefused, StreamSeek, StreamSeekAsk, GetAborted, ReturnData, reachedEOS,
              ReadCall, queueVars
<1>2. CASE \/ StreamSeekFlush(t, "audio", "flushA", "flushV")
           \/ StreamSeekFlush(t, "video", "flushV", "ask")
  BY <1>2 DEF StreamSeekFlush, TGoto, Valid
<1>3. CASE Drop(t) \/ GetFlush(t) \/ GetEos(t) \/ GetData(t)
  BY <1>3 DEF Drop, GetFlush, GetEos, GetData, GetPacket, TGoto
<1> QED BY <1>1, <1>2, <1>3 DEF TrackStep, Read

\* so do the queues,
LEMMA StepQueueType ==
  ReaderType /\ QueueType /\ PacketInv /\ [Next]_vars => QueueType'
<1> SUFFICES ASSUME ReaderType, QueueType, PacketInv, [Next]_vars PROVE QueueType'
  OBVIOUS
<1>1. ASSUME NEW u \in Tracks, NEW v \in Seq(Packets), queue' = [queue EXCEPT ![u] = v]
      PROVE  queue' \in [Tracks -> Seq(Packets)]
  BY <1>1 DEF QueueType
<1>2. CASE Reader
  <2>1. abort_request' \in [Tracks -> BOOLEAN] /\ idx' \in [Tracks -> BOOLEAN]
    BY <1>2 DEF QueueType, Reader, ReaderTop, SeekFile, SeekDone, IfFull, AutoExit, av_read_frame,
                PutPacket, SeekFlush, PutEos, WaitAbort, CloseInput, CloseAbort, CloseEnd, queueVars
  <2>2. pos \in 0 .. MaxSeeks /\ \A u \in Tracks : queue[u] \in Seq(Packets)
    BY DEF ReaderType, QueueType
  <2>3. \A u \in Tracks : Append(queue[u], Eos(pos)) \in Seq(Packets)
    BY <2>2, Kinds, PutQueue
  <2>4. \A u \in Tracks, x \in Packets : Append(queue[u], x) \in Seq(Packets)
    BY <2>2, PutQueue
  <2>5. queue' \in [Tracks -> Seq(Packets)]
    BY <1>1, <1>2, <2>3, <2>4, ReaderQueue, SmallQueues DEF QueueType
  <2> QED BY <2>1, <2>5 DEF QueueType
<1>3. ASSUME NEW t \in Tracks, TrackStep(t), UNCHANGED <<abort_request, idx>>
      PROVE  QueueType'
  <2>1. queue[t] \in Seq(Packets) /\ (queue[t] # <<>> => Tail(queue[t]) \in Seq(Packets))
    BY GetQueue DEF QueueType
  <2>2. queue' \in [Tracks -> Seq(Packets)]
    <3>1. CASE UNCHANGED queue
      BY <3>1 DEF QueueType
    <3>2. CASE \E u \in Tracks : queue' = [queue EXCEPT ![u] = <<>>]
      BY <1>1, <3>2, SmallQueues, Zenon
    <3>3. CASE queue[t] # <<>> /\ queue' = [queue EXCEPT ![t] = Tail(queue[t])]
      BY <1>1, <2>1, <3>3, Zenon
    <3> QED BY <1>3, <3>1, <3>2, <3>3, TrackQueue
  <2> QED BY <1>3, <2>2 DEF QueueType
<1>4. CASE UNCHANGED notStop \/ UNCHANGED vars
  BY <1>4 DEF notStop, vars, queueVars, QueueType
<1> QED BY <1>2, <1>3, <1>4, Who

\* the flags of reader and stop,
LEMMA StepFlagType ==
  ReaderType /\ FlagType /\ ReadType /\ [Next]_vars => FlagType'
<1> SUFFICES ASSUME ReaderType, FlagType, ReadType, [Next]_vars PROVE FlagType'
  OBVIOUS
<1>1. CASE Reader /\ UNCHANGED <<notReader, mSeekPos, mAbortRequest, mReaderThreadStarted,
                                 EOSReceived>>
  <2>1. mSeekReq' \in BOOLEAN
    BY <1>1 DEF FlagType, Reader, ReaderTop, SeekFile, SeekDone, IfFull, AutoExit, av_read_frame,
                PutPacket, SeekFlush, PutEos, WaitAbort, CloseInput, CloseAbort, CloseEnd, flagVars
  <2> QED BY <1>1, <2>1 DEF FlagType, notReader, stopVars
<1>2. ASSUME NEW t \in Tracks, TrackStep(t), UNCHANGED <<notTrack, abort_request, idx>>
      PROVE  FlagType'
  <2>1. /\ mSeekReq' \in {mSeekReq, TRUE} /\ mSeekPos' \in {mSeekPos, asked[t]}
        /\ mLock' \in {mLock, t, "free"}
        /\ EOSReceived' \in {EOSReceived, [EOSReceived EXCEPT ![t] = TRUE]}
    BY <1>2 DEF TrackStep, ReadCall, Read, StreamSeekRefused, StreamSeek, StreamSeekAsk,
         StreamSeekFlush, GetAborted, Drop, GetFlush, GetEos, GetData, GetPacket, ReturnData,
         reachedEOS
  <2>2. mSeekPos' \in 0 .. MaxSeeks
    BY <2>1 DEF FlagType, ReadType
  <2>3. EOSReceived' \in [Tracks -> BOOLEAN]
    BY <2>1 DEF FlagType
  <2> QED BY <1>2, <2>1, <2>2, <2>3 DEF FlagType, notTrack, stopVars
<1>3. CASE StopStep /\ UNCHANGED notStop
  <2>1. UNCHANGED <<mSeekReq, mSeekPos, EOSReceived>>
    BY <1>3 DEF notStop
  <2>2. /\ mAbortRequest' \in {mAbortRequest, TRUE}
        /\ mReaderThreadStarted' \in {mReaderThreadStarted, FALSE}
        /\ mLock' \in {mLock, "stop", "free"} /\ spc' \in {"idle", "track", "lock", "join"}
        /\ starget' \in Tracks \cup {starget, "none"}
    BY <1>3 DEF StopStep, Stop, StopTrack, StopReader, StopJoin, StopCall
  <2> QED BY <2>1, <2>2 DEF FlagType
<1>4. CASE UNCHANGED vars
  BY <1>4 DEF vars, flagVars, stopVars, FlagType
<1> QED BY <1>1, <1>2, <1>3, <1>4, Who

\* There are finitely many tracks.
LEMMA TracksFinite == IsFiniteSet(Tracks)
<1>1. IsFiniteSet({"audio", "video"})
  <2>1. IsFiniteSet({} \cup {"audio"})
    BY FS_EmptySet, FS_AddElement
  <2>2. IsFiniteSet(({} \cup {"audio"}) \cup {"video"})
    BY <2>1, FS_AddElement
  <2>3. ({} \cup {"audio"}) \cup {"video"} = {"audio", "video"}
    OBVIOUS
  <2> QED BY <2>2, <2>3
<1> QED BY <1>1, FS_Subset, ExtractorParameters

\* A seek that is about to be asked for is within the bound.
LEMMA RoomToSeek ==
  ASSUME ReadType, CountInv, NEW t \in Tracks, tpc[t] = "seek"
  PROVE  seeks + 1 <= MaxSeeks
<1>2. IsFiniteSet(SeekSet) /\ t \in SeekSet
  BY TracksFinite, FS_Subset DEF SeekSet
<1>3. Cardinality(SeekSet) \in Nat /\ Cardinality(SeekSet) # 0
  BY <1>2, FS_CardinalityType, FS_EmptySet
<1> QED BY <1>3, Bounds DEF CountInv, ReadType

\* and the variables of the reads.
LEMMA StepReadType ==
  QueueType /\ ReadType /\ CountInv /\ [Next]_vars => ReadType'
<1> SUFFICES ASSUME QueueType, ReadType, CountInv, [Next]_vars PROVE ReadType'
  OBVIOUS
<1>1. ASSUME NEW t \in Tracks, TrackStep(t)
      PROVE  ReadType'
  <2>1. queue[t] # <<>> => Head(queue[t]) \in Packets
    BY GetQueue DEF QueueType
  <2>2. hand' \in [Tracks -> Packets \cup {None}]
    <3>1. \/ UNCHANGED hand \/ hand' = [hand EXCEPT ![t] = None]
          \/ queue[t] # <<>> /\ hand' = [hand EXCEPT ![t] = Head(queue[t])]
      BY <1>1 DEF TrackStep, ReadCall, Read, StreamSeekRefused, StreamSeek, StreamSeekAsk,
         StreamSeekFlush, GetAborted, Drop, GetFlush, GetEos, GetData, GetPacket, ReturnData,
         reachedEOS, Return
    <3> QED BY <2>1, <3>1 DEF ReadType
  <2>3. asked' \in [Tracks -> 0 .. MaxSeeks] /\ seeks' \in 0 .. MaxSeeks
    <3>1. \/ UNCHANGED <<asked, seeks>>
          \/ asked' = [asked EXCEPT ![t] = 0] /\ UNCHANGED seeks
          \/ tpc[t] = "seek" /\ seeks' = seeks + 1 /\ asked' = [asked EXCEPT ![t] = seeks + 1]
      BY <1>1 DEF TrackStep, ReadCall, Read, StreamSeekRefused, StreamSeek, StreamSeekAsk,
         StreamSeekFlush, GetAborted, Drop, GetFlush, GetEos, GetData, GetPacket, ReturnData,
         reachedEOS, Return, TGoto
    <3>2. 0 \in 0 .. MaxSeeks /\ (tpc[t] = "seek" => seeks + 1 \in 0 .. MaxSeeks)
      BY RoomToSeek, Bounds DEF ReadType
    <3> QED BY <3>1, <3>2 DEF ReadType
  <2>4. seeking' \in [Tracks -> BOOLEAN]
    <3>1. UNCHANGED seeking \/ \E b \in BOOLEAN : seeking' = [seeking EXCEPT ![t] = b]
      BY <1>1 DEF TrackStep, ReadCall, Read, StreamSeekRefused, StreamSeek, StreamSeekAsk,
         StreamSeekFlush, GetAborted, Drop, GetFlush, GetEos, GetData, GetPacket, ReturnData,
         reachedEOS, Return
    <3> QED BY <3>1 DEF ReadType
  <2>5. waitKeyPkt' \in [Tracks -> BOOLEAN]
    <3>1. \/ UNCHANGED waitKeyPkt \/ waitKeyPkt' = [waitKeyPkt EXCEPT ![t] = FALSE]
          \/ waitKeyPkt' = [waitKeyPkt EXCEPT ![t] = waitKeyPkt[t] \/ seeking[t]]
      BY <1>1 DEF TrackStep, ReadCall, Read, StreamSeekRefused, StreamSeek, StreamSeekAsk,
         StreamSeekFlush, GetAborted, Drop, GetFlush, GetEos, GetData, GetPacket, ReturnData,
         reachedEOS, Return
    <3>2. (waitKeyPkt[t] \/ seeking[t]) \in BOOLEAN
      BY DEF ReadType
    <3> QED BY <3>1, <3>2 DEF ReadType
  <2>6. contended' \in BOOLEAN
    BY <1>1 DEF TrackStep, ReadCall, Read, StreamSeekRefused, StreamSeek, StreamSeekAsk,
         StreamSeekFlush, GetAborted, Drop, GetFlush, GetEos, GetData, GetPacket, ReturnData,
         reachedEOS, ReadType
  <2> QED BY <1>1, ReadMoves, <2>2, <2>3, <2>4, <2>5, <2>6 DEF ReadType
<1>2. CASE UNCHANGED notReader \/ UNCHANGED notStop \/ UNCHANGED vars
  BY <1>2 DEF notReader, notStop, vars, readVars, ReadType
<1> QED BY <1>1, <1>2, Who

\* Every step keeps the reader's packet one that it may put.
LEMMA StepPacket ==
  ReaderType /\ PacketInv /\ [Next]_vars => PacketInv'
<1> SUFFICES ASSUME ReaderType, PacketInv, [Next]_vars PROVE PacketInv'
  OBVIOUS
<1>1. CASE Reader
  <2>1. CASE \/ ReaderTop \/ SeekDone \/ IfFull \/ AutoExit \/ WaitAbort \/ CloseInput
             \/ SeekFlush("audio", "flushA", "flushV") \/ SeekFlush("video", "flushV", "seeked")
             \/ PutEos("video", "eosV", "eosA") \/ PutEos("audio", "eosA", "exit?")
             \/ CloseAbort("audio", "closeA", "endA", "closeV") \/ CloseEnd("audio", "endA", "closeV")
             \/ CloseAbort("video", "closeV", "endV", "close") \/ CloseEnd("video", "endV", "close")
    BY <2>1 DEF ReaderTop, SeekDone, IfFull, AutoExit, WaitAbort, CloseInput, SeekFlush, PutEos,
                CloseAbort, CloseEnd, RGoto, PacketInv, fileVars
  <2>2. CASE SeekFile
    BY <2>2 DEF SeekFile, PacketInv
  <2>3. CASE av_read_frame
    <3>1. \/ rpc' = "put" /\ \E t \in Tracks, key \in BOOLEAN : pkt' = <<t, Data(pos, key)>>
          \/ rpc' \in {"top", "wait"} /\ UNCHANGED pkt
      BY <2>3 DEF av_read_frame
    <3>2. pos' = pos /\ pos \in 0 .. MaxSeeks /\ rpc = "read"
      BY <2>3 DEF av_read_frame, ReaderType
    <3> QED BY <3>1, <3>2, Kinds DEF PacketInv
  <2>4. CASE PutPacket
    BY <2>4 DEF PutPacket, RGoto, PacketInv
  <2> QED BY <1>1, <2>1, <2>2, <2>3, <2>4 DEF Reader
<1>2. CASE UNCHANGED notTrack \/ UNCHANGED notStop \/ UNCHANGED vars
  BY <1>2 DEF notTrack, notStop, vars, PacketInv, fileVars
<1> QED BY <1>1, <1>2, Who

\* The end of a track and the request of a stop are never taken back.
LEMMA ToldForGood ==
  ASSUME FlagType, [Next]_vars
  PROVE  /\ \A t \in Tracks : EOSReceived[t] => EOSReceived'[t]
         /\ mAbortRequest => mAbortRequest'
<1>1. ASSUME NEW t \in Tracks, TrackStep(t)
      PROVE  \A u \in Tracks : EOSReceived[u] => EOSReceived'[u]
  BY <1>1 DEF TrackStep, ReadCall, Read, StreamSeekRefused, StreamSeek, StreamSeekAsk,
         StreamSeekFlush, GetAborted, Drop, GetFlush, GetEos, GetData, GetPacket, ReturnData,
         reachedEOS, FlagType
<1>2. CASE StopStep
  BY <1>2 DEF StopStep, Stop, StopTrack, StopReader, StopJoin, StopCall, notStop
<1> QED BY <1>1, <1>2, Who DEF notTrack, notStop, vars, flagVars

\* No step closes the file under a track that was not told of the end.
LEMMA StepClose ==
  /\ ReaderType /\ QueueType /\ FlagType /\ PacketInv /\ CloseInv /\ [Next]_vars
  => CloseInv'
<1> SUFFICES ASSUME ReaderType, QueueType, FlagType, PacketInv, CloseInv, [Next]_vars
             PROVE  CloseInv'
  OBVIOUS
<1>0. /\ \A t \in Tracks : EOSReceived[t] => EOSReceived'[t]
      /\ mAbortRequest => mAbortRequest'
  BY ToldForGood
<1>1. CASE Reader
  <2>1. ASSUME NEW t \in Tracks, ~idx[t] PROVE queue'[t] = <<>>
    <3>1. /\ queue[t] = <<>> /\ rpc \in AudioClosedAt /\ ~Valid(t)
      BY <2>1 DEF CloseInv, Valid
    <3> QED BY <1>1, <2>1, <3>1, ReaderQueue DEF QueueType, AudioClosedAt, Valid
  <2>2. CASE CloseEnd("audio", "endA", "closeV")
    BY <1>0, <2>1, <2>2 DEF CloseEnd, RGoto, CloseInv, AudioClosedAt, Valid, QueueType
  <2>3. CASE CloseEnd("video", "endV", "close")
    BY <1>0, <2>1, <2>3 DEF CloseEnd, RGoto, CloseInv, AudioClosedAt, Valid, QueueType
  <2>4. CASE \/ CloseAbort("audio", "closeA", "endA", "closeV")
             \/ CloseAbort("video", "closeV", "endV", "close")
    BY <1>0, <2>1, <2>4 DEF CloseAbort, CloseInv, AudioClosedAt, Valid
  <2>5. CASE \/ ReaderTop \/ SeekFile \/ SeekDone \/ IfFull \/ AutoExit \/ av_read_frame
             \/ PutPacket \/ WaitAbort \/ CloseInput
             \/ SeekFlush("audio", "flushA", "flushV") \/ SeekFlush("video", "flushV", "seeked")
             \/ PutEos("video", "eosV", "eosA") \/ PutEos("audio", "eosA", "exit?")
    <3>1. UNCHANGED idx
      BY <2>5 DEF ReaderTop, SeekFile, SeekDone, IfFull, AutoExit, av_read_frame, PutPacket,
                  WaitAbort, CloseInput, SeekFlush, PutEos, queueVars
    <3>2. /\ rpc' \in AudioClosedAt => rpc = "close" /\ rpc' = "done"
          /\ rpc \in AudioClosedAt => rpc' \in AudioClosedAt
      BY <2>5 DEF ReaderTop, SeekFile, SeekDone, IfFull, AutoExit, av_read_frame, PutPacket,
                  WaitAbort, CloseInput, SeekFlush, PutEos, RGoto, AudioClosedAt
    <3> QED BY <1>0, <2>1, <3>1, <3>2 DEF CloseInv, Valid, AudioClosedAt
  <2> QED BY <1>1, <2>2, <2>3, <2>4, <2>5 DEF Reader
<1>2. ASSUME NEW t \in Tracks, TrackStep(t), UNCHANGED <<notTrack, abort_request, idx>>
      PROVE  CloseInv'
  <2>1. ASSUME NEW u \in Tracks, queue[u] = <<>> PROVE queue'[u] = <<>>
    BY <1>2, <2>1, TrackQueue DEF QueueType
  <2> QED BY <1>0, <1>2, <2>1 DEF CloseInv, notTrack, Valid
<1>3. CASE UNCHANGED notStop
  BY <1>0, <1>3 DEF notStop, CloseInv, Valid, queueVars
<1>4. CASE UNCHANGED vars
  BY <1>4 DEF vars, CloseInv, Valid, queueVars, flagVars
<1> QED BY <1>1, <1>2, <1>3, <1>4, Who

\* An abort is always one of a stop that joins the reader or has joined it.
LEMMA StepStop ==
  FlagType /\ StopInv /\ LockInv /\ [Next]_vars => StopInv'
<1> SUFFICES ASSUME FlagType, StopInv, LockInv, [Next]_vars PROVE StopInv'
  OBVIOUS
<1>1. ASSUME NEW t \in Tracks, TrackStep(t), UNCHANGED <<notTrack, abort_request, idx>>
      PROVE  StopInv'
  <2>1. t # "stop" /\ t # "free"
    BY ExtractorParameters
  <2>2. \/ UNCHANGED mLock
        \/ mLock = "free" /\ mLock' = t
        \/ tpc[t] = "ask" /\ mLock' = "free"
    BY <1>1 DEF TrackStep, ReadCall, Read, StreamSeekRefused, StreamSeek, StreamSeekAsk,
         StreamSeekFlush, GetAborted, Drop, GetFlush, GetEos, GetData, GetPacket, ReturnData,
         reachedEOS, TGoto
  <2> QED BY <1>1, <2>1, <2>2 DEF StopInv, LockInv, Asking, notTrack, stopVars
<1>2. CASE StopStep
  <2>1. CASE Stop
    BY <2>1 DEF Stop, StopTrack, StopReader, StopJoin, StopInv
  <2>2. ASSUME NEW t \in Tracks, StopCall(t) PROVE StopInv'
    BY <2>2 DEF StopCall, StopInv
  <2> QED BY <1>2, <2>1, <2>2 DEF StopStep
<1>3. CASE UNCHANGED <<notReader, mSeekPos, mAbortRequest, mReaderThreadStarted, EOSReceived>>
  BY <1>3 DEF notReader, stopVars, StopInv
<1>4. CASE UNCHANGED vars
  BY <1>4 DEF vars, flagVars, stopVars, StopInv
<1> QED BY <1>1, <1>2, <1>3, <1>4, Who


\* The steps of a read of t, by what they do to tpc, the lock, the positions
\* asked for and the request.
LEMMA ReadShape ==
  ASSUME ReadType, FlagType, NEW t \in Tracks, TrackStep(t)
  PROVE  \/ /\ tpc[t] = "idle" /\ tpc'[t] \in {"seek", "get"}
            /\ UNCHANGED <<mLock, asked, seeks, contended, mSeekReq, mSeekPos, seeking, hand, queue>>
            /\ tpc'[t] = "seek" => seeks + Cardinality(SeekSet) < MaxSeeks
         \/ /\ tpc[t] = "seek" /\ tpc'[t] = "get"
            /\ UNCHANGED <<mLock, asked, seeks, contended, mSeekReq, mSeekPos, seeking, hand, queue>>
         \/ /\ tpc[t] = "seek" /\ tpc'[t] = "flushA" /\ mLock = "free" /\ mLock' = t
            /\ seeks' = seeks + 1 /\ asked' = [asked EXCEPT ![t] = seeks + 1]
            /\ contended' = (contended \/ Overlaps(t))
            /\ UNCHANGED <<mSeekReq, mSeekPos, seeking, hand, queue>>
         \/ /\ tpc[t] = "flushA" /\ tpc'[t] = "flushV"
            /\ queue' = IF Valid("audio") THEN [queue EXCEPT !["audio"] = <<>>] ELSE queue
            /\ UNCHANGED <<mLock, asked, seeks, contended, mSeekReq, mSeekPos, seeking, hand>>
         \/ /\ tpc[t] = "flushV" /\ tpc'[t] = "ask"
            /\ queue' = IF Valid("video") THEN [queue EXCEPT !["video"] = <<>>] ELSE queue
            /\ UNCHANGED <<mLock, asked, seeks, contended, mSeekReq, mSeekPos, seeking, hand>>
         \/ /\ tpc[t] = "ask" /\ tpc'[t] = "get" /\ mLock' = "free"
            /\ mSeekPos' = asked[t] /\ mSeekReq' = TRUE
            /\ seeking' = [seeking EXCEPT ![t] = TRUE]
            /\ UNCHANGED <<asked, seeks, contended, hand, queue>>
         \/ /\ tpc[t] = "get" /\ tpc'[t] = "eos"
            /\ UNCHANGED <<mLock, asked, seeks, contended, mSeekReq, mSeekPos, seeking, hand, queue>>
         \/ /\ Drop(t) \/ GetFlush(t) \/ GetEos(t) \/ GetData(t)
            /\ tpc[t] = "get" /\ tpc'[t] \in {"get", "eos", "have"} /\ queue[t] # <<>>
            /\ queue' = [queue EXCEPT ![t] = Tail(queue[t])]
            /\ UNCHANGED <<mLock, asked, seeks, contended, mSeekReq, mSeekPos>>
         \/ /\ tpc[t] \in {"eos", "have"} /\ tpc'[t] = "idle"
            /\ hand' = [hand EXCEPT ![t] = None] /\ asked' = [asked EXCEPT ![t] = 0]
            /\ seeking' = [seeking EXCEPT ![t] = FALSE]
            /\ UNCHANGED <<mLock, seeks, contended, mSeekReq, mSeekPos, queue>>
<1>1. ASSUME NEW s \in BOOLEAN, ReadCall(t, s)
      PROVE  /\ tpc[t] = "idle" /\ tpc'[t] \in {"seek", "get"}
             /\ UNCHANGED <<mLock, asked, seeks, contended, mSeekReq, mSeekPos, seeking, hand, queue>>
             /\ tpc'[t] = "seek" => seeks + Cardinality(SeekSet) < MaxSeeks
  BY <1>1 DEF ReadCall, TGoto, ReadType, queueVars, SeekSet
<1>2. CASE StreamSeekRefused(t)
  BY <1>2 DEF StreamSeekRefused, TGoto, ReadType, queueVars
<1>3. CASE StreamSeek(t)
  BY <1>3 DEF StreamSeek, TGoto, ReadType, queueVars
<1>4. CASE StreamSeekFlush(t, "audio", "flushA", "flushV")
  BY <1>4 DEF StreamSeekFlush, TGoto, ReadType
<1>5. CASE StreamSeekFlush(t, "video", "flushV", "ask")
  BY <1>5 DEF StreamSeekFlush, TGoto, ReadType
<1>6. CASE StreamSeekAsk(t)
  BY <1>6 DEF StreamSeekAsk, TGoto, ReadType, queueVars
<1>7. CASE GetAborted(t)
  BY <1>7 DEF GetAborted, TGoto, ReadType, queueVars
<1>8. CASE Drop(t) \/ GetFlush(t) \/ GetEos(t) \/ GetData(t)
  BY <1>8 DEF Drop, GetFlush, GetEos, GetData, GetPacket, TGoto, ReadType
<1>9. CASE ReturnData(t) \/ reachedEOS(t)
  BY <1>9 DEF ReturnData, reachedEOS, Return, TGoto, ReadType, queueVars
<1> QED BY <1>1, <1>2, <1>3, <1>4, <1>5, <1>6, <1>7, <1>8, <1>9 DEF TrackStep, Read

\* Every step keeps the lock of the extractor with the read that asks for a position.
LEMMA StepLock ==
  FlagType /\ ReadType /\ StopInv /\ LockInv /\ [Next]_vars => LockInv'
<1> SUFFICES ASSUME FlagType, ReadType, StopInv, LockInv, [Next]_vars PROVE LockInv'
  OBVIOUS
<1>0. \A t \in Tracks : t # "stop" /\ t # "free"
  BY ExtractorParameters
<1>1. ASSUME NEW t \in Tracks, TrackStep(t) PROVE LockInv'
  <2>1. \A u \in Tracks \ {t} : tpc'[u] = tpc[u]
    BY <1>1, ReadMoves
  <2>2. \/ UNCHANGED mLock /\ (tpc[t] \in Asking <=> tpc'[t] \in Asking)
        \/ mLock = "free" /\ mLock' = t /\ tpc'[t] \in Asking
        \/ tpc[t] \in Asking /\ mLock' = "free" /\ tpc'[t] \notin Asking
    BY <1>1, ReadShape DEF Asking
  <2> QED BY <1>0, <2>1, <2>2 DEF LockInv
<1>2. CASE StopStep /\ UNCHANGED notStop
  <2>1. UNCHANGED tpc
    BY <1>2 DEF notStop, readVars
  <2>2. \/ UNCHANGED mLock
        \/ mLock = "free" /\ mLock' = "stop"
        \/ spc = "join" /\ mLock' = "free"
    BY <1>2 DEF StopStep, Stop, StopTrack, StopReader, StopJoin, StopCall
  <2> QED BY <1>0, <2>1, <2>2 DEF LockInv, StopInv
<1>3. CASE UNCHANGED notReader \/ UNCHANGED vars
  BY <1>3 DEF notReader, vars, readVars, LockInv
<1> QED BY <1>1, <1>2, <1>3, Who

\* Every step keeps the seeks within the bound, those inside calls included.
LEMMA StepCount ==
  FlagType /\ ReadType /\ CountInv /\ [Next]_vars => CountInv'
<1> SUFFICES ASSUME FlagType, ReadType, CountInv, [Next]_vars PROVE CountInv'
  OBVIOUS
<1>0. /\ IsFiniteSet(SeekSet) /\ Cardinality(SeekSet) \in Nat
      /\ seeks \in Nat /\ MaxSeeks \in Nat
  BY TracksFinite, FS_Subset, FS_CardinalityType, Bounds DEF SeekSet, ReadType
<1>1. ASSUME NEW t \in Tracks, TrackStep(t) PROVE CountInv'
  <2>1. \A u \in Tracks \ {t} : tpc'[u] = tpc[u]
    BY <1>1, ReadMoves
  <2>2. CASE tpc'[t] = "seek"
    <3>1. /\ UNCHANGED seeks /\ seeks + Cardinality(SeekSet) < MaxSeeks /\ tpc[t] = "idle"
      BY <1>1, <2>2, ReadShape
    <3>2. SeekSet' = SeekSet \cup {t} /\ t \notin SeekSet
      BY <2>1, <2>2, <3>1 DEF SeekSet
    <3>3. Cardinality(SeekSet \cup {t}) = Cardinality(SeekSet) + 1
      BY <1>0, <3>2, FS_AddElement
    <3> QED BY <1>0, <3>1, <3>2, <3>3 DEF CountInv
  <2>3. CASE tpc[t] = "seek"
    <3>1. tpc'[t] # "seek" /\ (UNCHANGED seeks \/ seeks' = seeks + 1)
      BY <1>1, <2>3, ReadShape
    <3>2. SeekSet' = SeekSet \ {t} /\ t \in SeekSet
      BY <2>1, <2>3, <3>1 DEF SeekSet
    <3>3. Cardinality(SeekSet \ {t}) = Cardinality(SeekSet) - 1
      BY <1>0, <3>2, FS_RemoveElement
    <3> QED BY <1>0, <3>1, <3>2, <3>3 DEF CountInv
  <2>4. CASE tpc[t] # "seek" /\ tpc'[t] # "seek"
    <3>1. UNCHANGED seeks
      BY <1>1, <2>4, ReadShape
    <3>2. SeekSet' = SeekSet
      BY <2>1, <2>4 DEF SeekSet
    <3> QED BY <3>1, <3>2 DEF CountInv
  <2> QED BY <2>2, <2>3, <2>4
<1>2. CASE UNCHANGED notReader \/ UNCHANGED notStop \/ UNCHANGED vars
  BY <1>2 DEF notReader, notStop, vars, readVars, CountInv, SeekSet
<1> QED BY <1>1, <1>2, Who


\* The steps of the reader, by what they do to the position and the request.
LEMMA ReaderPos ==
  ASSUME Reader
  PROVE  \/ /\ rpc = "seek" /\ mSeekReq /\ rpc' = "flushA" /\ pos' = mSeekPos
            /\ UNCHANGED <<mSeekReq, eof, pkt, queue, errors>>
         \/ /\ rpc = "seek" /\ mSeekReq /\ rpc' = "seeked" /\ errors < MaxErrors /\ errors' = errors + 1
            /\ UNCHANGED <<pos, left, mSeekReq, eof, pkt, queue>>
         \/ /\ rpc = "flushA" /\ rpc' = "flushV"
            /\ queue' = IF Valid("audio") THEN [queue EXCEPT !["audio"] = <<flush_pkt>>] ELSE queue
            /\ UNCHANGED <<pos, left, mSeekReq, eof, pkt, errors>>
         \/ /\ rpc = "flushV" /\ rpc' = "seeked"
            /\ queue' = IF Valid("video") THEN [queue EXCEPT !["video"] = <<flush_pkt>>] ELSE queue
            /\ UNCHANGED <<pos, left, mSeekReq, eof, pkt, errors>>
         \/ /\ rpc = "seeked" /\ rpc' = "full" /\ ~mSeekReq' /\ ~eof'
            /\ UNCHANGED <<pos, left, pkt, queue, errors>>
         \/ /\ rpc \notin SeekAt /\ rpc' \notin SeekAt
            /\ UNCHANGED <<pos, mSeekReq>>
<1>1. CASE SeekFile
  BY <1>1 DEF SeekFile, SeekAt, fileVars, queueVars, flagVars
<1>2. CASE SeekDone \/ SeekFlush("audio", "flushA", "flushV") \/ SeekFlush("video", "flushV", "seeked")
  BY <1>2 DEF SeekDone, SeekFlush, RGoto, SeekAt, fileVars, queueVars, flagVars
<1>3. CASE \/ ReaderTop \/ IfFull \/ AutoExit \/ PutPacket \/ WaitAbort \/ CloseInput
           \/ PutEos("video", "eosV", "eosA") \/ PutEos("audio", "eosA", "exit?")
           \/ CloseAbort("audio", "closeA", "endA", "closeV") \/ CloseEnd("audio", "endA", "closeV")
           \/ CloseAbort("video", "closeV", "endV", "close") \/ CloseEnd("video", "endV", "close")
  BY <1>3 DEF ReaderTop, IfFull, AutoExit, PutPacket, WaitAbort, CloseInput, PutEos, CloseAbort,
              CloseEnd, RGoto, SeekAt, fileVars, flagVars
<1>4. CASE av_read_frame
  BY <1>4 DEF av_read_frame, SeekAt, flagVars
<1> QED BY <1>1, <1>2, <1>3, <1>4 DEF Reader

\* Every step keeps the positions in order.
LEMMA StepPos ==
  ReaderType /\ FlagType /\ ReadType /\ LockInv /\ PosInv /\ [Next]_vars => PosInv'
<1> SUFFICES ASSUME ReaderType, FlagType, ReadType, LockInv, PosInv, [Next]_vars PROVE PosInv'
  OBVIOUS
<1>0. /\ pos \in Nat /\ mSeekPos \in Nat /\ seeks \in Nat /\ \A u \in Tracks : asked[u] \in Nat
      /\ \A u \in Tracks : u # "free"
  BY Bounds, ExtractorParameters DEF ReaderType, FlagType, ReadType
<1>1. CASE Reader /\ UNCHANGED <<notReader, mSeekPos>>
  <2>1. UNCHANGED <<mSeekPos, seeks, tpc, asked>>
    BY <1>1 DEF notReader, readVars
  <2>2. \/ /\ mSeekReq /\ rpc \notin SeekAt /\ pos' = mSeekPos /\ UNCHANGED mSeekReq /\ rpc' \in SeekAt
        \/ /\ mSeekReq /\ rpc' = "seeked" /\ UNCHANGED <<pos, mSeekReq>>
        \/ /\ rpc \in SeekAt /\ rpc' \in SeekAt /\ UNCHANGED <<pos, mSeekReq>>
        \/ /\ rpc' \notin SeekAt /\ ~mSeekReq' /\ UNCHANGED pos
        \/ /\ rpc \notin SeekAt /\ rpc' \notin SeekAt /\ UNCHANGED <<pos, mSeekReq>>
    BY <1>1, ReaderPos DEF SeekAt
  <2> QED BY <1>0, <2>1, <2>2 DEF PosInv, SeekAt
<1>2. ASSUME NEW t \in Tracks, TrackStep(t), UNCHANGED notTrack PROVE PosInv'
  <2>1. \A u \in Tracks \ {t} : tpc'[u] = tpc[u] /\ asked'[u] = asked[u]
    BY <1>2, ReadMoves
  <2>2. UNCHANGED <<rpc, pos>>
    BY <1>2 DEF notTrack, fileVars
  <2>3. CASE tpc[t] = "seek" /\ tpc'[t] = "flushA"
    <3>1. /\ mLock = "free" /\ seeks' = seeks + 1 /\ asked'[t] = seeks + 1
          /\ UNCHANGED <<mSeekReq, mSeekPos>>
      BY <1>2, <2>3, ReadShape DEF ReadType
    <3>2. \A u \in Tracks : tpc[u] \notin Asking
      BY <1>0, <3>1 DEF LockInv
    <3>3. \A u \in Tracks : tpc'[u] \in Asking => u = t
      BY <2>1, <3>2
    <3> QED BY <1>0, <2>1, <2>2, <2>3, <3>1, <3>3 DEF PosInv
  <2>4. CASE tpc[t] = "ask"
    <3>1. /\ mLock = t /\ mSeekPos' = asked[t] /\ mSeekReq' /\ tpc'[t] = "get"
          /\ UNCHANGED <<seeks, asked>>
      BY <1>2, <2>4, ReadShape DEF LockInv, Asking
    <3>2. \A u \in Tracks : tpc'[u] \notin Asking
      BY <2>1, <3>1 DEF LockInv, Asking
    <3>3. asked[t] = seeks /\ mSeekPos < seeks
      BY <2>4 DEF PosInv, Asking
    <3> QED BY <1>0, <2>1, <2>2, <2>4, <3>1, <3>2, <3>3 DEF PosInv
  <2>5. CASE ~(tpc[t] = "seek" /\ tpc'[t] = "flushA") /\ tpc[t] # "ask"
    <3>1. UNCHANGED <<seeks, mSeekPos, mSeekReq>>
      BY <1>2, <2>5, ReadShape
    <3>2. \/ /\ UNCHANGED asked
             /\ tpc'[t] \in Asking => tpc[t] \in Asking
             /\ tpc'[t] \in {"idle", "seek"} => tpc[t] \in {"idle", "seek"}
          \/ asked' = [asked EXCEPT ![t] = 0] /\ tpc'[t] = "idle"
      BY <1>2, <2>5, ReadShape DEF Asking
    <3>3. \A u \in Tracks : tpc'[u] \in Asking => asked'[u] = asked[u] /\ tpc[u] \in Asking
      BY <2>1, <3>2 DEF Asking
    <3>4. \A u \in Tracks : tpc'[u] \in {"idle", "seek"} => asked'[u] = 0
      BY <2>1, <3>2 DEF PosInv, ReadType
    <3> QED BY <2>2, <3>1, <3>3, <3>4 DEF PosInv
  <2> QED BY <2>3, <2>4, <2>5
<1>3. CASE UNCHANGED notStop \/ UNCHANGED vars
  <2>1. UNCHANGED <<rpc, pos, mSeekReq, mSeekPos, seeks, tpc, asked>>
    BY <1>3 DEF notStop, vars, fileVars, flagVars, readVars
  <2> QED BY <2>1 DEF PosInv
<1> QED BY <1>1, <1>2, <1>3, Who

\* The reader does not come back to an earlier position.
LEMMA PosGrows ==
  ASSUME ReaderType, FlagType, PosInv, [Next]_vars
  PROVE  pos <= pos' /\ pos \in Nat
<1>0. pos \in Nat /\ mSeekPos \in Nat
  BY Bounds DEF ReaderType, FlagType
<1>1. CASE Reader
  BY <1>0, <1>1, ReaderPos DEF PosInv
<1>2. CASE UNCHANGED notTrack \/ UNCHANGED notStop \/ UNCHANGED vars
  BY <1>0, <1>2 DEF notTrack, notStop, vars, fileVars
<1> QED BY <1>0, <1>1, <1>2, Who


\* A queue that holds nothing from beyond a position holds nothing from beyond a later
\* one.
LEMMA UsedMore ==
  ASSUME NEW q \in Seq(Packets), NEW p \in Nat, NEW r \in Nat, p <= r, Used(q, p)
  PROVE  Used(q, r)
<1> SUFFICES ASSUME NEW i \in 1 .. Len(q), q[i].kind # "flush" PROVE q[i].pos <= r
  BY DEF Used
<1>1. q[i] \in Packets /\ q[i].pos <= p
  BY ElementOfSeq DEF Used
<1> QED BY <1>1, Kinds

\* No step puts a packet of a position the reader has not been at.
LEMMA StepUsed ==
  /\ ReaderType /\ QueueType /\ FlagType /\ ReadType /\ PacketInv /\ PosInv /\ UsedInv
  /\ [Next]_vars
  => UsedInv'
<1> SUFFICES ASSUME ReaderType, QueueType, FlagType, ReadType, PacketInv, PosInv, UsedInv,
                    [Next]_vars
             PROVE  UsedInv'
  OBVIOUS
<1>0. /\ pos \in Nat /\ pos' \in Nat /\ pos <= pos' /\ pos \in 0 .. MaxSeeks
      /\ \A u \in Tracks : queue[u] \in Seq(Packets) /\ (hand[u] \in Packets \/ hand[u] = None)
  BY PosGrows, StepReaderType, Bounds DEF ReaderType, QueueType, ReadType
<1>1. \A u \in Tracks : Used(queue[u], pos')
  BY <1>0, UsedMore DEF UsedInv
<1>2. ASSUME UNCHANGED hand
      PROVE  \A u \in Tracks : hand'[u].kind = "eos" => hand'[u].pos <= pos'
  <2> SUFFICES ASSUME NEW u \in Tracks, hand[u].kind = "eos" PROVE hand[u].pos <= pos'
    BY <1>2
  <2>1. hand[u] \in Packets /\ hand[u].pos <= pos
    BY <1>0, Kinds DEF UsedInv
  <2> QED BY <1>0, <2>1, Kinds
<1>3. CASE Reader /\ UNCHANGED notReader
  <2>1. UNCHANGED hand
    BY <1>3 DEF notReader, readVars
  <2>2. ASSUME NEW u \in Tracks PROVE Used(queue'[u], pos')
    <3>1. Used(Append(queue[u], Eos(pos)), pos')
      BY <1>0, <1>1, Kinds, PutHolds
    <3>2. pkt # <<>> /\ pkt[2] \in Packets => Used(Append(queue[u], pkt[2]), pos')
      BY <1>0, <1>1, PutHolds DEF PacketInv
    <3> QED BY <1>1, <1>3, <3>1, <3>2, ReaderQueue, EmptyHolds, FlushHolds DEF QueueType
  <2> QED BY <1>2, <2>1, <2>2 DEF UsedInv
<1>4. ASSUME NEW t \in Tracks, TrackStep(t) PROVE UsedInv'
  <2>0. queue[t] # <<>> => /\ Used(Tail(queue[t]), pos')
                           /\ Head(queue[t]).kind # "flush" => Head(queue[t]).pos <= pos'
    BY <1>0, <1>1, GetHolds
  <2>1. ASSUME NEW u \in Tracks PROVE Used(queue'[u], pos')
    <3>1. \/ queue'[u] \in {queue[u], <<>>}
          \/ u = t /\ queue[t] # <<>> /\ queue'[u] = Tail(queue[t])
      BY <1>4, TrackQueue DEF QueueType
    <3> QED BY <1>1, <2>0, <3>1, EmptyHolds
  <2>2. CASE UNCHANGED hand
    BY <1>2, <2>1, <2>2 DEF UsedInv
  <2>3. CASE ~UNCHANGED hand
    <3>1. \/ hand' = [hand EXCEPT ![t] = None]
          \/ queue[t] # <<>> /\ hand' = [hand EXCEPT ![t] = Head(queue[t])]
      BY <1>4, <2>3 DEF TrackStep, ReadCall, Read, StreamSeekRefused, StreamSeek, StreamSeekAsk,
         StreamSeekFlush, GetAborted, Drop, GetFlush, GetEos, GetData, GetPacket, ReturnData,
         reachedEOS, Return
    <3>2. hand'[t].kind = "eos" => hand'[t].pos <= pos'
      BY <2>0, <3>1, Kinds DEF ReadType
    <3>3. \A u \in Tracks \ {t} : hand'[u] = hand[u]
      BY <3>1 DEF ReadType
    <3>4. ASSUME NEW u \in Tracks \ {t}, hand'[u].kind = "eos" PROVE hand'[u].pos <= pos'
      <4>1. hand[u] \in Packets /\ hand[u].pos <= pos
        BY <1>0, <3>3, <3>4, Kinds DEF UsedInv
      <4> QED BY <1>0, <3>3, <3>4, <4>1, Kinds
    <3> QED BY <2>1, <3>2, <3>4 DEF UsedInv
  <2> QED BY <2>2, <2>3
<1>5. CASE UNCHANGED notStop \/ UNCHANGED vars
  <2>1. UNCHANGED <<hand, queue>>
    BY <1>5 DEF notStop, vars, readVars, queueVars
  <2> QED BY <1>1, <1>2, <2>1 DEF UsedInv
<1> QED BY <1>3, <1>4, <1>5, Who


\* What a mark stands for, after a step.
StillEnded(t, p) == /\ p = pos' => left' = 0
                    /\ pkt' # <<>> => pkt'[1] # t \/ pkt'[2].pos # p

\* The marks of a track stay true when its queue loses packets and the reader
\* does nothing that contradicts them.
LEMMA MarkedKept ==
  ASSUME QueueType, ReadType, UsedInv, ReaderType, NEW t \in Tracks, Marked(t),
         \/ queue'[t] \in {queue[t], <<>>, <<flush_pkt>>}
         \/ queue[t] # <<>> /\ queue'[t] = Tail(queue[t]),
         hand'[t] = hand[t] \/ hand'[t] = None,
         \A p \in 0 .. MaxSeeks : p <= pos /\ Ended(t, p) => StillEnded(t, p)
  PROVE  Marked(t)'
<1> DEFINE q == queue[t]
           r == queue'[t]
<1>0. q \in Seq(Packets) /\ (hand[t] \in Packets \/ hand[t] = None)
  BY DEF QueueType, ReadType
<1>1. \A i \in 1 .. Len(q) : q[i].kind = "eos" =>
          /\ q[i].pos \in 0 .. MaxSeeks /\ q[i].pos <= pos /\ Ended(t, q[i].pos)
  <2> SUFFICES ASSUME NEW i \in 1 .. Len(q), q[i].kind = "eos"
               PROVE  q[i].pos \in 0 .. MaxSeeks /\ q[i].pos <= pos /\ Ended(t, q[i].pos)
    OBVIOUS
  <2>1. q[i] \in Packets
    BY <1>0, ElementOfSeq
  <2> QED BY <2>1, Kinds DEF UsedInv, Used, Marked
<1>2. \A i \in 1 .. Len(r) : r[i].kind = "eos" => StillEnded(t, r[i].pos)
  <2>1. CASE r = q
    BY <1>1, <2>1
  <2>2. CASE r = <<>> \/ r = <<flush_pkt>>
    BY <2>2, SmallQueues, Kinds
  <2>3. CASE q # <<>> /\ r = Tail(q)
    <3> SUFFICES ASSUME NEW i \in 1 .. Len(r), r[i].kind = "eos" PROVE StillEnded(t, r[i].pos)
      OBVIOUS
    <3>1. r[i] = q[i + 1] /\ i + 1 \in 1 .. Len(q)
      BY <1>0, <2>3, GetQueue
    <3> QED BY <1>1, <3>1
  <2> QED BY <2>1, <2>2, <2>3
<1>3. MarksLast(r)
  BY <1>0, GetHolds, EmptyHolds, FlushHolds DEF Marked
<1>4. ASSUME hand'[t].kind = "eos" PROVE StillEnded(t, hand'[t].pos) /\ NoneAt(r, hand'[t].pos)
  <2>1. hand'[t] = hand[t] /\ hand[t] \in Packets /\ hand[t].kind = "eos"
    BY <1>0, <1>4, Kinds
  <2>2. /\ hand[t].pos \in 0 .. MaxSeeks /\ hand[t].pos <= pos
        /\ Ended(t, hand[t].pos) /\ NoneAt(q, hand[t].pos)
    BY <2>1, Kinds DEF UsedInv, Marked
  <2>3. NoneAt(r, hand[t].pos)
    BY <1>0, <2>2, GetHolds, EmptyHolds, FlushHolds
  <2> QED BY <2>1, <2>2, <2>3
<1> QED BY <1>2, <1>3, <1>4 DEF Marked, Ended, StillEnded


\* They stay true when the queue is put a mark that is true, or a packet of a
\* position no mark stands for.
LEMMA MarkedPut ==
  ASSUME QueueType, ReadType, UsedInv, ReaderType, NEW t \in Tracks, NEW x \in Packets, Marked(t),
         queue'[t] = Append(queue[t], x), hand'[t] = hand[t],
         x.kind = "eos" => StillEnded(t, x.pos),
         \A p \in 0 .. MaxSeeks : p <= pos /\ Ended(t, p) =>
           /\ StillEnded(t, p)
           /\ x.kind = "data" => x.pos # p
  PROVE  Marked(t)'
<1> DEFINE q == queue[t]
           r == queue'[t]
<1>0. q \in Seq(Packets) /\ (hand[t] \in Packets \/ hand[t] = None)
  BY DEF QueueType, ReadType
<1>1. \A i \in 1 .. Len(q) : q[i].kind = "eos" =>
          /\ q[i].pos \in 0 .. MaxSeeks /\ q[i].pos <= pos /\ Ended(t, q[i].pos)
  <2> SUFFICES ASSUME NEW i \in 1 .. Len(q), q[i].kind = "eos"
               PROVE  q[i].pos \in 0 .. MaxSeeks /\ q[i].pos <= pos /\ Ended(t, q[i].pos)
    OBVIOUS
  <2>1. q[i] \in Packets
    BY <1>0, ElementOfSeq
  <2> QED BY <2>1, Kinds DEF UsedInv, Used, Marked
<1>2. ASSUME NEW i \in 1 .. Len(r), r[i].kind = "eos" PROVE StillEnded(t, r[i].pos)
  <2>1. (i \in 1 .. Len(q) /\ r[i] = q[i]) \/ r[i] = x
    BY <1>0, PutQueue
  <2> QED BY <1>1, <1>2, <2>1
<1>3. MarksLast(r)
  <2>1. x.kind = "data" => \A i \in 1 .. Len(q) : q[i].kind = "eos" => q[i].pos # x.pos
    BY <1>1
  <2>2. MarksLast(q) => \/ MarksLast(Append(q, x))
                        \/ \E i \in 1 .. Len(q) : /\ q[i].kind = "eos" /\ x.kind = "data"
                                                   /\ q[i].pos = x.pos
    <3> HIDE DEF q
    <3> QED BY ONLY <1>0, x \in Packets, PutHolds
  <2>3. MarksLast(q) /\ r = Append(q, x)
    BY DEF Marked
  <2> QED BY <2>1, <2>2, <2>3
<1>4. ASSUME hand'[t].kind = "eos" PROVE StillEnded(t, hand'[t].pos) /\ NoneAt(r, hand'[t].pos)
  <2>1. hand'[t] = hand[t] /\ hand[t] \in Packets /\ hand[t].kind = "eos"
    BY <1>0, <1>4, Kinds
  <2>2. /\ hand[t].pos \in 0 .. MaxSeeks /\ hand[t].pos <= pos
        /\ Ended(t, hand[t].pos) /\ NoneAt(q, hand[t].pos)
    BY <2>1, Kinds DEF UsedInv, Marked
  <2>3. NoneAt(r, hand[t].pos)
    BY <1>0, <2>2, PutHolds
  <2> QED BY <2>1, <2>2, <2>3
<1> QED BY <1>2, <1>3, <1>4 DEF Marked, Ended, StillEnded

\* They stay true when the read takes a packet, a mark with it.
LEMMA MarkedGot ==
  ASSUME QueueType, ReadType, UsedInv, NEW t \in Tracks, Marked(t),
         queue[t] # <<>>, queue'[t] = Tail(queue[t]),
         hand'[t] \in {hand[t], Head(queue[t])}, UNCHANGED <<pos, left, pkt>>
  PROVE  Marked(t)'
<1> DEFINE q == queue[t]
           r == queue'[t]
<1>0. /\ q \in Seq(Packets) /\ Len(q) > 0 /\ Len(q) \in Nat /\ Len(r) = Len(q) - 1
      /\ Head(q) = q[1] /\ \A i \in 1 .. Len(r) : r[i] = q[i + 1]
  BY GetQueue DEF QueueType
<1>1. \A i \in 1 .. Len(q) : q[i].kind = "eos" => Ended(t, q[i].pos)
  BY DEF Marked
<1>2. ASSUME NEW i \in 1 .. Len(r), r[i].kind = "eos" PROVE Ended(t, r[i].pos)
  <2>1. r[i] = q[i + 1] /\ i + 1 \in 1 .. Len(q)
    BY <1>0
  <2> QED BY <1>1, <1>2, <2>1
<1>3. MarksLast(r)
  BY <1>0, GetHolds DEF Marked
<1>4. ASSUME hand'[t].kind = "eos" PROVE Ended(t, hand'[t].pos) /\ NoneAt(r, hand'[t].pos)
  <2>1. CASE hand'[t] = hand[t]
    BY <1>0, <1>4, <2>1, GetHolds DEF Marked
  <2>2. CASE hand'[t] = Head(q)
    <3>1. 1 \in 1 .. Len(q) /\ q[1].kind = "eos" /\ hand'[t] = q[1]
      BY <1>0, <1>4, <2>2
    <3>2. NoneAt(r, Head(q).pos)
      BY <1>0, <1>4, <2>2, GetHolds DEF Marked
    <3> QED BY <1>1, <2>2, <3>1, <3>2
  <2> QED BY <2>1, <2>2
<1> QED BY <1>2, <1>3, <1>4 DEF Marked, Ended


\* Every step keeps behind a mark of the end no packet of its position.
LEMMA StepEnd ==
  /\ TypeOK /\ PacketInv /\ PosInv /\ UsedInv /\ EndInv /\ [Next]_vars
  => EndInv'
<1> SUFFICES ASSUME ReaderType, QueueType, FlagType, ReadType, PacketInv, PosInv, UsedInv, EndInv,
                    [Next]_vars, errors' = 0, ~mAbortRequest'
             PROVE  /\ rpc' \in {"eosV", "eosA"} => eof'
                    /\ eof' /\ rpc' \notin SeekAt => left' = 0
                    /\ \A t \in Tracks : Marked(t)'
  BY DEF EndInv, TypeOK
<1>0. errors \in Nat /\ pos \in Nat /\ left \in Nat /\ mSeekPos \in Nat /\ pos \in 0 .. MaxSeeks
  BY Bounds DEF ReaderType, FlagType
<1> DEFINE Old == /\ errors = 0
                  /\ rpc \in {"eosV", "eosA"} => eof
                  /\ eof /\ rpc \notin SeekAt => left = 0
                  /\ \A t \in Tracks : Marked(t)
           New == /\ rpc' \in {"eosV", "eosA"} => eof'
                  /\ eof' /\ rpc' \notin SeekAt => left' = 0
<1>1. CASE Reader /\ UNCHANGED notReader /\ UNCHANGED mAbortRequest
  <2>0. errors = 0 /\ errors' = errors
    <3>1. errors' = errors \/ errors' = errors + 1
      BY <1>1 DEF Reader, ReaderTop, SeekFile, SeekDone, IfFull, AutoExit, av_read_frame, PutPacket,
                  SeekFlush, PutEos, WaitAbort, CloseInput, CloseAbort, CloseEnd
    <3> QED BY <1>0, <3>1
  <2>1. Old
    BY <1>1, <2>0 DEF EndInv
  <2>2. UNCHANGED hand
    BY <1>1 DEF notReader, readVars
  <2>3. CASE SeekFile
    <3>1. \/ rpc' = "full" /\ ~mSeekReq /\ UNCHANGED <<pos, left>>
          \/ rpc' = "flushA" /\ mSeekReq /\ pos' = mSeekPos
      BY <2>0, <2>3, <1>0 DEF SeekFile, fileVars
    <3>2. rpc = "seek" /\ rpc \notin SeekAt /\ pkt = <<>> /\ UNCHANGED <<eof, pkt, queue>>
      BY <2>3 DEF SeekFile, PacketInv, queueVars, SeekAt
    <3>3. New
      BY <2>1, <3>1, <3>2 DEF SeekAt
    <3>4. \A p \in 0 .. MaxSeeks, t \in Tracks : p <= pos /\ Ended(t, p) => StillEnded(t, p)
      BY <1>0, <3>1, <3>2 DEF PosInv, Ended, StillEnded
    <3> QED BY <2>1, <2>2, <3>2, <3>3, <3>4, MarkedKept
  <2>4. CASE av_read_frame
    <3>1. rpc = "read" /\ UNCHANGED <<pos, queue>> /\ rpc' \in {"put", "top", "wait"}
      BY <2>4 DEF av_read_frame, queueVars
    <3>2. \/ /\ left > 0 /\ left' = left - 1 /\ UNCHANGED eof
             /\ UNCHANGED pkt \/ \E t \in Tracks, key \in BOOLEAN : pkt' = <<t, Data(pos, key)>>
          \/ left = 0 /\ UNCHANGED <<left, pkt>>
      BY <1>1, <2>0, <2>4, <1>0 DEF av_read_frame
    <3>3. pkt = <<>>
      BY <3>1 DEF PacketInv
    <3>4. New
      BY <1>0, <2>1, <3>1, <3>2 DEF SeekAt
    <3>5. UNCHANGED pkt \/ (left > 0 /\ pkt'[2].pos = pos)
      BY <1>0, <3>2, Kinds
    <3>6. \A p \in 0 .. MaxSeeks, t \in Tracks : p <= pos /\ Ended(t, p) => StillEnded(t, p)
      BY <1>0, <3>1, <3>2, <3>3, <3>5 DEF Ended, StillEnded
    <3> QED BY <2>1, <2>2, <3>1, <3>4, <3>6, MarkedKept
  <2>5. CASE \/ ReaderTop \/ SeekDone \/ IfFull \/ AutoExit \/ WaitAbort \/ CloseInput
             \/ CloseAbort("audio", "closeA", "endA", "closeV")
             \/ CloseAbort("video", "closeV", "endV", "close")
    <3>1. New /\ UNCHANGED <<pos, left, pkt, queue>>
      BY <2>1, <2>5 DEF ReaderTop, SeekDone, IfFull, AutoExit, WaitAbort, CloseInput, CloseAbort,
                        RGoto, SeekAt, fileVars, queueVars
    <3>2. \A p \in 0 .. MaxSeeks, t \in Tracks : p <= pos /\ Ended(t, p) => StillEnded(t, p)
      BY <3>1 DEF Ended, StillEnded
    <3> QED BY <2>1, <2>2, <3>1, <3>2, MarkedKept
  <2>6. CASE \/ SeekFlush("audio", "flushA", "flushV") \/ SeekFlush("video", "flushV", "seeked")
             \/ CloseEnd("audio", "endA", "closeV") \/ CloseEnd("video", "endV", "close")
    <3>1. New /\ UNCHANGED <<pos, left, pkt>>
      BY <2>1, <2>6 DEF SeekFlush, CloseEnd, RGoto, SeekAt, fileVars
    <3>2. \A t \in Tracks : queue'[t] \in {queue[t], <<>>, <<flush_pkt>>}
      BY <2>6 DEF SeekFlush, CloseEnd, QueueType, Valid
    <3>3. \A p \in 0 .. MaxSeeks, t \in Tracks : p <= pos /\ Ended(t, p) => StillEnded(t, p)
      BY <3>1 DEF Ended, StillEnded
    <3> QED BY <2>1, <2>2, <3>1, <3>2, <3>3, MarkedKept
  <2>7. CASE PutEos("video", "eosV", "eosA") \/ PutEos("audio", "eosA", "exit?")
    <3>1. New /\ UNCHANGED <<pos, left, pkt>> /\ left = 0 /\ pkt = <<>>
      BY <2>1, <2>7 DEF PutEos, RGoto, SeekAt, fileVars, PacketInv
    <3>2. \A t \in Tracks : queue'[t] = queue[t] \/ queue'[t] = Append(queue[t], Eos(pos))
      BY <2>7 DEF PutEos, QueueType, Valid, packet_queue_put
    <3>3. \A p \in 0 .. MaxSeeks, t \in Tracks : StillEnded(t, p)
      BY <3>1 DEF StillEnded
    <3>4. /\ Eos(pos) \in Packets /\ Eos(pos).kind = "eos" /\ Eos(pos).pos = pos
          /\ Eos(pos).kind # "data"
      BY <1>0, Kinds
    <3>5. ASSUME NEW t \in Tracks, queue'[t] = queue[t] PROVE Marked(t)'
      BY <2>1, <2>2, <3>3, <3>5, MarkedKept
    <3>6. ASSUME NEW t \in Tracks, queue'[t] = Append(queue[t], Eos(pos)) PROVE Marked(t)'
      BY <1>0, <2>1, <2>2, <3>3, <3>4, <3>6, MarkedPut
    <3> QED BY <3>1, <3>2, <3>5, <3>6
  <2>8. CASE PutPacket
    <3>1. /\ New /\ UNCHANGED <<pos, left>> /\ pkt # <<>> /\ pkt' = <<>>
          /\ queue' = [queue EXCEPT ![pkt[1]] = Append(@, pkt[2])]
      BY <2>1, <2>8 DEF PutPacket, RGoto, SeekAt, fileVars, PacketInv, packet_queue_put
    <3>2. pkt[1] \in Tracks /\ pkt[2] \in Packets /\ pkt[2].kind = "data" /\ pkt[2].pos = pos
      BY <3>1 DEF ReaderType, PacketInv
    <3>3. \A p \in 0 .. MaxSeeks, t \in Tracks : p <= pos /\ Ended(t, p) => StillEnded(t, p)
      BY <3>1 DEF Ended, StillEnded
    <3>4. ASSUME NEW t \in Tracks, t # pkt[1] PROVE Marked(t)'
      <4>1. queue'[t] = queue[t]
        BY <3>1, <3>4
      <4> QED BY <2>1, <2>2, <3>3, <4>1, MarkedKept
    <3>5. ASSUME NEW t \in Tracks, t = pkt[1] PROVE Marked(t)'
      <4>1. queue'[t] = Append(queue[t], pkt[2])
        BY <3>1, <3>5 DEF QueueType
      <4>2. \A p \in 0 .. MaxSeeks : Ended(t, p) => pkt[2].pos # p
        BY <3>1, <3>5 DEF Ended
      <4> QED BY <2>1, <2>2, <3>2, <3>3, <4>1, <4>2, MarkedPut
    <3> QED BY <3>1, <3>4, <3>5
  <2> QED BY <1>1, <2>3, <2>4, <2>5, <2>6, <2>7, <2>8 DEF Reader
<1>2. ASSUME NEW t \in Tracks, TrackStep(t), UNCHANGED notTrack
      PROVE  New /\ \A u \in Tracks : Marked(u)'
  <2>1. UNCHANGED <<rpc, eof, pkt, pos, left, mAbortRequest, errors>>
    BY <1>2 DEF notTrack, fileVars
  <2>2. Old
    BY <2>1 DEF EndInv
  <2>3. New
    BY <2>1, <2>2 DEF SeekAt
  <2>4. \A p \in 0 .. MaxSeeks, u \in Tracks : p <= pos /\ Ended(u, p) => StillEnded(u, p)
    BY <2>1 DEF Ended, StillEnded
  <2>5. CASE GetEos(t) \/ GetData(t)
    <3>1. /\ queue[t] # <<>> /\ queue' = [queue EXCEPT ![t] = Tail(queue[t])]
          /\ hand' = [hand EXCEPT ![t] = Head(queue[t])]
      BY <2>5 DEF GetEos, GetData, GetPacket
    <3>2. Marked(t)'
      <4>1. queue'[t] = Tail(queue[t]) /\ hand'[t] \in {hand[t], Head(queue[t])}
        BY <3>1 DEF QueueType, ReadType
      <4> QED BY <2>1, <2>2, <3>1, <4>1, MarkedGot
    <3>3. ASSUME NEW u \in Tracks, u # t PROVE Marked(u)'
      <4>1. queue'[u] = queue[u] /\ hand'[u] = hand[u]
        BY <3>1, <3>3 DEF QueueType, ReadType
      <4> QED BY <2>2, <2>4, <4>1, MarkedKept
    <3> QED BY <2>3, <3>2, <3>3
  <2>6. CASE ~(GetEos(t) \/ GetData(t))
    <3>1. \A u \in Tracks : hand'[u] = hand[u] \/ hand'[u] = None
      BY <1>2, <2>6 DEF TrackStep, ReadCall, Read, StreamSeekRefused, StreamSeek, StreamSeekAsk,
         StreamSeekFlush, GetAborted, Drop, GetFlush, GetPacket, ReturnData,
         reachedEOS, Return, ReadType
    <3>2. \A u \in Tracks : \/ queue'[u] \in {queue[u], <<>>, <<flush_pkt>>}
                            \/ queue[u] # <<>> /\ queue'[u] = Tail(queue[u])
      BY <1>2, TrackQueue DEF QueueType
    <3> QED BY <2>2, <2>3, <2>4, <3>1, <3>2, MarkedKept
  <2> QED BY <2>5, <2>6
<1>3. CASE (StopStep /\ UNCHANGED notStop) \/ UNCHANGED vars
  <2>1. UNCHANGED <<rpc, eof, pkt, pos, left, errors, queue, hand>> /\ ~mAbortRequest
    <3>1. mAbortRequest => mAbortRequest'
      BY ToldForGood
    <3> QED BY <1>3, <3>1 DEF notStop, vars, fileVars, queueVars, readVars
  <2>2. Old
    BY <2>1 DEF EndInv
  <2>3. \A p \in 0 .. MaxSeeks, u \in Tracks : p <= pos /\ Ended(u, p) => StillEnded(u, p)
    BY <2>1 DEF Ended, StillEnded
  <2> QED BY <2>1, <2>2, <2>3, MarkedKept DEF SeekAt
<1> QED BY <1>1, <1>2, <1>3, Who


\* What a step of the reader does to one queue.
LEMMA ReaderQueueOf ==
  ASSUME ReaderType, QueueType, PacketInv, Reader, NEW t \in Tracks
  PROVE  \/ queue'[t] \in {queue[t], <<>>}
         \/ rpc \in {"flushA", "flushV"} /\ queue'[t] = <<flush_pkt>>
         \/ \E x \in Packets : /\ rpc \notin SeekAt /\ x.kind # "flush"
                               /\ x.kind = "data" => x.pos = pos
                               /\ queue'[t] = Append(queue[t], x)
<1>1. Eos(pos) \in Packets /\ Eos(pos).kind = "eos"
  BY Kinds DEF ReaderType
<1>2. pkt # <<>> => pkt[2].kind = "data" /\ pkt[2].pos = pos
  BY DEF PacketInv
<1>3. CASE UNCHANGED queue
  BY <1>3
<1>4. ASSUME NEW u \in Tracks, Valid(u), rpc \in {"flushA", "flushV"},
             queue' = [queue EXCEPT ![u] = <<flush_pkt>>]
      PROVE  \/ queue'[t] = queue[t]
             \/ rpc \in {"flushA", "flushV"} /\ queue'[t] = <<flush_pkt>>
  BY <1>4 DEF QueueType
<1>5. ASSUME NEW u \in Tracks, rpc \in {"eosV", "eosA"},
             queue' = [queue EXCEPT ![u] = Append(queue[u], Eos(pos))]
      PROVE  queue'[t] = queue[t] \/ (rpc \notin SeekAt /\ queue'[t] = Append(queue[t], Eos(pos)))
  BY <1>5 DEF QueueType, SeekAt
<1>6. ASSUME rpc = "put", pkt[1] \in Tracks,
             queue' = [queue EXCEPT ![pkt[1]] = Append(queue[pkt[1]], pkt[2])]
      PROVE  queue'[t] = queue[t] \/ (rpc \notin SeekAt /\ queue'[t] = Append(queue[t], pkt[2]))
  BY <1>6 DEF QueueType, SeekAt
<1>7. ASSUME NEW u \in Tracks, queue' = [queue EXCEPT ![u] = <<>>]
      PROVE  queue'[t] \in {queue[t], <<>>}
  BY <1>7 DEF QueueType
<1> QED BY <1>1, <1>2, <1>3, <1>4, <1>5, <1>6, <1>7, ReaderQueue

\* The reader keeps what a track that seeks relies on,
LEMMA ReaderSeek ==
  ASSUME ReaderType, QueueType, FlagType, ReadType, PacketInv, PosInv, Reader,
         UNCHANGED <<notReader, mSeekPos>>, NEW t \in Tracks, AskInv(t), LandInv(t)
  PROVE  AskInv(t)' /\ LandInv(t)'
<1>0. UNCHANGED <<tpc, asked, seeking, hand, mSeekPos>> /\ queue[t] \in Seq(Packets)
  BY DEF notReader, readVars, QueueType
<1>1. ASSUME tpc[t] \in Asking PROVE ~mSeekReq' /\ (Emptied(t) => ~HasFlush(queue'[t]))
  <2>1. ~mSeekReq /\ rpc \notin SeekAt
    BY <1>1 DEF AskInv, PosInv
  <2>2. ~mSeekReq'
    BY <2>1, ReaderPos DEF SeekAt
  <2>3. ASSUME Emptied(t) PROVE ~HasFlush(queue'[t])
    <3>1. ~HasFlush(queue[t])
      BY <1>1, <2>3 DEF AskInv
    <3>2. CASE queue'[t] \in {queue[t], <<>>}
      BY <3>1, <3>2, EmptyHolds
    <3>3. ASSUME NEW x \in Packets, x.kind # "flush", queue'[t] = Append(queue[t], x)
          PROVE  ~HasFlush(queue'[t])
      <4>1. x.kind # "flush" /\ HasFlush(Append(queue[t], x)) => HasFlush(queue[t])
        BY <1>0, PutHolds
      <4> QED BY <3>1, <3>3, <4>1
    <3> QED BY <2>1, <3>2, <3>3, ReaderQueueOf DEF SeekAt
  <2> QED BY <2>2, <2>3
<1>2. ASSUME asked[t] # 0, tpc[t] \notin Asking
      PROVE  /\ mSeekReq' => mSeekPos = asked[t]
             /\ rpc' \in {"flushA", "flushV"} => pos' = asked[t]
             /\ IF seeking[t]
                THEN /\ BehindFlush(queue'[t], asked[t])
                     /\ HasFlush(queue'[t]) => pos' = asked[t]
                ELSE pos' = asked[t] /\ AllAt(queue'[t], asked[t])
             /\ tpc[t] = "have" => hand[t].pos = asked[t]
  <2> DEFINE a == asked[t]
             q == queue[t]
             r == queue'[t]
  <2>0. /\ mSeekReq => mSeekPos = a
        /\ rpc \in {"flushA", "flushV"} => pos = a
        /\ IF seeking[t] THEN BehindFlush(q, a) /\ (HasFlush(q) => pos = a)
                         ELSE pos = a /\ AllAt(q, a)
        /\ tpc[t] = "have" => hand[t].pos = a
    BY <1>2 DEF LandInv, Landed
  <2>1. mSeekReq' => mSeekPos = a
    BY <2>0, ReaderPos
  <2>2. UNCHANGED pos \/ (pos' = a /\ UNCHANGED queue)
    BY <2>0, ReaderPos
  <2>3. rpc' \in {"flushA", "flushV"} => pos' = a
    BY <2>0, ReaderPos DEF SeekAt
  <2>4. CASE r = q
    BY <2>0, <2>1, <2>2, <2>3, <2>4
  <2>5. CASE r = <<>>
    BY <2>0, <2>1, <2>2, <2>3, <2>5, EmptyHolds
  <2>6. CASE rpc \in {"flushA", "flushV"} /\ r = <<flush_pkt>>
    BY <2>0, <2>1, <2>2, <2>3, <2>6, FlushHolds
  <2>7. ASSUME NEW x \in Packets, rpc \notin SeekAt, x.kind # "flush",
               x.kind = "data" => x.pos = pos, r = Append(q, x)
        PROVE  /\ UNCHANGED pos
               /\ IF seeking[t] THEN BehindFlush(r, a) /\ (HasFlush(r) => pos = a)
                                ELSE pos = a /\ AllAt(r, a)
    <3>1. /\ AllAt(q, a) /\ (x.kind = "data" => x.pos = a) => AllAt(Append(q, x), a)
          /\ x.kind # "flush" /\ HasFlush(Append(q, x)) => HasFlush(q)
          /\ BehindFlush(q, a) /\ (HasFlush(q) /\ x.kind = "data" => x.pos = a)
               => BehindFlush(Append(q, x), a)
      <4> HIDE DEF a, q
      <4>1. q \in Seq(Packets)
        BY <1>0 DEF q
      <4> QED BY <4>1, PutHolds
    <3>2. UNCHANGED pos
      <4>1. UNCHANGED queue => r = q
        OBVIOUS
      <4>2. Len(r) = Len(q) + 1 /\ Len(q) \in Nat
        BY <1>0, <2>7, PutQueue
      <4> QED BY <2>2, <4>1, <4>2
    <3> QED BY <2>0, <2>7, <3>1, <3>2
  <2> QED BY <2>0, <2>1, <2>3, <2>4, <2>5, <2>6, <2>7, ReaderQueueOf
<1> QED BY <1>0, <1>1, <1>2 DEF AskInv, LandInv, Landed, Emptied


\* A read that does not overlap with another seek leaves the seek of another
\* track alone.
LEMMA OthersSeek ==
  ASSUME QueueType, FlagType, ReadType, LockInv, PosInv, SoleSeek,
         NEW s \in Tracks, TrackStep(s), UNCHANGED notTrack,
         NEW t \in Tracks \ {s}, AskInv(t), LandInv(t),
         tpc[s] = "seek" /\ tpc'[s] = "flushA" => ~Overlaps(s)
  PROVE  AskInv(t)' /\ LandInv(t)'
<1>0. /\ UNCHANGED <<rpc, pos>>
      /\ tpc'[t] = tpc[t] /\ hand'[t] = hand[t] /\ asked'[t] = asked[t] /\ seeking'[t] = seeking[t]
  BY ReadMoves DEF notTrack, fileVars
<1>1. queue'[t] \in {queue[t], <<>>}
  BY TrackQueue DEF QueueType
<1>2. ASSUME tpc[t] \in Asking PROVE ~mSeekReq' /\ (Emptied(t) => ~HasFlush(queue'[t]))
  <2>1. mLock = t /\ tpc[s] \notin Asking
    BY <1>2 DEF LockInv
  <2>2. UNCHANGED mSeekReq
    BY <2>1, ReadShape DEF Asking
  <2> QED BY <1>1, <1>2, <2>2, EmptyHolds DEF AskInv
<1>3. ASSUME asked[t] # 0, tpc[t] \notin Asking
      PROVE  UNCHANGED <<mSeekReq, mSeekPos>> /\ queue'[t] = queue[t]
  <2>1. tpc[s] \notin Asking
    <3>1. asked[s] = 0
      BY <1>3 DEF SoleSeek
    <3>2. mSeekPos \in Nat /\ seeks \in Nat /\ asked[s] \in Nat
      BY Bounds DEF FlagType, ReadType
    <3> QED BY <3>1, <3>2 DEF PosInv
  <2>2. UNCHANGED <<mSeekReq, mSeekPos>>
    BY <2>1, ReadShape DEF Asking
  <2>3. UNCHANGED queue \/ queue' = [queue EXCEPT ![s] = Tail(queue[s])]
    BY <2>1, TrackQueue DEF Asking
  <2> QED BY <2>2, <2>3 DEF QueueType
<1> QED BY <1>0, <1>2, <1>3 DEF AskInv, LandInv, Landed, Emptied

\* What a read does to its own seek.
LEMMA OwnAsk ==
  ASSUME QueueType, FlagType, ReadType, CloseInv, LockInv, PosInv,
         NEW t \in Tracks, TrackStep(t), AskInv(t),
         tpc[t] = "seek" /\ tpc'[t] = "flushA" => ~Overlaps(t)
  PROVE  AskInv(t)'
<1> SUFFICES ASSUME tpc'[t] \in Asking
             PROVE  ~mSeekReq' /\ (Emptied(t)' => ~HasFlush(queue'[t]))
  BY DEF AskInv
<1>0. ASSUME NEW u \in Tracks, ~Valid(u) PROVE queue[u] = <<>>
  BY <1>0 DEF CloseInv, Valid
<1>1. CASE tpc[t] = "seek" /\ tpc'[t] = "flushA"
  <2>1. ~mSeekReq /\ UNCHANGED mSeekReq
    BY <1>1, ReadShape DEF Overlaps
  <2> QED BY <1>1, <2>1 DEF Emptied
<1>2. CASE tpc[t] = "flushA" /\ tpc'[t] = "flushV"
  <2>1. /\ UNCHANGED mSeekReq /\ ~mSeekReq
        /\ queue' = IF Valid("audio") THEN [queue EXCEPT !["audio"] = <<>>] ELSE queue
    BY <1>2, ReadShape DEF AskInv, Asking
  <2>2. t = "audio" => queue'[t] = <<>>
    BY <1>0, <2>1 DEF QueueType
  <2> QED BY <1>2, <2>1, <2>2, EmptyHolds DEF Emptied
<1>3. CASE tpc[t] = "flushV" /\ tpc'[t] = "ask"
  <2>1. /\ UNCHANGED mSeekReq /\ ~mSeekReq
        /\ queue' = IF Valid("video") THEN [queue EXCEPT !["video"] = <<>>] ELSE queue
    BY <1>3, ReadShape DEF AskInv, Asking
  <2>2. t = "video" => queue'[t] = <<>>
    BY <1>0, <2>1 DEF QueueType
  <2>3. t = "audio" => queue'[t] = queue[t] /\ ~HasFlush(queue[t])
    BY <1>3, <2>1 DEF AskInv, Emptied, Asking, QueueType
  <2>4. t = "audio" \/ t = "video"
    BY ExtractorParameters
  <2> QED BY <2>1, <2>2, <2>3, <2>4, EmptyHolds
<1> QED BY <1>1, <1>2, <1>3, ReadShape DEF Asking

\* and so does the track itself.
LEMMA OwnLand ==
  ASSUME QueueType, FlagType, ReadType, PosInv, NEW t \in Tracks, TrackStep(t),
         UNCHANGED notTrack, AskInv(t), LandInv(t)
  PROVE  LandInv(t)'
<1> DEFINE a == asked[t]
           q == queue[t]
<1>0. /\ UNCHANGED <<rpc, pos>> /\ q \in Seq(Packets)
  BY DEF notTrack, fileVars, QueueType
<1> SUFFICES ASSUME asked'[t] # 0, tpc'[t] \notin Asking
             PROVE  /\ mSeekReq' => mSeekPos' = asked'[t]
                    /\ rpc' \in {"flushA", "flushV"} => pos' = asked'[t]
                    /\ Landed(t)'
                    /\ tpc'[t] = "have" => hand'[t].pos = asked'[t]
  BY DEF LandInv
<1>1. CASE tpc[t] = "ask"
  <2>1. /\ tpc'[t] = "get" /\ mSeekPos' = a /\ UNCHANGED <<queue, asked>>
        /\ seeking'[t] = TRUE
    BY <1>1, ReadShape DEF ReadType
  <2>2. ~mSeekReq /\ rpc \notin SeekAt /\ ~HasFlush(q)
    BY <1>1 DEF AskInv, Asking, Emptied, PosInv
  <2>3. BehindFlush(q, a)
    BY <2>2 DEF BehindFlush, HasFlush
  <2> QED BY <1>0, <2>1, <2>2, <2>3 DEF Landed, SeekAt
<1>2. CASE tpc[t] = "get" /\ tpc'[t] = "eos" /\ UNCHANGED <<asked, mSeekReq, mSeekPos, seeking, queue>>
  <2>1. tpc[t] \notin Asking
    BY <1>2 DEF Asking
  <2> QED BY <1>0, <1>2, <2>1 DEF LandInv, Landed
<1>3. CASE /\ Drop(t) \/ GetFlush(t) \/ GetEos(t) \/ GetData(t)
           /\ UNCHANGED <<asked, mSeekReq, mSeekPos>>
  <2>0. /\ tpc[t] = "get" /\ q # <<>> /\ queue'[t] = Tail(q)
        /\ tpc[t] \notin Asking
    BY <1>3 DEF Drop, GetFlush, GetEos, GetData, GetPacket, TGoto, QueueType, Asking
  <2>1. /\ mSeekReq => mSeekPos = a
        /\ rpc \in {"flushA", "flushV"} => pos = a
        /\ IF seeking[t] THEN BehindFlush(q, a) /\ (HasFlush(q) => pos = a)
                         ELSE pos = a /\ AllAt(q, a)
    BY <1>3, <2>0 DEF LandInv, Landed
  <2>2. /\ AllAt(q, a) => AllAt(Tail(q), a) /\ (Head(q).kind = "data" => Head(q).pos = a)
        /\ HasFlush(Tail(q)) => HasFlush(q)
        /\ Head(q).kind = "flush" => HasFlush(q)
        /\ BehindFlush(q, a) => BehindFlush(Tail(q), a)
                                /\ (Head(q).kind = "flush" => AllAt(Tail(q), a))
    <3> HIDE DEF a, q
    <3> QED BY <1>0, <2>0, GetHolds
  <2>3. CASE Drop(t)
    <3>1. seeking'[t] = seeking[t] /\ tpc'[t] = "get"
      BY <2>3 DEF Drop, GetPacket, TGoto, ReadType
    <3> QED BY <1>0, <1>3, <2>0, <2>1, <2>2, <3>1 DEF Landed
  <2>4. CASE GetFlush(t)
    <3>1. seeking'[t] = FALSE /\ tpc'[t] = "get" /\ Head(q).kind = "flush"
      BY <2>4 DEF GetFlush, GetPacket, TGoto, ReadType
    <3> QED BY <1>0, <1>3, <2>0, <2>1, <2>2, <3>1 DEF Landed
  <2>5. CASE GetEos(t)
    <3>1. seeking'[t] = seeking[t] /\ tpc'[t] = "eos"
      BY <2>5 DEF GetEos, GetPacket, TGoto, ReadType
    <3> QED BY <1>0, <1>3, <2>0, <2>1, <2>2, <3>1 DEF Landed
  <2>6. CASE GetData(t)
    <3>1. /\ seeking'[t] = seeking[t] /\ ~seeking[t] /\ hand'[t] = Head(q)
          /\ Head(q).kind = "data"
      BY <2>6 DEF GetData, GetPacket, TGoto, ReadType
    <3> QED BY <1>0, <1>3, <2>0, <2>1, <2>2, <3>1 DEF Landed
  <2> QED BY <1>3, <2>3, <2>4, <2>5, <2>6
<1>4. CASE tpc[t] \in {"idle", "seek"} /\ UNCHANGED asked
  BY <1>4 DEF PosInv
<1>5. CASE asked' = [asked EXCEPT ![t] = 0]
  BY <1>5 DEF ReadType
<1> QED BY <1>1, <1>2, <1>3, <1>4, <1>5, ReadShape DEF Asking

\* So every step keeps the seeks.
LEMMA StepSeek ==
  /\ TypeOK /\ PacketInv /\ CloseInv /\ LockInv /\ PosInv /\ SeekInv /\ [Next]_vars
  => SeekInv'
<1> SUFFICES ASSUME ReaderType, QueueType, FlagType, ReadType, PacketInv, CloseInv, LockInv,
                    PosInv, SeekInv, [Next]_vars, ~contended'
             PROVE  SoleSeek' /\ \A t \in Tracks : AskInv(t)' /\ LandInv(t)'
  BY DEF SeekInv, TypeOK
<1> DEFINE Old == SoleSeek /\ \A t \in Tracks : AskInv(t) /\ LandInv(t)
<1>1. CASE Reader /\ UNCHANGED <<notReader, mSeekPos>>
  <2>1. UNCHANGED <<contended, asked>>
    BY <1>1 DEF notReader, readVars
  <2>2. Old
    BY <2>1 DEF SeekInv
  <2>3. SoleSeek'
    BY <2>1, <2>2 DEF SoleSeek
  <2> QED BY <1>1, <2>2, <2>3, ReaderSeek
<1>2. ASSUME NEW s \in Tracks, TrackStep(s), UNCHANGED notTrack
      PROVE  SoleSeek' /\ \A t \in Tracks : AskInv(t)' /\ LandInv(t)'
  <2>1. ~contended /\ (tpc[s] = "seek" /\ tpc'[s] = "flushA" => ~Overlaps(s))
    BY <1>2, ReadShape
  <2>2. Old
    BY <2>1 DEF SeekInv
  <2>3. SoleSeek'
    <3>1. \A u \in Tracks \ {s} : asked'[u] = asked[u]
      BY <1>2, ReadMoves
    <3>2. CASE tpc[s] = "seek" /\ tpc'[s] = "flushA"
      <4>1. \A u \in Tracks \ {s} : asked[u] = 0
        BY <2>1, <3>2 DEF Overlaps
      <4> QED BY <3>1, <4>1 DEF SoleSeek
    <3>3. CASE asked'[s] = asked[s] \/ asked'[s] = 0
      BY <2>2, <3>1, <3>3 DEF SoleSeek
    <3> QED BY <1>2, <3>2, <3>3, ReadShape DEF ReadType
  <2>4. AskInv(s)' /\ LandInv(s)'
    BY <1>2, <2>1, <2>2, OwnAsk, OwnLand
  <2>5. \A t \in Tracks \ {s} : AskInv(t)' /\ LandInv(t)'
    BY <1>2, <2>1, <2>2, OthersSeek
  <2> QED BY <2>3, <2>4, <2>5
<1>3. CASE UNCHANGED notStop \/ UNCHANGED vars
  <2>1. UNCHANGED <<rpc, pos, queue, mSeekReq, mSeekPos, tpc, hand, asked, seeking, contended>>
    BY <1>3 DEF notStop, vars, fileVars, queueVars, flagVars, readVars
  <2>2. Old
    BY <2>1 DEF SeekInv
  <2> QED BY <2>1, <2>2 DEF SoleSeek, AskInv, LandInv, Landed, Emptied
<1> QED BY <1>1, <1>2, <1>3, Who


-----------------------------------------------------------------------------
(* The invariant holds.                                                    *)

\* The inductive invariant holds when the tracks start,
LEMMA InitIInv == Init => IInv
<1> SUFFICES ASSUME Init PROVE IInv
  OBVIOUS
<1>0. /\ 0 \in 0 .. FileLen /\ 0 \in 0 .. MaxSeeks /\ 0 \in 0 .. MaxErrors
      /\ FileLen \in 0 .. FileLen /\ None.kind # "eos"
      /\ \A t \in Tracks : t # "free"
  BY Bounds, Kinds, ExtractorParameters
<1>1. TypeOK
  <2>1. ReaderType
    BY <1>0 DEF Init, ReaderType
  <2>2. QueueType
    BY SmallQueues DEF Init, QueueType
  <2>3. FlagType
    BY <1>0 DEF Init, FlagType
  <2>4. ReadType
    BY <1>0 DEF Init, ReadType
  <2> QED BY <2>1, <2>2, <2>3, <2>4 DEF TypeOK
<1>2. PacketInv /\ CloseInv /\ StopInv
  BY DEF Init, PacketInv, CloseInv, StopInv, AudioClosedAt
<1>3. LockInv /\ PosInv
  BY <1>0 DEF Init, LockInv, PosInv, Asking, SeekAt
<1>4. CountInv
  <2>1. SeekSet = {}
    BY DEF Init, SeekSet
  <2> QED BY <2>1, Bounds, FS_EmptySet DEF Init, CountInv
<1>5. UsedInv /\ EndInv
  <2>1. ASSUME NEW t \in Tracks PROVE Used(queue[t], pos) /\ hand[t] = None
    BY FlushHolds DEF Init
  <2>2. ASSUME NEW t \in Tracks PROVE Marked(t)
    <3>1. queue[t] = <<flush_pkt>>
      BY DEF Init
    <3> QED BY <1>0, <2>1, <3>1, FlushHolds, SmallQueues, Kinds DEF Marked
  <2> QED BY <1>0, <2>1, <2>2 DEF UsedInv, EndInv, Init
<1>6. SeekInv
  BY DEF Init, SeekInv, SoleSeek, AskInv, LandInv, Asking
<1> QED BY <1>1, <1>2, <1>3, <1>4, <1>5, <1>6 DEF IInv

\* is kept by every step,
LEMMA StepIInv == IInv /\ [Next]_vars => IInv'
<1> SUFFICES ASSUME IInv, [Next]_vars PROVE IInv'
  OBVIOUS
<1>1. TypeOK'
  BY StepReaderType, StepQueueType, StepFlagType, StepReadType DEF IInv, TypeOK
<1>2. PacketInv' /\ CloseInv' /\ StopInv' /\ LockInv'
  BY StepPacket, StepClose, StepStop, StepLock DEF IInv, TypeOK
<1>3. CountInv' /\ PosInv' /\ UsedInv'
  BY StepCount, StepPos, StepUsed DEF IInv, TypeOK
<1>4. EndInv' /\ SeekInv'
  BY StepEnd, StepSeek DEF IInv
<1> QED BY <1>1, <1>2, <1>3, <1>4 DEF IInv

\* and so holds for ever.
LEMMA AlwaysIInv == Spec => []IInv
BY InitIInv, StepIInv, PTL DEF Spec

\* A read that asked for a position returns no packet from anywhere else, unless
\* the seeks of two tracks overlapped: of stream_seek, packet_queue_flush and
\* the part of Track::read that skips to the flush packet.
THEOREM SeekAlwaysLands == Spec => []SeekLandsThere
<1>1. IInv => SeekLandsThere
  BY DEF IInv, SeekInv, LandInv, SeekLandsThere, Asking
<1> QED BY <1>1, AlwaysIInv, PTL

\* A track is told the end only when every packet before it was taken, however
\* often the reader repeats the marks, and the queues hold what they should: of
\* the end of the file in readerEntry and of Track::read.
THEOREM EndAlwaysLast == Spec => []PacketsInOrder
<1>1. ASSUME IInv PROVE PacketsInOrder
  <2>1. TypeOK
    BY <1>1 DEF IInv
  <2> SUFFICES ASSUME NEW t \in Tracks, hand[t].kind = "eos", errors = 0, ~mAbortRequest
               PROVE  /\ hand[t].pos = pos => left = 0
                      /\ \A i \in DOMAIN queue[t] :
                           queue[t][i].kind = "data" => queue[t][i].pos # hand[t].pos
                      /\ pkt # <<>> => pkt[1] # t \/ pkt[2].pos # hand[t].pos
    BY <2>1 DEF PacketsInOrder, NothingBehindTheEnd
  <2>2. Ended(t, hand[t].pos) /\ NoneAt(queue[t], hand[t].pos)
    BY <1>1 DEF IInv, EndInv, Marked
  <2>3. DOMAIN queue[t] = 1 .. Len(queue[t])
    BY <2>1, LenProperties DEF TypeOK, QueueType
  <2> QED BY <2>2, <2>3 DEF Ended, NoneAt
<1> QED BY <1>1, AlwaysIInv, PTL

\* The reader closes the file when each track has been told of the end or a
\* stop has asked it to, which is joining it or has joined it: of
\* stream_component_close and stopReaderThread.
THEOREM AlwaysClosedAfterEnd == Spec => []ClosedAfterEnd
<1>1. ASSUME IInv, rpc = "done"
      PROVE  \/ \A t \in Tracks : EOSReceived[t]
             \/ mAbortRequest /\ (spc = "join" \/ ~mReaderThreadStarted)
  <2>1. \A t \in Tracks : ~idx[t]
    BY <1>1, ExtractorParameters DEF IInv, CloseInv, AudioClosedAt, Valid
  <2> QED BY <1>1, <2>1 DEF IInv, CloseInv, StopInv
<1>2. IInv => ClosedAfterEnd
  BY <1>1 DEF ClosedAfterEnd
<1> QED BY <1>2, AlwaysIInv, PTL
=============================================================================
