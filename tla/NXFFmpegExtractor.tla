-------------------------- MODULE NXFFmpegExtractor --------------------------
(***************************************************************************)
(* The FFmpeg extractor, src/omx/extractor/ffmpeg/FFmpegExtractor.cpp,     *)
(* after its constructor: a reader thread takes packets out of the file    *)
(* and puts them into one queue per track; per track a thread of the       *)
(* player reads them, may ask for another position, and a player thread    *)
(* stops the extractor through a track.                                    *)
(* A queue has a mutex of its own and a condition its only reader waits    *)
(* on; mLock of the extractor covers stream_seek, reachedEOS and the stop  *)
(* with its join; mLock of a track a whole read or stop.  The flags        *)
(* mSeekReq, mAbortRequest, the EOS flags and the sizes of the queues are  *)
(* read without a lock.  libavformat is external: a frame or the end.      *)
(***************************************************************************)
EXTENDS Integers, Sequences, FiniteSets

CONSTANTS
  Tracks,      \* the streams the file has
  FileLen,     \* bound: frames between any position and the end of the file
  MinAudio,    \* MIN_AUDIOQ_SIZE, in packets
  MinVideo,    \* MIN_FRAMES
  MaxTotal,    \* MAX_QUEUE_SIZE, in packets
  MaxSeeks,    \* bound: reads that ask for a position
  MaxErrors,   \* bound: calls of libavformat that fail
  MaxMarks     \* bound: marks of the end at the back of a queue

ASSUME ExtractorParameters ==
  /\ Tracks \subseteq {"audio", "video"} /\ Tracks # {}
  /\ {FileLen, MinAudio, MinVideo, MaxTotal, MaxSeeks, MaxErrors, MaxMarks} \subseteq Nat

VARIABLES
  rpc,         \* where the reader thread is
  eof,         \* its local flag
  pkt,         \* the packet it is about to put, or the empty tuple
  pos, left,   \* position of the file: the seek that led there, frames to its end
  queue, abort_request, idx,   \* per track: PacketQueue and whether its index is valid
  mSeekReq, mSeekPos, mAbortRequest, mReaderThreadStarted,
  mLock,       \* owner of the extractor's lock: a track, "stop" or "free"
  EOSReceived,
  tpc,         \* where the read of a track is
  hand,        \* the packet packet_queue_get gave it
  asked,       \* the seek this read asked for, 0 for none
  seeking, waitKeyPkt,
  spc, starget,    \* where the stop is, and its track
  seeks, errors,
  contended    \* history: two accepted seeks of two tracks have overlapped

fileVars   == <<pos, left>>
queueVars  == <<queue, abort_request, idx>>
flagVars   == <<mSeekReq, mSeekPos, mAbortRequest, mReaderThreadStarted, EOSReceived>>
readVars   == <<tpc, hand, asked, seeking, waitKeyPkt>>
stopVars   == <<spc, starget>>
vars == <<rpc, eof, pkt, fileVars, queueVars, flagVars, mLock, readVars, stopVars,
          seeks, errors, contended>>

None == [kind |-> "none"]
flush_pkt == [kind |-> "flush"]
Eos(p) == [kind |-> "eos", pos |-> p]
Data(p, key) == [kind |-> "data", pos |-> p, key |-> key]

DataIn(t) == IF t \in Tracks THEN Cardinality({i \in DOMAIN queue[t] : queue[t][i].kind = "data"})
                             ELSE 0
NbPackets(t) == IF t \in Tracks THEN Len(queue[t]) ELSE 0
Valid(t) == t \in Tracks /\ idx[t]

Init ==
  /\ rpc = "top" /\ eof = FALSE /\ pkt = <<>> /\ pos = 0 /\ left = FileLen
  /\ queue = [t \in Tracks |-> <<flush_pkt>>]
  /\ abort_request = [t \in Tracks |-> FALSE] /\ idx = [t \in Tracks |-> TRUE]
  /\ mSeekReq = FALSE /\ mSeekPos = 0 /\ mAbortRequest = FALSE /\ mReaderThreadStarted = TRUE
  /\ mLock = "free" /\ EOSReceived = [t \in Tracks |-> FALSE]
  /\ tpc = [t \in Tracks |-> "idle"] /\ hand = [t \in Tracks |-> None]
  /\ asked = [t \in Tracks |-> 0]
  /\ seeking = [t \in Tracks |-> FALSE] /\ waitKeyPkt = [t \in Tracks |-> FALSE]
  /\ spc = "idle" /\ starget = "none"
  /\ seeks = 0 /\ errors = 0 /\ contended = FALSE

-----------------------------------------------------------------------------
(* The reader thread.                                                      *)

RGoto(from, to) == rpc = from /\ rpc' = to

notReader == <<mLock, readVars, stopVars, seeks, contended>>

\* The top of the loop: a stop is looked at here only.
ReaderTop ==
  /\ rpc = "top" /\ rpc' = IF mAbortRequest THEN "closeA" ELSE "seek"
  /\ UNCHANGED <<eof, pkt, fileVars, queueVars, flagVars, errors, notReader>>

\* avformat_seek_file, if a seek is asked for; any number of frames may follow.
SeekFile ==
  /\ rpc = "seek"
  /\ \/ ~mSeekReq /\ rpc' = "full" /\ UNCHANGED <<fileVars, errors>>
     \/ mSeekReq /\ rpc' = "flushA" /\ pos' = mSeekPos /\ left' \in 0 .. FileLen
        /\ UNCHANGED errors
     \/ mSeekReq /\ errors < MaxErrors /\ rpc' = "seeked" /\ errors' = errors + 1
        /\ UNCHANGED fileVars
  /\ UNCHANGED <<eof, pkt, queueVars, flagVars, notReader>>

\* The queue of a stream is emptied and given the flush packet.  Between the
\* two the queue is empty, which its reader cannot tell from not yet signalled.
SeekFlush(t, from, to) ==
  /\ RGoto(from, to)
  /\ queue' = IF Valid(t) THEN [queue EXCEPT ![t] = <<flush_pkt>>] ELSE queue
  /\ UNCHANGED <<eof, pkt, fileVars, abort_request, idx, flagVars, errors, notReader>>

SeekDone_KeepsEof ==
  /\ RGoto("seeked", "full")
  /\ mSeekReq' = FALSE
  /\ UNCHANGED <<eof, pkt, fileVars, queueVars, mSeekPos, mAbortRequest, mReaderThreadStarted,
                 EOSReceived, errors, notReader>>

\* The request is cleared whatever was asked for since it was read.
SeekDone ==
  /\ RGoto("seeked", "full")
  /\ mSeekReq' = FALSE /\ eof' = FALSE
  /\ UNCHANGED <<pkt, fileVars, queueVars, mSeekPos, mAbortRequest, mReaderThreadStarted,
                 EOSReceived, errors, notReader>>

Full ==
  \/ DataIn("audio") + DataIn("video") > MaxTotal
  \/ /\ DataIn("audio") > MinAudio \/ ~Valid("audio")
     /\ NbPackets("video") > MinVideo \/ ~Valid("video")

IfFull ==
  /\ rpc = "full"
  /\ rpc' = IF Full THEN "top" ELSE IF eof THEN "eosV" ELSE "read"
  /\ UNCHANGED <<eof, pkt, fileVars, queueVars, flagVars, errors, notReader>>

packet_queue_put(t, p) == queue' = [queue EXCEPT ![t] = Append(@, p)]

\* As long as nobody reads, marks of the end pile up; the bound leaves the
\* further ones out.
EnoughMarks(t) ==
  LET n == Len(queue[t])
  IN  n >= MaxMarks /\ \A i \in n - MaxMarks + 1 .. n : queue[t][i].kind = "eos"

PutEos(t, from, to) ==
  /\ RGoto(from, to)
  /\ IF Valid(t) /\ ~EnoughMarks(t) THEN packet_queue_put(t, Eos(pos)) ELSE UNCHANGED queue
  /\ UNCHANGED <<eof, pkt, fileVars, abort_request, idx, flagVars, errors, notReader>>

\* The reader ends by itself once both queues hold no data (mAutoExit); marks
\* of the end have size 0.
AutoExit ==
  /\ rpc = "exit?"
  /\ IF DataIn("audio") + DataIn("video") = 0
     THEN rpc' = "closeA" /\ UNCHANGED eof
     ELSE rpc' = "top" /\ eof' = FALSE
  /\ UNCHANGED <<pkt, fileVars, queueVars, flagVars, errors, notReader>>

\* av_read_frame returns a frame of a stream, a frame nobody wants, or an
\* error; an error is taken for the end of the file, one of the byte stream
\* ends the loop.  The callback of a stop interrupts it with an error.
av_read_frame ==
  /\ rpc = "read"
  /\ \/ /\ left > 0 /\ left' = left - 1 /\ rpc' = "put" /\ UNCHANGED <<eof, errors>>
        /\ \E t \in Tracks, key \in BOOLEAN : pkt' = <<t, Data(pos, key)>>
     \/ /\ left > 0 /\ left' = left - 1 /\ rpc' = "top" /\ UNCHANGED <<eof, pkt, errors>>
     \/ /\ left = 0 \/ mAbortRequest
        /\ eof' = TRUE /\ rpc' = "top" /\ UNCHANGED <<left, pkt, errors>>
     \/ /\ errors < MaxErrors /\ errors' = errors + 1
        /\ eof' = TRUE /\ rpc' \in {"top", "wait"} /\ UNCHANGED <<left, pkt>>
  /\ UNCHANGED <<pos, queueVars, flagVars, notReader>>

PutPacket ==
  /\ RGoto("put", "top")
  /\ packet_queue_put(pkt[1], pkt[2]) /\ pkt' = <<>>
  /\ UNCHANGED <<eof, fileVars, abort_request, idx, flagVars, errors, notReader>>

\* After an error of the byte stream the thread waits for a stop.
WaitAbort ==
  /\ RGoto("wait", "closeA") /\ mAbortRequest
  /\ UNCHANGED <<eof, pkt, fileVars, queueVars, flagVars, errors, notReader>>

CloseAbort_Forgotten(t, from, to, next) ==
  /\ rpc = from /\ rpc' = IF Valid(t) THEN to ELSE next
  /\ UNCHANGED <<eof, pkt, fileVars, queueVars, flagVars, errors, notReader>>

\* stream_component_close: the queue is aborted, and emptied once its reader
\* has been told of the end or a stop is asked for.
CloseAbort(t, from, to, next) ==
  /\ rpc = from /\ rpc' = IF Valid(t) THEN to ELSE next
  /\ abort_request' = IF Valid(t) THEN [abort_request EXCEPT ![t] = TRUE] ELSE abort_request
  /\ UNCHANGED <<eof, pkt, fileVars, queue, idx, flagVars, errors, notReader>>

CloseEnd_NoWait(t, from, to) ==
  /\ RGoto(from, to)
  /\ queue' = [queue EXCEPT ![t] = <<>>] /\ idx' = [idx EXCEPT ![t] = FALSE]
  /\ UNCHANGED <<eof, pkt, fileVars, abort_request, flagVars, errors, notReader>>

CloseEnd(t, from, to) ==
  /\ RGoto(from, to)
  /\ mAbortRequest \/ EOSReceived[t]
  /\ queue' = [queue EXCEPT ![t] = <<>>] /\ idx' = [idx EXCEPT ![t] = FALSE]
  /\ UNCHANGED <<eof, pkt, fileVars, abort_request, flagVars, errors, notReader>>

\* avformat_close_input; the thread ends.
CloseInput ==
  /\ RGoto("close", "done")
  /\ UNCHANGED <<eof, pkt, fileVars, queueVars, flagVars, errors, notReader>>

Reader ==
  \/ ReaderTop \/ SeekFile \/ SeekDone \/ IfFull \/ AutoExit \/ av_read_frame \/ PutPacket
  \/ SeekFlush("audio", "flushA", "flushV") \/ SeekFlush("video", "flushV", "seeked")
  \/ PutEos("video", "eosV", "eosA") \/ PutEos("audio", "eosA", "exit?")
  \/ WaitAbort \/ CloseInput
  \/ CloseAbort("audio", "closeA", "endA", "closeV") \/ CloseEnd("audio", "endA", "closeV")
  \/ CloseAbort("video", "closeV", "endV", "close") \/ CloseEnd("video", "endV", "close")

-----------------------------------------------------------------------------
(* Track::read, by the player's thread of the track.                       *)

TGoto(t, from, to) == tpc[t] = from /\ tpc' = [tpc EXCEPT ![t] = to]

notTrack == <<rpc, eof, pkt, fileVars, mAbortRequest, mReaderThreadStarted, stopVars, errors>>

\* The read takes the lock of its track, which a stop on it may be waiting for.
ReadCall(t, seek) ==
  /\ starget # t
  /\ seek => seeks + Cardinality({u \in Tracks : tpc[u] = "seek"}) < MaxSeeks
  /\ TGoto(t, "idle", IF seek THEN "seek" ELSE "get")
  /\ UNCHANGED <<queueVars, mSeekReq, mSeekPos, EOSReceived, mLock, hand, asked, seeking,
                 waitKeyPkt, seeks, contended, notTrack>>

\* Beside a video that has not ended, the position is the video's to choose.
NoSeek(t) == t = "audio" /\ Valid("video") /\ Valid("audio") /\ ~EOSReceived["video"]

StreamSeekRefused(t) ==
  /\ TGoto(t, "seek", "get") /\ mLock = "free" /\ NoSeek(t)
  /\ UNCHANGED <<queueVars, mSeekReq, mSeekPos, EOSReceived, mLock, hand, asked, seeking,
                 waitKeyPkt, seeks, contended, notTrack>>

\* Another seek is still on its way.
Overlaps(t) ==
  mSeekReq \/ rpc \in {"flushA", "flushV", "seeked"} \/ \E u \in Tracks \ {t} : asked[u] # 0

StreamSeek(t) ==
  /\ TGoto(t, "seek", "flushA") /\ mLock = "free" /\ ~NoSeek(t)
  /\ mLock' = t
  /\ seeks' = seeks + 1 /\ asked' = [asked EXCEPT ![t] = seeks + 1]
  /\ contended' = (contended \/ Overlaps(t))
  /\ UNCHANGED <<queueVars, mSeekReq, mSeekPos, EOSReceived, hand, seeking, waitKeyPkt, notTrack>>

StreamSeekFlush(t, q, from, to) ==
  /\ TGoto(t, from, to)
  /\ queue' = IF Valid(q) THEN [queue EXCEPT ![q] = <<>>] ELSE queue
  /\ UNCHANGED <<abort_request, idx, mSeekReq, mSeekPos, EOSReceived, mLock, hand, asked,
                 seeking, waitKeyPkt, seeks, contended, notTrack>>

StreamSeekAsk_NotSeeking(t) ==
  /\ TGoto(t, "ask", "get")
  /\ mSeekPos' = asked[t] /\ mSeekReq' = TRUE /\ mLock' = "free"
  /\ UNCHANGED <<queueVars, EOSReceived, hand, asked, seeking, waitKeyPkt, seeks, contended,
                 notTrack>>

StreamSeekAsk(t) ==
  /\ TGoto(t, "ask", "get")
  /\ mSeekPos' = asked[t] /\ mSeekReq' = TRUE /\ mLock' = "free"
  /\ seeking' = [seeking EXCEPT ![t] = TRUE]
  /\ UNCHANGED <<queueVars, EOSReceived, hand, asked, waitKeyPkt, seeks, contended, notTrack>>

\* packet_queue_get of an aborted queue; otherwise it waits for a packet.
GetAborted(t) ==
  /\ TGoto(t, "get", "eos") /\ abort_request[t]
  /\ UNCHANGED <<queueVars, mSeekReq, mSeekPos, EOSReceived, mLock, hand, asked, seeking,
                 waitKeyPkt, seeks, contended, notTrack>>

\* The packet at the head of the queue is taken; the read goes to next.
GetPacket(t, next) ==
  /\ ~abort_request[t] /\ queue[t] # <<>>
  /\ TGoto(t, "get", next)
  /\ queue' = [queue EXCEPT ![t] = Tail(@)]
  /\ UNCHANGED <<abort_request, idx, mSeekReq, mSeekPos, EOSReceived, mLock, asked, seeks,
                 contended, notTrack>>

\* While seeking only the flush packet counts; after it only a key packet.  Any
\* later packet may be older than the first: the time stamps are not kept.
Drop(t) ==
  LET p == Head(queue[t])
  IN  /\ GetPacket(t, "get")
      /\ \/ seeking[t] /\ p.kind # "flush"
         \/ p.kind = "data" /\ (waitKeyPkt[t] => ~p.key)
      /\ UNCHANGED <<hand, seeking, waitKeyPkt>>

GetFlush(t) ==
  /\ GetPacket(t, "get") /\ Head(queue[t]).kind = "flush"
  /\ waitKeyPkt' = [waitKeyPkt EXCEPT ![t] = @ \/ seeking[t]]
  /\ seeking' = [seeking EXCEPT ![t] = FALSE]
  /\ UNCHANGED hand

GetEos(t) ==
  /\ GetPacket(t, "eos") /\ Head(queue[t]).kind = "eos" /\ ~seeking[t]
  /\ hand' = [hand EXCEPT ![t] = Head(queue[t])]
  /\ UNCHANGED <<seeking, waitKeyPkt>>

GetData(t) ==
  LET p == Head(queue[t])
  IN  /\ GetPacket(t, "have") /\ p.kind = "data" /\ ~seeking[t]
      /\ waitKeyPkt[t] => p.key
      /\ hand' = [hand EXCEPT ![t] = p]
      /\ waitKeyPkt' = [waitKeyPkt EXCEPT ![t] = FALSE]
      /\ UNCHANGED seeking

\* The read returns and gives back the lock of its track.
Return(t) ==
  /\ hand' = [hand EXCEPT ![t] = None] /\ asked' = [asked EXCEPT ![t] = 0]
  /\ seeking' = [seeking EXCEPT ![t] = FALSE]
  /\ waitKeyPkt' = [waitKeyPkt EXCEPT ![t] = FALSE]

ReturnData(t) ==
  /\ TGoto(t, "have", "idle") /\ Return(t)
  /\ UNCHANGED <<queueVars, mSeekReq, mSeekPos, EOSReceived, mLock, seeks, contended, notTrack>>

reachedEOS(t) ==
  /\ TGoto(t, "eos", "idle") /\ mLock = "free" /\ Return(t)
  /\ EOSReceived' = [EOSReceived EXCEPT ![t] = TRUE]
  /\ UNCHANGED <<queueVars, mSeekReq, mSeekPos, mLock, seeks, contended, notTrack>>

Read(t) ==
  \/ StreamSeekRefused(t) \/ StreamSeek(t) \/ StreamSeekAsk(t)
  \/ StreamSeekFlush(t, "audio", "flushA", "flushV")
  \/ StreamSeekFlush(t, "video", "flushV", "ask")
  \/ GetAborted(t) \/ Drop(t) \/ GetFlush(t) \/ GetEos(t) \/ GetData(t)
  \/ ReturnData(t) \/ reachedEOS(t)

-----------------------------------------------------------------------------
(* Track::stop.                                                            *)

notStop == <<rpc, eof, pkt, fileVars, queueVars, mSeekReq, mSeekPos, EOSReceived, readVars,
             seeks, errors, contended>>

StopCall(t) ==
  /\ spc = "idle" /\ spc' = "track" /\ starget' = t
  /\ UNCHANGED <<mAbortRequest, mReaderThreadStarted, mLock, notStop>>

\* The lock of the track: a read on it has to return first.
StopTrack ==
  /\ spc = "track" /\ tpc[starget] = "idle" /\ spc' = "lock"
  /\ UNCHANGED <<starget, mAbortRequest, mReaderThreadStarted, mLock, notStop>>

StopReader_NoAbort ==
  /\ spc = "lock" /\ mLock = "free"
  /\ IF mReaderThreadStarted
     THEN spc' = "join" /\ mLock' = "stop" /\ UNCHANGED starget
     ELSE spc' = "idle" /\ starget' = "none" /\ UNCHANGED mLock
  /\ UNCHANGED <<mAbortRequest, mReaderThreadStarted, notStop>>

\* stopReaderThread, with the lock of the extractor until the thread is joined.
StopReader ==
  /\ spc = "lock" /\ mLock = "free"
  /\ IF mReaderThreadStarted
     THEN spc' = "join" /\ mLock' = "stop" /\ mAbortRequest' = TRUE /\ UNCHANGED starget
     ELSE spc' = "idle" /\ starget' = "none" /\ UNCHANGED <<mLock, mAbortRequest>>
  /\ UNCHANGED <<mReaderThreadStarted, notStop>>

StopJoin ==
  /\ spc = "join" /\ rpc = "done"
  /\ spc' = "idle" /\ starget' = "none"
  /\ mReaderThreadStarted' = FALSE /\ mLock' = "free"
  /\ UNCHANGED <<mAbortRequest, notStop>>

Stop == StopTrack \/ StopReader \/ StopJoin

-----------------------------------------------------------------------------
Next ==
  \/ Reader
  \/ \E t \in Tracks, seek \in BOOLEAN : ReadCall(t, seek)
  \/ \E t \in Tracks : Read(t) \/ StopCall(t)
  \/ Stop

\* Threads run.  The player goes on asking each track for its next packet.
Fairness ==
  /\ WF_vars(Reader) /\ WF_vars(Stop)
  /\ \A t \in Tracks : WF_vars(Read(t)) /\ WF_vars(ReadCall(t, FALSE))

Spec == Init /\ [][Next]_vars
LiveSpec == Spec /\ Fairness

-----------------------------------------------------------------------------
(* Properties.                                                             *)

Packets ==
  {flush_pkt} \cup [kind : {"eos"}, pos : 0 .. MaxSeeks]
              \cup [kind : {"data"}, pos : 0 .. MaxSeeks, key : BOOLEAN]

\* The type of the state, in parts.
ReaderType ==
  /\ rpc \in {"top", "seek", "flushA", "flushV", "seeked", "full", "read", "put", "eosV", "eosA",
             "exit?", "wait", "closeA", "endA", "closeV", "endV", "close", "done"}
  /\ eof \in BOOLEAN /\ (pkt = <<>> \/ pkt \in Tracks \X Packets)
  /\ pos \in 0 .. MaxSeeks /\ left \in 0 .. FileLen /\ errors \in 0 .. MaxErrors

QueueType ==
  /\ queue \in [Tracks -> Seq(Packets)]
  /\ abort_request \in [Tracks -> BOOLEAN] /\ idx \in [Tracks -> BOOLEAN]

FlagType ==
  /\ mSeekReq \in BOOLEAN /\ mSeekPos \in 0 .. MaxSeeks
  /\ mAbortRequest \in BOOLEAN /\ mReaderThreadStarted \in BOOLEAN
  /\ EOSReceived \in [Tracks -> BOOLEAN] /\ mLock \in Tracks \cup {"free", "stop"}
  /\ spc \in {"idle", "track", "lock", "join"} /\ starget \in Tracks \cup {"none"}

ReadType ==
  /\ tpc \in [Tracks -> {"idle", "seek", "flushA", "flushV", "ask", "get", "eos", "have"}]
  /\ hand \in [Tracks -> Packets \cup {None}] /\ asked \in [Tracks -> 0 .. MaxSeeks]
  /\ seeking \in [Tracks -> BOOLEAN] /\ waitKeyPkt \in [Tracks -> BOOLEAN]
  /\ seeks \in 0 .. MaxSeeks /\ contended \in BOOLEAN

TypeOK == ReaderType /\ QueueType /\ FlagType /\ ReadType

\* A read that asked for a position never returns a packet from anywhere else:
\* not one the reader put late, not one behind the flush packet of an earlier
\* seek, not one after a seek that failed, unless the seeks of two tracks
\* overlapped.
SeekLandsThere ==
  \A t \in Tracks : tpc[t] = "have" /\ asked[t] # 0 /\ ~contended => hand[t].pos = asked[t]

\* A track is told the end only when every packet before the end was taken: the
\* file holds no further frame of the position the mark stands for, and none is
\* behind the mark in the queue or about to be put there, although the reader
\* repeats the marks, reads on, and keeps its flag over the turns of the loop.
NothingBehindTheEnd ==
  \A t \in Tracks :
    hand[t].kind = "eos" /\ errors = 0 /\ ~mAbortRequest =>
      /\ hand[t].pos = pos => left = 0
      /\ \A i \in DOMAIN queue[t] : queue[t][i].kind = "data" => queue[t][i].pos # hand[t].pos
      /\ pkt # <<>> => pkt[1] # t \/ pkt[2].pos # hand[t].pos

\* The queues are well typed and the marks of the end in their place.
PacketsInOrder == TypeOK /\ NothingBehindTheEnd

\* The reader closes the file under nobody: without a stop each track has been
\* told of the end before, and with one the stop is still joining or has
\* joined.
ClosedAfterEnd ==
  rpc = "done" =>
    \/ \A t \in Tracks : EOSReceived[t]
    \/ mAbortRequest /\ (spc = "join" \/ ~mReaderThreadStarted)

\* After an error of the byte stream the reader puts no mark of the end, and a
\* read that has taken the last packet waits until a stop on the other track.
Stranded(t) == rpc = "wait" /\ ~mAbortRequest /\ tpc[t] = "get" /\ queue[t] = <<>>

\* A read returns: with a packet or at the end, in a seek that failed, beside
\* a stop, and after an error while there are packets or once a stop is asked
\* for.  Only the stranded read does not.
ReadReturns == \A t \in Tracks : tpc[t] # "idle" ~> (tpc[t] = "idle" \/ Stranded(t))

\* A stop returns, unless it waits for the lock of a track whose read is
\* stranded.
StopReturns == spc # "idle" ~> (spc = "idle" \/ (spc = "track" /\ Stranded(starget)))
=============================================================================
