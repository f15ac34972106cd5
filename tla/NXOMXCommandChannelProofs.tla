---------------------- MODULE NXOMXCommandChannelProofs ----------------------
(***************************************************************************)
(* Proofs about the command channel, for every finite set of clients,      *)
(* every size of the queue and any number of commands: the semaphore       *)
(* counts what the queue holds, and until one of them meets its limit      *)
(* every command is processed once, in the order its client sent it.       *)
(***************************************************************************)
EXTENDS NXOMXCommandChannel, SequenceTheorems, FiniteSetTheorems, TLAPS

\* The clients between the push and the post.
Posting == {c \in Clients : cli[c] = "post"}

\* Where the command thread may be: it has something to process where it
\* processes, a wake-up finds the token it was given, and a thread that looks
\* for a message without having been told to exit finds one.
WorkerInv == /\ pc = "proc" => pCmd # << >>
             /\ pc = "woken" => nValue > 0
             /\ pc = "pop" /\ ~full => cmdQueue # << >>
             /\ pc = "exit" => eCmdThreadCmd = "EXIT" /\ cmdQueue = << >>
             /\ pc = "exit" /\ ~full => deinit \in {"join", "done"}
             /\ eCmdThreadCmd = "EXIT" <=> deinit # "none"

\* The message in process, if there is one.
Flight == IF pc = "proc" THEN << pCmd >> ELSE << >>

\* All messages sent so far in the order of their pushes: those processed, the
\* one in process and those queued.
Line == handled \o (Flight \o cmdQueue)

\* Nothing is missing in the line, and nothing occurs in it twice or before
\* the message its client sent before.
LineInv ==
  ~full => /\ \A i \in DOMAIN Line : Line[i][2] <= sent[Line[i][1]]
           /\ \A i, j \in DOMAIN Line : Line[i] = Line[j] => i = j
           /\ \A i \in DOMAIN Line : Line[i][2] > 1 =>
                \E j \in 1..(i - 1) : Line[j] = <<Line[i][1], Line[i][2] - 1>>
           /\ \A c \in Clients, n \in 1..MaxSends :
                n <= sent[c] => \E i \in DOMAIN Line : Line[i] = <<c, n>>

IInv == TypeOK /\ TokensMatchMessages /\ WorkerInv /\ NeverProcessesFreed /\ LineInv

-----------------------------------------------------------------------------
\* The clients are finitely many, and so are those inside a call.
LEMMA PostingFinite ==
  /\ IsFiniteSet(Posting) /\ Cardinality(Posting) \in Nat
  /\ Posting = {} => Cardinality(Posting) = 0
<1>1. IsFiniteSet(Posting)
  BY ChannelSizes, FS_Subset DEF Posting
<1> QED BY <1>1, FS_CardinalityType, FS_EmptySet

\* A message is no empty tuple.
LEMMA MessageShape ==
  ASSUME NEW m \in Messages
  PROVE  /\ m # << >> /\ m[1] \in Clients /\ m[2] \in 1..MaxSends /\ m = <<m[1], m[2]>>
BY DEF Messages

-----------------------------------------------------------------------------
\* The initial state satisfies the type invariant.
LEMMA InitType == Init => TypeOK
<1>1. << >> \in Seq(Messages) /\ Len(<< >>) = 0
  BY EmptySeq
<1>2. 0 \in 0..MaxElement /\ 0 \in 0..MaxSends
  BY ChannelSizes
<1> SUFFICES ASSUME Init PROVE TypeOK
  OBVIOUS
<1>3. cmdQueue \in Seq(Messages) /\ Len(cmdQueue) <= MaxElement /\ handled \in Seq(Messages)
  BY <1>1, <1>2 DEF Init
<1>4. cli \in [Clients -> {"idle", "post"}] /\ sent \in [Clients -> 0..MaxSends]
  BY <1>2 DEF Init
<1> QED BY <1>2, <1>3, <1>4 DEF Init, TypeOK

\* Every step keeps the types.
LEMMA StepType == TypeOK /\ WorkerInv /\ [Next]_vars => TypeOK'
<1> SUFFICES ASSUME TypeOK, WorkerInv, [Next]_vars PROVE TypeOK'
  OBVIOUS
<1> USE ChannelSizes
<1>1. ASSUME NEW c \in Clients, Push(c) PROVE TypeOK'
  <2>1. sent[c] + 1 \in 1..MaxSends
    BY <1>1 DEF Push, TypeOK
  <2>2. <<c, sent[c] + 1>> \in Messages
    BY <2>1 DEF Messages
  <2>3. cmdQueue' \in Seq(Messages) /\ Len(cmdQueue') <= MaxElement
    <3>1. CASE Len(cmdQueue) >= MaxElement
      BY <1>1, <3>1 DEF Push, TypeOK
    <3>2. CASE ~(Len(cmdQueue) >= MaxElement)
      <4>1. cmdQueue' = Append(cmdQueue, <<c, sent[c] + 1>>)
        BY <1>1, <3>2 DEF Push
      <4> QED BY <2>2, <3>2, <4>1, AppendProperties DEF TypeOK
    <3> QED BY <3>1, <3>2
  <2>4. sent' \in [Clients -> 0..MaxSends]
    BY <1>1, <2>1 DEF Push, TypeOK
  <2>5. full' \in BOOLEAN
    BY <1>1 DEF Push, TypeOK
  <2> QED BY <1>1, <2>3, <2>4, <2>5 DEF Push, worker, TypeOK
<1>2. ASSUME NEW c \in Clients, Post(c) PROVE TypeOK'
  BY <1>2 DEF Post, PostSem, TypeOK
<1>3. CASE PendSem
  BY <1>3 DEF PendSem, client, TypeOK
<1>4. CASE PendWake
  BY <1>4 DEF PendWake, client, TypeOK, WorkerInv
<1>5. CASE ExitTest
  BY <1>5 DEF ExitTest, client, TypeOK
<1>6. CASE Pop
  <2>1. CASE cmdQueue = << >>
    BY <1>6, <2>1 DEF Pop, client, TypeOK
  <2>2. CASE cmdQueue # << >>
    <3>1. /\ Head(cmdQueue) \in Messages /\ Tail(cmdQueue) \in Seq(Messages)
          /\ Len(Tail(cmdQueue)) <= MaxElement
      BY <2>2, HeadTailProperties DEF TypeOK
    <3> QED BY <1>6, <2>2, <3>1 DEF Pop, client, TypeOK
  <2> QED BY <2>1, <2>2
<1>7. CASE Process
  <2>1. pCmd \in Messages
    BY <1>7 DEF Process, TypeOK, WorkerInv
  <2>2. Append(handled, pCmd) \in Seq(Messages)
    BY <2>1, AppendProperties DEF TypeOK
  <2> QED BY <1>7, <2>2 DEF Process, client, TypeOK
<1>8. CASE DeInitExit
  BY <1>8 DEF DeInitExit, client, worker, TypeOK
<1>9. CASE DeInitPost
  BY <1>9 DEF DeInitPost, PostSem, client, TypeOK
<1>10. CASE DeInitJoin
  BY <1>10 DEF DeInitJoin, client, worker, TypeOK
<1>11. CASE UNCHANGED vars
  BY <1>11 DEF vars, client, worker, TypeOK
<1> QED BY <1>1, <1>2, <1>3, <1>4, <1>5, <1>6, <1>7, <1>8, <1>9, <1>10, <1>11
        DEF Next, CommandThread, DeInit

-----------------------------------------------------------------------------
(* The tokens.                                                             *)

\* Nobody is inside a call of a channel that was just created.
LEMMA InitTokens == Init => TokensMatchMessages /\ WorkerInv /\ NeverProcessesFreed
<1> SUFFICES ASSUME Init PROVE TokensMatchMessages /\ WorkerInv /\ NeverProcessesFreed
  OBVIOUS
<1>1. Posting = {}
  BY DEF Init, Posting
<1>2. Cardinality(Posting) = 0
  BY <1>1, PostingFinite
<1>3. Tokens = 0 /\ Len(cmdQueue) = 0
  BY <1>2, EmptySeq DEF Init, Tokens, Posting
<1> QED BY <1>3 DEF Init, TokensMatchMessages, WorkerInv, NeverProcessesFreed

\* The clients inside a call do not change unless one of them enters or leaves.
LEMMA SamePosting == ASSUME UNCHANGED cli PROVE UNCHANGED Posting
BY DEF Posting

\* A client enters a call with its push and leaves it with its post.
LEMMA OnePosting ==
  ASSUME TypeOK, NEW c \in Clients
  PROVE  /\ cli[c] = "idle" /\ cli' = [cli EXCEPT ![c] = "post"]
              => Cardinality(Posting') = Cardinality(Posting) + 1
         /\ cli[c] = "post" /\ cli' = [cli EXCEPT ![c] = "idle"]
              => Cardinality(Posting') = Cardinality(Posting) - 1
<1>1. ASSUME cli[c] = "idle", cli' = [cli EXCEPT ![c] = "post"]
      PROVE  Cardinality(Posting') = Cardinality(Posting) + 1
  <2>1. c \notin Posting /\ Posting' = Posting \cup {c}
    BY <1>1 DEF TypeOK, Posting
  <2> QED BY <2>1, PostingFinite, FS_AddElement
<1>2. ASSUME cli[c] = "post", cli' = [cli EXCEPT ![c] = "idle"]
      PROVE  Cardinality(Posting') = Cardinality(Posting) - 1
  <2>1. c \in Posting /\ Posting' = Posting \ {c}
    BY <1>2 DEF TypeOK, Posting
  <2> QED BY <2>1, PostingFinite, FS_RemoveElement
<1> QED BY <1>1, <1>2

\* Every step keeps the tokens, the place of the command thread and the
\* message it works on.
LEMMA StepTokens ==
  TypeOK /\ TypeOK' /\ TokensMatchMessages /\ WorkerInv /\ NeverProcessesFreed /\ [Next]_vars
    => TokensMatchMessages' /\ WorkerInv' /\ NeverProcessesFreed'
<1> DEFINE TokenInv == TokensMatchMessages /\ WorkerInv /\ NeverProcessesFreed
<1> SUFFICES ASSUME TypeOK, TypeOK', TokenInv, [Next]_vars PROVE TokenInv'
  OBVIOUS
<1> DEFINE p == Cardinality(Posting)
<1>0. p \in Nat /\ p' \in Nat
  <2>1. (Cardinality(Posting) \in Nat)'
    BY PostingFinite, PTL
  <2> QED BY <2>1, PostingFinite
<1>a. /\ Tokens = nValue + (IF pc \in {"taken", "pop"} THEN 1 ELSE 0) + p
      /\ Tokens' = nValue' + (IF pc' \in {"taken", "pop"} THEN 1 ELSE 0) + p'
  BY DEF Tokens, Posting
<1>b. /\ Len(cmdQueue) \in Nat /\ Len(cmdQueue) = 0 <=> cmdQueue = << >>
      /\ Len(cmdQueue') \in Nat /\ Len(cmdQueue') = 0 <=> cmdQueue' = << >>
  BY EmptySeq, LenProperties DEF TypeOK
<1> HIDE DEF p
<1> USE ChannelSizes
<1>1. ASSUME NEW c \in Clients, Push(c) PROVE TokenInv'
  <2>1. p' = p + 1
    BY <1>1, OnePosting DEF Push, p
  <2>2. CASE Len(cmdQueue) >= MaxElement
    <3>1. cmdQueue' = cmdQueue /\ full' = TRUE
      BY <1>1, <2>2 DEF Push
    <3> QED BY <1>0, <1>1, <1>a, <1>b, <2>1, <3>1
            DEF Push, worker, TokensMatchMessages, WorkerInv, NeverProcessesFreed, TypeOK
  <2>3. CASE ~(Len(cmdQueue) >= MaxElement)
    <3>1. cmdQueue' = Append(cmdQueue, <<c, sent[c] + 1>>) /\ full' = full
      BY <1>1, <2>3 DEF Push
    <3>2. <<c, sent[c] + 1>> \in Messages
      BY <1>1 DEF Push, TypeOK, Messages
    <3>3. Len(cmdQueue') = Len(cmdQueue) + 1
      BY <3>1, <3>2, AppendProperties DEF TypeOK
    <3> QED BY <1>0, <1>1, <1>a, <1>b, <2>1, <3>1, <3>3
            DEF Push, worker, TokensMatchMessages, WorkerInv, NeverProcessesFreed, TypeOK
  <2> QED BY <2>2, <2>3
<1>2. ASSUME NEW c \in Clients, Post(c) PROVE TokenInv'
  <2>1. p' = p - 1
    BY <1>2, OnePosting DEF Post, p
  <2>2. /\ nValue' = IF nValue = MaxElement THEN nValue ELSE nValue + 1
        /\ full' = (full \/ nValue = MaxElement) /\ nValue' > 0
        /\ pc' = IF pc = "waiting" THEN "woken" ELSE pc
        /\ UNCHANGED <<cmdQueue, eCmdThreadCmd, pCmd, freed, deinit>>
    BY <1>2 DEF Post, PostSem, TypeOK
  <2>3. TokensMatchMessages'
    <3>1. nValue = MaxElement => Len(cmdQueue') <= nValue'
      BY <2>2 DEF TypeOK
    <3>2. Tokens' = IF nValue = MaxElement THEN Tokens - 1 ELSE Tokens
      BY <1>0, <1>a, <2>1, <2>2 DEF TypeOK
    <3>3. Tokens' >= nValue'
      <4>1. nValue' \in Nat /\ p' \in Nat
        BY <1>0 DEF TypeOK
      <4>2. CASE pc' \in {"taken", "pop"}
        <5>1. Tokens' = nValue' + 1 + p'
          BY <1>a, <4>2
        <5> QED BY <1>0, <4>1, <5>1 DEF p, Tokens, TypeOK
      <4>3. CASE pc' \notin {"taken", "pop"}
        <5>1. Tokens' = nValue' + 0 + p'
          BY <1>a, <4>3
        <5> QED BY <1>0, <4>1, <5>1 DEF p, Tokens, TypeOK
      <4> QED BY <4>2, <4>3
    <3>4. nValue = MaxElement => full'
      BY <2>2
    <3>5. nValue # MaxElement => full' = full
      BY <2>2 DEF TypeOK
    <3>6. (pc' # "exit" <=> pc # "exit") /\ Len(cmdQueue') = Len(cmdQueue) /\ deinit' = deinit
      BY <2>2
    <3>7. Tokens' >= Len(cmdQueue')
      BY <1>b, <3>1, <3>2, <3>3, <3>6 DEF TokensMatchMessages, TypeOK
    <3> QED BY <3>2, <3>4, <3>5, <3>6, <3>7 DEF TokensMatchMessages
  <2>4. WorkerInv'
    BY <2>2 DEF WorkerInv, TypeOK
  <2>5. NeverProcessesFreed'
    BY <2>2 DEF NeverProcessesFreed, TypeOK
  <2> QED BY <2>3, <2>4, <2>5
<1>3. CASE CommandThread \/ DeInitExit \/ DeInitPost \/ DeInitJoin \/ UNCHANGED vars
  <2>1. p' = p
    BY <1>3, SamePosting DEF p, CommandThread, PendSem, PendWake, ExitTest, Pop, Process,
       DeInitExit, DeInitPost, DeInitJoin, vars, client
  <2>2. CASE PendSem
    <3>1. CASE nValue = 0
      BY <1>0, <1>a, <1>b, <2>1, <2>2, <3>1 DEF PendSem, client, TokensMatchMessages,
         WorkerInv, NeverProcessesFreed, TypeOK
    <3>2. CASE nValue # 0
      BY <1>0, <1>a, <1>b, <2>1, <2>2, <3>2 DEF PendSem, client, TokensMatchMessages,
         WorkerInv, NeverProcessesFreed, TypeOK
    <3> QED BY <3>1, <3>2
  <2>3. CASE PendWake
    BY <1>0, <1>a, <1>b, <2>1, <2>3 DEF PendWake, client, TokensMatchMessages, WorkerInv,
       NeverProcessesFreed, TypeOK
  <2>4. CASE ExitTest
    BY <1>0, <1>a, <1>b, <2>1, <2>4 DEF ExitTest, client, TokensMatchMessages, WorkerInv,
       NeverProcessesFreed, TypeOK
  <2>5. CASE Pop
    <3>1. CASE cmdQueue = << >>
      BY <1>0, <1>a, <1>b, <2>1, <2>5, <3>1 DEF Pop, client, TokensMatchMessages,
         WorkerInv, NeverProcessesFreed, TypeOK
    <3>2. CASE cmdQueue # << >>
      <4>1. Head(cmdQueue) \in Messages /\ Len(Tail(cmdQueue)) = Len(cmdQueue) - 1
        BY <3>2, HeadTailProperties DEF TypeOK
      <4>2. Head(cmdQueue) # << >>
        BY <4>1, MessageShape
      <4> QED BY <1>0, <1>a, <1>b, <2>1, <2>5, <3>2, <4>1, <4>2 DEF Pop, client,
              TokensMatchMessages, WorkerInv, NeverProcessesFreed, TypeOK
    <3> QED BY <3>1, <3>2
  <2>6. CASE Process
    BY <1>0, <1>a, <1>b, <2>1, <2>6 DEF Process, client, TokensMatchMessages, WorkerInv,
       NeverProcessesFreed, TypeOK
  <2>7. CASE DeInitExit
    BY <1>0, <1>a, <1>b, <2>1, <2>7 DEF DeInitExit, client, worker, TokensMatchMessages,
       WorkerInv, NeverProcessesFreed, TypeOK
  <2>8. CASE DeInitPost
    <3>1. /\ nValue' = IF nValue = MaxElement THEN nValue ELSE nValue + 1
          /\ full' = (full \/ nValue = MaxElement) /\ nValue' > 0
          /\ pc' = IF pc = "waiting" THEN "woken" ELSE pc
          /\ deinit = "post" /\ deinit' = "join"
          /\ UNCHANGED <<cmdQueue, eCmdThreadCmd, pCmd, freed>>
      BY <2>8 DEF DeInitPost, PostSem, client, TypeOK
    <3>2. ~full => pc # "exit"
      BY <3>1 DEF WorkerInv
    <3>4. Tokens' = IF nValue = MaxElement THEN Tokens ELSE Tokens + 1
      BY <1>0, <1>a, <2>1, <3>1 DEF TypeOK
    <3>5. Len(cmdQueue') = Len(cmdQueue) /\ (pc' = "exit" <=> pc = "exit")
      BY <3>1
    <3>6. Tokens \in Nat
      BY <1>0, <1>a DEF TypeOK
    <3>7. Tokens' >= Len(cmdQueue')
      BY <1>b, <3>4, <3>5, <3>6 DEF TokensMatchMessages
    <3>3. TokensMatchMessages'
      <4>1. CASE full'
        BY <3>7, <4>1 DEF TokensMatchMessages
      <4>2. CASE ~full'
        <5>1. nValue # MaxElement /\ ~full
          BY <3>1, <4>2 DEF TypeOK
        <5>2. pc # "exit" /\ pc' # "exit"
          BY <3>2, <3>5, <5>1
        <5>3. Tokens = Len(cmdQueue)
          BY <1>b, <3>1, <5>1 DEF TokensMatchMessages
        <5>4. Tokens' = Len(cmdQueue') + 1
          BY <3>4, <3>5, <5>1, <5>3
        <5> QED BY <1>b, <3>1, <3>7, <5>2, <5>4 DEF TokensMatchMessages
      <4> QED BY <4>1, <4>2
    <3> QED BY <3>1, <3>2, <3>3 DEF WorkerInv, NeverProcessesFreed, TypeOK
  <2>9. CASE DeInitJoin
    BY <1>0, <1>a, <1>b, <2>1, <2>9 DEF DeInitJoin, client, worker, TokensMatchMessages,
       WorkerInv, NeverProcessesFreed, TypeOK
  <2>10. CASE UNCHANGED vars
    BY <1>0, <1>a, <1>b, <2>1, <2>10 DEF vars, client, worker, TokensMatchMessages,
       WorkerInv, NeverProcessesFreed, TypeOK
  <2> QED BY <1>3, <2>2, <2>3, <2>4, <2>5, <2>6, <2>7, <2>8, <2>9, <2>10 DEF CommandThread
<1> QED BY <1>1, <1>2, <1>3 DEF Next, DeInit

-----------------------------------------------------------------------------
(* The line of messages.                                                   *)

\* The line is a sequence of messages.
LEMMA LineType ==
  TypeOK /\ WorkerInv =>
    /\ Flight \in Seq(Messages) /\ Line \in Seq(Messages)
    /\ Len(handled) <= Len(Line)
    /\ \A i \in 1..Len(handled) : Line[i] = handled[i]
<1> SUFFICES ASSUME TypeOK, WorkerInv
             PROVE  /\ Flight \in Seq(Messages) /\ Line \in Seq(Messages)
                    /\ Len(handled) <= Len(Line)
                    /\ \A i \in 1..Len(handled) : Line[i] = handled[i]
  OBVIOUS
<1>1. Flight \in Seq(Messages)
  <2>1. CASE pc = "proc"
    BY <2>1 DEF Flight, TypeOK, WorkerInv
  <2>2. CASE pc # "proc"
    BY <2>2, EmptySeq DEF Flight
  <2> QED BY <2>1, <2>2
<1>2. Flight \o cmdQueue \in Seq(Messages)
  BY <1>1, ConcatProperties DEF TypeOK
<1>3. handled \in Seq(Messages) /\ Len(handled) \in Nat /\ Len(Flight \o cmdQueue) \in Nat
  BY <1>2, LenProperties DEF TypeOK
<1>4. /\ Line \in Seq(Messages) /\ Len(Line) = Len(handled) + Len(Flight \o cmdQueue)
      /\ \A i \in 1..Len(handled) + Len(Flight \o cmdQueue) : i <= Len(handled) =>
           Line[i] = handled[i]
  BY <1>2, <1>3, ConcatProperties DEF Line
<1> QED BY <1>1, <1>3, <1>4

\* Neither a pop nor the processing changes the line, and no step but a push
\* that is not refused makes it longer.
LEMMA LineSteps ==
  ASSUME TypeOK, TypeOK', WorkerInv, WorkerInv', [Next]_vars, ~full', LineInv
  PROVE  \/ Line' = Line /\ sent' = sent
         \/ \E c \in Clients : /\ sent[c] < MaxSends /\ sent' = [sent EXCEPT ![c] = @ + 1]
                               /\ Line' = Append(Line, <<c, sent[c] + 1>>)
<1>0. /\ handled \in Seq(Messages) /\ cmdQueue \in Seq(Messages) /\ Flight \in Seq(Messages)
      /\ Flight \o cmdQueue \in Seq(Messages)
  BY LineType, ConcatProperties DEF TypeOK
<1>1. ASSUME NEW c \in Clients, Push(c)
      PROVE  /\ sent[c] < MaxSends /\ sent' = [sent EXCEPT ![c] = @ + 1]
             /\ Line' = Append(Line, <<c, sent[c] + 1>>)
  <2> DEFINE m == <<c, sent[c] + 1>>
  <2>1. m \in Messages /\ cmdQueue' = Append(cmdQueue, m)
    BY <1>1 DEF Push, TypeOK, Messages
  <2>2. Flight' = Flight /\ handled' = handled
    BY <1>1 DEF Push, worker, Flight
  <2>3. Line' = handled \o (Flight \o Append(cmdQueue, m))
    BY <2>1, <2>2 DEF Line
  <2> HIDE DEF m
  <2>4. << m >> \in Seq(Messages)
    BY <2>1
  <2>5. Flight \o Append(cmdQueue, m) = (Flight \o cmdQueue) \o << m >>
    BY <1>0, <2>1, <2>4, AppendIsConcat, ConcatAssociative
  <2>6. handled \o ((Flight \o cmdQueue) \o << m >>) = Line \o << m >>
    BY <1>0, <2>4, ConcatAssociative DEF Line
  <2>7. Append(Line, m) = Line \o << m >>
    BY <2>1, LineType, AppendIsConcat
  <2>8. sent[c] < MaxSends /\ sent' = [sent EXCEPT ![c] = @ + 1]
    BY <1>1 DEF Push
  <2> QED BY <2>3, <2>5, <2>6, <2>7, <2>8 DEF m
<1>2. CASE Pop
  <2>1. CASE cmdQueue # << >>
    <3>1. /\ Head(cmdQueue) \in Messages /\ Tail(cmdQueue) \in Seq(Messages)
          /\ << Head(cmdQueue) >> \in Seq(Messages)
      BY <1>0, <2>1, HeadTailProperties
    <3>2. Flight = << >> /\ Flight' = << Head(cmdQueue) >> /\ cmdQueue' = Tail(cmdQueue)
          /\ handled' = handled /\ sent' = sent
      BY <1>2, <2>1 DEF Pop, Flight, client
    <3>3. << Head(cmdQueue) >> \o Tail(cmdQueue) = cmdQueue
      <4> DEFINE t == << Head(cmdQueue) >> \o Tail(cmdQueue)
      <4>1. /\ t \in Seq(Messages) /\ Len(t) = 1 + Len(Tail(cmdQueue))
            /\ \A i \in 1..(1 + Len(Tail(cmdQueue))) :
                 t[i] = IF i <= 1 THEN << Head(cmdQueue) >>[i] ELSE Tail(cmdQueue)[i - 1]
        BY <3>1, ConcatProperties
      <4>2. /\ Len(cmdQueue) \in Nat /\ Len(Tail(cmdQueue)) = Len(cmdQueue) - 1
            /\ \A i \in 1..Len(Tail(cmdQueue)) : Tail(cmdQueue)[i] = cmdQueue[i + 1]
            /\ Head(cmdQueue) = cmdQueue[1]
        BY <1>0, <2>1, HeadTailProperties, LenProperties
      <4> HIDE DEF t
      <4>3. Len(t) = Len(cmdQueue)
        BY <4>1, <4>2
      <4>4. \A i \in 1..Len(t) : t[i] = cmdQueue[i]
        BY <4>1, <4>2, <4>3
      <4>5. t = cmdQueue
        BY <1>0, <4>1, <4>3, <4>4, SeqEqual
      <4> QED BY <4>5 DEF t
    <3>4. << >> \o cmdQueue = cmdQueue
      BY <1>0, ConcatEmptySeq
    <3> QED BY <3>2, <3>3, <3>4 DEF Line
  <2>2. CASE cmdQueue = << >>
    <3>1. full
      BY <1>2, <2>2 DEF Pop, WorkerInv
    <3> QED BY <1>2, <3>1 DEF Pop
  <2> QED BY <2>1, <2>2
<1>3. CASE Process
  <2>1. pCmd \in Messages /\ << pCmd >> \in Seq(Messages)
    BY <1>3 DEF Process, TypeOK, WorkerInv
  <2>2. Flight = << pCmd >> /\ Flight' = << >> /\ handled' = Append(handled, pCmd)
        /\ cmdQueue' = cmdQueue /\ sent' = sent
    BY <1>3 DEF Process, Flight, client
  <2>3. << >> \o cmdQueue = cmdQueue
    BY <1>0, ConcatEmptySeq
  <2>4. Append(handled, pCmd) = handled \o << pCmd >>
    BY <1>0, <2>1, AppendIsConcat
  <2>5. (handled \o << pCmd >>) \o cmdQueue = handled \o (<< pCmd >> \o cmdQueue)
    BY <1>0, <2>1, ConcatAssociative
  <2> QED BY <2>2, <2>3, <2>4, <2>5 DEF Line
<1>4. ASSUME NEW c \in Clients, Post(c) PROVE Line' = Line /\ sent' = sent
  BY <1>4 DEF Post, PostSem, Line, Flight
<1>5. ASSUME PendSem \/ PendWake \/ ExitTest \/ DeInitExit \/ DeInitPost \/ DeInitJoin
             \/ UNCHANGED vars
      PROVE  Line' = Line /\ sent' = sent
  BY <1>5 DEF PendSem, PendWake, ExitTest, DeInitExit, DeInitPost, DeInitJoin, PostSem, vars,
     client, worker, Line, Flight
<1> QED BY <1>1, <1>2, <1>3, <1>4, <1>5 DEF Next, CommandThread, DeInit

\* At first nothing was sent.
LEMMA InitLine == Init => LineInv
<1> SUFFICES ASSUME Init PROVE LineInv
  OBVIOUS
<1>1. Line = << >>
  <2>1. << >> \in Seq(Messages)
    BY EmptySeq
  <2>2. << >> \o (<< >> \o << >>) = << >>
    BY <2>1, ConcatEmptySeq
  <2> QED BY <2>2 DEF Init, Line, Flight
<1>2. DOMAIN Line = {}
  BY <1>1
<1> QED BY <1>2 DEF Init, LineInv

\* A message that was just sent is new, and its predecessor is in the line.
LEMMA StepLine ==
  ASSUME TypeOK, TypeOK', WorkerInv, WorkerInv', LineInv, [Next]_vars
  PROVE  LineInv'
<1> SUFFICES ASSUME ~full' PROVE LineInv'
  BY DEF LineInv
<1>0. ~full
  BY DEF Next, Push, Post, PostSem, CommandThread, PendSem, PendWake, ExitTest, Pop, Process,
     DeInit, DeInitExit, DeInitPost, DeInitJoin, vars
<1>a. Line \in Seq(Messages) /\ DOMAIN Line = 1..Len(Line) /\ Len(Line) \in Nat
  BY LineType, LenProperties
<1>b. \A i \in 1..Len(Line) : Line[i] \in Messages
  BY <1>a, ElementOfSeq
<1>1. CASE Line' = Line /\ sent' = sent
  BY <1>0, <1>1 DEF LineInv
<1>2. ASSUME NEW c \in Clients, sent[c] < MaxSends, sent' = [sent EXCEPT ![c] = @ + 1],
             Line' = Append(Line, <<c, sent[c] + 1>>)
      PROVE  LineInv'
  <2> DEFINE m == <<c, sent[c] + 1>>
             n == Len(Line)
  <2>0. sent[c] \in Nat /\ sent[c] + 1 \in 1..MaxSends /\ m \in Messages
        /\ m[1] = c /\ m[2] = sent[c] + 1
    BY <1>2, ChannelSizes DEF TypeOK, Messages
  <2>1. Line' = Append(Line, m)
    BY <1>2
  <2>2. /\ Append(Line, m) \in Seq(Messages) /\ Len(Append(Line, m)) = n + 1
        /\ \A i \in 1..n : Append(Line, m)[i] = Line[i]
        /\ Append(Line, m)[n + 1] = m
    <3> HIDE DEF m
    <3> QED BY <1>a, <2>0, AppendProperties
  <2>3. /\ DOMAIN Line' = 1..(n + 1) /\ Line'[n + 1] = m
        /\ \A i \in 1..n : Line'[i] = Line[i]
    <3> HIDE DEF m
    <3> QED BY <2>1, <2>2, LenProperties
  <2>4. \A d \in Clients : sent'[d] = IF d = c THEN sent[c] + 1 ELSE sent[d]
    BY <1>2 DEF TypeOK
  <2>5. \A i \in 1..n : Line[i] \in Messages /\ Line[i] # m /\ Line[i][2] <= sent[Line[i][1]]
    <3>1. \A i \in 1..n : Line[i][2] <= sent[Line[i][1]]
      BY <1>0, <1>a DEF LineInv
    <3> QED BY <1>b, <2>0, <3>1
  <2> HIDE DEF m
  <2>6. \A i \in DOMAIN Line' : Line'[i][2] <= sent'[Line'[i][1]]
    <3> SUFFICES ASSUME NEW i \in 1..(n + 1) PROVE Line'[i][2] <= sent'[Line'[i][1]]
      BY <2>3
    <3>1. CASE i = n + 1
      BY <2>0, <2>3, <2>4, <3>1
    <3>2. CASE i \in 1..n
      <4>1. Line[i][1] \in Clients /\ Line[i][2] \in Nat /\ sent[Line[i][1]] \in Nat
        <5>1. Line[i] \in Messages
          BY <2>5, <3>2
        <5>2. Line[i][1] \in Clients /\ Line[i][2] \in 1..MaxSends
          BY <5>1, MessageShape
        <5>3. \A d \in Clients : sent[d] \in 0..MaxSends
          BY DEF TypeOK
        <5>4. 1..MaxSends \subseteq Nat /\ 0..MaxSends \subseteq Nat
          BY ChannelSizes
        <5> QED BY <5>2, <5>3, <5>4, Zenon
      <4> QED BY <2>0, <2>3, <2>4, <2>5, <3>2, <4>1
    <3> QED BY <1>a, <3>1, <3>2
  <2>7. \A i, j \in DOMAIN Line' : Line'[i] = Line'[j] => i = j
    <3> SUFFICES ASSUME NEW i \in 1..(n + 1), NEW j \in 1..(n + 1), Line'[i] = Line'[j]
                 PROVE  i = j
      BY <2>3
    <3>1. \A k, l \in 1..n : Line[k] = Line[l] => k = l
      BY <1>0, <1>a DEF LineInv
    <3> QED BY <1>a, <2>3, <2>5, <3>1
  <2>8. \A i \in DOMAIN Line' : Line'[i][2] > 1 =>
          \E j \in 1..(i - 1) : Line'[j] = <<Line'[i][1], Line'[i][2] - 1>>
    <3> SUFFICES ASSUME NEW i \in 1..(n + 1), Line'[i][2] > 1
                 PROVE  \E j \in 1..(i - 1) : Line'[j] = <<Line'[i][1], Line'[i][2] - 1>>
      BY <2>3
    <3>1. CASE i = n + 1
      <4>1. sent[c] \in 1..MaxSends /\ Line'[i][1] = c /\ Line'[i][2] - 1 = sent[c]
        BY <2>0, <2>3, <3>1, ChannelSizes DEF TypeOK
      <4>0. \A d \in Clients, k \in 1..MaxSends :
              k <= sent[d] => \E j \in 1..n : Line[j] = <<d, k>>
        BY <1>0, <1>a DEF LineInv
      <4>2. PICK j \in 1..n : Line[j] = <<c, sent[c]>>
        <5>1. sent[c] <= sent[c]
          BY <4>1
        <5> QED BY <4>0, <4>1, <5>1
      <4>3. j \in 1..(i - 1) /\ Line'[j] = <<Line'[i][1], Line'[i][2] - 1>>
        BY <1>a, <2>3, <3>1, <4>1, <4>2
      <4> QED BY <4>3
    <3>2. CASE i \in 1..n
      <4>1. PICK j \in 1..(i - 1) : Line[j] = <<Line[i][1], Line[i][2] - 1>>
        BY <1>0, <1>a, <2>3, <3>2 DEF LineInv
      <4>2. j \in 1..n
        BY <1>a, <3>2, <4>1
      <4> QED BY <2>3, <3>2, <4>1, <4>2
    <3> QED BY <1>a, <3>1, <3>2
  <2>9. \A d \in Clients, k \in 1..MaxSends :
          k <= sent'[d] => \E i \in DOMAIN Line' : Line'[i] = <<d, k>>
    <3> SUFFICES ASSUME NEW d \in Clients, NEW k \in 1..MaxSends, k <= sent'[d]
                 PROVE  \E i \in 1..(n + 1) : Line'[i] = <<d, k>>
      BY <2>3
    <3>1. CASE d = c /\ k = sent[c] + 1
      <4>1. Line'[n + 1] = <<d, k>> /\ n + 1 \in 1..(n + 1)
        BY <1>a, <2>3, <3>1 DEF m
      <4> QED BY <4>1
    <3>2. CASE ~(d = c /\ k = sent[c] + 1)
      <4>1. k <= sent[d]
        BY <2>0, <2>4, <3>2 DEF TypeOK
      <4>2. PICK i \in 1..n : Line[i] = <<d, k>>
        BY <1>0, <1>a, <4>1 DEF LineInv
      <4>3. i \in 1..(n + 1) /\ Line'[i] = <<d, k>>
        BY <1>a, <2>3, <4>2
      <4> QED BY <4>3
    <3> QED BY <3>1, <3>2
  <2> QED BY <2>6, <2>7, <2>8, <2>9 DEF LineInv
<1> QED BY <1>1, <1>2, LineSteps

\* The inductive invariant holds in every reachable state.
LEMMA Invariance == Spec => []IInv
<1>1. Init => IInv
  BY InitType, InitTokens, InitLine DEF IInv
<1>2. IInv /\ [Next]_vars => IInv'
  <2> SUFFICES ASSUME IInv, [Next]_vars PROVE IInv'
    OBVIOUS
  <2>1. TypeOK'
    BY StepType DEF IInv
  <2>2. TokensMatchMessages' /\ WorkerInv' /\ NeverProcessesFreed'
    BY <2>1, StepTokens DEF IInv
  <2>3. LineInv'
    BY <2>1, <2>2, StepLine DEF IInv
  <2> QED BY <2>1, <2>2, <2>3 DEF IInv
<1> QED BY <1>1, <1>2, PTL DEF Spec

\* The semaphore keeps within its limit, and until it or the queue meets the
\* limit counts the queued messages; it never counts fewer.
THEOREM ChannelAlwaysInStep == Spec => []ChannelInStep
<1>1. IInv => ChannelInStep
  BY DEF IInv, ChannelInStep
<1> QED BY <1>1, Invariance, PTL

\* Until the limit is met the command thread processes every command once, from
\* memory that is alive and in the order its client sent it, and none is left
\* when it has exited.
THEOREM EveryCommandAlwaysOnce == Spec => []EveryCommandOnce
<1>1. IInv => EveryCommandOnce
  <2> SUFFICES ASSUME IInv PROVE EveryCommandOnce
    OBVIOUS
  <2>0. /\ TypeOK /\ WorkerInv /\ LineInv
        /\ Line \in Seq(Messages) /\ DOMAIN Line = 1..Len(Line) /\ Len(Line) \in Nat
        /\ handled \in Seq(Messages) /\ DOMAIN handled = 1..Len(handled) /\ Len(handled) \in Nat
        /\ Len(handled) <= Len(Line) /\ \A i \in 1..Len(handled) : Line[i] = handled[i]
    BY LineType, LenProperties DEF IInv, TypeOK
  <2>1. HandledInOrder
    <3> SUFFICES ASSUME ~full, NEW i \in 1..Len(handled)
                 PROVE  /\ \A j \in 1..Len(handled) : handled[j] = handled[i] => j = i
                        /\ handled[i][2] > 1 =>
                             \E j \in 1..(i - 1) :
                               handled[j] = <<handled[i][1], handled[i][2] - 1>>
      BY <2>0 DEF HandledInOrder
    <3>1. \A j \in 1..Len(handled) : handled[j] = handled[i] => j = i
      BY <2>0 DEF LineInv
    <3>2. ASSUME handled[i][2] > 1
          PROVE  \E j \in 1..(i - 1) : handled[j] = <<handled[i][1], handled[i][2] - 1>>
      <4>0. \A k \in 1..Len(Line) : Line[k][2] > 1 =>
              \E j \in 1..(k - 1) : Line[j] = <<Line[k][1], Line[k][2] - 1>>
        BY <2>0 DEF LineInv
      <4>1. PICK j \in 1..(i - 1) : Line[j] = <<Line[i][1], Line[i][2] - 1>>
        <5>1. i \in 1..Len(Line) /\ Line[i] = handled[i]
          BY <2>0
        <5> QED BY <3>2, <4>0, <5>1
      <4>2. j \in 1..Len(handled)
        BY <2>0, <4>1
      <4> QED BY <2>0, <4>1, <4>2
    <3> QED BY <3>1, <3>2
  <2>2. DrainedAtExit
    <3> SUFFICES ASSUME pc = "exit"
                 PROVE  /\ cmdQueue = << >>
                        /\ ~full => \A c \in Clients, n \in 1..MaxSends :
                              n <= sent[c] => \E i \in DOMAIN handled : handled[i] = <<c, n>>
      BY DEF DrainedAtExit
    <3>1. cmdQueue = << >> /\ Flight = << >>
      BY <2>0 DEF WorkerInv, Flight
    <3>2. Line = handled
      BY <2>0, <3>1, EmptySeq, ConcatEmptySeq DEF Line
    <3> QED BY <2>0, <3>1, <3>2 DEF LineInv
  <2> QED BY <2>1, <2>2 DEF EveryCommandOnce, IInv
<1> QED BY <1>1, Invariance, PTL
=============================================================================
