----------------------------- MODULE NXHWCProofs -----------------------------
(***************************************************************************)
(* Proofs about the hardware composer, for any set of binder threads and   *)
(* of presets, any boot scenario, and any number of compositions, requests *)
(* and changes of the cable: at rest HDMI is driven by the implementor     *)
(* made for what was asked for last, linked, in its mode, and with its     *)
(* buffers counted.                                                        *)
(***************************************************************************)
EXTENDS NXHWC, SequenceTheorems, TLAPS

\* The alternate, if there is one.
AltEnabled == ~mHDMIAlternateImpl.gone /\ mHDMIAlternateImpl.mEnabled
MainEnabled == mHDMIImpl.mEnabled

\* The link that leads to HDMI when the enabled implementor has it.
Lit == IF MainEnabled THEN {Link(mHDMIImpl)}
       ELSE IF AltEnabled THEN {Link(mHDMIAlternateImpl)} ELSE {}

\* Where changeHDMIImpl holds its lock, and where it has taken the cable for
\* pulled, with the switch still to be read.
ChangeAt == {"chOff", "chAltOff", "chNew", "chAlt", "chPlug", "chSet", "chOn", "chEnd"}
PulledAt == {"chOff", "chAltOff", "chNew", "chAlt", "chPlug", "chSet"}
UnreadAt == PulledAt \ {"chSet"}

\* Where changeUsageScenario is at work, where the arguments of the new
\* implementor are read, and where those of its alternate.
ScenarioAt == {"scOff", "scAltOff", "scNew", "scAlt", "scOn", "scEnd"}
MainAt == {"scNew", "chNew"}
AlternateAt == {"scAlt", "chAlt"}

\* Where hwc_set swaps the two implementors.
SwapAt == {"mainOff", "altOn", "altOff", "mainOn"}

\* The node holds no buffer twice.
NoDup(q) == \A k, l \in 1 .. Len(q) : q[k] = q[l] => k = l
Distinct == NoDup(queued)

\* A binder thread that is about to assign a height was given a preset.
BinderInv ==
  \A b \in Binders : bpc[b] \in {"width", "height", "preset"} => arg[b].height \in Presets

\* The lock of mChangingImpl covers changeHDMIImpl, which has found it raised;
\* so has changeUsageScenario its flag.
LockInv == /\ mChangeImplLock <=> cpc \in ChangeAt
           /\ cpc \in ChangeAt => mChangingImpl
           /\ cpc \in ScenarioAt => mChangingScenario

\* The alternate in use, or swapped, is there.
PairInv ==
  /\ mUseHDMIAlternate => ~mHDMIAlternateImpl.gone
  /\ cpc \in SwapAt => /\ ~mHDMIAlternateImpl.gone
                       /\ mUseHDMIAlternate <=> cpc \in {"mainOff", "altOn"}

\* A new implementor is disabled and has nothing, and the arguments are read
\* anew for each.
Fresh(i) == /\ i \in Impls
            /\ ~i.mEnabled /\ ~i.mHDMIConfigured /\ ~i.mStarted /\ i.mOutCount = 0
MakeInv == /\ cpc \in AlternateAt => Fresh(made)
           /\ cpc \notin MainAt \cup AlternateAt => unread = Args

\* A swap that is asked for has an alternate, unless the request outlived a
\* replacement.
SwapInv == /\ mChangeHDMIImpl /\ mHDMIAlternateImpl.gone => overtaken
           /\ cpc = "crashed" => overtaken

\* Between the first assignment of a request and the flag it raises the
\* implementor may lag behind; once the flag is up, until it was replaced.
Dirty == \E b \in Binders : bpc[b] \in {"height", "preset", "change"}
ReplacedAt == {"chPlug", "chSet", "chOn", "chEnd"}
Served == ~Dirty /\ (mChangingImpl => cpc \in ReplacedAt)
Settled == ~lost /\ (mChangingScenario => cpc \in {"scOn", "scEnd"})

\* What the implementor i has to be for a mode of w and h.
Fits(i, w, h) == i.w = create(i.scenario, w, h).w /\ i.h = create(i.scenario, w, h).h
FollowInv ==
  Served => /\ Fits(mHDMIImpl, mHDMIWidth, mHDMIHeight)
            /\ Settled => mHDMIImpl.scenario = mUsageScenario

\* The same of the arguments as far as they are read, and of the implementor
\* made of them.
Serving == ~Dirty /\ (mChangingImpl => cpc \in {"chNew", "chAlt"})
Settling == ~lost /\ (mChangingScenario => cpc \in {"scNew", "scAlt"})
ReadInv ==
  Serving =>
    /\ cpc \in MainAt =>
         /\ "w" \notin unread => args.w = mHDMIWidth
         /\ "h" \notin unread => args.h = mHDMIHeight
         /\ "scenario" \notin unread /\ Settling => args.scenario = mUsageScenario
    /\ cpc \in AlternateAt =>
         /\ Fits(made, mHDMIWidth, mHDMIHeight)
         /\ Settling => made.scenario = mUsageScenario

\* The last event not read yet tells of the cable as it is; with none left the
\* uevent thread is about to write what it told, or it is written, unless the
\* composer has taken the cable for pulled and is to read the switch, or has
\* read it and is to write.
CableInv ==
  /\ uevents # <<>> => uevents[Len(uevents)] = cable
  /\ uevents = <<>> =>
       /\ hpc = "plug" => cable
       /\ hpc = "unplug" => ~cable
       /\ hpc \notin {"plug", "unplug"} =>
            /\ cpc \in UnreadAt /\ mHDMIPlugged => cable
            /\ ~stale /\ cpc \notin PulledAt => mHDMIPlugged = cable
       /\ ~stale /\ cpc = "chSet" => cable
  /\ ~untidy /\ cpc \in PulledAt => ~mHDMIPlugged

\* Events are handled between compositions, SurfaceFlinger knows what the
\* composer knows, and a swap is made in the composition that asks for it.
PlugInv == ~untidy =>
  /\ hpc # "idle" => cpc = "idle" /\ ~mUseHDMIAlternate
  /\ hpc \in {"idle", "plug", "unplug"} /\ cpc \notin {"chOff", "chAltOff", "chOn"} =>
       connected = mHDMIPlugged
  /\ hpc \in {"enable", "unplug"} => mHDMIPlugged
  /\ hpc \in {"plug", "disable", "disableAlt"} => ~mHDMIPlugged
  /\ mChangeHDMIImpl => /\ cpc \in SwapAt \cup {"set"} /\ ~mHDMIAlternateImpl.gone
                        /\ mHDMIPlugged /\ (cpc = "set" => contents)
  /\ cpc \in SwapAt => mChangeHDMIImpl
  /\ cpc = "set" /\ contents => mHDMIPlugged
  /\ cpc \in {"show", "render", "chOn"} => mHDMIPlugged
  /\ cpc # "crashed"

\* At most one implementor is enabled and has the link, and no other link is
\* there; while the cable is in it is the one in use, except in the midst of a
\* swap or replacement.
LightInv == ~untidy =>
  /\ MainEnabled => ~AltEnabled
  /\ links \subseteq Lit
  /\ cpc \notin {"scAltOff", "chAltOff"} => links = Lit
  /\ cpc \in {"scAltOff", "chAltOff", "altOn", "mainOn", "scNew", "scAlt", "scOn", "chPlug",
              "chSet", "chOn"} => ~MainEnabled
  /\ cpc \in {"altOn", "mainOn", "scNew", "scAlt", "scOn", "scEnd", "chNew", "chAlt", "chPlug",
              "chSet", "chOn", "chEnd"} => ~AltEnabled
  /\ cpc \in {"scOn", "scEnd", "chPlug", "chSet", "chOn", "chEnd"} => ~mUseHDMIAlternate
  /\ cpc = "scEnd" => MainEnabled
  /\ cpc \in {"idle", "set", "show", "render", "scenario", "scOff", "change", "chEnd", "mainOff",
              "altOff"} =>
       /\ mHDMIPlugged /\ hpc = "idle" =>
            IF mUseHDMIAlternate # mChangeHDMIImpl THEN AltEnabled ELSE MainEnabled
       /\ ~mHDMIPlugged => ~AltEnabled /\ ~mUseHDMIAlternate
  /\ hpc # "idle" => ~AltEnabled
  /\ hpc = "disableAlt" => ~MainEnabled

\* Only an enabled implementor is configured or started, the configured one
\* has set the mode, and GL that is stopped counts nothing.
Runs(i, p) == /\ i.mHDMIConfigured => i.mEnabled /\ p = ModeOf(i)
              /\ i.mStarted => i.mEnabled
              /\ ~i.mStarted /\ ~i.scenario.mirror => i.mOutCount = 0

\* The node holds the buffers of a renderer in the order of its index, at most
\* as many as it counts, and as many if it is GL.
InTurn(q, x) ==
  q = <<>> \/ q = <<(x + 2) % 3>> \/ q = <<(x + 1) % 3, (x + 2) % 3>>
Counts(i, q) == /\ InTurn(q, i.mOutIndex)
                /\ Len(q) <= i.mOutCount
                /\ ~i.scenario.mirror => i.mOutCount = Len(q)

\* What the main implementor i and the alternate a say of the mode p and the
\* queue q.
Buffers(i, a, p, q) ==
  /\ Runs(i, p)
  /\ i.mStarted => Counts(i, q)
  /\ ~a.gone => Runs(a, p) /\ (a.mStarted => Counts(a, q))
  /\ ~i.mStarted /\ (a.gone \/ ~a.mStarted) => q = <<>>

BufferInv == ~untidy =>
  /\ Buffers(mHDMIImpl, mHDMIAlternateImpl, preset, queued)
  /\ cpc = "render" => InUse.mHDMIConfigured

IInv == /\ TypeOK /\ Distinct /\ BinderInv /\ LockInv /\ PairInv /\ MakeInv /\ SwapInv
        /\ FollowInv /\ ReadInv /\ CableInv /\ PlugInv /\ LightInv /\ BufferInv

-----------------------------------------------------------------------------
(* The methods of an implementor.                                          *)

\* A method keeps what the implementor was made for.
Same(i, j) == j \in Impls /\ j.scenario = i.scenario /\ j.w = i.w /\ j.h = i.h

Sizes == Presets \cup {0, Screen}

\* A new implementor is disabled and has nothing.
LEMMA NewMade ==
  ASSUME NEW s \in Scenarios, NEW w \in Sizes, NEW h \in Sizes
  PROVE  /\ New(s, w, h) \in Impls
         /\ New(s, w, h).scenario = s /\ New(s, w, h).w = w /\ New(s, w, h).h = h
         /\ ~New(s, w, h).gone /\ ~New(s, w, h).mEnabled /\ ~New(s, w, h).mHDMIConfigured
         /\ ~New(s, w, h).mStarted /\ New(s, w, h).mOutCount = 0 /\ New(s, w, h).mOutIndex = 0
BY DEF New, Impls, Sizes

\* What create and createAlternate return.
LEMMA CreateMade ==
  ASSUME NEW s \in Scenarios, NEW w \in Presets, NEW h \in Presets
  PROVE  /\ Fresh(create(s, w, h)) /\ create(s, w, h).scenario = s
         /\ createAlternate(s, w, h) \in Impls \cup {None}
         /\ ~createAlternate(s, w, h).gone => Fresh(createAlternate(s, w, h))
<1>1. w \in Sizes /\ h \in Sizes /\ 0 \in Sizes /\ Screen \in Sizes
  BY DEF Sizes
<1>2. [s EXCEPT !.mirror = FALSE] \in Scenarios
  BY DEF Scenarios
<1>3. None.gone
  BY DEF None
<1>4. CASE s.mirror
  <2>1. create(s, w, h) = New(s, Screen, Screen)
    BY <1>4 DEF create
  <2>2. PICK x \in Sizes, y \in Sizes :
          createAlternate(s, w, h) = New([s EXCEPT !.mirror = FALSE], x, y)
    BY <1>1, <1>4 DEF createAlternate
  <2> DEFINE gl == [s EXCEPT !.mirror = FALSE]
  <2>3. gl \in Scenarios
    BY <1>2
  <2> HIDE DEF gl
  <2>4. createAlternate(s, w, h) = New(gl, x, y)
    BY <2>2 DEF gl
  <2> QED BY <1>1, <2>1, <2>3, <2>4, NewMade DEF Fresh
<1>5. CASE ~s.mirror
  <2>1. create(s, w, h) = New(s, w, h) /\ createAlternate(s, w, h) = None
    BY <1>5 DEF create, createAlternate
  <2> QED BY <1>1, <1>3, <2>1, NewMade DEF Fresh
<1> QED BY <1>4, <1>5

\* enable changes the flag of an implementor and nothing else.
LEMMA EnabledMade ==
  ASSUME NEW i \in Impls
  PROVE  /\ Same(i, Enabled(i)) /\ Enabled(i).mEnabled
         /\ Enabled(i).mHDMIConfigured = i.mHDMIConfigured /\ Enabled(i).mStarted = i.mStarted
         /\ Enabled(i).mOutCount = i.mOutCount /\ Enabled(i).mOutIndex = i.mOutIndex
BY DEF Enabled, Same, Impls

\* An implementor with another count and index is one.
LEMMA CountSet ==
  ASSUME NEW i \in Impls, NEW c \in 0 .. 2, NEW x \in 0 .. 2
  PROVE  [i EXCEPT !.mOutCount = c, !.mOutIndex = x] \in Impls
BY DEF Impls

\* After a stop the implementor is not started and GL counts nothing.
LEMMA StopMade ==
  ASSUME NEW i \in Impls
  PROVE  /\ Same(i, stop(i)) /\ ~stop(i).mStarted
         /\ stop(i).mEnabled = i.mEnabled /\ stop(i).mHDMIConfigured = i.mHDMIConfigured
         /\ i.mStarted \/ stop(i) = i
         /\ i.mStarted /\ ~i.scenario.mirror => stop(i).mOutCount = 0
<1>1. CASE ~i.mStarted
  BY <1>1 DEF stop, Same
<1>2. CASE i.mStarted /\ i.scenario.mirror
  <2>1. stop(i) = [i EXCEPT !.mStarted = FALSE]
    BY <1>2 DEF stop
  <2> QED BY <1>2, <2>1 DEF Same, Impls
<1>3. CASE i.mStarted /\ ~i.scenario.mirror
  <2>1. stop(i) = [i EXCEPT !.mStarted = FALSE, !.mOutCount = 0, !.mOutIndex = 0]
    BY <1>3 DEF stop
  <2>2. stop(i) \in Impls
    <3>1. [i EXCEPT !.mStarted = FALSE] \in Impls
      BY DEF Impls
    <3>2. PICK j \in Impls : j = [i EXCEPT !.mStarted = FALSE]
      BY <3>1
    <3>3. stop(i) = [j EXCEPT !.mOutCount = 0, !.mOutIndex = 0]
      BY <2>1, <3>2
    <3>4. 0 \in 0 .. 2
      OBVIOUS
    <3> QED BY <3>3, <3>4, CountSet
  <2>3. /\ stop(i).scenario = i.scenario /\ stop(i).w = i.w /\ stop(i).h = i.h
        /\ ~stop(i).mStarted /\ stop(i).mOutCount = 0 /\ stop(i).mEnabled = i.mEnabled
        /\ stop(i).mHDMIConfigured = i.mHDMIConfigured
    BY <2>1 DEF Impls
  <2> QED BY <1>3, <2>2, <2>3 DEF Same
<1> QED BY <1>1, <1>2, <1>3

\* What disable leaves of an implementor: the mirror keeps its count.
LEMMA DisabledMade ==
  ASSUME NEW i \in Impls
  PROVE  /\ Same(i, Disabled(i)) /\ ~Disabled(i).mEnabled
         /\ Idle(i) => Disabled(i) = i
         /\ ~Idle(i) => /\ ~Disabled(i).mStarted /\ ~Disabled(i).mHDMIConfigured
                        /\ i.mStarted \/ Disabled(i).mOutCount = i.mOutCount
                        /\ i.mStarted /\ ~i.scenario.mirror => Disabled(i).mOutCount = 0
<1>1. CASE Idle(i)
  BY <1>1 DEF Idle, Disabled, Same
<1>2. CASE ~Idle(i)
  <2>1. stop(i) \in Impls
    BY StopMade DEF Same
  <2>2. Disabled(i) = [stop(i) EXCEPT !.mEnabled = FALSE, !.mHDMIConfigured = FALSE]
    BY <1>2 DEF Disabled
  <2>3. /\ Disabled(i) \in Impls /\ ~Disabled(i).mEnabled /\ ~Disabled(i).mHDMIConfigured
        /\ Disabled(i).mStarted = stop(i).mStarted /\ Disabled(i).mOutCount = stop(i).mOutCount
        /\ Disabled(i).scenario = stop(i).scenario
        /\ Disabled(i).w = stop(i).w /\ Disabled(i).h = stop(i).h
    BY <2>1, <2>2 DEF Impls
  <2> QED BY <1>2, <2>3, StopMade DEF Same
<1> QED BY <1>1, <1>2

\* SetImpl configures.
LEMMA ConfiguredMade ==
  ASSUME NEW i \in Impls, NEW j, j = [i EXCEPT !.mHDMIConfigured = TRUE]
  PROVE  /\ Same(i, j) /\ j.mHDMIConfigured /\ j.mEnabled = i.mEnabled
         /\ j.mStarted = i.mStarted /\ j.mOutCount = i.mOutCount /\ j.mOutIndex = i.mOutIndex
BY DEF Same, Impls

\* The mode of an implementor depends on its size alone.
LEMMA ModeMade ==
  ASSUME NEW i \in Impls
  PROVE  /\ ModeOf(i) \in Presets
         /\ \A j \in Impls : Same(i, j) => ModeOf(j) = ModeOf(i)
BY ComposerParameters DEF ModeOf, Same

\* An implementor's link is that of the rescaler exactly when its scenario has one.
LEMMA LinkMade ==
  ASSUME NEW i \in Impls
  PROVE  /\ Link(i) \in {"hdmi", "resol"} /\ (i.scenario.resc <=> Link(i) = "resol")
         /\ i.gone = FALSE /\ i.scenario \in Scenarios
BY DEF Link, Impls, Scenarios
-----------------------------------------------------------------------------
(* The renderers and the queue of the node.                                *)

\* The node has three buffers.
LEMMA ThreeAtMost ==
  ASSUME NEW q \in Seq(0 .. 2), NoDup(q)
  PROVE  Len(q) <= 3
<1>1. Len(q) \in Nat /\ \A k \in 1 .. Len(q) : q[k] \in 0 .. 2
  BY LenProperties, ElementOfSeq
<1>2. SUFFICES ASSUME Len(q) >= 4 PROVE FALSE
  BY <1>1
<1>3. /\ {1, 2, 3, 4} \subseteq 1 .. Len(q)
      /\ q[1] \in 0 .. 2 /\ q[2] \in 0 .. 2 /\ q[3] \in 0 .. 2 /\ q[4] \in 0 .. 2
  BY <1>1, <1>2
<1>4. q[1] # q[2] /\ q[1] # q[3] /\ q[1] # q[4] /\ q[2] # q[3] /\ q[2] # q[4] /\ q[3] # q[4]
  BY <1>3 DEF NoDup
<1> QED BY <1>3, <1>4

\* A buffer that is put into the queue or taken out of it leaves no doubles.
LEMMA AppendNoDup ==
  ASSUME NEW q \in Seq(0 .. 2), NoDup(q), NEW x \in 0 .. 2, ~Holds(q, x)
  PROVE  Append(q, x) \in Seq(0 .. 2) /\ NoDup(Append(q, x)) /\ Append(q, x) # <<>>
<1>1. /\ Append(q, x) \in Seq(0 .. 2) /\ Append(q, x) # <<>>
      /\ Len(Append(q, x)) = Len(q) + 1 /\ Len(q) \in Nat
      /\ \A k \in 1 .. Len(q) : Append(q, x)[k] = q[k]
      /\ Append(q, x)[Len(q) + 1] = x
  BY AppendProperties, LenProperties
<1>2. \A k \in 1 .. Len(q) : q[k] # x
  BY LenProperties DEF Holds
<1> SUFFICES ASSUME NEW k \in 1 .. Len(q) + 1, NEW l \in 1 .. Len(q) + 1,
                    Append(q, x)[k] = Append(q, x)[l]
             PROVE  k = l
  BY <1>1 DEF NoDup
<1> QED BY <1>1, <1>2 DEF NoDup

\* A queue without repetition stays so when its head is taken.
LEMMA TailNoDup ==
  ASSUME NEW q \in Seq(0 .. 2), NoDup(q), q # <<>>
  PROVE  Tail(q) \in Seq(0 .. 2) /\ NoDup(Tail(q)) /\ Len(Tail(q)) = Len(q) - 1
<1>1. /\ Tail(q) \in Seq(0 .. 2) /\ Len(Tail(q)) = Len(q) - 1 /\ Len(q) \in Nat
      /\ \A k \in 1 .. Len(Tail(q)) : Tail(q)[k] = q[k + 1]
  BY HeadTailProperties, LenProperties
<1> QED BY <1>1 DEF NoDup

\* An implementor whose count may be one more than the renderers leave.
Wide == [gone : {FALSE}, scenario : Scenarios, w : Sizes, h : Sizes, mEnabled : BOOLEAN,
         mHDMIConfigured : BOOLEAN, mStarted : BOOLEAN, mOutCount : 0 .. 3, mOutIndex : 0 .. 2]

\* What a renderer keeps.
Kept(i, j) == /\ j.scenario = i.scenario /\ j.w = i.w /\ j.h = i.h
              /\ j.mEnabled = i.mEnabled /\ j.mHDMIConfigured = i.mHDMIConfigured

\* What queueing a buffer does to the implementor and the node,
LEMMA QueuedMade ==
  ASSUME NEW i \in Impls, NEW q \in Seq(0 .. 2)
  PROVE  LET r == Queued(i, q)
         IN  /\ r.i \in Wide /\ Kept(i, r.i) /\ r.i.mStarted
             /\ r.i.mOutCount = i.mOutCount + 1 /\ r.i.mOutIndex = (i.mOutIndex + 1) % 3
             /\ r.q = Append(q, i.mOutIndex)
             /\ i.mOutCount < 2 => r.i \in Impls
<1> DEFINE c == i.mOutCount + 1
           x == (i.mOutIndex + 1) % 3
           j == [gone |-> i.gone, scenario |-> i.scenario, w |-> i.w, h |-> i.h,
                 mEnabled |-> i.mEnabled, mHDMIConfigured |-> i.mHDMIConfigured,
                 mStarted |-> TRUE, mOutCount |-> c, mOutIndex |-> x]
<1>1. Queued(i, q).q = Append(q, i.mOutIndex) /\ Queued(i, q).i = j
  BY DEF Queued, Impls
<1>2. /\ c \in 0 .. 3 /\ x \in 0 .. 2 /\ (i.mOutCount < 2 => c \in 0 .. 2)
      /\ i.gone \in {FALSE} /\ i.scenario \in Scenarios /\ i.w \in Sizes /\ i.h \in Sizes
      /\ i.mEnabled \in BOOLEAN /\ i.mHDMIConfigured \in BOOLEAN
  <2>1. i.mOutCount \in 0 .. 2 /\ i.mOutIndex \in 0 .. 2
    BY DEF Impls
  <2>2. c \in 0 .. 3 /\ x \in 0 .. 2 /\ (i.mOutCount < 2 => c \in 0 .. 2)
    BY <2>1
  <2> QED BY <2>2 DEF Impls, Sizes
<1> HIDE DEF c, x
<1>3. j \in Wide
  BY <1>2 DEF Wide
<1>4. c \in 0 .. 2 => j \in Impls
  BY <1>2 DEF Impls, Sizes
<1> QED BY <1>1, <1>2, <1>3, <1>4 DEF Kept, c, x

\* and what dequeueing one does.
LEMMA DequeuedMade ==
  ASSUME NEW i \in Wide, NEW q \in Seq(0 .. 2), i.mOutCount > 0
  PROVE  LET r == Dequeued([i |-> i, q |-> q])
         IN  /\ r.i \in Impls /\ Kept(i, r.i) /\ r.i.mStarted = i.mStarted
             /\ r.i.mOutCount = i.mOutCount - 1 /\ r.i.mOutIndex = i.mOutIndex
             /\ r.q = Tail(q)
<1> DEFINE c == i.mOutCount - 1
           j == [gone |-> i.gone, scenario |-> i.scenario, w |-> i.w, h |-> i.h,
                 mEnabled |-> i.mEnabled, mHDMIConfigured |-> i.mHDMIConfigured,
                 mStarted |-> i.mStarted, mOutCount |-> c, mOutIndex |-> i.mOutIndex]
<1>1. Dequeued([i |-> i, q |-> q]).q = Tail(q) /\ Dequeued([i |-> i, q |-> q]).i = j
  BY DEF Dequeued, Wide
<1>2. /\ c \in 0 .. 2 /\ i.mOutIndex \in 0 .. 2
      /\ i.gone \in {FALSE} /\ i.scenario \in Scenarios /\ i.w \in Sizes /\ i.h \in Sizes
      /\ i.mEnabled \in BOOLEAN /\ i.mHDMIConfigured \in BOOLEAN /\ i.mStarted \in BOOLEAN
  <2>1. i.mOutCount \in 0 .. 3
    BY DEF Wide
  <2>2. c \in 0 .. 2
    BY <2>1
  <2> QED BY <2>2 DEF Wide, Sizes
<1> HIDE DEF c
<1>3. j \in Impls
  BY <1>2 DEF Impls, Sizes
<1> QED BY <1>1, <1>2, <1>3 DEF Kept, c

\* An implementor is one of those that may count a buffer more.
LEMMA ImplsWide ==
  ASSUME NEW i \in Impls
  PROVE  /\ i \in Wide /\ i.mOutCount \in 0 .. 2 /\ i.mOutIndex \in 0 .. 2
         /\ i.scenario.mirror \in BOOLEAN
<1>1. /\ i.gone \in {FALSE} /\ i.scenario \in Scenarios /\ i.w \in Sizes /\ i.h \in Sizes
      /\ i.mEnabled \in BOOLEAN /\ i.mHDMIConfigured \in BOOLEAN /\ i.mStarted \in BOOLEAN
      /\ i.mOutCount \in 0 .. 2 /\ i.mOutIndex \in 0 .. 2
  BY DEF Impls, Sizes
<1>2. i = [gone |-> i.gone, scenario |-> i.scenario, w |-> i.w, h |-> i.h,
           mEnabled |-> i.mEnabled, mHDMIConfigured |-> i.mHDMIConfigured,
           mStarted |-> i.mStarted, mOutCount |-> i.mOutCount, mOutIndex |-> i.mOutIndex]
  BY DEF Impls
<1>3. i.mOutCount \in 0 .. 3
  BY <1>1
<1>4. i \in Wide
  BY <1>1, <1>2, <1>3 DEF Wide
<1> QED BY <1>1, <1>4 DEF Scenarios

\* The queue stays in turn.
LEMMA TurnFree ==
  ASSUME NEW q \in Seq(0 .. 2), NEW x \in 0 .. 2, InTurn(q, x)
  PROVE  Len(q) \in 0 .. 2 /\ ~Holds(q, x)
<1>1. CASE q = <<>>
  BY <1>1 DEF Holds
<1>2. CASE q = <<(x + 2) % 3>>
  BY <1>2 DEF Holds
<1>3. CASE q = <<(x + 1) % 3, (x + 2) % 3>>
  BY <1>3 DEF Holds
<1> QED BY <1>1, <1>2, <1>3 DEF InTurn

\* Taking the head leaves a queue in the order of the index.
LEMMA TurnTake ==
  ASSUME NEW q \in Seq(0 .. 2), NEW x \in 0 .. 2, InTurn(q, x), q # <<>>
  PROVE  InTurn(Tail(q), x)
<1>1. CASE q = <<(x + 2) % 3>>
  BY <1>1 DEF InTurn
<1>2. CASE q = <<(x + 1) % 3, (x + 2) % 3>>
  BY <1>2 DEF InTurn
<1> QED BY <1>1, <1>2 DEF InTurn

\* The queues of the node are short enough to be written out.
LEMMA ShortQueues ==
  ASSUME NEW a \in 0 .. 2, NEW b \in 0 .. 2, NEW x \in 0 .. 2
  PROVE  /\ Append(<<a>>, x) = <<a, x>> /\ Tail(<<a, x>>) = <<x>>
         /\ Tail(Append(<<a, b>>, x)) = <<b, x>>
<1>1. Append(<<a>>, x) = <<a, x>>
  <2>1. <<a>> \in Seq(0 .. 2) /\ <<a, x>> \in Seq(0 .. 2) /\ Len(<<a>>) = 1 /\ Len(<<a, x>>) = 2
    OBVIOUS
  <2>3. Append(<<a>>, x) \in Seq(0 .. 2) /\ Len(Append(<<a>>, x)) = 2
    BY <2>1, AppendProperties
  <2>2. \A k \in 1 .. 2 : Append(<<a>>, x)[k] = <<a, x>>[k]
    BY <2>1, AppendProperties
  <2> QED BY <2>1, <2>2, <2>3, SeqEqual
<1>2. Tail(<<a, x>>) = <<x>>
  OBVIOUS
<1>3. Append(<<a, b>>, x) = <<a, b, x>>
  <2>1. /\ <<a, b>> \in Seq(0 .. 2) /\ <<a, b, x>> \in Seq(0 .. 2)
        /\ Len(<<a, b>>) = 2 /\ Len(<<a, b, x>>) = 3
    OBVIOUS
  <2>3. Append(<<a, b>>, x) \in Seq(0 .. 2) /\ Len(Append(<<a, b>>, x)) = 3
    BY <2>1, AppendProperties
  <2>2. \A k \in 1 .. 3 : Append(<<a, b>>, x)[k] = <<a, b, x>>[k]
    BY <2>1, AppendProperties
  <2> QED BY <2>1, <2>2, <2>3, SeqEqual
<1>4. Tail(<<a, b, x>>) = <<b, x>>
  OBVIOUS
<1> QED BY <1>1, <1>2, <1>3, <1>4

\* Queueing the buffer of the index keeps the order with the next index.
LEMMA TurnPut ==
  ASSUME NEW q \in Seq(0 .. 2), NEW x \in 0 .. 2, InTurn(q, x), NEW y, y = (x + 1) % 3
  PROVE  /\ Len(q) <= 1 => InTurn(Append(q, x), y)
         /\ InTurn(Tail(Append(q, x)), y)
<1>0. (x + 1) % 3 \in 0 .. 2 /\ (x + 2) % 3 \in 0 .. 2
  OBVIOUS
<1>1. x = (y + 2) % 3 /\ (x + 2) % 3 = (y + 1) % 3
  OBVIOUS
<1>2. CASE q = <<>>
  BY <1>1, <1>2 DEF InTurn
<1>3. CASE q = <<(x + 2) % 3>>
  <2>1. Append(q, x) = <<(x + 2) % 3, x>> /\ Tail(Append(q, x)) = <<x>>
    <3>1. \A a \in 0 .. 2 : Append(<<a>>, x) = <<a, x>> /\ Tail(<<a, x>>) = <<x>>
      BY ShortQueues
    <3> QED BY <1>0, <1>3, <3>1, Zenon
  <2> QED BY <1>1, <2>1 DEF InTurn
<1>4. CASE q = <<(x + 1) % 3, (x + 2) % 3>>
  <2>1. Tail(Append(q, x)) = <<(x + 2) % 3, x>> /\ Len(q) = 2
    <3>1. \A a, b \in 0 .. 2 : Tail(Append(<<a, b>>, x)) = <<b, x>> /\ Len(<<a, b>>) = 2
      BY ShortQueues
    <3> QED BY <1>0, <1>4, <3>1, Zenon
  <2> QED BY <1>1, <2>1 DEF InTurn
<1> QED BY <1>2, <1>3, <1>4 DEF InTurn

\* GL that counts two takes one out before it puts one in.
LEMMA GLTakes ==
  ASSUME NEW i, NEW q, i.mOutCount > 1, q # <<>>,
         NEW d, d = Dequeued([i |-> i, q |-> q])
  PROVE  RenderGL(i, q) = IF Holds(d.q, i.mOutIndex) THEN d ELSE Queued(d.i, d.q)
BY DEF RenderGL

\* What a call of render does to any implementor and queue, and to one whose
\* buffers are counted.
Steady(i, q) == IF i.mStarted THEN Counts(i, q)
                ELSE q = <<>> /\ (~i.scenario.mirror => i.mOutCount = 0)
\* What render does to an implementor and the node.
LEMMA RenderMade ==
  ASSUME NEW i \in Impls, NEW q \in Seq(0 .. 2), NoDup(q)
  PROVE  LET r == render(i, q)
         IN  /\ r.i \in Impls /\ Kept(i, r.i)
             /\ r.q \in Seq(0 .. 2) /\ NoDup(r.q)
             /\ Steady(i, q) => r.i.mStarted /\ Counts(r.i, r.q)
<1> DEFINE x == i.mOutIndex
           c == i.mOutCount
<1>0. /\ i \in Wide /\ c \in 0 .. 2 /\ x \in 0 .. 2 /\ i.scenario.mirror \in BOOLEAN
      /\ Kept(i, i)
  BY ImplsWide DEF Kept
<1>1. Steady(i, q) => InTurn(q, x) /\ Len(q) \in Nat /\ Len(q) <= c /\ ~Holds(q, x)
                      /\ (~i.scenario.mirror => c = Len(q))
  <2> SUFFICES ASSUME Steady(i, q)
               PROVE  InTurn(q, x) /\ Len(q) \in Nat /\ Len(q) <= c /\ ~Holds(q, x)
                      /\ (~i.scenario.mirror => c = Len(q))
    OBVIOUS
  <2>1. InTurn(q, x) /\ Len(q) <= c /\ (~i.scenario.mirror => c = Len(q))
    BY <1>0 DEF Steady, Counts, InTurn
  <2> QED BY <1>0, <2>1, TurnFree
<1> DEFINE p == Queued(i, q)
<1>2. /\ p.i \in Wide /\ Kept(i, p.i) /\ p.i.mStarted /\ p.i.mOutCount = c + 1
      /\ p.i.mOutIndex = (x + 1) % 3 /\ p.q = Append(q, x) /\ (c < 2 => p.i \in Impls)
      /\ (x + 1) % 3 \in 0 .. 2
  BY <1>0, QueuedMade
<1>3. CASE i.scenario.mirror
  <2>1. CASE Holds(q, x)
    BY <1>0, <1>1, <1>3, <2>1 DEF render, RenderMirror
  <2>2. CASE ~Holds(q, x) /\ c < 2
    <3>1. render(i, q) = p
      BY <1>0, <1>2, <1>3, <2>2 DEF render, RenderMirror
    <3>2. Steady(i, q) => Counts(p.i, p.q)
      <4>1. Len(Append(q, x)) = Len(q) + 1
        BY <1>0, AppendProperties
      <4>2. p.i.scenario.mirror
        BY <1>2, <1>3 DEF Kept
      <4>3. Steady(i, q) => InTurn(Append(q, x), (x + 1) % 3)
        BY <1>0, <1>1, <2>2, TurnPut
      <4> HIDE DEF p, x, c
      <4> QED BY <1>0, <1>1, <1>2, <4>1, <4>2, <4>3 DEF Counts
    <3> HIDE DEF p
    <3> QED BY <1>0, <1>2, <2>2, <3>1, <3>2, AppendNoDup
  <2>3. CASE ~Holds(q, x) /\ c = 2
    <3> DEFINE d == Dequeued([i |-> p.i, q |-> p.q])
    <3>1. render(i, q) = Dequeued(p)
      BY <1>0, <1>2, <1>3, <2>3 DEF render, RenderMirror
    <3>2. Append(q, x) \in Seq(0 .. 2) /\ NoDup(Append(q, x)) /\ Append(q, x) # <<>>
          /\ Len(Append(q, x)) = Len(q) + 1
      BY <1>0, <2>3, AppendNoDup, AppendProperties
    <3>3. p = [i |-> p.i, q |-> p.q]
      BY DEF Queued
    <3> HIDE DEF p, x, c
    <3>4. /\ d.i \in Impls /\ Kept(p.i, d.i) /\ d.i.mStarted /\ d.i.mOutCount = 2
          /\ d.i.mOutIndex = (x + 1) % 3 /\ d.q = Tail(Append(q, x))
      <4>1. p.i \in Wide /\ p.q \in Seq(0 .. 2) /\ p.i.mOutCount = 3
        BY <1>2, <2>3, <3>2
      <4>2. p.i.mOutCount > 0 /\ p.i.mOutCount - 1 = 2
        BY <4>1
      <4>3. /\ d.i \in Impls /\ Kept(p.i, d.i) /\ d.i.mStarted = p.i.mStarted
            /\ d.i.mOutCount = p.i.mOutCount - 1 /\ d.i.mOutIndex = p.i.mOutIndex
            /\ d.q = Tail(p.q)
        BY <4>1, <4>2, DequeuedMade
      <4> HIDE DEF d
      <4> QED BY <1>2, <4>2, <4>3
    <3>8. render(i, q) = d
      BY <3>1, <3>3
    <3> HIDE DEF d
    <3>5. d.q \in Seq(0 .. 2) /\ NoDup(d.q) /\ Len(d.q) = Len(q)
      <4>1. Len(q) \in Nat
        BY LenProperties
      <4>2. /\ Tail(Append(q, x)) \in Seq(0 .. 2) /\ NoDup(Tail(Append(q, x)))
            /\ Len(Tail(Append(q, x))) = Len(Append(q, x)) - 1
        BY <3>2, TailNoDup
      <4> QED BY <3>2, <3>4, <4>1, <4>2
    <3>6. Kept(i, d.i)
      BY <1>2, <3>4 DEF Kept
    <3>7. Steady(i, q) => Counts(d.i, d.q)
      <4>1. Steady(i, q) => InTurn(d.q, (x + 1) % 3)
        BY <1>0, <1>1, <3>4, TurnPut
      <4>2. d.i.scenario.mirror
        BY <1>3, <3>6 DEF Kept
      <4>3. Steady(i, q) => Len(d.q) <= d.i.mOutCount
        <5>3. Steady(i, q) => Len(q) <= 2
          BY <1>1, <2>3 DEF c
        <5>4. Len(d.q) = Len(q) /\ d.i.mOutCount = 2
          BY <3>4, <3>5
        <5> QED BY <5>3, <5>4
      <4> QED BY <3>4, <4>1, <4>2, <4>3 DEF Counts
    <3> QED BY <3>4, <3>5, <3>6, <3>7, <3>8
  <2> QED BY <1>0, <2>1, <2>2, <2>3
<1>4. CASE ~i.scenario.mirror /\ c <= 1
  <2>1. CASE Holds(q, x)
    <3>1. render(i, q) = [i |-> i, q |-> q]
      BY <1>0, <1>4, <2>1 DEF render, RenderGL
    <3> QED BY <1>0, <1>1, <2>1, <3>1
  <2>2. CASE ~Holds(q, x)
    <3>1. render(i, q) = p
      BY <1>0, <1>4, <2>2 DEF render, RenderGL
    <3>2. Steady(i, q) => Counts(p.i, p.q)
      <4>1. Len(Append(q, x)) = Len(q) + 1
        BY <1>0, AppendProperties
      <4>3. Steady(i, q) => InTurn(Append(q, x), (x + 1) % 3)
        BY <1>0, <1>1, <1>4, TurnPut
      <4> HIDE DEF p, x, c
      <4> QED BY <1>0, <1>1, <1>2, <1>4, <4>1, <4>3 DEF Counts
    <3>3. p.i \in Impls
      BY <1>0, <1>2, <1>4
    <3> HIDE DEF p
    <3> QED BY <1>0, <1>2, <2>2, <3>1, <3>2, <3>3, AppendNoDup
  <2> QED BY <2>1, <2>2
<1>5. CASE ~i.scenario.mirror /\ c = 2 /\ q = <<>>
  <2>1. render(i, q) = [i |-> i, q |-> q]
    BY <1>0, <1>5 DEF render, RenderGL
  <2>2. ~Steady(i, q)
    BY <1>1, <1>5
  <2> QED BY <1>0, <2>1, <2>2
<1>6. CASE ~i.scenario.mirror /\ c = 2 /\ q # <<>>
  <2> DEFINE d == Dequeued([i |-> i, q |-> q])
             e == Queued(d.i, d.q)
  <2>1. /\ d.i \in Impls /\ Kept(i, d.i) /\ d.i.mStarted = i.mStarted /\ d.i.mOutCount = 1
        /\ d.i.mOutIndex = x /\ d.q = Tail(q)
    BY <1>0, <1>6, DequeuedMade
  <2>2. d.q \in Seq(0 .. 2) /\ NoDup(d.q) /\ Len(d.q) = Len(q) - 1
    BY <1>6, <2>1, TailNoDup
  <2>3. render(i, q) = IF Holds(d.q, i.mOutIndex) THEN d ELSE e
    <3>1. render(i, q) = RenderGL(i, q) /\ i.mOutCount > 1
      BY <1>0, <1>6 DEF render
    <3>2. q # <<>>
      BY <1>6
    <3> HIDE DEF d
    <3>3. d = Dequeued([i |-> i, q |-> q])
      BY DEF d
    <3> QED BY <3>1, <3>2, <3>3, GLTakes
  <2> HIDE DEF d, x, c
  <2>4. Steady(i, q) => /\ InTurn(d.q, x) /\ ~Holds(d.q, x) /\ Len(d.q) = 1
                        /\ InTurn(Append(d.q, x), (x + 1) % 3)
    <3> SUFFICES ASSUME Steady(i, q)
                 PROVE  /\ InTurn(d.q, x) /\ ~Holds(d.q, x) /\ Len(d.q) = 1
                        /\ InTurn(Append(d.q, x), (x + 1) % 3)
      OBVIOUS
    <3>1. InTurn(d.q, x) /\ Len(d.q) = 1
      BY <1>0, <1>1, <1>6, <2>1, <2>2, TurnTake
    <3>2. ~Holds(d.q, x)
      BY <1>0, <2>2, <3>1, TurnFree
    <3>3. InTurn(Append(d.q, x), (x + 1) % 3)
      <4>1. Len(d.q) <= 1
        BY <3>1
      <4> QED BY <1>0, <2>2, <3>1, <4>1, TurnPut
    <3> QED BY <3>1, <3>2, <3>3
  <2>5. CASE Holds(d.q, x)
    <3>1. render(i, q) = d
      BY <2>3, <2>5 DEF x
    <3> QED BY <2>1, <2>2, <2>4, <2>5, <3>1
  <2>6. CASE ~Holds(d.q, x)
    <3>1. render(i, q) = e
      BY <2>3, <2>6 DEF x
    <3>2. /\ e.i \in Impls /\ Kept(d.i, e.i) /\ e.i.mStarted /\ e.i.mOutCount = 2
          /\ e.i.mOutIndex = (x + 1) % 3 /\ e.q = Append(d.q, x)
      <4>1. d.i.mOutCount < 2 /\ d.i.mOutCount + 1 = 2
        BY <2>1
      <4>2. /\ Kept(d.i, e.i) /\ e.i.mStarted
            /\ e.i.mOutCount = d.i.mOutCount + 1 /\ e.i.mOutIndex = (d.i.mOutIndex + 1) % 3
            /\ e.q = Append(d.q, d.i.mOutIndex)
            /\ d.i.mOutCount < 2 => e.i \in Impls
        BY <2>1, <2>2, QueuedMade
      <4> HIDE DEF e
      <4> QED BY <2>1, <4>1, <4>2
    <3>3. e.q \in Seq(0 .. 2) /\ NoDup(e.q) /\ Len(e.q) = Len(d.q) + 1
      BY <1>0, <2>2, <2>6, <3>2, AppendNoDup, AppendProperties
    <3>4. Kept(i, e.i)
      BY <2>1, <3>2 DEF Kept
    <3> HIDE DEF e
    <3>5. Steady(i, q) => Counts(e.i, e.q)
      <4> SUFFICES ASSUME Steady(i, q) PROVE Counts(e.i, e.q)
        OBVIOUS
      <4>1. InTurn(e.q, e.i.mOutIndex)
        BY <2>4, <3>2, Zenon
      <4>2. Len(e.q) = 2 /\ e.i.mOutCount = 2
        <5>1. Len(d.q) = 1
          BY <2>4
        <5> QED BY <3>2, <3>3, <5>1
      <4> QED BY <4>1, <4>2 DEF Counts
    <3> QED BY <3>1, <3>2, <3>3, <3>4, <3>5
  <2> QED BY <2>5, <2>6
<1> QED BY <1>0, <1>3, <1>4, <1>5, <1>6

-----------------------------------------------------------------------------
(* What a step does to the implementors, the links, the mode and the queue. *)

Still == UNCHANGED <<mHDMIImpl, mHDMIAlternateImpl, links, preset, queued>>
MainOn == /\ mHDMIImpl' = Enabled(mHDMIImpl) /\ links' = EnableLinks(mHDMIImpl, links)
          /\ UNCHANGED <<mHDMIAlternateImpl, preset, queued>>
MainOff == /\ mHDMIImpl' = Disabled(mHDMIImpl) /\ links' = DisableLinks(mHDMIImpl, links)
           /\ queued' = DisableQueue(mHDMIImpl, queued)
           /\ UNCHANGED <<mHDMIAlternateImpl, preset>>
AltOn == /\ ~mHDMIAlternateImpl.gone
         /\ mHDMIAlternateImpl' = Enabled(mHDMIAlternateImpl)
         /\ links' = EnableLinks(mHDMIAlternateImpl, links)
         /\ UNCHANGED <<mHDMIImpl, preset, queued>>
AltOff == /\ ~mHDMIAlternateImpl.gone
          /\ mHDMIAlternateImpl' = Disabled(mHDMIAlternateImpl)
          /\ links' = DisableLinks(mHDMIAlternateImpl, links)
          /\ queued' = DisableQueue(mHDMIAlternateImpl, queued)
          /\ UNCHANGED <<mHDMIImpl, preset>>
Made == /\ mHDMIImpl' = made
        /\ mHDMIAlternateImpl' = createAlternate(args.scenario, args.w, args.h)
        /\ CGoto("scAlt", "scOn") \/ CGoto("chAlt", "chPlug")
        /\ mUseHDMIAlternate' = FALSE
        /\ ArgumentsRead /\ made' = None
        /\ UNCHANGED <<devVars, flagVars, notComposer>>

\* What the frame of the composing thread leaves alone in the steps that call
\* an implementor.
Frame == UNCHANGED <<mHDMIPlugged, flagVars, contents, makeVars, history, notComposer>>

\* Every step is one of these.
LEMMA Effects ==
  ASSUME [Next]_vars, PairInv
  PROVE  Still \/ MainOn \/ MainOff \/ AltOn \/ AltOff \/ Made \/ SetImpl \/ RenderImpl
<1> USE DEF devVars, implVars
<1>1. ASSUME UseAlternate \/ UseOriginal PROVE MainOn \/ MainOff \/ AltOn \/ AltOff
  BY <1>1 DEF UseAlternate, UseOriginal, EnableMain, DisableMain, EnableAlternate,
              DisableAlternate, CGoto, MainOn, MainOff, AltOn, AltOff, PairInv, SwapAt
<1>2. ASSUME changeUsageScenario PROVE Still \/ MainOn \/ MainOff \/ AltOff
  BY <1>2 DEF changeUsageScenario, AlternateEnabled, EnableMain, DisableMain, DisableAlternate,
              CGoto, Still, MainOn, MainOff, AltOff
<1>3. ASSUME changeHDMIImpl PROVE Still \/ MainOn \/ MainOff \/ AltOff
  BY <1>3 DEF changeHDMIImpl, EnableMain, DisableMain, DisableAlternate, CGoto, Still, MainOn,
              MainOff, AltOff
<1>4. ASSUME CreateScenario \/ Replace PROVE Made
  BY <1>4 DEF CreateScenario, Replace, Create, Made
<1>5. ASSUME hwc_prepare \/ hwc_set \/ IfScenario \/ ReadArgument \/ MakeMain \/ ScenarioChanged
             \/ IfChange \/ IfConnected \/ ImplChanged
      PROVE  Still
  BY <1>5 DEF hwc_prepare, hwc_set, IfScenario, ReadArgument, MakeMain, ScenarioChanged, IfChange,
              IfConnected, ImplChanged, Still
<1>6. ASSUME Plug \/ handleHDMIEvent PROVE Still
  BY <1>6 DEF Plug, handleHDMIEvent, Still
<1>7. ASSUME Hotplug PROVE Still \/ MainOn \/ MainOff \/ AltOff
  BY <1>7 DEF Hotplug, Still, MainOn, MainOff, AltOff
<1>8. ASSUME NEW b \in Binders, Binder(b) PROVE Still
  BY <1>8 DEF Binder, handleUsageScenarioChanged, handleResolutionChanged,
              handleScreenDownSizingChanged, RaiseChanging, notBinder, Still
<1>9. ASSUME UNCHANGED vars PROVE Still
  BY <1>9 DEF vars, Still
<1> QED BY <1>1, <1>2, <1>3, <1>4, <1>5, <1>6, <1>7, <1>8, <1>9 DEF Next, Composer

\* The types of what the effects change.
DevOK == /\ mHDMIImpl \in Impls /\ mHDMIAlternateImpl \in Impls \cup {None}
         /\ links \subseteq {"hdmi", "resol"} /\ preset \in Presets \cup {0}
         /\ queued \in Seq(0 .. 2) /\ NoDup(queued)

\* The alternate that is there is an implementor.
LEMMA AlternateThere ==
  ASSUME DevOK
  PROVE  /\ ~mHDMIAlternateImpl.gone => mHDMIAlternateImpl \in Impls
         /\ mHDMIImpl.gone = FALSE
<1>1. None.gone
  BY DEF None
<1>2. mHDMIImpl.gone = FALSE
  BY DEF DevOK, Impls
<1> QED BY <1>1, <1>2 DEF DevOK

\* The methods keep the types of links and queue.
LEMMA LinksMade ==
  ASSUME NEW i \in Impls, NEW l \in SUBSET {"hdmi", "resol"}
  PROVE  /\ EnableLinks(i, l) \subseteq {"hdmi", "resol"}
         /\ DisableLinks(i, l) \subseteq l
         /\ i.mEnabled /\ l \subseteq {Link(i)} => DisableLinks(i, l) = {}
BY LinkMade DEF EnableLinks, DisableLinks, Idle

\* What disable does to the node: STREAMOFF takes all buffers or none.
LEMMA QueueMade ==
  ASSUME NEW i \in Impls, NEW q \in Seq(0 .. 2), NoDup(q)
  PROVE  /\ DisableQueue(i, q) \in Seq(0 .. 2) /\ NoDup(DisableQueue(i, q))
         /\ DisableQueue(i, q) = q \/ DisableQueue(i, q) = <<>>
         /\ DisableQueue(i, q) = IF ~Idle(i) /\ i.mStarted THEN <<>> ELSE q
<1>1. <<>> \in Seq(0 .. 2) /\ NoDup(<<>>)
  BY DEF NoDup
<1> QED BY <1>1 DEF DisableQueue

\* Every step keeps the implementors and the node well formed,
LEMMA StepDev == DevOK /\ ConfigType /\ PairInv /\ MakeInv /\ [Next]_vars => DevOK'
<1> SUFFICES ASSUME DevOK, ConfigType, PairInv, MakeInv, [Next]_vars PROVE DevOK'
  OBVIOUS
<1>a. /\ mHDMIImpl \in Impls /\ links \in SUBSET {"hdmi", "resol"} /\ queued \in Seq(0 .. 2)
      /\ NoDup(queued)
      /\ ~mHDMIAlternateImpl.gone => mHDMIAlternateImpl \in Impls
  BY AlternateThere DEF DevOK
<1>1. CASE Still
  BY <1>1 DEF Still, DevOK
<1>2. CASE MainOn
  BY <1>2, <1>a, EnabledMade, LinksMade DEF MainOn, DevOK, Same
<1>3. CASE MainOff
  <2>1. mHDMIImpl' \in Impls /\ links' \subseteq {"hdmi", "resol"}
    BY <1>3, <1>a, DisabledMade, LinksMade DEF MainOff, Same
  <2>2. queued' \in Seq(0 .. 2) /\ NoDup(queued')
    BY <1>3, <1>a, QueueMade DEF MainOff
  <2> QED BY <1>3, <2>1, <2>2 DEF MainOff, DevOK
<1>4. CASE AltOn
  BY <1>4, <1>a, EnabledMade, LinksMade DEF AltOn, DevOK, Same
<1>5. CASE AltOff
  <2>1. mHDMIAlternateImpl' \in Impls /\ links' \subseteq {"hdmi", "resol"}
    BY <1>5, <1>a, DisabledMade, LinksMade DEF AltOff, Same
  <2>2. queued' \in Seq(0 .. 2) /\ NoDup(queued')
    BY <1>5, <1>a, QueueMade DEF AltOff
  <2> QED BY <1>5, <2>1, <2>2 DEF AltOff, DevOK
<1>6. CASE Made
  <2>1. made \in Impls
    BY <1>6 DEF Made, CGoto, AlternateAt, MakeInv, Fresh
  <2>2. createAlternate(args.scenario, args.w, args.h) \in Impls \cup {None}
    BY CreateMade DEF ConfigType
  <2> QED BY <1>6, <2>1, <2>2 DEF Made, DevOK, devVars
<1>7. CASE SetImpl
  <2>1. CASE mUseHDMIAlternate
    <3>1. mHDMIAlternateImpl \in Impls
      BY <1>a, <2>1 DEF PairInv
    <3>2. mHDMIAlternateImpl' \in Impls /\ preset' \in Presets \cup {0}
      BY <1>7, <2>1, <3>1, ConfiguredMade, ModeMade DEF SetImpl, Same, DevOK
    <3> QED BY <1>7, <2>1, <3>2 DEF SetImpl, DevOK
  <2>2. CASE ~mUseHDMIAlternate
    <3>1. mHDMIImpl' \in Impls /\ preset' \in Presets \cup {0}
      BY <1>7, <1>a, <2>2, ConfiguredMade, ModeMade DEF SetImpl, Same, DevOK
    <3> QED BY <1>7, <2>2, <3>1 DEF SetImpl, DevOK
  <2> QED BY <2>1, <2>2
<1>8. CASE RenderImpl
  <2>1. CASE UNCHANGED <<mHDMIImpl, mHDMIAlternateImpl, queued>>
    BY <1>8, <2>1 DEF RenderImpl, DevOK
  <2>2. CASE /\ mUseHDMIAlternate /\ UNCHANGED mHDMIImpl
             /\ mHDMIAlternateImpl' = render(mHDMIAlternateImpl, queued).i
             /\ queued' = render(mHDMIAlternateImpl, queued).q
    <3>1. mHDMIAlternateImpl \in Impls
      BY <1>a, <2>2 DEF PairInv
    <3>2. mHDMIAlternateImpl' \in Impls /\ queued' \in Seq(0 .. 2) /\ NoDup(queued')
      BY <1>a, <2>2, <3>1, RenderMade
    <3> QED BY <1>8, <2>2, <3>2 DEF RenderImpl, DevOK
  <2>3. CASE /\ ~mUseHDMIAlternate /\ UNCHANGED mHDMIAlternateImpl
             /\ mHDMIImpl' = render(mHDMIImpl, queued).i
             /\ queued' = render(mHDMIImpl, queued).q
    <3>1. mHDMIImpl' \in Impls /\ queued' \in Seq(0 .. 2) /\ NoDup(queued')
      BY <1>a, <2>3, RenderMade
    <3> QED BY <1>8, <2>3, <3>1 DEF RenderImpl, DevOK
  <2> QED BY <1>8, <2>1, <2>2, <2>3 DEF RenderImpl
<1> QED BY <1>1, <1>2, <1>3, <1>4, <1>5, <1>6, <1>7, <1>8, Effects

\* An implementor stays what it was made for until it is replaced.
LEMMA ImplKept ==
  ASSUME DevOK, PairInv, [Next]_vars, ~Made
  PROVE  /\ Same(mHDMIImpl, mHDMIImpl')
         /\ mHDMIAlternateImpl.gone <=> mHDMIAlternateImpl'.gone
         /\ ~mHDMIAlternateImpl.gone => Same(mHDMIAlternateImpl, mHDMIAlternateImpl')
<1> DEFINE Goal == /\ Same(mHDMIImpl, mHDMIImpl')
                   /\ mHDMIAlternateImpl.gone <=> mHDMIAlternateImpl'.gone
                   /\ ~mHDMIAlternateImpl.gone => Same(mHDMIAlternateImpl, mHDMIAlternateImpl')
<1> SUFFICES Goal
  OBVIOUS
<1>a. /\ mHDMIImpl \in Impls /\ queued \in Seq(0 .. 2) /\ NoDup(queued)
      /\ ~mHDMIAlternateImpl.gone => mHDMIAlternateImpl \in Impls
  BY AlternateThere DEF DevOK
<1>b. \A i \in Impls : i.gone = FALSE /\ Same(i, i)
  BY DEF Impls, Same
<1>c. \A i \in Impls : Same(i, Enabled(i)) /\ Same(i, Disabled(i))
  BY EnabledMade, DisabledMade
<1>d. \A i \in Impls : Same(i, [i EXCEPT !.mHDMIConfigured = TRUE])
  BY ConfiguredMade
<1>e. \A i \in Impls : Same(i, render(i, queued).i)
  BY <1>a, RenderMade DEF Kept, Same
<1>f. \A i, j : Same(i, j) => j \in Impls
  BY DEF Same
<1>1. CASE UNCHANGED <<mHDMIImpl, mHDMIAlternateImpl>>
  BY <1>1, <1>a, <1>b
<1>2. ASSUME Same(mHDMIImpl, mHDMIImpl'), UNCHANGED mHDMIAlternateImpl PROVE Goal
  BY <1>2, <1>a, <1>b
<1>3. ASSUME ~mHDMIAlternateImpl.gone, Same(mHDMIAlternateImpl, mHDMIAlternateImpl'),
             UNCHANGED mHDMIImpl
      PROVE  Goal
  BY <1>3, <1>a, <1>b, <1>f
<1> HIDE DEF Goal
<1>4. CASE Still
  BY <1>1, <1>4 DEF Still
<1>5. CASE MainOn \/ MainOff
  BY <1>2, <1>5, <1>a, <1>c DEF MainOn, MainOff
<1>6. CASE AltOn \/ AltOff
  BY <1>3, <1>6, <1>a, <1>c DEF AltOn, AltOff
<1>7. CASE SetImpl
  <2>1. CASE mUseHDMIAlternate
    <3>1. ~mHDMIAlternateImpl.gone /\ mHDMIAlternateImpl \in Impls
      BY <1>a, <2>1 DEF PairInv
    <3> QED BY <1>3, <1>7, <1>d, <2>1, <3>1 DEF SetImpl
  <2>2. CASE ~mUseHDMIAlternate
    BY <1>2, <1>7, <1>a, <1>d, <2>2 DEF SetImpl
  <2> QED BY <2>1, <2>2
<1>8. CASE RenderImpl
  <2>1. CASE UNCHANGED <<mHDMIImpl, mHDMIAlternateImpl, queued>>
    BY <1>1, <2>1
  <2>2. CASE mUseHDMIAlternate /\ UNCHANGED mHDMIImpl
             /\ mHDMIAlternateImpl' = render(mHDMIAlternateImpl, queued).i
    <3>1. ~mHDMIAlternateImpl.gone /\ mHDMIAlternateImpl \in Impls
      BY <1>a, <2>2 DEF PairInv
    <3> QED BY <1>3, <1>e, <2>2, <3>1
  <2>3. CASE ~mUseHDMIAlternate /\ UNCHANGED mHDMIAlternateImpl
             /\ mHDMIImpl' = render(mHDMIImpl, queued).i
    BY <1>2, <1>a, <1>e, <2>3
  <2> QED BY <1>8, <2>1, <2>2, <2>3 DEF RenderImpl
<1> QED BY <1>4, <1>5, <1>6, <1>7, <1>8, Effects

\* the lock of mChangingImpl around changeHDMIImpl,
LEMMA StepLock == LockInv /\ [Next]_vars => LockInv'
<1> SUFFICES ASSUME LockInv, [Next]_vars PROVE LockInv'
  OBVIOUS
<1> USE DEF LockInv, ChangeAt, ScenarioAt, CGoto, flagVars
<1>1. CASE Composer
  <2>1. CASE hwc_prepare \/ hwc_set \/ IfScenario \/ ReadArgument \/ MakeMain \/ CreateScenario
             \/ ScenarioChanged
    BY <2>1 DEF hwc_prepare, hwc_set, IfScenario, ReadArgument, MakeMain, CreateScenario, Create,
                ScenarioChanged
  <2>2. CASE IfChange \/ Replace \/ IfConnected \/ ImplChanged
    BY <2>2 DEF IfChange, Replace, Create, IfConnected, ImplChanged
  <2>3. CASE /\ UseAlternate \/ UseOriginal \/ SetImpl \/ RenderImpl \/ changeUsageScenario
             /\ Frame
    BY <2>3 DEF Frame, UseAlternate, UseOriginal, SetImpl, RenderImpl, changeUsageScenario,
                EnableMain, DisableMain, EnableAlternate, DisableAlternate
  <2>4. CASE changeHDMIImpl /\ Frame
    BY <2>4 DEF Frame, changeHDMIImpl, EnableMain, DisableMain, DisableAlternate
  <2> QED BY <1>1, <2>1, <2>2, <2>3, <2>4 DEF Composer, Frame
<1>2. CASE Plug \/ handleHDMIEvent \/ Hotplug
  <2>1. UNCHANGED notHot
    BY <1>2 DEF Plug, handleHDMIEvent, Hotplug
  <2> QED BY <2>1 DEF notHot
<1>3. CASE \E b \in Binders : Binder(b)
  BY <1>3 DEF Binder, handleUsageScenarioChanged, handleResolutionChanged,
              handleScreenDownSizingChanged, RaiseChanging, notBinder
<1>4. CASE UNCHANGED vars
  BY <1>4 DEF vars
<1> QED BY <1>1, <1>2, <1>3, <1>4 DEF Next

\* A swap is begun by set for the use that prepare decided on, and that stays.
LEMMA SwapBegun ==
  ASSUME PairInv, [Next]_vars, ~Made
  PROVE  /\ mUseHDMIAlternate' => ~mHDMIAlternateImpl.gone
         /\ cpc' \in SwapAt => ~mHDMIAlternateImpl.gone
         /\ cpc' \in SwapAt => (mUseHDMIAlternate' <=> cpc' \in {"mainOff", "altOn"})
<1> USE DEF PairInv, SwapAt, CGoto, implVars
<1>1. CASE Composer
  <2>1. CASE hwc_prepare \/ hwc_set \/ IfScenario \/ ReadArgument \/ MakeMain \/ ScenarioChanged
    BY <2>1 DEF hwc_prepare, hwc_set, IfScenario, ReadArgument, MakeMain, ScenarioChanged
  <2>2. CASE IfChange \/ IfConnected \/ ImplChanged
    BY <2>2 DEF IfChange, IfConnected, ImplChanged
  <2>3. CASE UseAlternate \/ UseOriginal \/ SetImpl \/ RenderImpl
    BY <2>3 DEF UseAlternate, UseOriginal, SetImpl, RenderImpl, EnableMain, DisableMain,
                EnableAlternate, DisableAlternate
  <2>4. CASE changeUsageScenario
    BY <2>4 DEF changeUsageScenario, DisableMain, DisableAlternate, EnableMain
  <2>5. CASE changeHDMIImpl
    BY <2>5 DEF changeHDMIImpl, EnableMain, DisableMain, DisableAlternate
  <2>6. CASE CreateScenario \/ Replace
    BY <2>6 DEF CreateScenario, Replace, Create
  <2> QED BY <1>1, <2>1, <2>2, <2>3, <2>4, <2>5, <2>6 DEF Composer
<1>2. CASE Plug \/ handleHDMIEvent \/ Hotplug
  <2>1. UNCHANGED notHot
    BY <1>2 DEF Plug, handleHDMIEvent, Hotplug
  <2> QED BY <2>1 DEF notHot
<1>3. CASE \E b \in Binders : Binder(b)
  BY <1>3 DEF Binder, handleUsageScenarioChanged, handleResolutionChanged,
              handleScreenDownSizingChanged, RaiseChanging, notBinder
<1>4. CASE UNCHANGED vars
  BY <1>4 DEF vars
<1> QED BY <1>1, <1>2, <1>3, <1>4 DEF Next

\* the alternate one that is there when it is used,
LEMMA StepPair == DevOK /\ PairInv /\ [Next]_vars => PairInv'
<1> SUFFICES ASSUME DevOK, PairInv, [Next]_vars PROVE PairInv'
  OBVIOUS
<1>1. CASE Made
  BY <1>1 DEF Made, CGoto, PairInv, SwapAt
<1>2. CASE ~Made
  BY <1>2, ImplKept, SwapBegun DEF PairInv
<1> QED BY <1>1, <1>2

\* Only the binder threads change what is asked for.
LEMMA NotBinder ==
  ASSUME [Next]_vars, \A b \in Binders : ~Binder(b)
  PROVE  UNCHANGED <<configVars, binderVars>>
<1>1. CASE Composer
  <2>1. CASE hwc_prepare \/ hwc_set \/ IfScenario \/ ReadArgument \/ MakeMain \/ CreateScenario
             \/ ScenarioChanged
    BY <2>1 DEF hwc_prepare, hwc_set, IfScenario, ReadArgument, MakeMain, CreateScenario,
                ScenarioChanged, notComposer
  <2>2. CASE IfChange \/ Replace \/ IfConnected \/ ImplChanged
    BY <2>2 DEF IfChange, Replace, IfConnected, ImplChanged, notComposer
  <2>3. CASE Frame
    BY <2>3 DEF Frame, notComposer
  <2> QED BY <1>1, <2>1, <2>2, <2>3 DEF Composer, Frame
<1>2. CASE Plug \/ handleHDMIEvent \/ Hotplug
  <2>1. UNCHANGED notHot
    BY <1>2 DEF Plug, handleHDMIEvent, Hotplug
  <2> QED BY <2>1 DEF notHot
<1>3. CASE UNCHANGED vars
  BY <1>3 DEF vars
<1> QED BY <1>1, <1>2, <1>3 DEF Next

\* What a binder thread is asked for.
LEMMA NothingMade ==
  LET Asked == [scenario : Scenarios, height : Presets \cup {0}]
  IN  /\ Nothing \in Asked
      /\ \A s \in Scenarios : [Nothing EXCEPT !.scenario = s] \in Asked
      /\ \A p \in Presets : /\ [Nothing EXCEPT !.height = p] \in Asked
                             /\ [Nothing EXCEPT !.height = p].height = p
BY ComposerParameters DEF Nothing

\* A binder thread is given a preset, and a scenario it may ask for.
LEMMA StepBinder == BinderType /\ BinderInv /\ [Next]_vars => BinderType' /\ BinderInv'
<1> SUFFICES ASSUME BinderType, BinderInv, [Next]_vars PROVE BinderType' /\ BinderInv'
  OBVIOUS
<1> DEFINE Asked == [scenario : Scenarios, height : Presets \cup {0}]
<1>1. CASE \E b \in Binders : Binder(b)
  <2> PICK b \in Binders : Binder(b)
    BY <1>1
  <2>a. Wanted \subseteq Scenarios
    BY ComposerParameters
  <2>1. ASSUME NEW f, NEW t, BGoto(b, f, t), UNCHANGED arg,
               t \in {"height", "preset", "determine", "change"},
               t \in {"height", "preset"} => f \in {"width", "height"}
        PROVE  BinderType' /\ BinderInv'
    BY <2>1 DEF BinderType, BinderInv, BGoto
  <2>2. ASSUME NEW f, NEW t, NEW a \in Asked, BGoto(b, f, t), arg' = [arg EXCEPT ![b] = a],
               t \in {"idle", "scenario", "width", "determine"},
               t = "width" => a.height \in Presets
        PROVE  BinderType' /\ BinderInv'
    BY <2>2 DEF BinderType, BinderInv, BGoto
  <2>3. CASE handleUsageScenarioChanged(b)
    BY <2>a, <2>2, <2>3, NothingMade DEF handleUsageScenarioChanged, Request
  <2>4. CASE handleResolutionChanged(b)
    BY <2>1, <2>2, <2>4, NothingMade DEF handleResolutionChanged, Request
  <2>5. CASE handleScreenDownSizingChanged(b)
    BY <2>1, <2>2, <2>5, NothingMade DEF handleScreenDownSizingChanged, Request
  <2>6. CASE RaiseChanging(b)
    BY <2>2, <2>6, NothingMade DEF RaiseChanging
  <2> QED BY <2>3, <2>4, <2>5, <2>6 DEF Binder
<1>2. CASE \A b \in Binders : ~Binder(b)
  <2>1. UNCHANGED <<bpc, arg>>
    BY <1>2, NotBinder DEF binderVars
  <2> QED BY <2>1 DEF BinderType, BinderInv
<1> QED BY <1>1, <1>2

\* A replacement is made of what the composing thread read before, and no
\* other step touches that or comes between.
LEMMA MakeOnly ==
  ASSUME [Next]_vars, ~ReadArgument, ~MakeMain, ~Made
  PROVE  /\ UNCHANGED makeVars
         /\ UNCHANGED cpc \/ (cpc \notin MainAt \cup AlternateAt /\ cpc' \notin AlternateAt)
<1> USE DEF CGoto, MainAt, AlternateAt
<1>1. CASE Composer
  <2>1. CASE hwc_prepare \/ hwc_set \/ IfScenario \/ ScenarioChanged
    BY <2>1 DEF hwc_prepare, hwc_set, IfScenario, ScenarioChanged
  <2>2. CASE IfChange \/ IfConnected \/ ImplChanged
    BY <2>2 DEF IfChange, IfConnected, ImplChanged
  <2>3. CASE /\ UseAlternate \/ UseOriginal \/ SetImpl \/ RenderImpl \/ changeUsageScenario
             /\ Frame
    BY <2>3 DEF Frame, UseAlternate, UseOriginal, SetImpl, RenderImpl, changeUsageScenario,
                EnableMain, DisableMain, EnableAlternate, DisableAlternate
  <2>4. CASE changeHDMIImpl /\ Frame
    BY <2>4 DEF Frame, changeHDMIImpl, EnableMain, DisableMain, DisableAlternate
  <2>5. CASE CreateScenario \/ Replace
    BY <2>5 DEF CreateScenario, Replace, Create, Made
  <2> QED BY <1>1, <2>1, <2>2, <2>3, <2>4, <2>5 DEF Composer, Frame
<1>2. CASE Plug \/ handleHDMIEvent \/ Hotplug
  <2>1. UNCHANGED notHot
    BY <1>2 DEF Plug, handleHDMIEvent, Hotplug
  <2> QED BY <2>1 DEF notHot
<1>3. CASE \E b \in Binders : Binder(b)
  BY <1>3 DEF Binder, handleUsageScenarioChanged, handleResolutionChanged,
              handleScreenDownSizingChanged, RaiseChanging, notBinder
<1>4. CASE UNCHANGED vars
  BY <1>4 DEF vars
<1> QED BY <1>1, <1>2, <1>3, <1>4 DEF Next

\* What was read is of its type,
LEMMA ArgsType ==
  ASSUME ConfigType, [Next]_vars
  PROVE  args' \in [scenario : Scenarios, w : Presets, h : Presets]
<1>1. CASE ReadArgument
  BY <1>1 DEF ReadArgument, ConfigType
<1>2. CASE ArgumentsRead
  BY <1>2, ComposerParameters DEF ArgumentsRead, NoArgs
<1>3. CASE ~ReadArgument /\ ~ArgumentsRead
  BY <1>3, MakeOnly DEF MakeMain, Made, makeVars, ConfigType
<1> QED BY <1>1, <1>2, <1>3

\* and what is made of it is fresh.
LEMMA StepMake ==
  MakeInv /\ ConfigType /\ made \in Impls \cup {None} /\ [Next]_vars
    => MakeInv' /\ made' \in Impls \cup {None}
<1> SUFFICES ASSUME MakeInv, ConfigType, made \in Impls \cup {None}, [Next]_vars
             PROVE  MakeInv' /\ made' \in Impls \cup {None}
  OBVIOUS
<1> USE DEF CGoto, MainAt, AlternateAt
<1>1. CASE ReadArgument
  BY <1>1 DEF ReadArgument, MakeInv, Fresh
<1>2. CASE MakeMain
  <2>1. Fresh(create(args.scenario, args.w, args.h))
    BY CreateMade DEF ConfigType
  <2>2. made' = create(args.scenario, args.w, args.h) /\ cpc' \in AlternateAt
    BY <1>2 DEF MakeMain
  <2> QED BY <2>1, <2>2 DEF MakeInv, Fresh
<1>3. CASE Made
  BY <1>3 DEF Made, ArgumentsRead, MakeInv
<1>4. CASE ~ReadArgument /\ ~MakeMain /\ ~Made
  BY <1>4, MakeOnly DEF makeVars, MakeInv, Fresh
<1> QED BY <1>1, <1>2, <1>3, <1>4

\* A swap is asked for only when there is an alternate, and loses it only to a
\* replacement.
LEMMA StepSwap == SwapInv /\ DevOK /\ PairInv /\ [Next]_vars => SwapInv'
<1> SUFFICES ASSUME SwapInv, DevOK, PairInv, [Next]_vars PROVE SwapInv'
  OBVIOUS
<1>a. Made \/ (mHDMIAlternateImpl'.gone <=> mHDMIAlternateImpl.gone)
  BY ImplKept
<1> USE DEF CGoto, implVars, history, SwapInv
<1>1. CASE Composer
  <2>1. CASE hwc_prepare
    <3>1. mChangeHDMIImpl' => mChangeHDMIImpl \/ ~mHDMIAlternateImpl.gone
      BY <2>1 DEF hwc_prepare
    <3> QED BY <2>1, <3>1 DEF hwc_prepare
  <2>2. CASE hwc_set \/ IfScenario \/ ReadArgument \/ MakeMain \/ ScenarioChanged
    BY <2>2 DEF hwc_set, IfScenario, ReadArgument, MakeMain, ScenarioChanged
  <2>3. CASE IfChange \/ IfConnected \/ ImplChanged
    BY <2>3 DEF IfChange, IfConnected, ImplChanged
  <2>4. CASE CreateScenario
    BY <2>4 DEF CreateScenario, Create
  <2>7. CASE Replace
    <3>1. (overtaken' <=> overtaken \/ mChangeHDMIImpl) /\ UNCHANGED mChangeHDMIImpl
      BY <2>7, Zenon DEF Replace
    <3>2. cpc' # "crashed"
      BY <2>7 DEF Replace, Create
    <3> QED BY <3>1, <3>2
  <2>5. CASE /\ UseAlternate \/ UseOriginal \/ SetImpl \/ RenderImpl \/ changeUsageScenario
             /\ Frame
    BY <1>a, <2>5 DEF Frame, Made, UseAlternate, UseOriginal, SetImpl, RenderImpl,
                      changeUsageScenario, EnableMain, DisableMain, EnableAlternate,
                      DisableAlternate
  <2>6. CASE changeHDMIImpl /\ UNCHANGED mChangeHDMIImpl /\ Frame
    BY <1>a, <2>6 DEF Frame, Made, changeHDMIImpl, EnableMain, DisableMain, DisableAlternate
  <2> QED BY <1>1, <2>1, <2>2, <2>3, <2>4, <2>5, <2>6, <2>7 DEF Composer, Frame
<1>2. CASE Plug \/ handleHDMIEvent \/ Hotplug
  <2>1. UNCHANGED notHot
    BY <1>2 DEF Plug, handleHDMIEvent, Hotplug
  <2> QED BY <1>a, <2>1 DEF notHot, Made
<1>3. CASE \E b \in Binders : Binder(b)
  BY <1>3 DEF Binder, handleUsageScenarioChanged, handleResolutionChanged,
              handleScreenDownSizingChanged, RaiseChanging, notBinder
<1>4. CASE UNCHANGED vars
  BY <1>4 DEF vars
<1> QED BY <1>1, <1>2, <1>3, <1>4 DEF Next

\* What is asked for is a scenario, and a resolution of a preset.
LEMMA StepConfig == ConfigType /\ BinderType /\ BinderInv /\ [Next]_vars => ConfigType'
<1> SUFFICES ASSUME ConfigType, BinderType, BinderInv, [Next]_vars PROVE ConfigType'
  OBVIOUS
<1> DEFINE Asked == /\ mUsageScenario \in Scenarios
                    /\ {mHDMIWidth, mHDMIHeight, mHDMIPreset} \subseteq Presets
<1>a. Asked
  BY DEF ConfigType
<1> SUFFICES Asked'
  BY ArgsType DEF ConfigType
<1>1. CASE \E b \in Binders : Binder(b)
  <2> PICK b \in Binders : Binder(b)
    BY <1>1
  <2>1. CASE handleUsageScenarioChanged(b)
    BY <1>a, <2>1 DEF handleUsageScenarioChanged, configVars, BinderType
  <2>2. CASE handleResolutionChanged(b)
    BY <1>a, <2>2 DEF handleResolutionChanged, configVars, BinderInv, BGoto
  <2>3. CASE handleScreenDownSizingChanged(b)
    <3>1. Original \in Scenarios /\ Rescaled(mUsageScenario) \in Scenarios
      <4>1. \A s \in Scenarios : Rescaled(s) \in Scenarios
        BY DEF Rescaled, Scenarios
      <4> QED BY <1>a, <4>1, ComposerParameters
    <3> QED BY <1>a, <2>3, <3>1 DEF handleScreenDownSizingChanged, BGoto
  <2>4. CASE RaiseChanging(b)
    BY <1>a, <2>4 DEF RaiseChanging, configVars
  <2> QED BY <2>1, <2>2, <2>3, <2>4 DEF Binder
<1>2. CASE \A b \in Binders : ~Binder(b)
  BY <1>a, <1>2, NotBinder DEF configVars
<1> QED BY <1>1, <1>2

\* and the flags in their types.
LEMMA StepPlain == PlainType /\ [Next]_vars => PlainType'
<1> SUFFICES ASSUME PlainType, [Next]_vars PROVE PlainType'
  OBVIOUS
<1> USE DEF CGoto, flagVars, implVars, history
<1>0. unread' \subseteq Args
  <2>1. unread' \subseteq unread \/ unread' = Args
    <3>1. CASE ReadArgument
      BY <3>1 DEF ReadArgument
    <3>2. CASE ~ReadArgument
      BY <3>2, MakeOnly DEF MakeMain, Made, ArgumentsRead, makeVars
    <3> QED BY <3>1, <3>2
  <2> QED BY <2>1 DEF PlainType
<1>1. CASE Composer
  <2>0. CASE ReadArgument \/ MakeMain \/ CreateScenario
    <3>1. UNCHANGED <<cableVars, hpc, binderVars, mScreenDownSizing>>
      BY <2>0 DEF ReadArgument, MakeMain, CreateScenario, notComposer, configVars
    <3>2. UNCHANGED cpc \/ {cpc'} \subseteq {"scAlt", "chAlt", "scOn"}
      BY <2>0 DEF ReadArgument, MakeMain, CreateScenario, Create
    <3>3. {mHDMIPlugged, mUseHDMIAlternate, mChangeHDMIImpl, mChangingScenario, mChangingImpl,
           mChangeImplLock, contents, connected, untidy, stale, overtaken}' \subseteq BOOLEAN
      BY <2>0 DEF ReadArgument, MakeMain, CreateScenario, Create, PlainType
    <3>4. lost' \in BOOLEAN
      BY <2>0 DEF ReadArgument, MakeMain, CreateScenario, notComposer, PlainType
    <3> QED BY <1>0, <3>1, <3>2, <3>3, <3>4 DEF PlainType, cableVars, binderVars
  <2>1. CASE hwc_prepare \/ hwc_set \/ IfScenario \/ ScenarioChanged
    <3>1. UNCHANGED <<cableVars, hpc, binderVars, mScreenDownSizing, lost>>
      BY <2>1 DEF hwc_prepare, hwc_set, IfScenario, ScenarioChanged, notComposer, configVars
    <3>2. {cpc'} \subseteq {"set", "scenario", "show", "crashed", "mainOff", "altOff", "scOff",
                            "change"}
      BY <2>1 DEF hwc_prepare, hwc_set, IfScenario, ScenarioChanged
    <3>3. {mHDMIPlugged, mUseHDMIAlternate, mChangeHDMIImpl, mChangingScenario,
           mChangingImpl, mChangeImplLock, contents, connected, untidy, stale,
           overtaken}' \subseteq BOOLEAN
      BY <2>1 DEF hwc_prepare, hwc_set, IfScenario, ScenarioChanged, PlainType
    <3> QED BY <1>0, <3>1, <3>2, <3>3 DEF PlainType, cableVars, binderVars
  <2>2. CASE IfChange \/ Replace \/ IfConnected \/ ImplChanged
    <3>1. UNCHANGED <<cableVars, hpc, binderVars, mScreenDownSizing, lost>>
      BY <2>2 DEF IfChange, Replace, IfConnected, ImplChanged, notComposer, configVars
    <3>2. {cpc'} \subseteq {"chOff", "chNew", "idle", "chPlug", "chSet", "chOn", "chEnd"}
      BY <2>2 DEF IfChange, Replace, Create, IfConnected, ImplChanged
    <3>3. {mHDMIPlugged, mUseHDMIAlternate, mChangeHDMIImpl, mChangingScenario,
           mChangingImpl, mChangeImplLock, contents, connected}' \subseteq BOOLEAN
      BY <2>2 DEF IfChange, Replace, Create, IfConnected, ImplChanged, PlainType
    <3>4. {untidy, stale, overtaken}' \subseteq BOOLEAN
      BY <2>2 DEF IfChange, Replace, IfConnected, ImplChanged, PlainType
    <3> QED BY <1>0, <3>1, <3>2, <3>3, <3>4 DEF PlainType, cableVars, binderVars
  <2>3. CASE /\ \/ /\ UseAlternate \/ UseOriginal \/ SetImpl \/ RenderImpl \/ changeUsageScenario
                   /\ UNCHANGED connected
                \/ changeHDMIImpl /\ UNCHANGED mChangeHDMIImpl
             /\ Frame
    <3>1. UNCHANGED <<mHDMIPlugged, mChangingScenario, mChangingImpl, mChangeImplLock, contents,
                      history, cableVars, hpc, binderVars, mScreenDownSizing, lost>>
      BY <2>3 DEF Frame, notComposer, configVars
    <3>2. {cpc'} \subseteq {"altOn", "scenario", "mainOn", "render", "scAltOff", "scNew",
                            "scEnd", "chAltOff", "chNew", "chEnd"}
      BY <2>3 DEF UseAlternate, UseOriginal, SetImpl, RenderImpl, changeUsageScenario,
                  changeHDMIImpl, EnableMain, DisableMain, EnableAlternate, DisableAlternate
    <3>3. {mUseHDMIAlternate, mChangeHDMIImpl, connected}' \subseteq BOOLEAN
      BY <2>3 DEF UseAlternate, UseOriginal, SetImpl, RenderImpl, changeUsageScenario,
                  changeHDMIImpl, EnableMain, DisableMain, EnableAlternate, DisableAlternate,
                  PlainType
    <3> QED BY <1>0, <3>1, <3>2, <3>3 DEF PlainType, cableVars, binderVars
  <2> QED BY <1>1, <2>0, <2>1, <2>2, <2>3 DEF Composer, Frame
<1>2. CASE Plug
  <2>1. uevents' \in Seq(BOOLEAN) /\ cable' \in BOOLEAN /\ plugs' \in 0 .. MaxChanges
    BY <1>2, ComposerParameters DEF Plug, PlainType
  <2>2. UNCHANGED <<notHot, mHDMIPlugged, connected, hpc, untidy, stale>>
    BY <1>2 DEF Plug
  <2> QED BY <1>0, <2>1, <2>2 DEF notHot, PlainType, binderVars, configVars
<1>3. CASE handleHDMIEvent
  <2>1. /\ uevents' \in Seq(BOOLEAN)
        /\ uevents # <<>> => Head(uevents) \in BOOLEAN
    BY <1>3, HeadTailProperties DEF handleHDMIEvent, PlainType
  <2>2. UNCHANGED <<notHot, connected, cable, plugs>> /\ mHDMIPlugged' \in BOOLEAN
        /\ {untidy, stale}' \subseteq BOOLEAN
        /\ {hpc'} \subseteq {"idle", "plug", "unplug", "enable", "disable"}
    BY <1>3, <2>1 DEF handleHDMIEvent, PlainType
  <2> QED BY <1>0, <2>1, <2>2 DEF notHot, PlainType, binderVars, configVars
<1>4. CASE Hotplug
  <2>1. /\ UNCHANGED <<notHot, cableVars, mHDMIPlugged, stale>> /\ connected' \in BOOLEAN
        /\ untidy' \in BOOLEAN /\ {hpc'} \subseteq {"idle", "disableAlt"}
    BY <1>4 DEF Hotplug, PlainType
  <2> QED BY <1>0, <2>1 DEF notHot, PlainType, binderVars, configVars, cableVars
<1>5. CASE \E b \in Binders : Binder(b)
  <2> PICK b \in Binders : Binder(b)
    BY <1>5
  <2>1. UNCHANGED notBinder
    BY DEF Binder, handleUsageScenarioChanged, handleResolutionChanged,
           handleScreenDownSizingChanged, RaiseChanging
  <2>2. {mScreenDownSizing, mChangingScenario, mChangingImpl, lost}' \subseteq BOOLEAN
    BY DEF Binder, handleUsageScenarioChanged, handleResolutionChanged,
           handleScreenDownSizingChanged, RaiseChanging, PlainType, configVars, ReadBefore
  <2>3. requests' \in 0 .. MaxChanges
    <3>1. requests' = requests \/ (plugs + requests < MaxChanges /\ requests' = requests + 1)
      BY DEF Binder, handleUsageScenarioChanged, handleResolutionChanged,
             handleScreenDownSizingChanged, RaiseChanging, Request
    <3> QED BY <3>1, ComposerParameters DEF PlainType
  <2> QED BY <1>0, <2>1, <2>2, <2>3 DEF notBinder, PlainType, cableVars
<1>6. CASE UNCHANGED vars
  BY <1>0, <1>6 DEF vars, PlainType, cableVars, binderVars, configVars
<1> QED BY <1>1, <1>2, <1>3, <1>4, <1>5, <1>6 DEF Next

\* The boot.
LEMMA InitType ==
  Init => TypeOK /\ DevOK /\ PairInv /\ BinderInv /\ LockInv /\ MakeInv /\ SwapInv
<1> SUFFICES ASSUME Init
             PROVE  TypeOK /\ DevOK /\ PairInv /\ BinderInv /\ LockInv /\ MakeInv /\ SwapInv
  OBVIOUS
<1>1. Original \in Scenarios /\ Boot \in Presets /\ MaxChanges \in Nat
  BY ComposerParameters
<1>2. ConfigType /\ mHDMIWidth = Boot /\ mHDMIHeight = Boot
  BY <1>1 DEF Init, ConfigType, NoArgs
<1>3. PlainType
  <2>1. <<>> \in Seq(BOOLEAN) /\ 0 \in 0 .. MaxChanges
    BY <1>1
  <2> QED BY <2>1 DEF Init, PlainType
<1>4. BinderType /\ BinderInv
  BY NothingMade DEF Init, BinderType, BinderInv
<1> DEFINE i == create(Original, Boot, Boot)
           a == createAlternate(Original, Boot, Boot)
<1>5. i \in Impls /\ a \in Impls \cup {None}
  BY <1>1, CreateMade DEF Fresh
<1>6. mHDMIImpl = Enabled(i) /\ mHDMIAlternateImpl = a
  BY <1>2 DEF Init
<1> HIDE DEF i, a
<1>7. Same(i, mHDMIImpl) /\ mHDMIImpl \in Impls
  BY <1>5, <1>6, EnabledMade DEF Same
<1>8. DevOK
  <2>1. <<>> \in Seq(0 .. 2) /\ NoDup(<<>>)
    BY DEF NoDup
  <2>2. links \subseteq {"hdmi", "resol"}
    BY <1>7, LinkMade DEF Init
  <2>3. queued = <<>> /\ preset = 0
    BY DEF Init
  <2> QED BY <1>5, <1>6, <1>7, <2>1, <2>2, <2>3 DEF DevOK
<1>9. DevType
  BY <1>8, ThreeAtMost DEF Init, DevOK, DevType
<1>10. PairInv /\ SwapInv
  BY DEF Init, PairInv, SwapInv, SwapAt
<1>11. LockInv /\ MakeInv
  BY DEF Init, LockInv, ChangeAt, ScenarioAt, MakeInv, MainAt, AlternateAt
<1> QED BY <1>2, <1>3, <1>4, <1>8, <1>9, <1>10, <1>11 DEF TypeOK

-----------------------------------------------------------------------------
(* The implementor follows what was asked for.                             *)

\* The composing thread is past a replacement only by making it, only the ends
\* of the two changes take a flag back, and nobody else forgets a lost scenario.
LEMMA Progress ==
  ASSUME [Next]_vars, \A b \in Binders : ~Binder(b), ~Made, ~ReadArgument
  PROVE  /\ UNCHANGED <<configVars, binderVars, lost>>
         /\ mChangingImpl' = mChangingImpl \/ ImplChanged
         /\ mChangingScenario' = mChangingScenario \/ ScenarioChanged
         /\ cpc' \in ReplacedAt => cpc \in ReplacedAt
         /\ cpc' \in {"scOn", "scEnd"} => cpc \in {"scOn", "scEnd"}
<1> USE DEF CGoto, flagVars, ReplacedAt
<1>1. CASE Composer
  <2>1. CASE hwc_prepare \/ hwc_set \/ IfScenario \/ MakeMain
    BY <2>1 DEF hwc_prepare, hwc_set, IfScenario, MakeMain, notComposer
  <2>2. CASE IfChange \/ IfConnected
    BY <2>2 DEF IfChange, IfConnected, notComposer
  <2>3. CASE ScenarioChanged \/ ImplChanged
    BY <2>3 DEF ScenarioChanged, ImplChanged, notComposer
  <2>4. CASE CreateScenario \/ Replace
    BY <2>4 DEF CreateScenario, Replace, Create, Made
  <2>5. CASE /\ UseAlternate \/ UseOriginal \/ SetImpl \/ RenderImpl
             /\ Frame
    BY <2>5 DEF Frame, UseAlternate, UseOriginal, SetImpl, RenderImpl, notComposer,
                EnableMain, DisableMain, EnableAlternate, DisableAlternate
  <2>6. CASE changeUsageScenario /\ Frame
    BY <2>6 DEF Frame, changeUsageScenario, notComposer, EnableMain, DisableMain,
                DisableAlternate
  <2>7. CASE changeHDMIImpl /\ Frame
    BY <2>7 DEF Frame, changeHDMIImpl, notComposer, EnableMain, DisableMain, DisableAlternate
  <2> QED BY <1>1, <2>1, <2>2, <2>3, <2>4, <2>5, <2>6, <2>7 DEF Composer, Frame
<1>2. CASE Plug \/ handleHDMIEvent \/ Hotplug
  <2>1. UNCHANGED notHot
    BY <1>2 DEF Plug, handleHDMIEvent, Hotplug
  <2> QED BY <2>1 DEF notHot
<1>3. CASE UNCHANGED vars
  BY <1>3 DEF vars
<1> QED BY <1>1, <1>2, <1>3 DEF Next

\* What a binder thread does to the request: it is in the middle of one, or
\* announces a scenario, or assigns it, or raises mChangingImpl.
LEMMA BinderStep ==
  ASSUME BinderType, NEW b \in Binders, Binder(b), ~Dirty'
  PROVE  /\ UNCHANGED <<cpc, makeVars, mHDMIImpl, mChangeImplLock>>
         /\ \/ /\ ~Dirty /\ UNCHANGED <<mHDMIWidth, mHDMIHeight, mChangingImpl>>
               /\ \/ UNCHANGED <<mUsageScenario, mChangingScenario, lost>>
                  \/ mChangingScenario' /\ UNCHANGED <<mUsageScenario, lost>>
                  \/ lost' = ReadBefore /\ UNCHANGED mChangingScenario
            \/ /\ mChangingImpl' /\ ~mChangeImplLock
               /\ UNCHANGED <<configVars, mChangingScenario, lost>>
<1>1. ASSUME NEW t, bpc' = [bpc EXCEPT ![b] = t], t \in {"height", "preset", "change"}
      PROVE  FALSE
  BY <1>1 DEF Dirty, BinderType
<1>2. ASSUME NEW t, bpc' = [bpc EXCEPT ![b] = t], bpc[b] \notin {"height", "preset", "change"}
      PROVE  ~Dirty
  BY <1>2 DEF Dirty, BinderType
<1>3. UNCHANGED <<cpc, makeVars, mHDMIImpl, mChangeImplLock>>
  BY DEF Binder, handleUsageScenarioChanged, handleResolutionChanged,
         handleScreenDownSizingChanged, RaiseChanging, notBinder, implVars
<1>4. CASE handleUsageScenarioChanged(b)
  <2>1. ~Dirty
    BY <1>2, <1>4 DEF handleUsageScenarioChanged, Request, BGoto
  <2>2. UNCHANGED <<mHDMIWidth, mHDMIHeight, mChangingImpl>>
    BY <1>4 DEF handleUsageScenarioChanged, configVars
  <2>3. \/ mChangingScenario' /\ UNCHANGED <<mUsageScenario, lost>>
        \/ lost' = ReadBefore /\ UNCHANGED mChangingScenario
    BY <1>4 DEF handleUsageScenarioChanged, configVars
  <2> QED BY <1>3, <2>1, <2>2, <2>3
<1>5. CASE handleResolutionChanged(b)
  <2>1. ~Dirty /\ UNCHANGED configVars
    BY <1>1, <1>2, <1>5 DEF handleResolutionChanged, Request, BGoto
  <2>2. UNCHANGED <<mChangingImpl, mChangingScenario, lost>>
    BY <1>5 DEF handleResolutionChanged
  <2> QED BY <1>3, <2>1, <2>2 DEF configVars
<1>6. CASE handleScreenDownSizingChanged(b)
  <2>1. ~Dirty /\ UNCHANGED <<mUsageScenario, lost>>
    BY <1>1, <1>2, <1>6 DEF handleScreenDownSizingChanged, Request, BGoto
  <2>2. UNCHANGED <<mHDMIWidth, mHDMIHeight, mChangingImpl, mChangingScenario>>
    BY <1>6 DEF handleScreenDownSizingChanged
  <2> QED BY <1>3, <2>1, <2>2
<1>7. CASE RaiseChanging(b)
  BY <1>3, <1>7 DEF RaiseChanging
<1> QED BY <1>4, <1>5, <1>6, <1>7 DEF Binder

\* The arguments read so far, and what was made of them, are those of the last
\* request.
LEMMA StepRead ==
  ReadInv /\ MakeInv /\ LockInv /\ PlainType /\ ConfigType /\ BinderType /\ [Next]_vars
    => ReadInv'
<1> SUFFICES ASSUME ReadInv, MakeInv, LockInv, PlainType, ConfigType, BinderType, [Next]_vars,
                    Serving'
             PROVE  /\ cpc' \in MainAt =>
                         /\ "w" \notin unread' => args'.w = mHDMIWidth'
                         /\ "h" \notin unread' => args'.h = mHDMIHeight'
                         /\ "scenario" \notin unread' /\ Settling' =>
                              args'.scenario = mUsageScenario'
                    /\ cpc' \in AlternateAt =>
                         /\ Fits(made, mHDMIWidth, mHDMIHeight)'
                         /\ Settling' => made'.scenario = mUsageScenario'
  BY DEF ReadInv, Fits
<1>1. CASE Made
  BY <1>1 DEF Made, CGoto, MainAt, AlternateAt
<1>2. CASE ReadArgument
  <2>1. /\ UNCHANGED <<cpc, made, flagVars, configVars, binderVars>> /\ lost' \in {lost, FALSE}
        /\ cpc \in AlternateAt => UNCHANGED lost
    BY <1>2 DEF ReadArgument, MainAt, AlternateAt, PlainType
  <2>2. Serving /\ UNCHANGED <<mHDMIWidth, mHDMIHeight, mUsageScenario, mChangingScenario>>
    BY <2>1 DEF Serving, Dirty, flagVars, configVars, binderVars
  <2>3. CASE cpc \in AlternateAt
    BY <2>1, <2>2, <2>3 DEF ReadInv, Settling, Fits, MainAt, AlternateAt
  <2>4. CASE cpc \in MainAt
    <3>1. args \in [scenario : Scenarios, w : Presets, h : Presets]
      BY DEF ConfigType
    <3>2. CASE /\ unread' = unread \ {"scenario"}
               /\ args' = [args EXCEPT !.scenario = mUsageScenario]
      BY <2>1, <2>2, <2>4, <3>1, <3>2 DEF ReadInv, MainAt, AlternateAt
    <3>3. CASE /\ unread' = unread \ {"w"}
               /\ args' = [args EXCEPT !.w = mHDMIWidth] /\ UNCHANGED lost
      BY <2>1, <2>2, <2>4, <3>1, <3>3 DEF ReadInv, Settling, MainAt, AlternateAt
    <3>4. CASE /\ unread' = unread \ {"h"}
               /\ args' = [args EXCEPT !.h = mHDMIHeight] /\ UNCHANGED lost
      BY <2>1, <2>2, <2>4, <3>1, <3>4 DEF ReadInv, Settling, MainAt, AlternateAt
    <3> QED BY <1>2, <3>2, <3>3, <3>4 DEF ReadArgument
  <2> QED BY <2>1, <2>3, <2>4 DEF MainAt, AlternateAt
<1>3. CASE MakeMain
  <2>1. /\ cpc \in MainAt /\ cpc' \in AlternateAt /\ cpc' \notin MainAt
        /\ cpc = "chNew" <=> cpc' = "chAlt"
        /\ unread = {} /\ made' = create(args.scenario, args.w, args.h)
        /\ UNCHANGED <<flagVars, configVars, binderVars, lost>>
    BY <1>3 DEF MakeMain, ArgumentsRead, CGoto, MainAt, AlternateAt, notComposer
  <2>2. Serving /\ (Settling' => Settling)
        /\ UNCHANGED <<mHDMIWidth, mHDMIHeight, mUsageScenario>>
    BY <2>1 DEF Serving, Settling, Dirty, flagVars, configVars, binderVars, MainAt, AlternateAt
  <2>3. /\ args.w = mHDMIWidth /\ args.h = mHDMIHeight
        /\ Settling => args.scenario = mUsageScenario
    BY <2>1, <2>2 DEF ReadInv
  <2>4. made'.scenario = args.scenario
    BY <2>1, CreateMade DEF ConfigType
  <2> QED BY <2>1, <2>2, <2>3, <2>4 DEF Fits
<1>4. CASE ~Made /\ ~ReadArgument /\ ~MakeMain
  <2>1. CASE cpc' # cpc
    BY <1>4, <2>1, MakeOnly DEF makeVars, MakeInv, Args
  <2>2. CASE cpc' = cpc /\ cpc \in MainAt \cup AlternateAt
    <3>0. UNCHANGED makeVars
      BY <1>4, MakeOnly
    <3>1. CASE \A b \in Binders : ~Binder(b)
      <4>1. UNCHANGED <<configVars, binderVars, lost, mChangingImpl, mChangingScenario>>
        BY <1>4, <2>2, <3>1, Progress DEF ImplChanged, ScenarioChanged, CGoto
      <4>2. Serving /\ (Settling' => Settling)
        BY <2>2, <4>1 DEF Serving, Settling, Dirty, binderVars
      <4> QED BY <2>2, <3>0, <4>1, <4>2 DEF ReadInv, makeVars, configVars, Fits
    <3>2. CASE \E b \in Binders : Binder(b)
      <4> PICK b \in Binders : Binder(b)
        BY <3>2
      <4>1. ~Dirty'
        BY DEF Serving
      <4>2. ~(mChangingImpl' /\ ~mChangeImplLock)
        BY <2>2 DEF Serving, LockInv, ChangeAt
      <4>3. ~Dirty /\ UNCHANGED <<mHDMIWidth, mHDMIHeight, mChangingImpl>>
        BY <4>1, <4>2, BinderStep
      <4>4. Serving
        BY <2>2, <4>3 DEF Serving
      <4>5. CASE UNCHANGED <<mUsageScenario, lost>> /\ (mChangingScenario => mChangingScenario')
        <5>1. Settling' => Settling
          BY <2>2, <4>5 DEF Settling
        <5> QED BY <2>2, <3>0, <4>3, <4>4, <4>5, <5>1 DEF ReadInv, makeVars, Fits
      <4>6. CASE lost' = ReadBefore /\ UNCHANGED mChangingScenario
        <5>1. Settling' => cpc = "scNew" /\ "scenario" \in unread
          BY <2>2, <4>6 DEF Settling, ReadBefore
        <5> QED BY <2>2, <3>0, <4>3, <4>4, <5>1 DEF ReadInv, makeVars, Fits, MainAt, AlternateAt
      <4> QED BY <4>1, <4>2, <4>5, <4>6, BinderStep
    <3> QED BY <3>1, <3>2
  <2>3. CASE cpc' = cpc /\ cpc \notin MainAt \cup AlternateAt
    BY <2>3
  <2> QED BY <2>1, <2>2, <2>3
<1> QED BY <1>1, <1>2, <1>3, <1>4

\* Every step keeps the implementor the one asked for.
LEMMA StepFollow ==
  /\ FollowInv /\ ReadInv /\ LockInv /\ DevOK /\ PairInv /\ PlainType /\ BinderType
  /\ [Next]_vars
  => FollowInv'
<1> SUFFICES ASSUME FollowInv, ReadInv, LockInv, DevOK, PairInv, PlainType, BinderType,
                    [Next]_vars, Served'
             PROVE  /\ Fits(mHDMIImpl, mHDMIWidth, mHDMIHeight)'
                    /\ Settled' => mHDMIImpl'.scenario = mUsageScenario'
  BY DEF FollowInv, Fits
<1>1. CASE Made
  <2>1. /\ cpc \in AlternateAt /\ mHDMIImpl' = made
        /\ cpc' = "chPlug" <=> cpc = "chAlt"
        /\ cpc' = "scOn" <=> cpc = "scAlt"
        /\ UNCHANGED <<flagVars, configVars, binderVars, lost>>
    BY <1>1 DEF Made, CGoto, AlternateAt, notComposer
  <2>2. Serving /\ (Settled' => Settling)
    BY <2>1 DEF Served, Serving, Settled, Settling, Dirty, flagVars, binderVars, AlternateAt,
                ReplacedAt
  <2> QED BY <2>1, <2>2 DEF ReadInv, Fits, configVars
<1>2. CASE ReadArgument
  <2>1. /\ UNCHANGED <<cpc, implVars, flagVars, configVars, binderVars>>
        /\ UNCHANGED lost \/ cpc \in MainAt
    BY <1>2 DEF ReadArgument, MainAt, PlainType
  <2>2. Served
    BY <2>1 DEF Served, Dirty, flagVars, binderVars
  <2>3. Settled' => Settled
    <3>1. CASE UNCHANGED lost
      BY <2>1, <3>1 DEF Settled, flagVars
    <3>2. CASE cpc \in MainAt
      BY <2>1, <2>2, <3>2 DEF flagVars, Served, LockInv, ChangeAt, ScenarioAt, MainAt, ReplacedAt, Settled
    <3> QED BY <2>1, <3>1, <3>2
  <2> QED BY <2>1, <2>2, <2>3 DEF FollowInv, Fits, implVars, configVars
<1>3. CASE ~Made /\ ~ReadArgument
  <2>1. mHDMIImpl'.scenario = mHDMIImpl.scenario /\ mHDMIImpl'.w = mHDMIImpl.w
        /\ mHDMIImpl'.h = mHDMIImpl.h
    BY <1>3, ImplKept DEF Same
  <2>2. ASSUME UNCHANGED <<mHDMIWidth, mHDMIHeight>>, Served,
               Settled' => Settled /\ UNCHANGED mUsageScenario
        PROVE  /\ Fits(mHDMIImpl, mHDMIWidth, mHDMIHeight)'
               /\ Settled' => mHDMIImpl'.scenario = mUsageScenario'
    BY <2>1, <2>2 DEF FollowInv, Fits
  <2>3. CASE \E b \in Binders : Binder(b)
    <3> PICK b \in Binders : Binder(b)
      BY <2>3
    <3>1. ~Dirty' /\ UNCHANGED cpc
      BY BinderStep DEF Served
    <3>2. ~(mChangingImpl' /\ ~mChangeImplLock)
      BY <3>1 DEF Served, LockInv, ChangeAt, ReplacedAt
    <3>3. ~Dirty /\ UNCHANGED <<mHDMIWidth, mHDMIHeight, mChangingImpl>>
      BY <3>1, <3>2, BinderStep
    <3>4. Served
      BY <3>1, <3>3 DEF Served
    <3>5. Settled' => Settled /\ UNCHANGED mUsageScenario
      <4>1. CASE UNCHANGED <<mUsageScenario, lost>> /\ (mChangingScenario => mChangingScenario')
        BY <3>1, <4>1 DEF Settled
      <4>2. CASE lost' = ReadBefore /\ UNCHANGED mChangingScenario
        BY <3>1, <4>2 DEF Settled, ReadBefore
      <4> QED BY <3>1, <3>2, <4>1, <4>2, BinderStep
    <3> QED BY <2>2, <3>3, <3>4, <3>5
  <2>4. CASE \A b \in Binders : ~Binder(b)
    <3>1. UNCHANGED <<mHDMIWidth, mHDMIHeight, mUsageScenario, lost, bpc>>
      BY <1>3, <2>4, Progress DEF configVars, binderVars
    <3>2. Served
      <4>1. ~Dirty
        BY <3>1 DEF Served, Dirty
      <4>2. mChangingImpl => cpc \in ReplacedAt
        <5>1. CASE ImplChanged
          BY <5>1 DEF ImplChanged, CGoto, ReplacedAt
        <5>2. CASE UNCHANGED mChangingImpl
          BY <1>3, <2>4, <5>2, Progress DEF Served
        <5> QED BY <1>3, <2>4, <5>1, <5>2, Progress
      <4> QED BY <4>1, <4>2 DEF Served
    <3>3. Settled' => Settled
      BY <1>3, <2>4, <3>1, Progress DEF Settled, ScenarioChanged, CGoto
    <3> QED BY <2>2, <3>1, <3>2, <3>3
  <2> QED BY <2>3, <2>4
<1> QED BY <1>1, <1>2, <1>3

-----------------------------------------------------------------------------
(* The composer and the cable.                                             *)

\* What was untidy stays so.
LEMMA Untidy ==
  ASSUME [Next]_vars, ~untidy'
  PROVE  ~untidy
BY DEF Next, vars, Composer, hwc_prepare, hwc_set, IfScenario, ReadArgument, MakeMain,
       CreateScenario, ScenarioChanged, IfChange, Replace, IfConnected, ImplChanged, Plug,
       handleHDMIEvent, Hotplug, Binder, handleUsageScenarioChanged, handleResolutionChanged,
       handleScreenDownSizingChanged, RaiseChanging, notBinder, history

\* The steps that are about neither the cable nor the places of a replacement
\* in which it is taken for pulled.
LEMMA CableApart ==
  ASSUME [Next]_vars, ~Plug, ~handleHDMIEvent, ~IfChange, ~IfConnected
  PROVE  /\ UNCHANGED <<cable, uevents, mHDMIPlugged, stale>>
         /\ UNCHANGED hpc \/ {hpc, hpc'} \cap {"plug", "unplug"} = {}
         /\ cpc' \in UnreadAt <=> cpc \in UnreadAt
         /\ cpc' = "chSet" <=> cpc = "chSet"
<1> USE DEF CGoto, UnreadAt, PulledAt, cableVars, history
<1>1. CASE Composer
  <2>1. CASE hwc_prepare \/ hwc_set \/ IfScenario \/ ScenarioChanged \/ ImplChanged
    BY <2>1 DEF hwc_prepare, hwc_set, IfScenario, ScenarioChanged, ImplChanged, notComposer
  <2>2. CASE ReadArgument \/ MakeMain
    BY <2>2 DEF ReadArgument, MakeMain, notComposer
  <2>3. CASE CreateScenario \/ Replace
    BY <2>3 DEF CreateScenario, Replace, Create, notComposer
  <2>4. CASE /\ UseAlternate \/ UseOriginal \/ SetImpl \/ RenderImpl
             /\ Frame
    BY <2>4 DEF Frame, UseAlternate, UseOriginal, SetImpl, RenderImpl, notComposer,
                EnableMain, DisableMain, EnableAlternate, DisableAlternate
  <2>5. CASE changeUsageScenario /\ Frame
    BY <2>5 DEF Frame, changeUsageScenario, notComposer, EnableMain, DisableMain,
                DisableAlternate
  <2>6. CASE changeHDMIImpl /\ Frame
    BY <2>6 DEF Frame, changeHDMIImpl, notComposer, EnableMain, DisableMain, DisableAlternate
  <2> QED BY <1>1, <2>1, <2>2, <2>3, <2>4, <2>5, <2>6 DEF Composer, Frame
<1>2. CASE Hotplug
  <2>1. UNCHANGED <<notHot, cableVars, mHDMIPlugged, stale>>
    BY <1>2 DEF Hotplug
  <2>2. {hpc, hpc'} \cap {"plug", "unplug"} = {}
    BY <1>2 DEF Hotplug
  <2> QED BY <2>1, <2>2 DEF notHot
<1>3. CASE \E b \in Binders : Binder(b)
  BY <1>3 DEF Binder, handleUsageScenarioChanged, handleResolutionChanged,
              handleScreenDownSizingChanged, RaiseChanging, notBinder
<1>4. CASE UNCHANGED vars
  BY <1>4 DEF vars
<1> QED BY <1>1, <1>2, <1>3, <1>4 DEF Next

\* The event that is taken when it is the last one tells of the cable.
LEMMA LastEvent ==
  ASSUME NEW q \in Seq(BOOLEAN), q # <<>>
  PROVE  /\ Head(q) \in BOOLEAN /\ Tail(q) \in Seq(BOOLEAN)
         /\ Tail(q) # <<>> => Tail(q)[Len(Tail(q))] = q[Len(q)]
         /\ Tail(q) = <<>> => Head(q) = q[Len(q)]
<1>1. /\ Head(q) \in BOOLEAN /\ Tail(q) \in Seq(BOOLEAN) /\ Len(Tail(q)) = Len(q) - 1
      /\ Head(q) = q[1]
      /\ \A k \in 1 .. Len(Tail(q)) : Tail(q)[k] = q[k + 1]
  BY HeadTailProperties
<1>2. Len(q) \in Nat /\ Len(q) > 0
  BY LenProperties, EmptySeq
<1>3. Tail(q) # <<>> => Len(Tail(q)) \in 1 .. Len(Tail(q))
  BY <1>1, <1>2, EmptySeq
<1>4. Tail(q) = <<>> => Len(q) = 1
  BY <1>1, <1>2
<1> QED BY <1>1, <1>2, <1>3, <1>4

\* Every step keeps the last event one that tells of the cable, and what it
\* told known.
LEMMA StepCable == CableInv /\ PlainType /\ [Next]_vars => CableInv'
<1> SUFFICES ASSUME CableInv, PlainType, [Next]_vars PROVE CableInv'
  OBVIOUS
<1>a. /\ uevents \in Seq(BOOLEAN) /\ cable \in BOOLEAN /\ mHDMIPlugged \in BOOLEAN
  BY DEF PlainType
<1>b. ~untidy' => ~untidy
  BY Untidy
<1>1. CASE Plug
  <2>1. /\ Len(Append(uevents, ~cable)) = Len(uevents) + 1 /\ Len(uevents) \in Nat
        /\ Append(uevents, ~cable)[Len(uevents) + 1] = ~cable /\ Append(uevents, ~cable) # <<>>
    BY <1>a, AppendProperties, LenProperties
  <2>2. uevents'[Len(uevents')] = cable' /\ uevents' # <<>>
    BY <1>1, <2>1 DEF Plug
  <2>3. UNCHANGED <<mHDMIPlugged, cpc>>
    BY <1>1 DEF Plug, notHot
  <2> QED BY <1>b, <2>2, <2>3 DEF CableInv, PulledAt
<1>2. CASE handleHDMIEvent
  <2>0. /\ UNCHANGED <<cable, cpc>> /\ (~untidy' => cpc = "idle")
    BY <1>2 DEF handleHDMIEvent, notHot
  <2>1. CASE /\ uevents # <<>> /\ uevents' = Tail(uevents)
             /\ hpc' = IF Head(uevents) = mHDMIPlugged THEN "idle"
                       ELSE IF Head(uevents) THEN "plug" ELSE "unplug"
             /\ stale' = (cpc = "chSet" /\ ~Head(uevents))
             /\ UNCHANGED mHDMIPlugged
    <3>1. /\ Head(uevents) \in BOOLEAN
          /\ uevents' # <<>> => uevents'[Len(uevents')] = cable
          /\ uevents' = <<>> => Head(uevents) = cable
      BY <1>a, <2>1, LastEvent DEF CableInv
    <3> QED BY <1>a, <2>0, <2>1, <3>1 DEF CableInv, PulledAt
  <2>2. CASE /\ hpc = "plug" /\ hpc' = "enable" /\ mHDMIPlugged' = TRUE
             /\ UNCHANGED <<uevents, stale>>
    BY <1>a, <2>0, <2>2 DEF CableInv, PulledAt
  <2>3. CASE /\ hpc = "unplug" /\ hpc' = "disable" /\ mHDMIPlugged' = FALSE
             /\ UNCHANGED <<uevents, stale>>
    BY <1>a, <2>0, <2>3 DEF CableInv, PulledAt
  <2> QED BY <1>2, <2>1, <2>2, <2>3 DEF handleHDMIEvent
<1>3. CASE IfChange
  <2>1. /\ UNCHANGED <<cable, uevents, hpc, stale, untidy>> /\ cpc = "change"
        /\ \/ cpc' \in {"chOff", "chNew"} /\ mHDMIPlugged' = FALSE
           \/ cpc' = "idle" /\ UNCHANGED mHDMIPlugged
    BY <1>3 DEF IfChange, notComposer, cableVars, history
  <2> QED BY <1>a, <2>1 DEF CableInv, PulledAt, UnreadAt
<1>4. CASE IfConnected
  <2>0. UNCHANGED <<cable, uevents, hpc, untidy>>
    BY <1>4 DEF IfConnected, notComposer, cableVars
  <2>1. CASE /\ cpc = "chPlug" /\ cpc' = (IF cable THEN "chSet" ELSE "chEnd")
             /\ UNCHANGED mHDMIPlugged
    BY <1>a, <2>0, <2>1 DEF CableInv, PulledAt, UnreadAt
  <2>2. CASE cpc = "chSet" /\ cpc' = "chOn" /\ mHDMIPlugged' = TRUE /\ UNCHANGED stale
    BY <1>a, <2>0, <2>2 DEF CableInv, PulledAt, UnreadAt
  <2> QED BY <1>4, <2>1, <2>2 DEF IfConnected, CGoto
<1>5. CASE ~Plug /\ ~handleHDMIEvent /\ ~IfChange /\ ~IfConnected
  <2>1. cpc' \in PulledAt <=> cpc \in PulledAt
    BY <1>5, CableApart DEF UnreadAt, PulledAt
  <2>2. /\ UNCHANGED <<cable, uevents, mHDMIPlugged, stale>>
        /\ cpc' \in UnreadAt <=> cpc \in UnreadAt
        /\ cpc' = "chSet" <=> cpc = "chSet"
    BY <1>5, CableApart
  <2>3. hpc' = "plug" <=> hpc = "plug"
    BY <1>5, CableApart
  <2>4. hpc' = "unplug" <=> hpc = "unplug"
    BY <1>5, CableApart
  <2> QED BY <1>b, <2>1, <2>2, <2>3, <2>4 DEF CableInv
<1> QED BY <1>1, <1>2, <1>3, <1>4, <1>5

\* What handleHDMIEvent does with an event depends on what is known.
LEMMA EventTaken ==
  ASSUME handleHDMIEvent, PlainType
  PROVE  \/ /\ hpc = "idle" /\ UNCHANGED mHDMIPlugged
            /\ hpc' \in {"idle", IF mHDMIPlugged THEN "unplug" ELSE "plug"}
         \/ hpc = "plug" /\ hpc' = "enable" /\ mHDMIPlugged' = TRUE
         \/ hpc = "unplug" /\ hpc' = "disable" /\ mHDMIPlugged' = FALSE
<1>1. uevents # <<>> => Head(uevents) \in BOOLEAN
  BY HeadTailProperties DEF PlainType
<1>2. mHDMIPlugged \in BOOLEAN
  BY DEF PlainType
<1> QED BY <1>1, <1>2 DEF handleHDMIEvent

\* SurfaceFlinger and the composing thread agree with the uevent thread.
LEMMA StepPlug ==
  PlugInv /\ CableInv /\ DevOK /\ PairInv /\ PlainType /\ [Next]_vars => PlugInv'
<1> SUFFICES ASSUME PlugInv, CableInv, DevOK, PairInv, PlainType, [Next]_vars, ~untidy'
             PROVE  PlugInv'
  BY DEF PlugInv
<1>a. ~untidy
  BY Untidy
<1>b. {mHDMIPlugged, mUseHDMIAlternate, mChangeHDMIImpl, contents, cable, connected}
        \subseteq BOOLEAN
  BY DEF PlainType
<1>c. Made \/ (mHDMIAlternateImpl'.gone <=> mHDMIAlternateImpl.gone)
  BY ImplKept
<1> USE DEF CGoto, implVars, flagVars
<1>0. CASE ReadArgument \/ MakeMain
  <2>1. /\ UNCHANGED <<hpc, mHDMIPlugged, connected, contents, implVars>>
        /\ UNCHANGED cpc \/ (cpc \in {"scNew", "chNew"} /\ cpc' \in {"scAlt", "chAlt"})
    BY <1>0 DEF ReadArgument, MakeMain, notComposer
  <2> QED BY <1>a, <1>b, <2>1 DEF PlugInv, SwapAt
<1>1. CASE hwc_prepare
  <2>1. PICK list \in BOOLEAN, cannot \in BOOLEAN :
          /\ contents' = list /\ (list => connected)
          /\ IF list /\ ~mHDMIAlternateImpl.gone /\ cannot # mUseHDMIAlternate
             THEN mChangeHDMIImpl' = TRUE /\ mUseHDMIAlternate' = cannot
             ELSE UNCHANGED <<mChangeHDMIImpl, mUseHDMIAlternate>>
    BY <1>1 DEF hwc_prepare
  <2>2. /\ cpc = "idle" /\ cpc' = "set" /\ hpc = "idle"
        /\ UNCHANGED <<hpc, mHDMIPlugged, connected, mHDMIAlternateImpl>>
    BY <1>1 DEF hwc_prepare, notComposer
  <2>3. connected = mHDMIPlugged /\ ~mChangeHDMIImpl
    BY <1>a, <1>b, <2>2 DEF PlugInv, SwapAt
  <2> QED BY <1>a, <1>b, <2>1, <2>2, <2>3 DEF PlugInv, SwapAt
<1>2. CASE hwc_set
  <2>1. /\ cpc = "set"
        /\ cpc' = IF ~(contents /\ mHDMIPlugged) THEN "scenario"
                  ELSE IF ~mChangeHDMIImpl THEN "show"
                  ELSE IF mHDMIAlternateImpl.gone THEN "crashed"
                  ELSE IF mUseHDMIAlternate THEN "mainOff" ELSE "altOff"
        /\ UNCHANGED <<hpc, mHDMIPlugged, connected, mHDMIAlternateImpl, mUseHDMIAlternate,
                       mChangeHDMIImpl>>
    BY <1>2 DEF hwc_set, notComposer
  <2> QED BY <1>a, <1>b, <2>1 DEF PlugInv, SwapAt
<1>3. CASE IfScenario \/ ScenarioChanged \/ ImplChanged
  <2>1. /\ cpc \in {"scenario", "scEnd", "chEnd"} /\ cpc' \in {"scOff", "change", "idle"}
        /\ UNCHANGED <<hpc, mHDMIPlugged, connected, mHDMIAlternateImpl, mUseHDMIAlternate,
                       mChangeHDMIImpl, contents>>
    BY <1>3 DEF IfScenario, ScenarioChanged, ImplChanged, notComposer
  <2> QED BY <1>a, <1>b, <2>1 DEF PlugInv, SwapAt
<1>4. CASE IfChange
  <2>1. /\ UNCHANGED <<hpc, connected, mHDMIAlternateImpl, mUseHDMIAlternate,
                       mChangeHDMIImpl, contents>>
        /\ cpc = "change"
        /\ \/ cpc' = "chOff" /\ mHDMIPlugged' = FALSE
           \/ cpc' = "chNew" /\ ~mHDMIPlugged /\ mHDMIPlugged' = FALSE
           \/ cpc' = "idle" /\ UNCHANGED mHDMIPlugged
    BY <1>4 DEF IfChange, notComposer
  <2> QED BY <1>a, <1>b, <2>1 DEF PlugInv, SwapAt
<1>5. CASE Replace
  <2>1. /\ UNCHANGED <<hpc, mHDMIPlugged, connected, mChangeHDMIImpl, contents>>
        /\ cpc = "chAlt" /\ cpc' = "chPlug" /\ mUseHDMIAlternate' = FALSE
    BY <1>5 DEF Replace, Create, notComposer
  <2>2. ~mChangeHDMIImpl
    BY <1>a, <2>1 DEF PlugInv, SwapAt
  <2> QED BY <1>a, <1>b, <2>1, <2>2 DEF PlugInv, SwapAt
<1>6. CASE IfConnected
  <2>1. /\ UNCHANGED <<hpc, connected, mHDMIAlternateImpl, mUseHDMIAlternate,
                       mChangeHDMIImpl, contents>>
        /\ \/ cpc = "chPlug" /\ cpc' \in {"chSet", "chEnd"} /\ UNCHANGED mHDMIPlugged
           \/ cpc = "chSet" /\ cpc' = "chOn" /\ mHDMIPlugged' = TRUE
    BY <1>6 DEF IfConnected, notComposer
  <2> QED BY <1>a, <1>b, <2>1 DEF PlugInv, SwapAt
<1>7. CASE /\ UseAlternate \/ UseOriginal
           /\ UNCHANGED connected /\ Frame
  <2>1. UNCHANGED <<hpc, mHDMIPlugged, connected, contents>>
    BY <1>7 DEF Frame, notComposer
  <2>2. /\ mHDMIAlternateImpl'.gone <=> mHDMIAlternateImpl.gone
        /\ UNCHANGED mUseHDMIAlternate
    BY <1>7, <1>c DEF UseAlternate, UseOriginal, EnableMain, DisableMain, EnableAlternate,
                      DisableAlternate, Made
  <2>3. \/ cpc \in SwapAt /\ cpc' \in SwapAt /\ UNCHANGED mChangeHDMIImpl
        \/ cpc \in SwapAt /\ cpc' = "scenario" /\ mChangeHDMIImpl' = FALSE
    BY <1>7 DEF UseAlternate, UseOriginal, EnableMain, DisableMain, EnableAlternate,
                DisableAlternate, SwapAt
  <2> QED BY <1>a, <1>b, <2>1, <2>2, <2>3 DEF PlugInv, SwapAt
<1>8. CASE /\ SetImpl \/ RenderImpl
           /\ UNCHANGED connected /\ Frame
  <2>1. /\ UNCHANGED <<hpc, mHDMIPlugged, connected, contents, mUseHDMIAlternate, mChangeHDMIImpl>>
        /\ \/ cpc = "show" /\ cpc' = "render"
           \/ cpc = "render" /\ cpc' = "scenario"
    BY <1>8 DEF Frame, notComposer, SetImpl, RenderImpl
  <2> QED BY <1>a, <1>b, <2>1 DEF PlugInv, SwapAt
<1>9. CASE (changeUsageScenario /\ UNCHANGED connected /\ Frame) \/ CreateScenario
  <2>1. UNCHANGED <<hpc, mHDMIPlugged, connected, contents>>
    BY <1>9 DEF Frame, CreateScenario, notComposer
  <2>2. /\ cpc \in {"scOff", "scAltOff", "scAlt", "scOn"}
        /\ cpc' \in {"scAltOff", "scNew", "scOn", "scEnd"}
        /\ mChangeHDMIImpl' \in {mChangeHDMIImpl, FALSE}
    BY <1>9 DEF changeUsageScenario, CreateScenario, EnableMain, DisableMain, DisableAlternate,
                Create
  <2> QED BY <1>a, <1>b, <2>1, <2>2 DEF PlugInv, SwapAt
<1>10. CASE changeHDMIImpl /\ UNCHANGED mChangeHDMIImpl /\ Frame
  <2>1. UNCHANGED <<hpc, mHDMIPlugged, contents, mChangeHDMIImpl>>
    BY <1>10 DEF Frame, notComposer
  <2>2. \/ cpc = "chOff" /\ cpc' = "chAltOff" /\ UNCHANGED connected
        \/ cpc = "chAltOff" /\ cpc' = "chNew" /\ connected' = FALSE
        \/ cpc = "chOn" /\ cpc' = "chEnd" /\ connected' = TRUE
    BY <1>10 DEF changeHDMIImpl, EnableMain, DisableMain, DisableAlternate
  <2>3. cpc \in PulledAt => ~mHDMIPlugged
    BY <1>a DEF CableInv
  <2> QED BY <1>a, <1>b, <2>1, <2>2, <2>3 DEF PlugInv, SwapAt, PulledAt
<1>11. CASE Plug \/ (\E b \in Binders : Binder(b)) \/ UNCHANGED vars
  <2>1. UNCHANGED <<hpc, mHDMIPlugged, connected, contents, mUseHDMIAlternate, mChangeHDMIImpl,
                    cpc, mHDMIAlternateImpl>>
    BY <1>11 DEF Plug, notHot, vars, Binder, handleUsageScenarioChanged, handleResolutionChanged,
                 handleScreenDownSizingChanged, RaiseChanging, notBinder
  <2> QED BY <1>a, <2>1 DEF PlugInv
<1>12. CASE handleHDMIEvent
  <2>1. /\ UNCHANGED <<connected, contents, mUseHDMIAlternate, mChangeHDMIImpl, cpc,
                       mHDMIAlternateImpl>>
        /\ cpc = "idle" /\ ~mUseHDMIAlternate
        /\ \/ /\ hpc = "idle" /\ UNCHANGED mHDMIPlugged
              /\ hpc' \in {"idle", IF mHDMIPlugged THEN "unplug" ELSE "plug"}
           \/ hpc = "plug" /\ hpc' = "enable" /\ mHDMIPlugged' = TRUE
           \/ hpc = "unplug" /\ hpc' = "disable" /\ mHDMIPlugged' = FALSE
    BY <1>12, EventTaken DEF handleHDMIEvent, notHot
  <2> QED BY <1>a, <1>b, <2>1 DEF PlugInv, SwapAt
<1>13. CASE Hotplug
  <2>1. /\ UNCHANGED <<contents, mUseHDMIAlternate, mChangeHDMIImpl, cpc, mHDMIPlugged>>
        /\ cpc = "idle"
        /\ \/ hpc \in {"enable", "disableAlt"} /\ hpc' = "idle" /\ connected' = mHDMIPlugged
           \/ hpc = "disable" /\ hpc' = "disableAlt" /\ UNCHANGED connected
    BY <1>13 DEF Hotplug, notHot
  <2> QED BY <1>a, <1>b, <2>1 DEF PlugInv, SwapAt
<1> QED BY <1>0, <1>1, <1>2, <1>3, <1>4, <1>5, <1>6, <1>7, <1>8, <1>9, <1>10, <1>11, <1>12, <1>13
        DEF Next, Composer, Frame

-----------------------------------------------------------------------------
(* The lights.                                                             *)

LightsSame == /\ MainEnabled' <=> MainEnabled
              /\ AltEnabled' <=> AltEnabled
              /\ Lit' = Lit /\ links' = links
LightsMainOn == /\ MainEnabled'
                /\ AltEnabled' <=> AltEnabled
                /\ ~AltEnabled /\ links = Lit => links' = Lit'
LightsMainOff == /\ ~MainEnabled'
                 /\ AltEnabled' <=> AltEnabled
                 /\ (MainEnabled => ~AltEnabled) /\ links \subseteq Lit => links' \subseteq Lit'
                 /\ ~AltEnabled /\ links = Lit => links' = Lit'
LightsAltOn == /\ AltEnabled'
               /\ MainEnabled' <=> MainEnabled
               /\ ~MainEnabled /\ links = Lit => links' = Lit'
LightsAltOff == /\ ~AltEnabled'
                /\ MainEnabled' <=> MainEnabled
                /\ ~MainEnabled /\ links \subseteq Lit => links' = Lit'
LightsMade == /\ ~MainEnabled' /\ ~AltEnabled'
              /\ ~MainEnabled /\ ~AltEnabled /\ links = Lit => links' = Lit'

\* What the methods do to the lights.
LEMMA Lights ==
  ASSUME DevOK, ConfigType, MakeInv
  PROVE  /\ Still => LightsSame
         /\ MainOn => LightsMainOn
         /\ MainOff => LightsMainOff
         /\ AltOn => LightsAltOn
         /\ AltOff => LightsAltOff
         /\ Made => LightsMade
<1>a. mHDMIImpl \in Impls /\ (~mHDMIAlternateImpl.gone => mHDMIAlternateImpl \in Impls)
  BY AlternateThere DEF DevOK
<1>c. ASSUME NEW i \in Impls, NEW j, Same(i, j) PROVE Link(j) = Link(i) /\ j.gone = FALSE
  BY <1>c DEF Same, Link, Impls
<1>1. ASSUME Still PROVE LightsSame
  BY <1>1 DEF Still, LightsSame, MainEnabled, AltEnabled, Lit
<1>2. ASSUME MainOn PROVE LightsMainOn
  <2>1. mHDMIImpl'.mEnabled /\ Link(mHDMIImpl') = Link(mHDMIImpl)
    BY <1>2, <1>a, <1>c, EnabledMade DEF MainOn
  <2>2. links' = IF MainEnabled THEN links ELSE links \cup {Link(mHDMIImpl)}
    BY <1>2 DEF MainOn, EnableLinks, MainEnabled
  <2>3. MainEnabled' /\ (AltEnabled' <=> AltEnabled) /\ Lit' = {Link(mHDMIImpl)}
    BY <1>2, <2>1 DEF MainOn, MainEnabled, AltEnabled, Lit
  <2> QED BY <2>2, <2>3 DEF LightsMainOn, Lit
<1>3. ASSUME MainOff PROVE LightsMainOff
  <2>1. ~mHDMIImpl'.mEnabled
    BY <1>3, <1>a, DisabledMade DEF MainOff
  <2>2. /\ links' \subseteq links
        /\ MainEnabled => Link(mHDMIImpl) \notin links'
    BY <1>3 DEF MainOff, DisableLinks, Idle, MainEnabled
  <2>3. /\ ~MainEnabled' /\ (AltEnabled' <=> AltEnabled)
        /\ Lit' = IF AltEnabled THEN {Link(mHDMIAlternateImpl)} ELSE {}
    BY <1>3, <2>1 DEF MainOff, MainEnabled, AltEnabled, Lit
  <2> QED BY <2>2, <2>3 DEF LightsMainOff, Lit
<1>4. ASSUME AltOn PROVE LightsAltOn
  <2>1. /\ mHDMIAlternateImpl'.mEnabled /\ ~mHDMIAlternateImpl'.gone
        /\ Link(mHDMIAlternateImpl') = Link(mHDMIAlternateImpl)
    BY <1>4, <1>a, <1>c, EnabledMade DEF AltOn
  <2>2. links' = IF AltEnabled THEN links ELSE links \cup {Link(mHDMIAlternateImpl)}
    BY <1>4 DEF AltOn, EnableLinks, AltEnabled
  <2>3. /\ AltEnabled' /\ (MainEnabled' <=> MainEnabled)
        /\ ~MainEnabled => Lit' = {Link(mHDMIAlternateImpl)}
    BY <1>4, <2>1 DEF AltOn, MainEnabled, AltEnabled, Lit
  <2> QED BY <2>2, <2>3 DEF LightsAltOn, Lit
<1>5. ASSUME AltOff PROVE LightsAltOff
  <2>1. ~mHDMIAlternateImpl'.mEnabled
    BY <1>5, <1>a, DisabledMade DEF AltOff
  <2>2. /\ links' \subseteq links
        /\ AltEnabled => Link(mHDMIAlternateImpl) \notin links'
    BY <1>5 DEF AltOff, DisableLinks, Idle, AltEnabled
  <2>3. /\ ~AltEnabled' /\ (MainEnabled' <=> MainEnabled)
        /\ ~MainEnabled => Lit' = {}
    BY <1>5, <2>1 DEF AltOff, MainEnabled, AltEnabled, Lit
  <2> QED BY <2>2, <2>3 DEF LightsAltOff, Lit
<1>6. ASSUME Made PROVE LightsMade
  <2>1. ~made.mEnabled
    BY <1>6 DEF Made, CGoto, MakeInv, AlternateAt, Fresh
  <2>2. ~mHDMIImpl'.mEnabled /\ (mHDMIAlternateImpl'.gone \/ ~mHDMIAlternateImpl'.mEnabled)
    BY <1>6, <2>1, CreateMade DEF Made, ConfigType, Fresh
  <2>3. links' = links
    BY <1>6 DEF Made, devVars
  <2> QED BY <2>2, <2>3 DEF LightsMade, Lit, MainEnabled, AltEnabled
<1> QED BY <1>1, <1>2, <1>3, <1>4, <1>5, <1>6

\* Configuring and rendering switch nothing.
LEMMA LightsShown ==
  ASSUME DevOK, PairInv, SetImpl \/ RenderImpl
  PROVE  LightsSame
<1>a. /\ mHDMIImpl \in Impls /\ queued \in Seq(0 .. 2) /\ NoDup(queued)
      /\ ~mHDMIAlternateImpl.gone => mHDMIAlternateImpl \in Impls
  BY AlternateThere DEF DevOK
<1> DEFINE Like(i, j) == Same(i, j) /\ j.mEnabled = i.mEnabled
<1>b. \A i \in Impls : i.gone = FALSE /\ Like(i, i)
  BY DEF Impls, Same
<1>c. \A i \in Impls : Like(i, [i EXCEPT !.mHDMIConfigured = TRUE])
  BY ConfiguredMade
<1>d. \A i \in Impls : Like(i, render(i, queued).i)
  BY <1>a, RenderMade DEF Kept, Same
<1>e. ASSUME NEW i \in Impls, NEW j, Like(i, j) PROVE Link(j) = Link(i) /\ j.gone = FALSE
  BY <1>e DEF Same, Link, Impls
<1> HIDE DEF Like
<1>1. \/ Like(mHDMIImpl, mHDMIImpl') /\ UNCHANGED mHDMIAlternateImpl
      \/ /\ ~mHDMIAlternateImpl.gone /\ Like(mHDMIAlternateImpl, mHDMIAlternateImpl')
         /\ UNCHANGED mHDMIImpl
  <2>1. CASE SetImpl
    BY <1>a, <1>c, <2>1 DEF SetImpl, PairInv
  <2>2. CASE RenderImpl
    BY <1>a, <1>b, <1>d, <2>2 DEF RenderImpl, PairInv
  <2> QED BY <2>1, <2>2
<1>2. links' = links
  BY DEF SetImpl, RenderImpl
<1>3. /\ Link(mHDMIImpl') = Link(mHDMIImpl) /\ mHDMIImpl'.mEnabled = mHDMIImpl.mEnabled
      /\ mHDMIAlternateImpl'.gone <=> mHDMIAlternateImpl.gone
      /\ ~mHDMIAlternateImpl.gone =>
           /\ Link(mHDMIAlternateImpl') = Link(mHDMIAlternateImpl)
           /\ mHDMIAlternateImpl'.mEnabled = mHDMIAlternateImpl.mEnabled
  BY <1>1, <1>a, <1>b, <1>e DEF Like
<1> QED BY <1>2, <1>3 DEF LightsSame, Lit, MainEnabled, AltEnabled

\* Swaps, replacements and the cable leave the implementor in use lit.
LEMMA StepLight ==
  /\ LightInv /\ PlugInv /\ CableInv /\ DevOK /\ PairInv /\ PlainType /\ ConfigType /\ MakeInv
  /\ [Next]_vars
  => LightInv'
<1> SUFFICES ASSUME LightInv, PlugInv, CableInv, DevOK, PairInv, PlainType, ConfigType,
                    MakeInv, [Next]_vars, ~untidy'
             PROVE  LightInv'
  BY DEF LightInv
<1>a. ~untidy
  BY Untidy
<1>b. {mHDMIPlugged, mUseHDMIAlternate, mChangeHDMIImpl, contents, cable, connected}
        \subseteq BOOLEAN
  BY DEF PlainType
<1>d. /\ Still => LightsSame
      /\ MainOn => LightsMainOn
      /\ MainOff => LightsMainOff
      /\ AltOn => LightsAltOn
      /\ AltOff => LightsAltOff
      /\ Made => LightsMade
      /\ SetImpl \/ RenderImpl => LightsSame
  BY Lights, LightsShown
<1>e. /\ hpc # "idle" => cpc = "idle" /\ ~mUseHDMIAlternate
      /\ mChangeHDMIImpl => cpc \in SwapAt \cup {"set"} /\ mHDMIPlugged
      /\ cpc \in SwapAt => mChangeHDMIImpl
      /\ hpc \in {"plug", "disable", "disableAlt"} => ~mHDMIPlugged
      /\ hpc \in {"enable", "unplug"} => mHDMIPlugged
      /\ cpc \in PulledAt => ~mHDMIPlugged
      /\ cpc \in {"show", "render", "chOn"} => mHDMIPlugged
      /\ cpc \in SwapAt => (mUseHDMIAlternate <=> cpc \in {"mainOff", "altOn"})
  BY <1>a DEF PlugInv, CableInv, PairInv
<1> USE DEF CGoto, implVars, flagVars
<1>0. CASE ReadArgument \/ MakeMain
  <2>1. /\ UNCHANGED <<hpc, mHDMIPlugged, mUseHDMIAlternate, mChangeHDMIImpl>> /\ Still
        /\ \/ UNCHANGED cpc
           \/ cpc = "scNew" /\ cpc' = "scAlt"
           \/ cpc = "chNew" /\ cpc' = "chAlt"
    BY <1>0 DEF ReadArgument, MakeMain, notComposer, devVars, Still
  <2> QED BY <1>a, <1>d, <2>1 DEF LightInv, LightsSame
<1>1. CASE hwc_prepare
  <2>1. PICK list \in BOOLEAN, cannot \in BOOLEAN :
          /\ contents' = list /\ (list => connected)
          /\ IF list /\ ~mHDMIAlternateImpl.gone /\ cannot # mUseHDMIAlternate
             THEN mChangeHDMIImpl' = TRUE /\ mUseHDMIAlternate' = cannot
             ELSE UNCHANGED <<mChangeHDMIImpl, mUseHDMIAlternate>>
    BY <1>1 DEF hwc_prepare
  <2>2. /\ cpc = "idle" /\ cpc' = "set" /\ hpc = "idle"
        /\ UNCHANGED <<hpc, mHDMIPlugged, connected>> /\ Still
    BY <1>1 DEF hwc_prepare, notComposer, devVars, Still
  <2>3. connected = mHDMIPlugged /\ ~mChangeHDMIImpl
    BY <1>a, <1>b, <2>2 DEF PlugInv, SwapAt
  <2>4. /\ mUseHDMIAlternate' # mChangeHDMIImpl' <=> mUseHDMIAlternate # mChangeHDMIImpl
        /\ ~mHDMIPlugged => UNCHANGED mUseHDMIAlternate
    BY <1>b, <2>1, <2>3
  <2> QED BY <1>a, <1>b, <1>d, <2>2, <2>3, <2>4 DEF LightInv, LightsSame
<1>2. CASE hwc_set
  <2>1. /\ cpc = "set" /\ UNCHANGED <<hpc, mHDMIPlugged, mUseHDMIAlternate, mChangeHDMIImpl>>
        /\ cpc' \in {"scenario", "show", "crashed", "mainOff", "altOff"} /\ Still
    BY <1>2 DEF hwc_set, notComposer, devVars, Still
  <2> QED BY <1>a, <1>d, <2>1 DEF LightInv, LightsSame
<1>3. CASE IfScenario \/ ScenarioChanged \/ ImplChanged
  <2>1. /\ UNCHANGED <<hpc, mHDMIPlugged, mUseHDMIAlternate, mChangeHDMIImpl>> /\ Still
        /\ \/ cpc = "scenario" /\ cpc' \in {"scOff", "change"}
           \/ cpc = "scEnd" /\ cpc' = "change"
           \/ cpc = "chEnd" /\ cpc' = "idle"
    BY <1>3 DEF IfScenario, ScenarioChanged, ImplChanged, notComposer, devVars, Still
  <2> QED BY <1>a, <1>b, <1>d, <1>e, <2>1 DEF LightInv, LightsSame, SwapAt
<1>4. CASE IfChange
  <2>1. /\ UNCHANGED <<hpc, mUseHDMIAlternate, mChangeHDMIImpl>> /\ Still
        /\ cpc = "change"
        /\ \/ cpc' = "chOff" /\ mHDMIPlugged' = FALSE
           \/ cpc' = "chNew" /\ ~mHDMIPlugged /\ mHDMIPlugged' = FALSE
           \/ cpc' = "idle" /\ UNCHANGED mHDMIPlugged
    BY <1>4 DEF IfChange, notComposer, devVars, Still
  <2> QED BY <1>a, <1>b, <1>d, <1>e, <2>1 DEF LightInv, LightsSame
<1>5. CASE Replace
  <2>1. /\ UNCHANGED <<hpc, mHDMIPlugged, mChangeHDMIImpl>> /\ ~MainEnabled
        /\ cpc = "chAlt" /\ cpc' = "chPlug" /\ mUseHDMIAlternate' = FALSE
    BY <1>5 DEF Replace, Create, notComposer, MainEnabled
  <2>2. Made
    BY <1>5 DEF Replace, Create, Made
  <2>3. ~MainEnabled' /\ ~AltEnabled' /\ links' = Lit'
    BY <1>a, <1>d, <2>1, <2>2 DEF LightInv, LightsMade
  <2> QED BY <1>a, <1>b, <1>e, <2>1, <2>3 DEF LightInv
<1>6. CASE IfConnected
  <2>1. /\ UNCHANGED <<hpc, mUseHDMIAlternate, mChangeHDMIImpl>> /\ Still
        /\ \/ cpc = "chPlug" /\ cpc' \in {"chSet", "chEnd"} /\ UNCHANGED mHDMIPlugged
           \/ cpc = "chSet" /\ cpc' = "chOn" /\ mHDMIPlugged' = TRUE
    BY <1>6 DEF IfConnected, notComposer, devVars, Still
  <2> QED BY <1>a, <1>b, <1>d, <1>e, <2>1 DEF LightInv, LightsSame, PulledAt
<1>7. CASE /\ UseAlternate \/ UseOriginal
           /\ UNCHANGED connected /\ Frame
  <2>1. UNCHANGED <<hpc, mHDMIPlugged, mUseHDMIAlternate>>
    BY <1>7 DEF Frame, notComposer, UseAlternate, UseOriginal, EnableMain, DisableMain,
                EnableAlternate, DisableAlternate
  <2>2. \/ cpc = "mainOff" /\ cpc' = "altOn" /\ MainOff /\ UNCHANGED mChangeHDMIImpl
        \/ cpc = "altOn" /\ cpc' = "scenario" /\ AltOn /\ mChangeHDMIImpl' = FALSE
        \/ cpc = "altOff" /\ cpc' = "mainOn" /\ AltOff /\ UNCHANGED mChangeHDMIImpl
        \/ cpc = "mainOn" /\ cpc' = "scenario" /\ MainOn /\ mChangeHDMIImpl' = FALSE
    BY <1>7 DEF UseAlternate, UseOriginal, EnableMain, DisableMain, EnableAlternate,
                DisableAlternate, MainOn, MainOff, AltOn, AltOff, PairInv, SwapAt
  <2>3. mHDMIPlugged /\ hpc = "idle"
    BY <1>e, <2>2 DEF SwapAt
  <2>4. CASE cpc = "mainOff" /\ cpc' = "altOn" /\ MainOff /\ UNCHANGED mChangeHDMIImpl
    BY <1>a, <1>b, <1>d, <1>e, <2>1, <2>3, <2>4 DEF LightInv, LightsMainOff, SwapAt
  <2>5. CASE cpc = "altOn" /\ cpc' = "scenario" /\ AltOn /\ mChangeHDMIImpl' = FALSE
    BY <1>a, <1>b, <1>d, <1>e, <2>1, <2>3, <2>5 DEF LightInv, LightsAltOn, SwapAt
  <2>6. CASE cpc = "altOff" /\ cpc' = "mainOn" /\ AltOff /\ UNCHANGED mChangeHDMIImpl
    BY <1>a, <1>b, <1>d, <1>e, <2>1, <2>3, <2>6 DEF LightInv, LightsAltOff, SwapAt
  <2>7. CASE cpc = "mainOn" /\ cpc' = "scenario" /\ MainOn /\ mChangeHDMIImpl' = FALSE
    BY <1>a, <1>b, <1>d, <1>e, <2>1, <2>3, <2>7 DEF LightInv, LightsMainOn, SwapAt
  <2> QED BY <2>2, <2>4, <2>5, <2>6, <2>7
<1>8. CASE /\ SetImpl \/ RenderImpl
           /\ UNCHANGED connected /\ Frame
  <2>1. /\ UNCHANGED <<hpc, mHDMIPlugged, mUseHDMIAlternate, mChangeHDMIImpl>>
        /\ \/ cpc = "show" /\ cpc' = "render"
           \/ cpc = "render" /\ cpc' = "scenario"
    BY <1>8 DEF Frame, notComposer, SetImpl, RenderImpl
  <2> QED BY <1>8, <1>a, <1>d, <2>1 DEF LightInv, LightsSame
<1>9. CASE (changeUsageScenario /\ UNCHANGED connected /\ Frame) \/ CreateScenario
  <2>1. UNCHANGED <<hpc, mHDMIPlugged>>
    BY <1>9 DEF Frame, CreateScenario, notComposer
  <2>2. \/ /\ cpc = "scOff" /\ cpc' = "scAltOff" /\ MainOff
           /\ UNCHANGED <<mChangeHDMIImpl, mUseHDMIAlternate>>
        \/ /\ cpc = "scAltOff" /\ cpc' = "scNew"
           /\ AltOff \/ (Still /\ ~AltEnabled)
           /\ UNCHANGED <<mChangeHDMIImpl, mUseHDMIAlternate>>
        \/ /\ cpc = "scAlt" /\ cpc' = "scOn" /\ Made
           /\ mChangeHDMIImpl' = FALSE /\ mUseHDMIAlternate' = FALSE
        \/ /\ cpc = "scOn" /\ cpc' = "scEnd" /\ MainOn
           /\ UNCHANGED <<mChangeHDMIImpl, mUseHDMIAlternate>>
    BY <1>9 DEF changeUsageScenario, CreateScenario, AlternateEnabled, EnableMain, DisableMain,
                DisableAlternate, Create, MainOn, MainOff, AltOff, Still, Made, AltEnabled, devVars
  <2>3. hpc = "idle" /\ ~mChangeHDMIImpl
    BY <1>e, <2>2 DEF SwapAt
  <2>4. CASE /\ cpc = "scOff" /\ cpc' = "scAltOff" /\ MainOff
             /\ UNCHANGED <<mChangeHDMIImpl, mUseHDMIAlternate>>
    BY <1>a, <1>b, <1>d, <2>1, <2>3, <2>4 DEF LightInv, LightsMainOff
  <2>5. CASE /\ cpc = "scAltOff" /\ cpc' = "scNew" /\ AltOff
             /\ UNCHANGED <<mChangeHDMIImpl, mUseHDMIAlternate>>
    BY <1>a, <1>b, <1>d, <2>1, <2>3, <2>5 DEF LightInv, LightsAltOff
  <2>6. CASE /\ cpc = "scAltOff" /\ cpc' = "scNew" /\ Still /\ ~AltEnabled
             /\ UNCHANGED <<mChangeHDMIImpl, mUseHDMIAlternate>>
    <3>1. ~MainEnabled /\ links = Lit
      BY <1>a, <2>6 DEF LightInv, Lit
    <3> QED BY <1>a, <1>b, <1>d, <2>1, <2>3, <2>6, <3>1 DEF LightInv, LightsSame
  <2>7. CASE /\ cpc = "scAlt" /\ cpc' = "scOn" /\ Made
             /\ mChangeHDMIImpl' = FALSE /\ mUseHDMIAlternate' = FALSE
    <3>1. ~MainEnabled' /\ ~AltEnabled' /\ links' = Lit'
      BY <1>a, <1>d, <2>7 DEF LightInv, LightsMade
    <3> QED BY <1>a, <1>b, <2>1, <2>3, <2>7, <3>1 DEF LightInv
  <2>8. CASE /\ cpc = "scOn" /\ cpc' = "scEnd" /\ MainOn
             /\ UNCHANGED <<mChangeHDMIImpl, mUseHDMIAlternate>>
    BY <1>a, <1>b, <1>d, <2>1, <2>3, <2>8 DEF LightInv, LightsMainOn
  <2> QED BY <2>2, <2>4, <2>5, <2>6, <2>7, <2>8
<1>10. CASE changeHDMIImpl /\ UNCHANGED mChangeHDMIImpl /\ Frame
  <2>1. UNCHANGED <<hpc, mHDMIPlugged, mChangeHDMIImpl, mUseHDMIAlternate>>
    BY <1>10 DEF Frame, notComposer, changeHDMIImpl, EnableMain, DisableMain, DisableAlternate
  <2>2. \/ cpc = "chOff" /\ cpc' = "chAltOff" /\ MainOff
        \/ cpc = "chAltOff" /\ cpc' = "chNew" /\ AltOff
        \/ cpc = "chAltOff" /\ cpc' = "chNew" /\ Still /\ ~AltEnabled
        \/ cpc = "chOn" /\ cpc' = "chEnd" /\ MainOn
    BY <1>10 DEF changeHDMIImpl, EnableMain, DisableMain, DisableAlternate, MainOn, MainOff,
                 AltOff, Still, AltEnabled, devVars
  <2>3. hpc = "idle" /\ ~mChangeHDMIImpl
    BY <1>e, <2>2 DEF SwapAt
  <2>4. CASE cpc = "chOff" /\ cpc' = "chAltOff" /\ MainOff
    BY <1>a, <1>b, <1>d, <2>1, <2>3, <2>4 DEF LightInv, LightsMainOff
  <2>5. CASE cpc = "chAltOff" /\ cpc' = "chNew" /\ AltOff
    BY <1>a, <1>b, <1>d, <2>1, <2>3, <2>5 DEF LightInv, LightsAltOff
  <2>6. CASE cpc = "chAltOff" /\ cpc' = "chNew" /\ Still /\ ~AltEnabled
    <3>1. ~MainEnabled /\ links = Lit
      BY <1>a, <2>6 DEF LightInv, Lit
    <3> QED BY <1>a, <1>b, <1>d, <2>1, <2>3, <2>6, <3>1 DEF LightInv, LightsSame
  <2>7. CASE cpc = "chOn" /\ cpc' = "chEnd" /\ MainOn
    BY <1>a, <1>b, <1>d, <1>e, <2>1, <2>3, <2>7 DEF LightInv, LightsMainOn
  <2> QED BY <2>2, <2>4, <2>5, <2>6, <2>7
<1>11. CASE Plug \/ (\E b \in Binders : Binder(b)) \/ UNCHANGED vars
  <2>1. UNCHANGED <<hpc, mHDMIPlugged, mUseHDMIAlternate, mChangeHDMIImpl, cpc>> /\ Still
    BY <1>11 DEF Plug, notHot, vars, Binder, handleUsageScenarioChanged, handleResolutionChanged,
                 handleScreenDownSizingChanged, RaiseChanging, notBinder, devVars, Still
  <2> QED BY <1>a, <1>d, <2>1 DEF LightInv, LightsSame
<1>12. CASE handleHDMIEvent
  <2>1. /\ UNCHANGED <<mUseHDMIAlternate, mChangeHDMIImpl, cpc>> /\ Still
        /\ cpc = "idle" /\ ~mUseHDMIAlternate
        /\ \/ /\ hpc = "idle" /\ UNCHANGED mHDMIPlugged
              /\ hpc' \in {"idle", IF mHDMIPlugged THEN "unplug" ELSE "plug"}
           \/ hpc = "plug" /\ hpc' = "enable" /\ mHDMIPlugged' = TRUE
           \/ hpc = "unplug" /\ hpc' = "disable" /\ mHDMIPlugged' = FALSE
    BY <1>12, EventTaken DEF handleHDMIEvent, notHot, devVars, Still
  <2>3. ~AltEnabled /\ ~mChangeHDMIImpl
    BY <1>a, <1>b, <1>e, <2>1 DEF LightInv, SwapAt
  <2> QED BY <1>a, <1>b, <1>d, <2>1, <2>3 DEF LightInv, LightsSame
<1>13. CASE Hotplug
  <2>1. /\ UNCHANGED <<mUseHDMIAlternate, mChangeHDMIImpl, cpc, mHDMIPlugged>>
        /\ cpc = "idle" /\ ~mUseHDMIAlternate /\ ~mChangeHDMIImpl
    BY <1>13, <1>e DEF Hotplug, notHot, SwapAt
  <2>2. \/ hpc = "enable" /\ hpc' = "idle" /\ MainOn
        \/ hpc = "disable" /\ hpc' = "disableAlt" /\ MainOff
        \/ hpc = "disableAlt" /\ hpc' = "idle" /\ (AltOff \/ Still)
    BY <1>13 DEF Hotplug, MainOn, MainOff, AltOff, Still
  <2>3. CASE hpc = "enable" /\ hpc' = "idle" /\ MainOn
    BY <1>a, <1>b, <1>d, <1>e, <2>1, <2>3 DEF LightInv, LightsMainOn
  <2>4. CASE hpc = "disable" /\ hpc' = "disableAlt" /\ MainOff
    BY <1>a, <1>b, <1>d, <1>e, <2>1, <2>4 DEF LightInv, LightsMainOff
  <2>5. CASE hpc = "disableAlt" /\ hpc' = "idle" /\ AltOff
    BY <1>a, <1>b, <1>d, <1>e, <2>1, <2>5 DEF LightInv, LightsAltOff
  <2>6. CASE hpc = "disableAlt" /\ hpc' = "idle" /\ Still
    BY <1>a, <1>b, <1>d, <1>e, <2>1, <2>6 DEF LightInv, LightsSame
  <2> QED BY <2>2, <2>3, <2>4, <2>5, <2>6
<1> QED BY <1>0, <1>1, <1>2, <1>3, <1>4, <1>5, <1>6, <1>7, <1>8, <1>9, <1>10, <1>11, <1>12, <1>13
        DEF Next, Composer, Frame

-----------------------------------------------------------------------------
(* The mode and the buffers.                                               *)

\* What is rendered was configured in the step before; the cable comes between
\* only in an untidy way.
LEMMA RenderPlace ==
  ASSUME [Next]_vars, ~untidy', cpc' = "render"
  PROVE  SetImpl \/ (cpc = "render" /\ Still /\ UNCHANGED mUseHDMIAlternate)
<1> USE DEF CGoto
<1>1. CASE Composer
  <2>1. ~(hwc_prepare \/ hwc_set \/ IfScenario \/ ScenarioChanged)
    BY DEF hwc_prepare, hwc_set, IfScenario, ScenarioChanged
  <2>2. ~(IfChange \/ Replace \/ IfConnected \/ ImplChanged)
    BY DEF IfChange, Replace, Create, IfConnected, ImplChanged
  <2>6. ~(ReadArgument \/ MakeMain \/ CreateScenario)
    BY DEF ReadArgument, MakeMain, CreateScenario, Create
  <2>3. ~(UseAlternate \/ UseOriginal \/ RenderImpl)
    BY DEF UseAlternate, UseOriginal, RenderImpl, EnableMain, DisableMain, EnableAlternate,
           DisableAlternate
  <2>4. ~changeUsageScenario
    BY DEF changeUsageScenario, DisableMain, DisableAlternate, EnableMain
  <2>5. ~changeHDMIImpl
    BY DEF changeHDMIImpl, EnableMain, DisableMain, DisableAlternate
  <2> QED BY <1>1, <2>1, <2>2, <2>3, <2>4, <2>5, <2>6 DEF Composer
<1>2. CASE Plug \/ (\E b \in Binders : Binder(b)) \/ UNCHANGED vars
  BY <1>2 DEF Plug, notHot, vars, Binder, handleUsageScenarioChanged, handleResolutionChanged,
              handleScreenDownSizingChanged, RaiseChanging, notBinder, devVars, implVars, Still
<1>3. CASE handleHDMIEvent \/ Hotplug
  BY <1>3 DEF handleHDMIEvent, Hotplug, notHot
<1> QED BY <1>1, <1>2, <1>3 DEF Next

\* The mode of an implementor that keeps its size and is still configured is
\* still the one set.
LEMMA RunsKept ==
  ASSUME NEW i \in Impls, NEW p, Runs(i, p)
  PROVE  /\ Runs(Enabled(i), p)
         /\ Runs(Disabled(i), p)
<1>1. Runs(Enabled(i), p)
  <2>1. Same(i, Enabled(i)) /\ ModeOf(Enabled(i)) = ModeOf(i)
    BY EnabledMade, ModeMade DEF Same
  <2> QED BY <2>1, EnabledMade DEF Runs, Same
<1>2. CASE Idle(i)
  BY <1>1, <1>2, DisabledMade
<1>3. CASE ~Idle(i)
  BY <1>1, <1>3, DisabledMade DEF Runs, Same
<1> QED BY <1>1, <1>2, <1>3

\* A disabled implementor that was running leaves nothing in the queue.
LEMMA QueueLeft ==
  ASSUME NEW i \in Impls, NEW q \in Seq(0 .. 2), i.mStarted => i.mEnabled
  PROVE  /\ ~Disabled(i).mStarted
         /\ DisableQueue(i, q) = IF i.mStarted THEN <<>> ELSE q
<1>1. CASE Idle(i)
  BY <1>1, DisabledMade DEF Idle, DisableQueue
<1>2. CASE ~Idle(i)
  BY <1>2, DisabledMade DEF DisableQueue
<1> QED BY <1>1, <1>2

\* The composing thread shows only an implementor that is enabled, and the
\* other one is not.
LEMMA ShowsEnabled ==
  ASSUME LightInv, PlugInv, PairInv, PlainType, ~untidy, cpc \in {"show", "render"}
  PROVE  IF mUseHDMIAlternate THEN AltEnabled /\ ~MainEnabled
         ELSE MainEnabled /\ ~AltEnabled
<1>1. mHDMIPlugged /\ hpc = "idle" /\ ~mChangeHDMIImpl /\ mChangeHDMIImpl \in BOOLEAN
      /\ mUseHDMIAlternate \in BOOLEAN
  BY DEF PlugInv, SwapAt, PlainType
<1>2. mUseHDMIAlternate # mChangeHDMIImpl <=> mUseHDMIAlternate
  BY <1>1
<1> QED BY <1>1, <1>2 DEF LightInv

Alternates == Impls \cup {None}
NotBoth(i, a) == ~(i.mEnabled /\ ~a.gone /\ a.mEnabled)

\* An alternate that is there is an implementor.
LEMMA NoneGone == None.gone /\ \A a \in Alternates : ~a.gone => a \in Impls
BY DEF None, Alternates

\* Enabling an implementor leaves the buffers in step,
LEMMA BuffersOn ==
  ASSUME NEW i \in Impls, NEW a \in Alternates, NEW p, NEW q \in Seq(0 .. 2),
         Buffers(i, a, p, q)
  PROVE  /\ Buffers(Enabled(i), a, p, q)
         /\ ~a.gone => Buffers(i, Enabled(a), p, q)
<1>1. ASSUME NEW j \in Impls
      PROVE  /\ Enabled(j).mStarted = j.mStarted /\ ~Enabled(j).gone
             /\ Counts(j, q) => Counts(Enabled(j), q)
  <2>1. Enabled(j).gone = FALSE
    BY EnabledMade DEF Same, Impls
  <2> QED BY <2>1, EnabledMade DEF Counts, Same
<1>2. Buffers(Enabled(i), a, p, q)
  BY <1>1, RunsKept DEF Buffers
<1>3. ASSUME ~a.gone PROVE Buffers(i, Enabled(a), p, q)
  <2>1. a \in Impls
    BY <1>3, NoneGone
  <2> QED BY <1>1, <1>3, <2>1, RunsKept DEF Buffers
<1> QED BY <1>2, <1>3

\* so does disabling one while the other is not enabled,
LEMMA BuffersOff ==
  ASSUME NEW i \in Impls, NEW a \in Alternates, NEW p, NEW q \in Seq(0 .. 2),
         Buffers(i, a, p, q), NotBoth(i, a)
  PROVE  /\ Buffers(Disabled(i), a, p, DisableQueue(i, q))
         /\ ~a.gone => Buffers(i, Disabled(a), p, DisableQueue(a, q))
<1>1. Buffers(Disabled(i), a, p, DisableQueue(i, q))
  <2>1. (i.mStarted => i.mEnabled) /\ Runs(i, p)
    BY DEF Buffers, Runs
  <2>2. ~Disabled(i).mStarted /\ DisableQueue(i, q) = IF i.mStarted THEN <<>> ELSE q
    BY <2>1, QueueLeft
  <2>3. Runs(Disabled(i), p)
    BY <2>1, RunsKept
  <2>4. i.mStarted => a.gone \/ ~a.mStarted
    BY <2>1 DEF Buffers, Runs, NotBoth
  <2> QED BY <2>2, <2>3, <2>4 DEF Buffers
<1>2. ASSUME ~a.gone PROVE Buffers(i, Disabled(a), p, DisableQueue(a, q))
  <2>0. a \in Impls
    BY <1>2, NoneGone
  <2>1. (a.mStarted => a.mEnabled) /\ Runs(a, p)
    BY <1>2 DEF Buffers, Runs
  <2>2. ~Disabled(a).mStarted /\ DisableQueue(a, q) = IF a.mStarted THEN <<>> ELSE q
    BY <2>0, <2>1, QueueLeft
  <2>3. Runs(Disabled(a), p)
    BY <2>0, <2>1, RunsKept
  <2>4. a.mStarted => ~i.mStarted
    BY <1>2, <2>1 DEF Buffers, Runs, NotBoth
  <2> QED BY <1>2, <2>2, <2>3, <2>4 DEF Buffers
<1> QED BY <1>1, <1>2

\* and so does making both anew while they are disabled.
LEMMA BuffersMade ==
  ASSUME NEW i \in Impls, NEW a \in Alternates, NEW p, NEW q, Buffers(i, a, p, q),
         ~i.mEnabled, ~a.gone => ~a.mEnabled,
         NEW j, Fresh(j), NEW b, ~b.gone => Fresh(b)
  PROVE  Buffers(j, b, p, q)
<1>1. q = <<>>
  BY DEF Buffers, Runs
<1> QED BY <1>1 DEF Buffers, Runs, Fresh

\* Configuring sets the mode: it is that of the implementor, before or after.
LEMMA RunsConfigured ==
  ASSUME NEW i \in Impls, NEW p, Runs(i, p), i.mEnabled, NEW j, NEW r,
         j = [i EXCEPT !.mHDMIConfigured = TRUE],
         r = IF i.mHDMIConfigured THEN p ELSE ModeOf(i)
  PROVE  /\ Runs(j, r) /\ j.mHDMIConfigured /\ j.mStarted = i.mStarted /\ ~j.gone
         /\ \A q : Counts(i, q) => Counts(j, q)
<1>1. /\ Same(i, j) /\ j.mHDMIConfigured /\ j.mEnabled = i.mEnabled
      /\ j.mStarted = i.mStarted /\ j.mOutCount = i.mOutCount /\ j.mOutIndex = i.mOutIndex
  BY ConfiguredMade
<1>2. r = ModeOf(i) /\ ModeOf(j) = ModeOf(i)
  BY <1>1, ModeMade DEF Runs, Same
<1>3. j.gone = FALSE
  BY <1>1 DEF Same, Impls
<1> QED BY <1>1, <1>2, <1>3 DEF Runs, Counts, Same

\* Rendering keeps the mode, and an implementor that renders alone counts what
\* it puts into the queue.
LEMMA RunsRendered ==
  ASSUME NEW i \in Impls, NEW p, NEW q \in Seq(0 .. 2), NoDup(q), Runs(i, p), i.mEnabled,
         IF i.mStarted THEN Counts(i, q) ELSE q = <<>>
  PROVE  LET r == render(i, q)
         IN  Runs(r.i, p) /\ r.i.mStarted /\ Counts(r.i, r.q) /\ ~r.i.gone
<1>1. Steady(i, q)
  BY DEF Steady, Runs
<1>2. LET r == render(i, q)
      IN  r.i \in Impls /\ Kept(i, r.i) /\ r.i.mStarted /\ Counts(r.i, r.q)
  BY <1>1, RenderMade
<1>3. ModeOf(render(i, q).i) = ModeOf(i) /\ render(i, q).i.gone = FALSE
  BY <1>2, ModeMade DEF Kept, Same, Impls
<1> QED BY <1>2, <1>3 DEF Runs, Kept

\* A tidy replacement finds nothing enabled.
LEMMA ReplaceTidy ==
  ASSUME [Next]_vars, ~untidy', cpc = "chAlt", cpc' = "chPlug"
  PROVE  ~mHDMIImpl.mEnabled
<1> USE DEF CGoto
<1>1. ~(Plug \/ handleHDMIEvent \/ Hotplug \/ UNCHANGED vars \/ \E b \in Binders : Binder(b))
  BY DEF Plug, handleHDMIEvent, Hotplug, notHot, vars, Binder, handleUsageScenarioChanged,
         handleResolutionChanged, handleScreenDownSizingChanged, RaiseChanging, notBinder
<1>2. ~(hwc_prepare \/ hwc_set \/ IfScenario \/ ReadArgument \/ MakeMain \/ CreateScenario
        \/ ScenarioChanged \/ IfChange \/ IfConnected \/ ImplChanged)
  BY DEF hwc_prepare, hwc_set, IfScenario, ReadArgument, MakeMain, CreateScenario, Create,
         ScenarioChanged, IfChange, IfConnected, ImplChanged
<1>3. ~(UseAlternate \/ UseOriginal \/ SetImpl \/ RenderImpl \/ changeUsageScenario
        \/ changeHDMIImpl)
  BY DEF UseAlternate, UseOriginal, SetImpl, RenderImpl, changeUsageScenario, changeHDMIImpl,
         DisableMain, EnableMain, EnableAlternate, DisableAlternate
<1>4. Replace
  BY <1>1, <1>2, <1>3 DEF Next, Composer
<1> QED BY <1>4 DEF Replace

\* The queue and the mode follow whatever the step calls.
LEMMA StepBuffer ==
  /\ BufferInv /\ LightInv /\ PlugInv /\ DevOK /\ PairInv /\ PlainType /\ ConfigType /\ MakeInv
  /\ [Next]_vars
  => BufferInv'
<1> SUFFICES ASSUME BufferInv, LightInv, PlugInv, DevOK, PairInv, PlainType, ConfigType,
                    MakeInv, [Next]_vars, ~untidy'
             PROVE  /\ Buffers(mHDMIImpl', mHDMIAlternateImpl', preset', queued')
                    /\ cpc' = "render" => InUse'.mHDMIConfigured
  BY DEF BufferInv, Buffers, Runs, Counts, InTurn
<1> DEFINE B == Buffers(mHDMIImpl', mHDMIAlternateImpl', preset', queued')
<1>a. /\ ~untidy /\ Buffers(mHDMIImpl, mHDMIAlternateImpl, preset, queued)
      /\ cpc = "render" => InUse.mHDMIConfigured
  BY Untidy DEF BufferInv
<1>b. /\ mHDMIImpl \in Impls /\ mHDMIAlternateImpl \in Alternates /\ queued \in Seq(0 .. 2)
      /\ NoDup(queued)
      /\ ~mHDMIAlternateImpl.gone => mHDMIAlternateImpl \in Impls
  BY AlternateThere DEF DevOK, Alternates
<1>c. NotBoth(mHDMIImpl, mHDMIAlternateImpl)
  BY <1>a DEF LightInv, NotBoth, MainEnabled, AltEnabled
<1>d. cpc \in {"show", "render"} =>
        IF mUseHDMIAlternate
        THEN /\ ~mHDMIAlternateImpl.gone /\ mHDMIAlternateImpl.mEnabled
             /\ ~mHDMIImpl.mEnabled /\ ~mHDMIImpl.mStarted
        ELSE /\ mHDMIImpl.mEnabled
             /\ ~mHDMIAlternateImpl.gone =>
                  ~mHDMIAlternateImpl.mEnabled /\ ~mHDMIAlternateImpl.mStarted
  <2>1. mHDMIImpl.mStarted => mHDMIImpl.mEnabled
    BY <1>a DEF Buffers, Runs
  <2>2. ~mHDMIAlternateImpl.gone /\ mHDMIAlternateImpl.mStarted => mHDMIAlternateImpl.mEnabled
    BY <1>a DEF Buffers, Runs
  <2> QED BY <1>a, <2>1, <2>2, ShowsEnabled DEF MainEnabled, AltEnabled
<1>1. CASE Still
  <2>1. B
    BY <1>1, <1>a DEF Still
  <2>2. cpc' = "render" => ~SetImpl \/ InUse'.mHDMIConfigured
    <3>1. SetImpl => (IF mUseHDMIAlternate THEN mHDMIAlternateImpl' ELSE mHDMIImpl').mHDMIConfigured
      BY <1>b, ConfiguredMade DEF SetImpl, PairInv
    <3> QED BY <3>1 DEF InUse, SetImpl
  <2>3. cpc' = "render" => InUse'.mHDMIConfigured
    BY <1>1, <1>a, <2>2, RenderPlace DEF Still, InUse
  <2> QED BY <2>1, <2>3
<1>2. CASE SetImpl
  <2> DEFINE i == IF mUseHDMIAlternate THEN mHDMIAlternateImpl ELSE mHDMIImpl
             j == [i EXCEPT !.mHDMIConfigured = TRUE]
  <2>1. i \in Impls /\ i.mEnabled /\ Runs(i, preset) /\ cpc = "show"
    BY <1>2, <1>a, <1>b, <1>d DEF SetImpl, CGoto, Buffers
  <2>2. preset' = IF i.mHDMIConfigured THEN preset ELSE ModeOf(i)
    BY <1>2 DEF SetImpl
  <2>3. /\ IF mUseHDMIAlternate
           THEN mHDMIAlternateImpl' = j /\ UNCHANGED mHDMIImpl
           ELSE mHDMIImpl' = j /\ UNCHANGED mHDMIAlternateImpl
        /\ UNCHANGED <<mUseHDMIAlternate, queued>>
    BY <1>2 DEF SetImpl
  <2> HIDE DEF j
  <2>4. /\ Runs(j, preset') /\ j.mHDMIConfigured /\ j.mStarted = i.mStarted /\ ~j.gone
        /\ Counts(i, queued) => Counts(j, queued)
    BY <2>1, <2>2, RunsConfigured DEF j
  <2>5. InUse'.mHDMIConfigured
    BY <2>3, <2>4 DEF InUse
  <2>6. ASSUME NEW k, Runs(k, preset), ~k.mEnabled PROVE Runs(k, preset')
    BY <2>6 DEF Runs
  <2>7. B
    <3>1. CASE mUseHDMIAlternate
      BY <1>a, <1>d, <2>1, <2>3, <2>4, <2>6, <3>1 DEF Buffers
    <3>2. CASE ~mUseHDMIAlternate
      BY <1>a, <1>d, <2>1, <2>3, <2>4, <2>6, <3>2 DEF Buffers
    <3> QED BY <3>1, <3>2
  <2> QED BY <2>5, <2>7
<1>3. CASE ~Still /\ ~SetImpl
  <2>1. cpc' # "render"
    BY <1>3, RenderPlace
  <2>2. CASE MainOn
    BY <1>a, <1>b, <2>1, <2>2, BuffersOn DEF MainOn
  <2>3. CASE MainOff
    BY <1>a, <1>b, <1>c, <2>1, <2>3, BuffersOff DEF MainOff
  <2>4. CASE AltOn
    BY <1>a, <1>b, <2>1, <2>4, BuffersOn DEF AltOn
  <2>5. CASE AltOff
    BY <1>a, <1>b, <1>c, <2>1, <2>5, BuffersOff DEF AltOff
  <2>6. CASE Made
    <3>1. ~AltEnabled
      BY <1>a, <2>6 DEF Made, CGoto, LightInv
    <3>2. ~mHDMIImpl.mEnabled
      <4>1. CASE cpc = "scAlt"
        BY <1>a, <4>1 DEF LightInv, MainEnabled
      <4>2. CASE cpc = "chAlt" /\ cpc' = "chPlug"
        BY <4>2, ReplaceTidy
      <4> QED BY <2>6, <4>1, <4>2 DEF Made, CGoto
    <3>3. Fresh(mHDMIImpl') /\ (~mHDMIAlternateImpl'.gone => Fresh(mHDMIAlternateImpl'))
      <4>1. Fresh(made)
        BY <2>6 DEF Made, CGoto, MakeInv, AlternateAt
      <4> QED BY <2>6, <4>1, CreateMade DEF Made, ConfigType
    <3>4. Buffers(mHDMIImpl', mHDMIAlternateImpl', preset, queued)
      BY <1>a, <1>b, <3>1, <3>2, <3>3, BuffersMade DEF AltEnabled
    <3> QED BY <2>1, <2>6, <3>4 DEF Made, devVars
  <2>7. CASE RenderImpl
    <3>1. cpc = "render" /\ UNCHANGED preset
      BY <2>7 DEF RenderImpl, CGoto
    <3>2. CASE UNCHANGED <<mHDMIImpl, mHDMIAlternateImpl, queued>>
      BY <1>a, <2>1, <3>1, <3>2
    <3>3. CASE /\ mUseHDMIAlternate /\ UNCHANGED mHDMIImpl
               /\ mHDMIAlternateImpl' = render(mHDMIAlternateImpl, queued).i
               /\ queued' = render(mHDMIAlternateImpl, queued).q
      <4>1. /\ mHDMIAlternateImpl \in Impls /\ mHDMIAlternateImpl.mEnabled
            /\ Runs(mHDMIAlternateImpl, preset)
            /\ IF mHDMIAlternateImpl.mStarted THEN Counts(mHDMIAlternateImpl, queued)
               ELSE queued = <<>>
        BY <1>a, <1>b, <1>d, <3>1, <3>3 DEF Buffers
      <4>2. /\ Runs(mHDMIAlternateImpl', preset) /\ mHDMIAlternateImpl'.mStarted
            /\ Counts(mHDMIAlternateImpl', queued') /\ ~mHDMIAlternateImpl'.gone
        BY <1>b, <3>3, <4>1, RunsRendered
      <4> QED BY <1>a, <1>d, <2>1, <3>1, <3>3, <4>2 DEF Buffers
    <3>4. CASE /\ ~mUseHDMIAlternate /\ UNCHANGED mHDMIAlternateImpl
               /\ mHDMIImpl' = render(mHDMIImpl, queued).i
               /\ queued' = render(mHDMIImpl, queued).q
      <4>1. /\ mHDMIImpl.mEnabled /\ Runs(mHDMIImpl, preset)
            /\ IF mHDMIImpl.mStarted THEN Counts(mHDMIImpl, queued) ELSE queued = <<>>
        BY <1>a, <1>b, <1>d, <3>1, <3>4 DEF Buffers
      <4>2. /\ Runs(mHDMIImpl', preset) /\ mHDMIImpl'.mStarted
            /\ Counts(mHDMIImpl', queued')
        BY <1>b, <3>4, <4>1, RunsRendered
      <4> QED BY <1>a, <1>d, <2>1, <3>1, <3>4, <4>2 DEF Buffers
    <3> QED BY <2>7, <3>2, <3>3, <3>4 DEF RenderImpl
  <2> QED BY <1>3, <2>2, <2>3, <2>4, <2>5, <2>6, <2>7, Effects
<1> QED BY <1>1, <1>2, <1>3

-----------------------------------------------------------------------------
(* The theorems.                                                           *)

\* At boot the parts of the invariant about requests, cable and buffers hold,
LEMMA InitRest ==
  Init => FollowInv /\ ReadInv /\ CableInv /\ PlugInv /\ LightInv /\ BufferInv
<1> SUFFICES ASSUME Init
             PROVE  FollowInv /\ ReadInv /\ CableInv /\ PlugInv /\ LightInv /\ BufferInv
  OBVIOUS
<1>1. Original \in Scenarios /\ Boot \in Presets
  BY ComposerParameters
<1> DEFINE i == create(Original, Boot, Boot)
           a == createAlternate(Original, Boot, Boot)
<1>2. Fresh(i) /\ i.scenario = Original /\ (~a.gone => Fresh(a))
  BY <1>1, CreateMade
<1>3. /\ mHDMIWidth = Boot /\ mHDMIHeight = Boot
      /\ mHDMIImpl = Enabled(i) /\ mHDMIAlternateImpl = a
  BY DEF Init
<1>4. FollowInv
  <2>1. i.w = create(i.scenario, Boot, Boot).w /\ i.h = create(i.scenario, Boot, Boot).h
    BY <1>2
  <2> HIDE DEF i, a
  <2>2. mHDMIImpl.scenario = i.scenario /\ mHDMIImpl.w = i.w /\ mHDMIImpl.h = i.h
    BY <1>2, <1>3, EnabledMade DEF Same, Fresh
  <2>3. mHDMIImpl.scenario = mUsageScenario
    BY <1>2, <2>2 DEF Init
  <2> QED BY <1>3, <2>1, <2>2, <2>3 DEF FollowInv, Fits
<1> HIDE DEF i, a
<1>5. mHDMIImpl.mEnabled /\ ~mHDMIImpl.mHDMIConfigured /\ ~mHDMIImpl.mStarted
      /\ mHDMIImpl.mOutCount = 0
  BY <1>2, <1>3, EnabledMade DEF Fresh
<1>6. CableInv /\ ReadInv
  BY DEF Init, CableInv, PulledAt, UnreadAt, ReadInv, MainAt, AlternateAt
<1>7. PlugInv
  BY DEF Init, PlugInv, SwapAt
<1>8. LightInv
  <2>1. MainEnabled /\ ~AltEnabled
    BY <1>2, <1>3, <1>5 DEF MainEnabled, AltEnabled, Fresh
  <2>2. links = Lit
    BY <2>1 DEF Init, Lit
  <2>3. cpc = "idle" /\ hpc = "idle" /\ mUseHDMIAlternate = FALSE /\ mChangeHDMIImpl = FALSE
    BY DEF Init
  <2> QED BY <2>1, <2>2, <2>3 DEF LightInv
<1>9. BufferInv
  <2>1. queued = <<>> /\ cpc = "idle"
    BY DEF Init
  <2> QED BY <1>2, <1>3, <1>5, <2>1 DEF BufferInv, Buffers, Runs, Fresh
<1> QED BY <1>4, <1>6, <1>7, <1>8, <1>9

\* and so does the invariant;
LEMMA InitIInv == Init => IInv
BY InitType, InitRest DEF IInv, DevOK, Distinct

\* every step keeps it,
LEMMA StepIInv == IInv /\ [Next]_vars => IInv'
<1> SUFFICES ASSUME IInv, [Next]_vars PROVE IInv'
  OBVIOUS
<1>1. PlainType /\ ConfigType /\ DevType /\ BinderType /\ DevOK
  BY DEF IInv, TypeOK, DevType, DevOK, Distinct
<1>2. /\ BinderInv /\ LockInv /\ PairInv /\ MakeInv /\ SwapInv
      /\ FollowInv /\ ReadInv /\ CableInv /\ PlugInv /\ LightInv /\ BufferInv
      /\ made \in Impls \cup {None}
  BY DEF IInv, TypeOK, DevType
<1>3. DevOK'
  BY <1>1, <1>2, StepDev
<1>4. MakeInv' /\ made' \in Impls \cup {None}
  BY <1>1, <1>2, StepMake
<1>8. DevType' /\ Distinct'
  BY <1>3, <1>4, ThreeAtMost DEF DevOK, DevType, Distinct, NoDup
<1>5. PlainType' /\ ConfigType' /\ BinderType' /\ BinderInv'
  BY <1>1, <1>2, StepPlain, StepConfig, StepBinder
<1>6. LockInv' /\ PairInv' /\ SwapInv' /\ FollowInv' /\ ReadInv'
  BY <1>1, <1>2, StepLock, StepPair, StepSwap, StepFollow, StepRead
<1>9. CableInv' /\ PlugInv'
  BY <1>1, <1>2, StepCable, StepPlug
<1>7. LightInv' /\ BufferInv'
  BY <1>1, <1>2, StepLight, StepBuffer
<1> QED BY <1>4, <1>5, <1>6, <1>7, <1>8, <1>9 DEF IInv, TypeOK

\* and so it holds for ever.
LEMMA Inductive == Spec => []IInv
BY InitIInv, StepIInv, PTL DEF Spec

\* The state of the composer is well typed; once all is quiet it agrees with the
\* cable, whose switch is read at a replacement and whose events come at any
\* step, except for one event between that read and its write; and a swap has
\* its alternate unless the request outlived a replacement.
THEOREM ComposerInStep == Spec => []StateInStep
<1>1. IInv => StateInStep
  BY DEF IInv, StateInStep, PluggedAsCable, CableInv, PulledAt, Quiet, SwapHasAlternate, SwapInv
<1> QED BY <1>1, Inductive, PTL

\* Once all is quiet HDMI is driven by the implementor made for the scenario and
\* the resolution asked for last, although they are written one by one and read
\* one by one.
THEOREM RequestsFollowed == Spec => []ImplFollows
<1>1. IInv => ImplFollows
  <2> SUFFICES ASSUME IInv, Quiet PROVE ImplFollows
    BY DEF ImplFollows
  <2>1. Served
    BY DEF Quiet, Served, Dirty
  <2>2. Fits(mHDMIImpl, mHDMIWidth, mHDMIHeight)
        /\ (Settled => mHDMIImpl.scenario = mUsageScenario)
    BY <2>1 DEF IInv, FollowInv
  <2>3. ~lost => mHDMIImpl.scenario = mUsageScenario
    BY <2>2 DEF Settled, Quiet
  <2>4. CASE lost
    BY <2>2, <2>4 DEF ImplFollows, Fits
  <2>5. CASE ~lost
    BY <2>2, <2>3, <2>5 DEF ImplFollows, Fits
  <2> QED BY <2>4, <2>5
<1> QED BY <1>1, Inductive, PTL

\* Once all is quiet and the cable is in, the implementor in use is enabled and
\* its link, and no other, leads to HDMI; what is rendered is rendered in the
\* mode its implementor needs.
THEOREM HdmiAlwaysShown == Spec => []HdmiShown
<1>1. IInv => LinkedWhilePlugged
  <2> SUFFICES ASSUME IInv, Quiet, mHDMIPlugged, ~untidy
               PROVE  InUse.mEnabled /\ links = {Link(InUse)}
    BY DEF LinkedWhilePlugged
  <2>1. cpc = "idle" /\ hpc = "idle" /\ ~mChangeHDMIImpl
    BY DEF Quiet, IInv, PlugInv, SwapAt
  <2>2. mUseHDMIAlternate \in BOOLEAN /\ mChangeHDMIImpl \in BOOLEAN
    BY DEF IInv, TypeOK, PlainType
  <2>3. /\ IF mUseHDMIAlternate THEN AltEnabled ELSE MainEnabled
        /\ MainEnabled => ~AltEnabled
        /\ links = Lit
    BY <2>1, <2>2 DEF IInv, LightInv
  <2>5. InUse.mEnabled
    BY <2>3 DEF InUse, AltEnabled, MainEnabled
  <2> QED BY <2>3, <2>5 DEF InUse, Lit
<1>2. IInv => ModeShown
  <2> SUFFICES ASSUME IInv, cpc = "render", ~untidy PROVE preset = ModeOf(InUse)
    BY DEF ModeShown
  <2>1. InUse.mHDMIConfigured /\ Buffers(mHDMIImpl, mHDMIAlternateImpl, preset, queued)
    BY DEF IInv, BufferInv
  <2>2. mUseHDMIAlternate => ~mHDMIAlternateImpl.gone
    BY DEF IInv, PairInv
  <2>3. Runs(InUse, preset)
    BY <2>1, <2>2 DEF Buffers, InUse
  <2> QED BY <2>1, <2>3 DEF Runs
<1> QED BY <1>1, <1>2, Inductive, PTL DEF HdmiShown

\* A renderer never gives the node a buffer the node still holds; it counts at
\* least what the node holds, and GL just that, over stops, swaps and
\* replacements.
THEOREM BuffersFollowed == Spec => []QueueFollows
<1>1. IInv => QueueFollows
  <2> SUFFICES ASSUME IInv, cpc = "render", ~untidy
               PROVE  /\ ~Holds(queued, InUse.mOutIndex)
                      /\ InUse.mOutCount >= Len(queued)
                      /\ ~InUse.scenario.mirror => InUse.mOutCount = Len(queued)
    BY DEF QueueFollows
  <2>1. Buffers(mHDMIImpl, mHDMIAlternateImpl, preset, queued)
    BY DEF IInv, BufferInv
  <2>2. IF mUseHDMIAlternate THEN AltEnabled /\ ~MainEnabled
        ELSE MainEnabled /\ ~AltEnabled
    BY ShowsEnabled DEF IInv, TypeOK
  <2>3. DevOK
    BY DEF IInv, TypeOK, DevType, DevOK, Distinct
  <2>4. InUse \in Impls /\ queued \in Seq(0 .. 2)
    BY <2>2, <2>3, AlternateThere DEF InUse, AltEnabled, DevOK
  <2>5. /\ Runs(InUse, preset)
        /\ IF InUse.mStarted THEN Counts(InUse, queued) ELSE queued = <<>>
    BY <2>1, <2>2 DEF Buffers, Runs, InUse, AltEnabled, MainEnabled
  <2>6. CASE InUse.mStarted
    <3>1. InUse.mOutIndex \in 0 .. 2 /\ InTurn(queued, InUse.mOutIndex)
      BY <2>4, <2>5, <2>6 DEF Impls, Counts
    <3>2. ~Holds(queued, InUse.mOutIndex)
      BY <2>4, <3>1, TurnFree
    <3> QED BY <2>5, <2>6, <3>2 DEF Counts
  <2>7. CASE ~InUse.mStarted
    <3>1. queued = <<>> /\ (~InUse.scenario.mirror => InUse.mOutCount = 0)
      BY <2>5, <2>7 DEF Runs
    <3>2. ~Holds(<<>>, InUse.mOutIndex) /\ Len(<<>>) = 0
      BY DEF Holds
    <3>3. InUse.mOutCount \in 0 .. 2
      BY <2>4 DEF Impls
    <3> QED BY <3>1, <3>2, <3>3
  <2> QED BY <2>6, <2>7
<1> QED BY <1>1, Inductive, PTL
=============================================================================
