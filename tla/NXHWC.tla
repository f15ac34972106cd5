-------------------------------- MODULE NXHWC --------------------------------
(***************************************************************************)
(* The hardware composer, src/hwc2/hwc.cpp, with its HDMI implementors and *)
(* their renderers, when HDMI is the secondary display.  Three kinds of    *)
(* threads work on struct NXHWC: the composing thread calls prepare and    *)
(* set and replaces the implementors, the uevent thread plugs and unplugs, *)
(* and binder threads deliver the properties the user changes.  Only       *)
(* mChangingImpl has a lock.  A call of an implementor is one step.        *)
(* The scenarios are the four in which the LCD is composed by GL alone and *)
(* HDMI shows the mirror or what GL drew, each with or without the scaler. *)
(* The V4L2 nodes and the switch of the cable are external.                *)
(***************************************************************************)
EXTENDS Integers, Sequences

CONSTANTS
  Binders,      \* binder threads
  Presets,      \* heights a preset of HDMI can have
  Screen,       \* height of the LCD
  Boot,         \* the preset of the boot
  Original,     \* the scenario of the boot
  Wanted,       \* the scenarios the property may ask for
  MaxChanges    \* bound: changes of the cable and properties that change, together

Scenarios == [mirror : BOOLEAN, resc : BOOLEAN]

ASSUME ComposerParameters ==
  /\ Presets \subseteq Nat \ {0} /\ {Boot, 1080} \subseteq Presets /\ Screen \in Nat \ {0}
  /\ Original \in Scenarios /\ Wanted \subseteq Scenarios
  /\ MaxChanges \in Nat

VARIABLES
  mHDMIPlugged, mUsageScenario, mHDMIWidth, mHDMIHeight, mHDMIPreset, mScreenDownSizing,
  mHDMIImpl, mHDMIAlternateImpl, mUseHDMIAlternate, mChangeHDMIImpl,
  mChangingScenario, mChangingImpl,
  mChangeImplLock,  \* held by the composing thread
  cpc,              \* where the composing thread is
  unread, args,     \* its arguments for a new implementor: still to be read, and as read
  made,             \* the new implementor, before it takes the place of the old one
  contents,         \* whether this composition has a list for HDMI
  links, preset, queued,   \* external: media links, mode of HDMI, buffers of the RGB node
  cable, uevents,   \* external: the switch, and its events not read yet
  connected,        \* external: what the last hotplug callback told SurfaceFlinger
  hpc,              \* where the uevent thread is
  bpc, arg,         \* per binder thread: where it is, and what was asked for
  plugs, requests,
  lost,             \* history: the scenario was assigned after it was read last, and the flag
                    \* it was announced with was cleared or will be
  untidy,           \* history: a cable event was handled inside a composition or with the
                    \* alternate in use, or an enabled implementor was replaced
  stale,            \* history: the last event told that the cable was pulled after the switch
                    \* was read last and before mHDMIPlugged was written
  overtaken         \* history: implementors were replaced with a swap between them pending

configVars == <<mUsageScenario, mHDMIWidth, mHDMIHeight, mHDMIPreset, mScreenDownSizing>>
makeVars   == <<unread, args, made>>
history    == <<untidy, stale, overtaken>>
implVars   == <<mHDMIImpl, mHDMIAlternateImpl, mUseHDMIAlternate, mChangeHDMIImpl>>
devVars    == <<links, preset, queued>>
cableVars  == <<cable, uevents, plugs>>
binderVars == <<bpc, arg, requests>>
flagVars   == <<mChangingScenario, mChangingImpl, mChangeImplLock>>
vars == <<mHDMIPlugged, connected, configVars, implVars, flagVars, cpc, contents, makeVars,
          devVars, cableVars, hpc, binderVars, lost, history>>

None == [gone |-> TRUE]
Nothing == [scenario |-> Original, height |-> 0]
Args == {"scenario", "w", "h"}
NoArgs == [scenario |-> Original, w |-> Boot, h |-> Boot]

-----------------------------------------------------------------------------
(* The implementors.                                                       *)

New(s, w, h) ==
  [gone |-> FALSE, scenario |-> s, w |-> w, h |-> h, mEnabled |-> FALSE,
   mHDMIConfigured |-> FALSE, mStarted |-> FALSE, mOutCount |-> 0, mOutIndex |-> 0]

\* The mirror shows the screen as it is, GL draws for the mode of HDMI.
create(s, w, h) == IF s.mirror THEN New(s, Screen, Screen) ELSE New(s, w, h)

\* Only the mirror has an alternate, GL; without the scaler it is created
\* without a size.
createAlternate(s, w, h) ==
  IF ~s.mirror THEN None
  ELSE LET gl == [s EXCEPT !.mirror = FALSE]
       IN  IF s.resc THEN New(gl, w, h) ELSE New(gl, 0, 0)

\* The link an implementor switches.
Link(i) == IF i.scenario.resc THEN "resol" ELSE "hdmi"

Enabled(i) == [i EXCEPT !.mEnabled = TRUE]
EnableLinks(i, l) == IF i.mEnabled THEN l ELSE l \cup {Link(i)}

\* With the scaler a disabled implementor is left alone, without it is not.
Idle(i) == i.scenario.resc /\ ~i.mEnabled

stop_KeepsCount(i) == IF ~i.mStarted THEN i ELSE [i EXCEPT !.mStarted = FALSE]

\* HDMIMirrorRenderer::stop keeps its count and index, HWCCommonRenderer::stop
\* does not.
stop(i) ==
  IF ~i.mStarted THEN i
  ELSE IF i.scenario.mirror THEN [i EXCEPT !.mStarted = FALSE]
  ELSE [i EXCEPT !.mStarted = FALSE, !.mOutCount = 0, !.mOutIndex = 0]

Disabled(i) ==
  IF Idle(i) THEN i ELSE [stop(i) EXCEPT !.mEnabled = FALSE, !.mHDMIConfigured = FALSE]
DisableLinks(i, l) == IF Idle(i) THEN l ELSE l \ {"hdmi", Link(i)}
DisableQueue(i, q) == IF Idle(i) \/ ~i.mStarted THEN q ELSE <<>>

\* configHDMI picks the mode from the height.
ModeOf(i) == IF i.h \in Presets THEN i.h ELSE 1080

Holds(q, n) == \E k \in DOMAIN q : q[k] = n

Queued(i, q) ==
  [i |-> [i EXCEPT !.mStarted = TRUE, !.mOutCount = @ + 1, !.mOutIndex = (@ + 1) % 3],
   q |-> Append(q, i.mOutIndex)]
Dequeued(r) == [i |-> [r.i EXCEPT !.mOutCount = @ - 1], q |-> Tail(r.q)]

\* A renderer puts its next buffer into the queue of the node, which fails if
\* the node has that buffer; it takes one out when it counts enough there, the
\* mirror afterwards, GL before.
RenderMirror(i, q) ==
  IF Holds(q, i.mOutIndex) THEN [i |-> i, q |-> q]
  ELSE LET r == Queued(i, q) IN IF r.i.mOutCount >= 3 THEN Dequeued(r) ELSE r

RenderGL(i, q) ==
  IF i.mOutCount > 1 /\ q = <<>> THEN [i |-> i, q |-> q]
  ELSE LET r == IF i.mOutCount > 1 THEN Dequeued([i |-> i, q |-> q]) ELSE [i |-> i, q |-> q]
       IN  IF Holds(r.q, i.mOutIndex) THEN r ELSE Queued(r.i, r.q)

render(i, q) == IF i.scenario.mirror THEN RenderMirror(i, q) ELSE RenderGL(i, q)

Init ==
  /\ cable \in BOOLEAN /\ mHDMIPlugged = cable /\ connected = cable
  /\ uevents = <<>> /\ plugs = 0
  /\ mUsageScenario = Original /\ mScreenDownSizing = FALSE
  /\ mHDMIPreset = Boot /\ mHDMIWidth = mHDMIPreset /\ mHDMIHeight = mHDMIPreset
  /\ mHDMIImpl = Enabled(create(Original, mHDMIWidth, mHDMIHeight))
  /\ mHDMIAlternateImpl = createAlternate(Original, mHDMIWidth, mHDMIHeight)
  /\ mUseHDMIAlternate = FALSE /\ mChangeHDMIImpl = FALSE
  /\ mChangingScenario = FALSE /\ mChangingImpl = FALSE /\ mChangeImplLock = FALSE
  /\ cpc = "idle" /\ contents = FALSE
  /\ unread = Args /\ args = NoArgs /\ made = None
  /\ links = {Link(mHDMIImpl)} /\ preset = 0 /\ queued = <<>>
  /\ hpc = "idle"
  /\ bpc = [b \in Binders |-> "idle"] /\ arg = [b \in Binders |-> Nothing] /\ requests = 0
  /\ lost = FALSE /\ untidy = FALSE /\ stale = FALSE /\ overtaken = FALSE

-----------------------------------------------------------------------------
(* The composing thread.                                                   *)

CGoto(from, to) == cpc = from /\ cpc' = to
notComposer == <<configVars, cableVars, hpc, binderVars, lost>>

EnableMain(from, to) ==
  /\ CGoto(from, to)
  /\ mHDMIImpl' = Enabled(mHDMIImpl) /\ links' = EnableLinks(mHDMIImpl, links)
  /\ UNCHANGED <<mHDMIAlternateImpl, mUseHDMIAlternate, preset, queued>>

DisableMain(from, to) ==
  /\ CGoto(from, to)
  /\ mHDMIImpl' = Disabled(mHDMIImpl) /\ links' = DisableLinks(mHDMIImpl, links)
  /\ queued' = DisableQueue(mHDMIImpl, queued)
  /\ UNCHANGED <<mHDMIAlternateImpl, mUseHDMIAlternate, preset>>

EnableAlternate(from, to) ==
  /\ CGoto(from, to)
  /\ mHDMIAlternateImpl' = Enabled(mHDMIAlternateImpl)
  /\ links' = EnableLinks(mHDMIAlternateImpl, links)
  /\ UNCHANGED <<mHDMIImpl, mUseHDMIAlternate, preset, queued>>

DisableAlternate(from, to) ==
  /\ CGoto(from, to)
  /\ mHDMIAlternateImpl' = Disabled(mHDMIAlternateImpl)
  /\ links' = DisableLinks(mHDMIAlternateImpl, links)
  /\ queued' = DisableQueue(mHDMIAlternateImpl, queued)
  /\ UNCHANGED <<mHDMIImpl, mUseHDMIAlternate, preset>>

\* hwc_prepare: the mirror may find that it cannot show these layers; the
\* change to the alternate and back is left to set.
hwc_prepare ==
  /\ CGoto("idle", "set")
  /\ \E list \in BOOLEAN, cannot \in BOOLEAN :
       /\ contents' = list
       /\ list => connected
       /\ cannot => list /\ mHDMIImpl.scenario.mirror
       /\ IF list /\ ~mHDMIAlternateImpl.gone /\ cannot # mUseHDMIAlternate
          THEN mChangeHDMIImpl' = TRUE /\ mUseHDMIAlternate' = cannot
          ELSE UNCHANGED <<mChangeHDMIImpl, mUseHDMIAlternate>>
  /\ untidy' = (untidy \/ hpc # "idle")
  /\ UNCHANGED <<mHDMIPlugged, connected, mHDMIImpl, mHDMIAlternateImpl, flagVars, makeVars,
                 devVars, stale, overtaken, notComposer>>

\* hwc_set looks at the list and at the cable once.
hwc_set ==
  /\ cpc = "set"
  /\ cpc' = IF ~(contents /\ mHDMIPlugged) THEN "scenario"
            ELSE IF ~mChangeHDMIImpl THEN "show"
            ELSE IF mHDMIAlternateImpl.gone THEN "crashed"
            ELSE IF mUseHDMIAlternate THEN "mainOff" ELSE "altOff"
  /\ contents' = FALSE
  /\ UNCHANGED <<mHDMIPlugged, connected, implVars, flagVars, makeVars, devVars, history,
                 notComposer>>

UseAlternate ==
  \/ DisableMain("mainOff", "altOn") /\ UNCHANGED mChangeHDMIImpl
  \/ EnableAlternate("altOn", "scenario") /\ mChangeHDMIImpl' = FALSE

UseOriginal_OnFirst ==
  \/ EnableMain("altOff", "mainOn") /\ UNCHANGED mChangeHDMIImpl
  \/ DisableAlternate("mainOn", "scenario") /\ mChangeHDMIImpl' = FALSE

UseOriginal ==
  \/ DisableAlternate("altOff", "mainOn") /\ UNCHANGED mChangeHDMIImpl
  \/ EnableMain("mainOn", "scenario") /\ mChangeHDMIImpl' = FALSE

\* set configures HDMI once after each disable.
SetImpl ==
  /\ CGoto("show", "render")
  /\ IF mUseHDMIAlternate
     THEN mHDMIAlternateImpl' = [mHDMIAlternateImpl EXCEPT !.mHDMIConfigured = TRUE]
          /\ UNCHANGED mHDMIImpl
          /\ preset' = IF mHDMIAlternateImpl.mHDMIConfigured THEN preset
                       ELSE ModeOf(mHDMIAlternateImpl)
     ELSE mHDMIImpl' = [mHDMIImpl EXCEPT !.mHDMIConfigured = TRUE]
          /\ UNCHANGED mHDMIAlternateImpl
          /\ preset' = IF mHDMIImpl.mHDMIConfigured THEN preset ELSE ModeOf(mHDMIImpl)
  /\ UNCHANGED <<mUseHDMIAlternate, mChangeHDMIImpl, links, queued>>

\* render, if the list had a buffer for it.
RenderImpl ==
  /\ CGoto("render", "scenario")
  /\ \/ UNCHANGED <<mHDMIImpl, mHDMIAlternateImpl, queued>>
     \/ /\ mUseHDMIAlternate /\ UNCHANGED mHDMIImpl
        /\ LET r == render(mHDMIAlternateImpl, queued)
           IN  mHDMIAlternateImpl' = r.i /\ queued' = r.q
     \/ /\ ~mUseHDMIAlternate /\ UNCHANGED mHDMIAlternateImpl
        /\ LET r == render(mHDMIImpl, queued) IN mHDMIImpl' = r.i /\ queued' = r.q
  /\ UNCHANGED <<mUseHDMIAlternate, mChangeHDMIImpl, links, preset>>

\* The end of set: first a new scenario, then a new HDMI implementor.
IfScenario ==
  /\ cpc = "scenario" /\ cpc' = IF mChangingScenario THEN "scOff" ELSE "change"
  /\ UNCHANGED <<mHDMIPlugged, connected, implVars, flagVars, contents, makeVars, devVars,
                 history, notComposer>>

\* The arguments of HWCreator::create are read one by one, in the order the
\* compiler chose, for the implementor and again for its alternate.
ReadArgument ==
  /\ cpc \in {"scNew", "scAlt", "chNew", "chAlt"} /\ UNCHANGED cpc
  /\ \/ /\ "scenario" \in unread /\ unread' = unread \ {"scenario"}
        /\ args' = [args EXCEPT !.scenario = mUsageScenario]
        /\ lost' = (lost /\ cpc \notin {"scNew", "chNew"})
     \/ /\ "w" \in unread /\ unread' = unread \ {"w"}
        /\ args' = [args EXCEPT !.w = mHDMIWidth] /\ UNCHANGED lost
     \/ /\ "h" \in unread /\ unread' = unread \ {"h"}
        /\ args' = [args EXCEPT !.h = mHDMIHeight] /\ UNCHANGED lost
  /\ UNCHANGED <<mHDMIPlugged, connected, made, implVars, flagVars, contents, devVars, history,
                 configVars, cableVars, hpc, binderVars>>

ArgumentsRead == unread = {} /\ unread' = Args /\ args' = NoArgs

MakeMain ==
  /\ CGoto("scNew", "scAlt") \/ CGoto("chNew", "chAlt")
  /\ ArgumentsRead /\ made' = create(args.scenario, args.w, args.h)
  /\ UNCHANGED <<mHDMIPlugged, connected, implVars, flagVars, contents, devVars, history,
                 notComposer>>

\* Both take the place of the old ones.
Create(from, to) ==
  /\ CGoto(from, to)
  /\ ArgumentsRead /\ made' = None
  /\ mHDMIImpl' = made
  /\ mHDMIAlternateImpl' = createAlternate(args.scenario, args.w, args.h)
  /\ mUseHDMIAlternate' = FALSE
  /\ UNCHANGED devVars

AlternateEnabled == IF mHDMIAlternateImpl.gone THEN FALSE ELSE mHDMIAlternateImpl.mEnabled

\* changeUsageScenario, which does not ask for the cable.
changeUsageScenario ==
  \/ DisableMain("scOff", "scAltOff") /\ UNCHANGED mChangeHDMIImpl
  \/ /\ AlternateEnabled
     /\ DisableAlternate("scAltOff", "scNew") /\ UNCHANGED mChangeHDMIImpl
  \/ /\ ~AlternateEnabled
     /\ CGoto("scAltOff", "scNew") /\ UNCHANGED <<implVars, devVars>>
  \/ EnableMain("scOn", "scEnd") /\ UNCHANGED mChangeHDMIImpl

CreateScenario ==
  /\ Create("scAlt", "scOn") /\ mChangeHDMIImpl' = FALSE
  /\ UNCHANGED <<mHDMIPlugged, connected, flagVars, contents, history, notComposer>>

ScenarioChanged ==
  /\ CGoto("scEnd", "change")
  /\ mChangingScenario' = FALSE
  /\ UNCHANGED <<mHDMIPlugged, connected, implVars, mChangingImpl, mChangeImplLock, contents,
                 makeVars, devVars, history, notComposer>>

\* changeHDMIImpl, under mChangeImplLock.
IfChange ==
  /\ cpc = "change" /\ ~mChangeImplLock
  /\ IF mChangingImpl
     THEN /\ mChangeImplLock' = TRUE
          /\ cpc' = IF mHDMIPlugged THEN "chOff" ELSE "chNew"
          /\ mHDMIPlugged' = FALSE
     ELSE cpc' = "idle" /\ UNCHANGED <<mChangeImplLock, mHDMIPlugged>>
  /\ UNCHANGED <<connected, implVars, mChangingScenario, mChangingImpl, contents, makeVars,
                 devVars, history, notComposer>>

changeHDMIImpl ==
  \/ DisableMain("chOff", "chAltOff") /\ UNCHANGED connected
  \/ /\ ~mHDMIAlternateImpl.gone /\ DisableAlternate("chAltOff", "chNew")
     /\ connected' = FALSE
  \/ /\ mHDMIAlternateImpl.gone /\ CGoto("chAltOff", "chNew") /\ connected' = FALSE
     /\ UNCHANGED <<mHDMIImpl, mHDMIAlternateImpl, mUseHDMIAlternate, devVars>>
  \/ EnableMain("chOn", "chEnd") /\ connected' = TRUE

\* The pending swap between the old implementors is not taken back.
Replace ==
  /\ Create("chAlt", "chPlug")
  /\ untidy' = (untidy \/ mHDMIImpl.mEnabled)
  /\ overtaken' = (overtaken \/ mChangeHDMIImpl)
  /\ UNCHANGED <<mHDMIPlugged, connected, mChangeHDMIImpl, flagVars, contents, stale,
                 notComposer>>

IfConnected_Always ==
  /\ \/ CGoto("chPlug", "chSet") /\ stale' = FALSE /\ UNCHANGED mHDMIPlugged
     \/ CGoto("chSet", "chOn") /\ mHDMIPlugged' = TRUE /\ UNCHANGED stale
  /\ UNCHANGED <<connected, implVars, flagVars, contents, makeVars, devVars, untidy, overtaken,
                 notComposer>>

\* The switch is read, not the events; mHDMIPlugged is written after.
IfConnected ==
  /\ \/ /\ cpc = "chPlug" /\ cpc' = IF cable THEN "chSet" ELSE "chEnd"
        /\ stale' = FALSE /\ UNCHANGED mHDMIPlugged
     \/ CGoto("chSet", "chOn") /\ mHDMIPlugged' = TRUE /\ UNCHANGED stale
  /\ UNCHANGED <<connected, implVars, flagVars, contents, makeVars, devVars, untidy, overtaken,
                 notComposer>>

ImplChanged ==
  /\ CGoto("chEnd", "idle")
  /\ mChangingImpl' = FALSE /\ mChangeImplLock' = FALSE
  /\ UNCHANGED <<mHDMIPlugged, connected, implVars, mChangingScenario, contents, makeVars,
                 devVars, history, notComposer>>

Composer ==
  \/ hwc_prepare \/ hwc_set \/ IfScenario \/ ReadArgument \/ MakeMain \/ CreateScenario
  \/ ScenarioChanged \/ IfChange \/ Replace \/ IfConnected \/ ImplChanged
  \/ /\ \/ /\ UseAlternate \/ UseOriginal \/ SetImpl \/ RenderImpl \/ changeUsageScenario
           /\ UNCHANGED connected
        \/ changeHDMIImpl /\ UNCHANGED mChangeHDMIImpl
     /\ UNCHANGED <<mHDMIPlugged, flagVars, contents, makeVars, history, notComposer>>

-----------------------------------------------------------------------------
(* The uevent thread.                                                      *)

Alive == cpc # "crashed"
notHot == <<configVars, mUseHDMIAlternate, mChangeHDMIImpl, flagVars, cpc, contents, makeVars,
            binderVars, lost, overtaken>>

\* External: the cable is plugged or pulled.
Plug ==
  /\ plugs + requests < MaxChanges /\ plugs' = plugs + 1
  /\ cable' = ~cable /\ uevents' = Append(uevents, ~cable)
  /\ UNCHANGED <<mHDMIPlugged, connected, mHDMIImpl, mHDMIAlternateImpl, devVars, hpc, untidy,
                 stale, notHot>>

\* An event is compared with mHDMIPlugged, which is written after.
handleHDMIEvent ==
  /\ Alive
  /\ \/ /\ hpc = "idle" /\ uevents # <<>> /\ uevents' = Tail(uevents)
        /\ hpc' = IF Head(uevents) = mHDMIPlugged THEN "idle"
                  ELSE IF Head(uevents) THEN "plug" ELSE "unplug"
        /\ stale' = (cpc = "chSet" /\ ~Head(uevents))
        /\ UNCHANGED mHDMIPlugged
     \/ /\ hpc = "plug" /\ hpc' = "enable" /\ mHDMIPlugged' = TRUE
        /\ UNCHANGED <<uevents, stale>>
     \/ /\ hpc = "unplug" /\ hpc' = "disable" /\ mHDMIPlugged' = FALSE
        /\ UNCHANGED <<uevents, stale>>
  /\ untidy' = (untidy \/ cpc # "idle" \/ mUseHDMIAlternate)
  /\ UNCHANGED <<connected, mHDMIImpl, mHDMIAlternateImpl, devVars, cable, plugs, notHot>>

Hotplug ==
  /\ Alive
  /\ \/ /\ hpc = "enable" /\ hpc' = "idle" /\ connected' = mHDMIPlugged
        /\ mHDMIImpl' = Enabled(mHDMIImpl) /\ links' = EnableLinks(mHDMIImpl, links)
        /\ UNCHANGED <<mHDMIAlternateImpl, queued>>
     \/ /\ hpc = "disable" /\ hpc' = "disableAlt" /\ UNCHANGED connected
        /\ mHDMIImpl' = Disabled(mHDMIImpl) /\ links' = DisableLinks(mHDMIImpl, links)
        /\ queued' = DisableQueue(mHDMIImpl, queued)
        /\ UNCHANGED mHDMIAlternateImpl
     \/ /\ hpc = "disableAlt" /\ hpc' = "idle" /\ connected' = mHDMIPlugged
        /\ IF mHDMIAlternateImpl.gone
           THEN UNCHANGED <<mHDMIAlternateImpl, links, queued>>
           ELSE /\ mHDMIAlternateImpl' = Disabled(mHDMIAlternateImpl)
                /\ links' = DisableLinks(mHDMIAlternateImpl, links)
                /\ queued' = DisableQueue(mHDMIAlternateImpl, queued)
        /\ UNCHANGED mHDMIImpl
  /\ untidy' = (untidy \/ cpc # "idle")
  /\ UNCHANGED <<mHDMIPlugged, preset, cableVars, stale, notHot>>

-----------------------------------------------------------------------------
(* The binder threads.                                                     *)

BGoto(b, from, to) == Alive /\ bpc[b] = from /\ bpc' = [bpc EXCEPT ![b] = to]
notBinder == <<mHDMIPlugged, connected, implVars, mChangeImplLock, cpc, contents, makeVars,
               devVars, cableVars, hpc, history>>

Request(b, to, a) ==
  /\ BGoto(b, "idle", to) /\ arg' = [arg EXCEPT ![b] = a]
  /\ plugs + requests < MaxChanges /\ requests' = requests + 1

\* The scenario has been read in vain: the flag will be cleared, or was.
ReadBefore ==
  \/ ~mChangingScenario \/ cpc \in {"scAlt", "scOn", "scEnd"}
  \/ cpc = "scNew" /\ "scenario" \notin unread

\* The flag is raised before the scenario is there.
handleUsageScenarioChanged(b) ==
  \/ /\ \E s \in Wanted :
          s # mUsageScenario /\ Request(b, "scenario", [Nothing EXCEPT !.scenario = s])
     /\ mChangingScenario' = TRUE
     /\ UNCHANGED <<configVars, mChangingImpl, lost, notBinder>>
  \/ /\ BGoto(b, "scenario", "idle") /\ arg' = [arg EXCEPT ![b] = Nothing]
     /\ mUsageScenario' = arg[b].scenario
     /\ lost' = ReadBefore
     /\ UNCHANGED <<mHDMIWidth, mHDMIHeight, mHDMIPreset, mScreenDownSizing, mChangingScenario,
                    mChangingImpl, requests, notBinder>>

\* handleResolutionChanged with setHDMIPreset.
handleResolutionChanged(b) ==
  /\ \/ /\ \E p \in Presets : p # mHDMIPreset /\ Request(b, "width", [Nothing EXCEPT !.height = p])
        /\ UNCHANGED configVars
     \/ /\ BGoto(b, "width", "height") /\ mHDMIWidth' = arg[b].height
        /\ UNCHANGED <<mUsageScenario, mHDMIHeight, mHDMIPreset, mScreenDownSizing, arg, requests>>
     \/ /\ BGoto(b, "height", "preset") /\ mHDMIHeight' = arg[b].height
        /\ UNCHANGED <<mUsageScenario, mHDMIWidth, mHDMIPreset, mScreenDownSizing, arg, requests>>
     \/ /\ BGoto(b, "preset", "change") /\ mHDMIPreset' = arg[b].height
        /\ UNCHANGED <<mUsageScenario, mHDMIWidth, mHDMIHeight, mScreenDownSizing, arg, requests>>
  /\ UNCHANGED <<mChangingScenario, mChangingImpl, lost, notBinder>>

Rescaled(s) == [s EXCEPT !.resc = TRUE]

\* handleScreenDownSizingChanged with determineUsageScenario.
handleScreenDownSizingChanged(b) ==
  /\ \/ /\ Request(b, "determine", Nothing) /\ mScreenDownSizing' = ~mScreenDownSizing
        /\ UNCHANGED <<mUsageScenario, lost>>
     \/ /\ BGoto(b, "determine", "change")
        /\ mUsageScenario' = IF mScreenDownSizing THEN Rescaled(mUsageScenario) ELSE Original
        /\ UNCHANGED <<mScreenDownSizing, arg, requests, lost>>
  /\ UNCHANGED <<mHDMIWidth, mHDMIHeight, mHDMIPreset, mChangingScenario, mChangingImpl,
                 notBinder>>

RaiseChanging_NoLock(b) ==
  /\ BGoto(b, "change", "idle") /\ arg' = [arg EXCEPT ![b] = Nothing]
  /\ mChangingImpl' = TRUE
  /\ UNCHANGED <<configVars, mChangingScenario, requests, lost, notBinder>>

\* Both raise mChangingImpl under its lock.
RaiseChanging(b) ==
  /\ BGoto(b, "change", "idle") /\ arg' = [arg EXCEPT ![b] = Nothing]
  /\ ~mChangeImplLock /\ mChangingImpl' = TRUE
  /\ UNCHANGED <<configVars, mChangingScenario, requests, lost, notBinder>>

Binder(b) ==
  \/ handleUsageScenarioChanged(b) \/ handleResolutionChanged(b)
  \/ handleScreenDownSizingChanged(b) \/ RaiseChanging(b)

-----------------------------------------------------------------------------
Next == Composer \/ Plug \/ handleHDMIEvent \/ Hotplug \/ \E b \in Binders : Binder(b)

Spec == Init /\ [][Next]_vars

-----------------------------------------------------------------------------
(* Properties.                                                             *)

Impls ==
  [gone : {FALSE}, scenario : Scenarios, w : Presets \cup {0, Screen},
   h : Presets \cup {0, Screen}, mEnabled : BOOLEAN, mHDMIConfigured : BOOLEAN,
   mStarted : BOOLEAN, mOutCount : 0 .. 2, mOutIndex : 0 .. 2]

\* The type of the state, in parts.
PlainType ==
  /\ {mHDMIPlugged, mScreenDownSizing, mUseHDMIAlternate, mChangeHDMIImpl, mChangingScenario,
      mChangingImpl, mChangeImplLock, contents, cable, connected, lost, untidy, stale,
      overtaken} \subseteq BOOLEAN
  /\ cpc \in {"idle", "set", "show", "render", "mainOff", "altOn", "altOff", "mainOn", "scenario",
              "scOff", "scAltOff", "scNew", "scAlt", "scOn", "scEnd", "change", "chOff",
              "chAltOff", "chNew", "chAlt", "chPlug", "chSet", "chOn", "chEnd", "crashed"}
  /\ unread \subseteq Args /\ uevents \in Seq(BOOLEAN)
  /\ hpc \in {"idle", "plug", "unplug", "enable", "disable", "disableAlt"}
  /\ plugs \in 0 .. MaxChanges /\ requests \in 0 .. MaxChanges

ConfigType ==
  /\ mUsageScenario \in Scenarios /\ {mHDMIWidth, mHDMIHeight, mHDMIPreset} \subseteq Presets
  /\ args \in [scenario : Scenarios, w : Presets, h : Presets]

DevType ==
  /\ mHDMIImpl \in Impls /\ mHDMIAlternateImpl \in Impls \cup {None}
  /\ made \in Impls \cup {None}
  /\ links \subseteq {"hdmi", "resol"} /\ preset \in Presets \cup {0}
  /\ queued \in Seq(0 .. 2) /\ Len(queued) <= 3

BinderType ==
  /\ bpc \in [Binders -> {"idle", "scenario", "width", "height", "preset", "determine", "change"}]
  /\ arg \in [Binders -> [scenario : Scenarios, height : Presets \cup {0}]]

TypeOK == PlainType /\ ConfigType /\ DevType /\ BinderType

\* Nothing is asked for and nothing is on its way.
Quiet ==
  /\ cpc = "idle" /\ hpc = "idle" /\ uevents = <<>> /\ \A b \in Binders : bpc[b] = "idle"
  /\ ~mChangingScenario /\ ~mChangingImpl

\* Once all is quiet, HDMI is driven by an implementor made for the scenario and
\* the resolution asked for last, although a binder thread writes them one by
\* one while the composing thread reads them: mChangingImpl is raised after,
\* under the lock that covers the whole replacement.  A scenario alone has no
\* such lock and can be lost, until the next replacement.
ImplFollows ==
  Quiet =>
    LET s == IF lost THEN mHDMIImpl.scenario ELSE mUsageScenario
        i == create(s, mHDMIWidth, mHDMIHeight)
    IN  mHDMIImpl.scenario = s /\ mHDMIImpl.w = i.w /\ mHDMIImpl.h = i.h

InUse == IF mUseHDMIAlternate THEN mHDMIAlternateImpl ELSE mHDMIImpl

\* Once all is quiet and the cable is in, the implementor in use is enabled and
\* its link, and no other, leads to HDMI, whatever swaps and replacements there
\* were.  The conditions in untidy are those under which it may stay dark or
\* keep a link of the implementor before.
LinkedWhilePlugged ==
  Quiet /\ mHDMIPlugged /\ ~untidy => InUse.mEnabled /\ links = {Link(InUse)}

\* Once all is quiet the composer agrees with the cable: the replacement of the
\* implementor reads the switch, the events come later and twice what is known,
\* and both write, at any step of a composition.  Only an event that comes
\* between the replacement's read and its write is forgotten, until the next.
PluggedAsCable == Quiet /\ ~stale => mHDMIPlugged = cable

\* The alternate is used only when there is one, although a swap is asked for
\* in one composition and may be made after the implementors were replaced:
\* changeUsageScenario takes the request back, changeHDMIImpl alone does not.
SwapHasAlternate == cpc = "crashed" => overtaken

\* A renderer never gives the node a buffer the node still holds, and its count
\* is the node's, over stops, swaps and replacements; the mirror, which keeps
\* its count over a stop, may count buffers that are gone, but misses none.
QueueFollows ==
  cpc = "render" /\ ~untidy =>
    /\ ~Holds(queued, InUse.mOutIndex)
    /\ InUse.mOutCount >= Len(queued)
    /\ ~InUse.scenario.mirror => InUse.mOutCount = Len(queued)

\* What is rendered is rendered in the mode its implementor needs: the one
\* before was disabled and its mode forgotten.
ModeShown == cpc = "render" /\ ~untidy => preset = ModeOf(InUse)

\* The state is well typed, agrees with the cable, and has what it swaps.
StateInStep == TypeOK /\ PluggedAsCable /\ SwapHasAlternate

\* HDMI is lit by the implementor in use, in the mode that one needs.
HdmiShown == LinkedWhilePlugged /\ ModeShown
=============================================================================
