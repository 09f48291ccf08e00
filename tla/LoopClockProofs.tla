-------------------------- MODULE LoopClockProofs --------------------------
(***************************************************************************)
(* Proofs about LoopClock, for a loop of any length and frames of any      *)
(* distance.                                                               *)
(***************************************************************************)
EXTENDS LoopClock, TLAPS

(* What the properties rest on: frames are scheduled only while playing,   *)
(* always while the preference stays, a clock not mounted is idle, and a   *)
(* pause of the reader is not marked automatic.                            *)
Inv ==
    /\ TypeOK
    /\ NoTimeSkipped
    /\ PlaysByFrames
    /\ frame => status = "playing"
    /\ ~mounted => status = "idle"
    /\ byUser => status = "paused" /\ ~autoPaused

(* Initially nothing plays.                                                *)
LEMMA InitInv == Init => Inv
<1> SUFFICES ASSUME Init PROVE Inv
    OBVIOUS
<1>1. 0 \in Time /\ 0 \in 0..MaxFlips
    BY LoopAssumption DEF Time, LoopAssumption
<1>2. TypeOK
    BY <1>1, Zenon DEF Init, TypeOK
<1>3. NoTimeSkipped /\ PlaysByFrames /\ (frame => status = "playing")
    BY Zenon DEF Init, NoTimeSkipped, PlaysByFrames
<1>4. (~mounted => status = "idle") /\ (byUser => status = "paused" /\ ~autoPaused)
    BY Zenon DEF Init
<1> QED
    BY <1>2, <1>3, <1>4 DEF Inv

(* The time stays inside the loop.                                         *)
LEMMA Wraps == ASSUME NEW a \in Time, NEW d \in Nat PROVE (a + d) % Loop \in Time
BY LoopAssumption DEF LoopAssumption, Time

(* What a step of the gate keeps of the clock.                             *)
GateKeeps ==
    /\ status' \in {"idle", "playing", "paused"} /\ t' = t
    /\ lastNow' \in {"none", "fresh", "stale"} /\ frame' \in BOOLEAN
    /\ autoPaused' \in BOOLEAN /\ byUser' \in BOOLEAN
    /\ frame' => lastNow' # "stale"
    /\ status = "idle" => status' = "idle"
    /\ byUser => status' = "paused"
    /\ byUser' => status' = "paused" /\ ~autoPaused'
    /\ frame' => status' = "playing"
    /\ flips = 0 => (frame' <=> status' = "playing")

(* The gate pauses what plays and resumes what it paused.                  *)
LEMMA AutoGate == ASSUME Inv, NEW hidden \in BOOLEAN, autoGate(hidden) PROVE GateKeeps
<1> USE DEF Inv, TypeOK, NoTimeSkipped, PlaysByFrames, GateKeeps
<1>1. CASE hidden /\ status = "playing" /\ autoPaused'
  <2>1. ~byUser
      BY <1>1
  <2>2. ~byUser'
      BY <1>1, <2>1, Zenon DEF autoGate, clock
  <2> QED
      BY <1>1, <2>1, <2>2 DEF autoGate, Hold, Aged, clock
<1>2. CASE ~hidden /\ autoPaused /\ status = "paused" /\ ~captured
    BY <1>2 DEF autoGate, Play, clock
<1>3. CASE ~hidden /\ autoPaused /\ ~(status = "paused" /\ ~captured)
    BY <1>3 DEF autoGate, clock
<1>4. CASE (hidden /\ status # "playing") \/ (~hidden /\ ~autoPaused)
    BY <1>4 DEF autoGate, clock
<1> QED
    BY <1>1, <1>2, <1>3, <1>4 DEF autoGate

(* Every step keeps the invariant, action by action.                       *)
LEMMA NextInv == Inv /\ [Next]_vars => Inv'
<1> SUFFICES ASSUME Inv, [Next]_vars PROVE Inv'
    OBVIOUS
<1> USE LoopAssumption DEF LoopAssumption, Inv, TypeOK, NoTimeSkipped, PlaysByFrames,
        Hold, Play, Aged, clock, host
<1>0. 0 \in Time
    BY DEF Time
<1>1. CASE Mount
    BY <1>0, <1>1 DEF Mount, start
<1>2. CASE Toggle
  <2>1. CASE pause
    BY <1>2, <2>1 DEF Toggle, pause
  <2>2. CASE resume
    BY <1>2, <2>2 DEF Toggle, resume
  <2> QED
    BY <1>2, <2>1, <2>2 DEF Toggle
<1>3. CASE Escape
    BY <1>3 DEF Escape, pause
<1>4. CASE Replay
    BY <1>0, <1>4 DEF Replay
<1>5. ASSUME NEW at \in Time, Seek(at) PROVE Inv'
  <2>1. CASE status = "paused" /\ captured
    BY <1>5, <2>1 DEF Seek
  <2>2. CASE status = "paused" /\ ~captured
    BY <1>5, <2>2 DEF Seek
  <2>3. CASE status = "playing"
    BY <1>5, <2>3 DEF Seek
  <2> QED
    BY <1>5, <2>1, <2>2, <2>3 DEF Seek
<1>6. CASE Tick
  <2>1. CASE status # "playing"
    BY <1>6, <2>1 DEF Tick
  <2>2. CASE status = "playing"
    <3>1. PICK d \in Nat : t' = (t + d) % Loop
        BY <1>6, <2>2 DEF Tick
    <3>2. t' \in Time
        BY <3>1, Wraps
    <3> QED
        BY <1>6, <2>2, <3>2 DEF Tick
  <2> QED
    BY <2>1, <2>2
<1>7. CASE VisibilityChange
  <2>1. tab' \in BOOLEAN /\ autoGate(~tab')
    BY <1>7 DEF VisibilityChange
  <2>2. GateKeeps
    BY <2>1, AutoGate
  <2> QED
    BY <1>7, <2>1, <2>2 DEF VisibilityChange, GateKeeps
<1>8. CASE ViewportChange
  <2>1. stage' \in BOOLEAN /\ autoGate(~stage')
    BY <1>8 DEF ViewportChange
  <2>2. GateKeeps
    BY <2>1, AutoGate
  <2> QED
    BY <1>8, <2>1, <2>2 DEF ViewportChange, GateKeeps
<1>9. CASE PreferenceChange
  <2>1. flips' # 0 /\ flips' \in 0..MaxFlips /\ mounted'
    BY <1>9 DEF PreferenceChange
  <2>2. CASE reduced' \/ status # "idle"
    BY <1>9, <2>1, <2>2 DEF PreferenceChange
  <2>3. CASE ~reduced' /\ status = "idle" /\ captured
    BY <1>0, <1>9, <2>1, <2>3 DEF PreferenceChange, start
  <2>4. CASE ~reduced' /\ status = "idle" /\ ~captured
    BY <1>0, <1>9, <2>1, <2>4 DEF PreferenceChange, start
  <2> QED
    BY <2>2, <2>3, <2>4
<1>10. CASE UNCHANGED vars
    BY <1>10 DEF vars
<1> QED
    BY <1>1, <1>2, <1>3, <1>4, <1>5, <1>6, <1>7, <1>8, <1>9, <1>10 DEF Next

(* The invariant holds in every reachable state.                           *)
THEOREM Invariance == Spec => []Inv
<1>1. Inv /\ [Next]_vars => Inv'
    BY NextInv
<1> QED
    BY InitInv, <1>1, PTL DEF Spec

(* The clock has its type: in particular the time never leaves the loop.   *)
THEOREM TypeCorrect == Spec => []TypeOK
<1>1. Inv => TypeOK
    BY DEF Inv
<1> QED
    BY Invariance, <1>1, PTL

(* A frame is never measured from before a pause.                          *)
THEOREM TimeStandsStill == Spec => []NoTimeSkipped
<1>1. Inv => NoTimeSkipped
    BY DEF Inv
<1> QED
    BY Invariance, <1>1, PTL

(* While the preference stays, the loop plays exactly with its frames.     *)
THEOREM PlayingHasFrames == Spec => []PlaysByFrames
<1>1. Inv => PlaysByFrames
    BY DEF Inv
<1> QED
    BY Invariance, <1>1, PTL

(* No pause of the reader is undone by the tab or the stage coming back.   *)
THEOREM ReaderDecides == Spec => UserPauseStays
<1>1. Inv /\ [Next]_vars =>
          [byUser /\ (tab' # tab \/ stage' # stage) => status' = "paused"]_vars
  <2> SUFFICES ASSUME Inv, Next, byUser, tab' # tab \/ stage' # stage
               PROVE status' = "paused"
      BY DEF vars
  <2>1. VisibilityChange \/ ViewportChange
      BY DEF Next, Mount, Toggle, Escape, Replay, Seek, Tick, PreferenceChange, host
  <2>2. \E hidden \in BOOLEAN : autoGate(hidden)
      BY <2>1 DEF VisibilityChange, ViewportChange, Inv, TypeOK
  <2> QED
      BY <2>2, AutoGate DEF GateKeeps
<1> QED
    BY Invariance, <1>1, PTL DEF Spec, UserPauseStays
=============================================================================
