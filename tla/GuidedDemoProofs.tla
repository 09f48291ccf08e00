-------------------------- MODULE GuidedDemoProofs --------------------------
(***************************************************************************)
(* Proofs about GuidedDemo, for a tour of any length, any set of awaited   *)
(* steps and any number of commands.                                       *)
(***************************************************************************)
EXTENDS GuidedDemo, TLAPS

Timers == [index : Steps, epoch : 0..MaxEpoch]

(* What OneDriver rests on: no call is of an epoch to come, so a command   *)
(* supersedes them all, and the last step arms no timer.                   *)
Inv ==
    /\ TypeOK
    /\ OneDriver
    /\ \A c \in calls : c.epoch <= epoch
    /\ dwell # None => stepIndex # Last
    /\ resets <= epoch

(* The type, apart for the provers: its Boolean and its other conjuncts.   *)
Flags ==
    /\ awaitingReady \in BOOLEAN /\ autoAdvance \in BOOLEAN
    /\ still \in BOOLEAN /\ rejected \in BOOLEAN /\ confirmed \in BOOLEAN

Numbers ==
    /\ status \in {"idle", "running", "paused", "complete", "error"}
    /\ stepIndex \in Steps \cup {Idle}
    /\ epoch \in 0..MaxEpoch
    /\ dwell \in [index : Steps, epoch : 0..MaxEpoch] \cup {None}
    /\ calls \subseteq Call
    /\ resets \in 0..MaxEpoch
    /\ status = "idle" <=> stepIndex = Idle

(* The two parts make the type.                                            *)
LEMMA TypeParts == (TypeOK <=> Flags /\ Numbers) /\ (TypeOK' <=> Flags' /\ Numbers')
BY DEF TypeOK, Flags, Numbers

(* Initially nothing is under way.                                         *)
LEMMA InitInv == Init => Inv
<1> SUFFICES ASSUME Init PROVE Inv
    OBVIOUS
<1>1. TypeOK
  <2>1. Flags
    BY Zenon DEF Init, Flags
  <2>2. Numbers
    BY GuideAssumption DEF GuideAssumption, Init, Numbers, Steps, Idle
  <2> QED
    BY <2>1, <2>2, TypeParts
<1>2. OneDriver
    BY DEF Init, OneDriver, Live
<1> QED
    BY <1>1, <1>2 DEF Init, Inv

(* A command that enters a step leaves one live call, its own.             *)
LEMMA EnterInv ==
    ASSUME Inv, NEW i \in Steps, NEW mode \in {"running", "paused"},
           epoch < MaxEpoch, epoch' = epoch + 1, Enter(i, epoch', mode), resets' = resets
    PROVE  Inv'
<1> USE GuideAssumption DEF GuideAssumption, Steps, Idle
<1> DEFINE c0 == [index |-> i, epoch |-> epoch', at |-> "performing"]
<1>1. epoch \in Nat /\ epoch' \in 0..MaxEpoch /\ c0 \in Call
    BY DEF Inv, TypeOK, Call
<1>2. calls' = calls \cup {c0} /\ dwell' = None /\ autoAdvance' = FALSE /\ stepIndex' = i
          /\ status' = mode
    BY Zenon DEF Enter
<1>3. \A c \in calls : c.epoch <= epoch /\ c.epoch \in Nat
    BY DEF Inv, TypeOK, Call
<1>4. Live' = {c0}
    BY <1>1, <1>2, <1>3 DEF Live
<1>5. OneDriver'
    BY <1>1, <1>2, <1>4 DEF OneDriver
<1>6. TypeOK'
  <2>1. Flags'
    <3>1. awaitingReady' \in BOOLEAN
      BY DEF Enter
    <3> QED
      BY <3>1, TypeParts, Zenon DEF Enter, Inv, Flags
  <2>2. Numbers'
    BY <1>1, <1>2, TypeParts DEF Inv, Numbers
  <2> QED
    BY <2>1, <2>2, TypeParts
<1> QED
    BY <1>1, <1>2, <1>3, <1>5, <1>6 DEF Inv, TypeOK

(* A command that stops the guide leaves nothing live.                     *)
LEMMA StopInv ==
    ASSUME Inv, Supersede, Rest, resets' \in {resets, resets + 1}
    PROVE  Inv'
<1> USE GuideAssumption DEF GuideAssumption, Steps, Idle
<1>1. epoch \in Nat /\ epoch' = epoch + 1 /\ epoch' \in 0..MaxEpoch
    BY DEF Supersede, Inv, TypeOK
<1>2. \A c \in calls : c.epoch <= epoch /\ c.epoch \in Nat
    BY DEF Inv, TypeOK, Call
<1>3. calls' = calls /\ Live' = {}
    BY <1>1, <1>2 DEF Rest, Live
<1>4. OneDriver'
    BY <1>3 DEF OneDriver, Rest
<1>5. TypeOK'
  <2>1. Flags'
    BY TypeParts, Zenon DEF Rest, history, Inv, Flags
  <2>2. Numbers'
    BY <1>1, <1>3, TypeParts DEF Rest, Inv, Numbers
  <2> QED
    BY <2>1, <2>2, TypeParts
<1> QED
    BY <1>1, <1>2, <1>3, <1>4, <1>5 DEF Inv, Rest, TypeOK

(* A pause leaves nothing live.                                            *)
LEMMA PauseInv == Inv /\ pause => Inv'
<1> USE GuideAssumption DEF GuideAssumption, Steps, Idle
<1> SUFFICES ASSUME Inv, pause PROVE Inv'
    OBVIOUS
<1>1. epoch \in Nat /\ epoch' = epoch + 1 /\ epoch' \in 0..MaxEpoch
    BY DEF pause, Supersede, Inv, TypeOK
<1>2. \A c \in calls : c.epoch <= epoch /\ c.epoch \in Nat
    BY DEF Inv, TypeOK, Call
<1>3. calls' = calls /\ Live' = {}
    BY <1>1, <1>2 DEF pause, Live
<1>4. OneDriver'
    BY <1>3 DEF OneDriver, pause
<1>5. TypeOK'
    BY <1>1, <1>3 DEF pause, history, Inv, TypeOK
<1> QED
    BY <1>1, <1>2, <1>3, <1>4, <1>5 DEF Inv, pause, TypeOK

(* Resuming leaves at most the timer.                                      *)
LEMMA ResumeInv == Inv /\ resume => Inv'
<1> USE GuideAssumption, NoneAssumption DEF GuideAssumption, NoneAssumption, Steps, Idle
<1> SUFFICES ASSUME Inv, resume PROVE Inv'
    OBVIOUS
<1>1. epoch \in Nat /\ epoch' = epoch + 1 /\ epoch' \in 0..MaxEpoch
    BY DEF resume, Supersede, Inv, TypeOK
<1>2. \A c \in calls : c.epoch <= epoch /\ c.epoch \in Nat
    BY DEF Inv, TypeOK, Call
<1>3. calls' = calls /\ Live' = {}
    BY <1>1, <1>2 DEF resume, Live
<1>4. status = "paused" /\ dwell = None /\ autoAdvance = FALSE /\ stepIndex \in Steps
          /\ stepIndex' = stepIndex
    BY DEF resume, Inv, OneDriver, TypeOK
<1>5. CASE stepIndex = Last
  <2>1. status' = "complete" /\ autoAdvance' = FALSE /\ dwell' = None /\ still' = still
    BY <1>4, <1>5 DEF resume
  <2>2. OneDriver'
    BY <1>3, <2>1 DEF OneDriver
  <2>3. TypeOK'
    BY <1>1, <1>3, <1>4, <2>1 DEF resume, Inv, TypeOK
  <2> QED
    BY <1>1, <1>2, <1>3, <2>1, <2>2, <2>3 DEF Inv, resume, TypeOK
<1>6. CASE stepIndex # Last
  <2> DEFINE d == [index |-> stepIndex, epoch |-> epoch']
  <2>1. /\ status' = "running" /\ still' \in BOOLEAN /\ autoAdvance' = ~still'
        /\ dwell' = IF still' THEN None ELSE d
    BY <1>4, <1>6 DEF resume
  <2>2. d \in Timers /\ d # None
    BY <1>1, <1>4 DEF Timers
  <2>3. OneDriver'
    BY <1>3, <1>4, <2>1, <2>2 DEF OneDriver
  <2>4. TypeOK'
    BY <1>1, <1>3, <1>4, <2>1, <2>2 DEF resume, Inv, TypeOK, Timers
  <2> QED
    BY <1>1, <1>2, <1>3, <1>4, <1>6, <2>3, <2>4 DEF Inv, resume, TypeOK
<1> QED
    BY <1>5, <1>6

(* What arming the timer does, when the call that arms it was alone.       *)
LEMMA ArmInv ==
    ASSUME Inv, dwell = None, status = "running", Arm(epoch), epoch' = epoch, Live' = {},
           calls' \subseteq calls, resets' = resets, rejected' = rejected,
           confirmed' \in BOOLEAN, awaitingReady' \in BOOLEAN
    PROVE  Inv'
<1> USE GuideAssumption, NoneAssumption DEF GuideAssumption, NoneAssumption, Steps, Idle
<1>1. epoch \in 0..MaxEpoch /\ stepIndex \in Steps /\ stepIndex' = stepIndex
    BY DEF Inv, TypeOK, Arm
<1>2. CASE stepIndex = Last
  <2>1. status' = "complete" /\ autoAdvance' = FALSE /\ dwell' = None /\ still' = still
    BY <1>2 DEF Arm
  <2>2. OneDriver'
    BY <2>1 DEF OneDriver
  <2>3. TypeOK'
    BY <1>1, <2>1 DEF Inv, TypeOK
  <2> QED
    BY <2>1, <2>2, <2>3 DEF Inv
<1>3. CASE stepIndex # Last
  <2> DEFINE d == [index |-> stepIndex, epoch |-> epoch]
  <2>1. /\ status' = "running" /\ still' \in BOOLEAN /\ autoAdvance' = ~still'
        /\ dwell' = IF still' THEN None ELSE d
    BY <1>3 DEF Arm
  <2>2. d \in Timers /\ d # None
    BY <1>1 DEF Timers
  <2>3. OneDriver'
    BY <1>1, <2>1, <2>2 DEF OneDriver
  <2>4. TypeOK'
    BY <1>1, <2>1, <2>2 DEF Inv, TypeOK, Timers
  <2> QED
    BY <1>1, <1>3, <2>3, <2>4 DEF Inv
<1> QED
    BY <1>2, <1>3

(* A call that ends takes its liveness along; the others keep theirs.      *)
LEMMA EndedCall ==
    ASSUME Inv, NEW c \in calls, calls' = calls \ {c}, epoch' = epoch
    PROVE  /\ Live' \subseteq Live
           /\ c.epoch = epoch => Live' = {} /\ dwell = None /\ c.index = stepIndex
           /\ c.epoch # epoch => Live' = Live
BY DEF Inv, OneDriver, Live

(* An action of the host that is done leads to the wait, or to the timer.  *)
LEMMA PerformedInv == ASSUME Inv, NEW c \in calls, Performed(c) PROVE Inv'
<1> USE DEF Steps
<1>1. epoch' = epoch /\ resets' = resets /\ rejected' = rejected /\ confirmed' = confirmed
    BY DEF Performed
<1>2. CASE c.epoch = epoch /\ c.index \in Awaited
  <2> DEFINE w == [c EXCEPT !.at = "waiting"]
  <2>1. calls' = (calls \ {c}) \cup {w} /\ UNCHANGED <<state, dwell, still>>
    BY <1>2 DEF Performed
  <2>2. c \in Call /\ w \in Call /\ w.epoch = c.epoch /\ w.index = c.index
    BY DEF Inv, TypeOK, Call
  <2>3. Live' = {w} /\ c \in Live
    <3>1. \A d \in calls : d.epoch = epoch => d = c
      BY <1>2 DEF Inv, OneDriver, Live
    <3> QED
      BY <1>1, <1>2, <2>1, <2>2, <3>1 DEF Live
  <2>4. OneDriver'
    BY <1>1, <2>1, <2>2, <2>3 DEF Inv, OneDriver, state
  <2>5. TypeOK'
    BY <1>1, <2>1, <2>2 DEF Inv, TypeOK, state
  <2> QED
    BY <1>1, <2>1, <2>2, <2>4, <2>5 DEF Inv, state
<1>3. CASE ~(c.epoch = epoch /\ c.index \in Awaited)
  <2>1. calls' = calls \ {c}
    BY <1>3, Zenon DEF Performed
  <2>2. /\ Live' \subseteq Live
        /\ c.epoch = epoch => Live' = {} /\ dwell = None /\ c.index = stepIndex
    BY <1>1, <2>1, EndedCall
  <2>3. CASE c.epoch = epoch /\ c.index \notin Awaited /\ status = "running"
    <3>1. Arm(epoch) /\ awaitingReady' = awaitingReady
      BY <2>3 DEF Performed
    <3>2. awaitingReady' \in BOOLEAN /\ confirmed' \in BOOLEAN
      BY <1>1, <3>1, Zenon DEF Inv, TypeOK
    <3> QED
      BY <1>1, <2>1, <2>2, <2>3, <3>1, <3>2, ArmInv
  <2>4. CASE ~(c.epoch = epoch /\ c.index \notin Awaited /\ status = "running")
    <3>1. UNCHANGED <<state, dwell, still>>
      BY <2>4 DEF Performed
    <3>2. OneDriver'
      BY <1>1, <2>2, <3>1 DEF Inv, OneDriver, state
    <3>3. TypeOK'
      BY <1>1, <2>1, <3>1 DEF Inv, TypeOK, state
    <3> QED
      BY <1>1, <2>1, <3>1, <3>2, <3>3 DEF Inv, state
  <2> QED
    BY <2>3, <2>4
<1> QED
    BY <1>2, <1>3

(* The answer of the host ends the call.                                   *)
LEMMA ReadyInv == ASSUME Inv, NEW c \in calls, NEW r \in BOOLEAN, Ready(c, r) PROVE Inv'
<1>1. epoch' = epoch /\ resets' = resets /\ rejected' = rejected /\ calls' = calls \ {c}
    BY DEF Ready
<1>2. /\ Live' \subseteq Live
      /\ c.epoch = epoch => Live' = {} /\ dwell = None /\ c.index = stepIndex
    BY <1>1, EndedCall
<1>3. CASE c.epoch # epoch
  <2>1. UNCHANGED <<state, dwell, still, confirmed>>
    BY <1>3 DEF Ready
  <2>2. OneDriver'
    BY <1>1, <1>2, <2>1 DEF Inv, OneDriver, state
  <2>3. TypeOK'
    BY <1>1, <2>1 DEF Inv, TypeOK, state
  <2> QED
    BY <1>1, <2>1, <2>2, <2>3 DEF Inv, state
<1>4. CASE c.epoch = epoch
  <2>1. awaitingReady' = FALSE /\ confirmed' = r
    BY <1>4 DEF Ready
  <2>2. status \in {"running", "paused"} /\ autoAdvance = FALSE
    BY <1>2, <1>4 DEF Inv, OneDriver, Live, TypeOK
  <2>3. CASE ~r
    <3>1. status' = "error" /\ UNCHANGED <<stepIndex, autoAdvance, dwell, still>>
      BY <1>4, <2>3 DEF Ready
    <3>2. OneDriver'
      BY <1>2, <1>4, <2>2, <3>1 DEF OneDriver
    <3>3. stepIndex \in Steps /\ stepIndex # Idle
      BY <2>2 DEF Inv, TypeOK
    <3>4. TypeOK'
      BY <1>1, <2>1, <3>1, <3>3 DEF Inv, TypeOK
    <3> QED
      BY <1>1, <1>2, <1>4, <3>1, <3>2, <3>4 DEF Inv
  <2>4. CASE r /\ status = "running"
    <3>1. Arm(epoch)
      BY <1>4, <2>4 DEF Ready
    <3> QED
      BY <1>1, <1>2, <1>4, <2>1, <2>4, <3>1, ArmInv
  <2>5. CASE r /\ status # "running"
    <3>1. UNCHANGED <<status, stepIndex, autoAdvance, dwell, still>>
      BY <1>4, <2>5 DEF Ready
    <3>2. OneDriver'
      BY <1>1, <1>2, <3>1 DEF Inv, OneDriver
    <3>3. TypeOK'
      BY <1>1, <2>1, <3>1 DEF Inv, TypeOK
    <3> QED
      BY <1>1, <3>1, <3>2, <3>3 DEF Inv
  <2> QED
    BY <2>3, <2>4, <2>5
<1> QED
    BY <1>3, <1>4

(* The timer hands over to the call that it starts.                        *)
LEMMA DwellInv == Inv /\ DwellOver => Inv'
<1> USE GuideAssumption DEF GuideAssumption, Steps, Idle
<1> SUFFICES ASSUME Inv, DwellOver PROVE Inv'
    OBVIOUS
<1>1. /\ status = "running" /\ dwell = [index |-> stepIndex, epoch |-> epoch]
      /\ Live = {} /\ stepIndex \in Steps /\ stepIndex + 1 \in Steps
    BY DEF DwellOver, Inv, OneDriver, TypeOK
<1> DEFINE c0 == [index |-> stepIndex + 1, epoch |-> epoch, at |-> "performing"]
<1>2. Enter(stepIndex + 1, epoch, "running") /\ epoch' = epoch /\ resets' = resets
    BY <1>1 DEF DwellOver
<1>3. c0 \in Call /\ calls' = calls \cup {c0} /\ dwell' = None
    BY <1>1, <1>2 DEF Enter, Call, Inv, TypeOK
<1>4. Live' = {c0}
    BY <1>1, <1>2, <1>3 DEF Live
<1>5. OneDriver'
    BY <1>2, <1>3, <1>4 DEF OneDriver, Enter
<1>6. TypeOK'
  <2>1. Flags'
    <3>1. awaitingReady' \in BOOLEAN
      BY <1>2 DEF Enter
    <3> QED
      BY <1>2, <3>1, TypeParts, Zenon DEF Enter, Inv, Flags
  <2>2. Numbers'
    BY <1>1, <1>2, <1>3, TypeParts DEF Enter, Inv, Numbers
  <2> QED
    BY <2>1, <2>2, TypeParts
<1> QED
    BY <1>2, <1>3, <1>5, <1>6 DEF Inv, TypeOK

(* Every step keeps the invariant, action by action.                       *)
LEMMA NextInv == Inv /\ [Next]_vars => Inv'
<1> SUFFICES ASSUME Inv, [Next]_vars PROVE Inv'
    OBVIOUS
<1>1. CASE start
  <2>1. 0 \in Steps
    BY GuideAssumption DEF GuideAssumption, Steps
  <2> QED
    BY <1>1, <2>1, EnterInv DEF start, Supersede
<1>2. CASE next \/ back
  <2>1. PICK i \in Steps : Go(i)
    <3>1. stepIndex \in Steps \/ ~(status \in {"running", "paused"})
      BY DEF Inv, TypeOK
    <3> QED
      BY <1>2, <3>1, GuideAssumption DEF next, back, Go, GuideAssumption, Steps
  <2> QED
    BY <2>1, EnterInv DEF Go, Supersede
<1>3. CASE exit \/ replay
    BY <1>3, StopInv DEF exit, replay
<1>4. CASE ResetDone
  <2>1. resets' \in 0..MaxEpoch /\ resets' <= epoch
    BY <1>4, GuideAssumption DEF ResetDone, Inv, TypeOK, GuideAssumption
  <2> QED
    BY <1>4, <2>1 DEF ResetDone, Inv, TypeOK, OneDriver, Live, state, history
<1>5. ASSUME NEW c \in calls, Rejects(c) PROVE Inv'
  <2>1. Live' \subseteq Live
    BY <1>5, EndedCall DEF Rejects
  <2>2. OneDriver'
    BY <1>5, <2>1 DEF Rejects, Inv, OneDriver, state
  <2>3. rejected' \in BOOLEAN
    BY <1>5 DEF Rejects, Inv, TypeOK
  <2> QED
    BY <1>5, <2>2, <2>3 DEF Rejects, Inv, TypeOK, state
<1>6. CASE UNCHANGED vars
    BY <1>6 DEF vars, state, history, Inv, TypeOK, OneDriver, Live
<1> QED
    BY <1>1, <1>2, <1>3, <1>4, <1>5, <1>6, PauseInv, ResumeInv, DwellInv, PerformedInv,
       ReadyInv DEF Next, Settles

(* The invariant holds in every reachable state.                           *)
THEOREM Invariance == Spec => []Inv
<1>1. Spec => Init /\ [][Next]_vars
    BY PTL DEF Spec
<1> QED
    BY <1>1, InitInv, NextInv, PTL

(* The state of the guide has its type: in particular an armed timer never *)
(* leads past the last step.                                               *)
THEOREM TypeCorrect == Spec => []TypeOK
<1>1. Inv => TypeOK
    BY DEF Inv
<1> QED
    BY Invariance, <1>1, PTL

(* At no time can two calls, or a call and the timer, move the guide.      *)
THEOREM DrivenOnce == Spec => []OneDriver
<1>1. Inv => OneDriver
    BY DEF Inv
<1> QED
    BY Invariance, <1>1, PTL

(* Nothing but a command sets the guide going, and what was superseded     *)
(* moves nothing.                                                          *)
THEOREM ReaderDecides == Spec => OnlyAsked
<1>1. Inv /\ [Next]_vars =>
        [epoch' = epoch =>
          /\ status' = "running" => status = "running"
          /\ stepIndex' # stepIndex => autoAdvance /\ stepIndex' = stepIndex + 1]_vars
  <2> SUFFICES ASSUME Inv, Next, epoch' = epoch
               PROVE  /\ status' = "running" => status = "running"
                      /\ stepIndex' # stepIndex => autoAdvance /\ stepIndex' = stepIndex + 1
      OBVIOUS
  <2>1. epoch \in Nat
    BY DEF Inv, TypeOK
  <2>2. ResetDone \/ DwellOver \/ \E c \in calls : Rejects(c) \/ Settles(c)
    BY <2>1 DEF Next, start, pause, resume, exit, next, back, replay, Go, Supersede
  <2>3. CASE DwellOver
    <3>1. autoAdvance /\ status = "running" /\ dwell = [index |-> stepIndex, epoch |-> epoch]
      BY <2>3 DEF DwellOver, Inv, OneDriver, TypeOK
    <3> QED
      BY <2>3, <3>1 DEF DwellOver, Enter
  <2>4. CASE ResetDone
    BY <2>4 DEF ResetDone, state
  <2>5. ASSUME NEW c \in calls, Rejects(c) \/ Settles(c)
        PROVE  stepIndex' = stepIndex /\ (status' = "running" => status = "running")
    <3>1. CASE Rejects(c)
      BY <3>1 DEF Rejects, state
    <3>2. CASE Performed(c)
      BY <3>2 DEF Performed, Arm, state
    <3>3. ASSUME NEW r \in BOOLEAN, Ready(c, r)
          PROVE  stepIndex' = stepIndex /\ (status' = "running" => status = "running")
      BY <3>3 DEF Ready, Arm, state
    <3> QED
      BY <2>5, <3>1, <3>2, <3>3 DEF Settles
  <2> QED
    BY <2>2, <2>3, <2>4, <2>5
<1>2. Spec => [][Next]_vars
    BY PTL DEF Spec
<1> QED
    BY Invariance, <1>1, <1>2, PTL DEF OnlyAsked
=============================================================================
