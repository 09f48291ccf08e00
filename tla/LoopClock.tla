----------------------------- MODULE LoopClock -----------------------------
(***************************************************************************)
(* The timeline of the landing page: LoopClock (apps/web/src/demo/         *)
(* loopClock.ts) and the component that owns it (landing/SpreadStage.tsx), *)
(* which forwards taps, keys, the visibility of tab and stage, and the     *)
(* reduced-motion preference of the reader.                                *)
(*                                                                         *)
(* The clock asks for the preference through a closure made at the first   *)
(* render, so what it sees is the preference of that render.  Scrolling    *)
(* and the frozen frame of reduced motion are left out.                    *)
(***************************************************************************)
EXTENDS Naturals

CONSTANTS Loop,      \* loopMs, in chapters
          Jump,      \* time between two frames
          MaxFlips   \* bound on changes of the preference

ASSUME LoopAssumption == Loop \in Nat \ {0} /\ Jump \subseteq Nat /\ MaxFlips \in Nat

VARIABLES
    status,      \* state.status
    t,           \* state.t
    frame,       \* frameHandle: is a frame scheduled?
    lastNow,     \* "none", or whether it is from before a pause
    autoPaused,  \* autoPaused
    listening,   \* is the component subscribed?
    mounted,     \* did the effects of the component run?
    captured,    \* reducedMotion(): `reduced` of the first render
    reduced,     \* useReducedMotion()
    tab, stage,  \* are the tab and the stage visible?
    byUser,      \* history: did the reader pause the loop?
    flips        \* changes of the preference so far

clock == <<status, t, frame, lastNow, autoPaused, byUser>>
host == <<listening, mounted, captured, reduced, tab, stage, flips>>
vars == <<clock, host>>

Time == 0..Loop - 1

TypeOK ==
    /\ status \in {"idle", "playing", "paused"} /\ t \in Time
    /\ lastNow \in {"none", "fresh", "stale"}
    /\ frame \in BOOLEAN /\ autoPaused \in BOOLEAN /\ byUser \in BOOLEAN
    /\ listening \in BOOLEAN /\ mounted \in BOOLEAN /\ captured \in BOOLEAN
    /\ reduced \in BOOLEAN /\ tab \in BOOLEAN /\ stage \in BOOLEAN
    /\ flips \in 0..MaxFlips

-----------------------------------------------------------------------------
(* Playback starts at `at`: the anchor is forgotten, a frame scheduled.    *)
Play(at) ==
    status' = "playing" /\ t' = at /\ lastNow' = "none" /\ frame' = TRUE /\ byUser' = FALSE

Aged == IF lastNow = "fresh" THEN "stale" ELSE lastNow

(* Playback stops where it is, with no frame left.                         *)
Hold == status' = "paused" /\ frame' = FALSE /\ lastNow' = Aged /\ UNCHANGED t

Init ==
    /\ status = "idle" /\ t = 0 /\ frame = FALSE /\ lastNow = "none" /\ autoPaused = FALSE
    /\ listening = FALSE /\ mounted = FALSE
    /\ reduced \in BOOLEAN /\ captured = reduced
    /\ tab \in BOOLEAN /\ stage \in BOOLEAN
    /\ byUser = FALSE /\ flips = 0

start ==
    IF status # "idle" THEN UNCHANGED <<status, t, frame, lastNow, byUser>>
    ELSE IF captured
         THEN status' = "paused" /\ t' = 0 /\ UNCHANGED <<frame, lastNow, byUser>>
         ELSE Play(0)

(* Mutant: a pause forgets to say that it was not automatic.               *)
PauseKeepingAuto ==
    /\ status = "playing"
    /\ Hold /\ byUser' = TRUE
    /\ UNCHANGED autoPaused

pause ==
    /\ status = "playing"
    /\ Hold /\ byUser' = TRUE
    /\ autoPaused' = FALSE

(* Mutant: playback goes on from the anchor before the pause.              *)
ResumeAnchored ==
    /\ status = "paused" /\ ~captured
    /\ status' = "playing" /\ frame' = TRUE /\ byUser' = FALSE
    /\ autoPaused' = FALSE
    /\ UNCHANGED <<t, lastNow>>

resume ==
    /\ status = "paused" /\ ~captured
    /\ Play(t)
    /\ autoPaused' = FALSE

-----------------------------------------------------------------------------
(* What the reader does                                                    *)

(* Tap on the frame, Space, or the Pause/Play button.                      *)
Toggle == (pause \/ resume) /\ UNCHANGED host

Escape == mounted /\ pause /\ UNCHANGED host

(* Mutant: seeking a paused loop does not schedule a frame.                *)
SeekUnscheduled(at) ==
    /\ ~reduced
    /\ status = "paused" /\ ~captured
    /\ status' = "playing" /\ t' = at /\ lastNow' = "none" /\ byUser' = FALSE
    /\ UNCHANGED frame
    /\ UNCHANGED <<autoPaused, host>>

(* A chapter tick; under reduced motion it does not reach the clock.       *)
Seek(at) ==
    /\ ~reduced
    /\ \/ status = "paused" /\ captured
          /\ t' = at /\ UNCHANGED <<status, frame, lastNow, byUser>>
       \/ status = "paused" /\ ~captured /\ Play(at)
       \/ status = "playing"
          /\ t' = at /\ lastNow' = "none" /\ UNCHANGED <<status, frame, byUser>>
    /\ UNCHANGED <<autoPaused, host>>

(* The Replay button and the button that starts the walkthrough.           *)
Replay ==
    /\ ~reduced /\ status # "idle"
    /\ IF captured
       THEN /\ status' = "paused" /\ t' = 0 /\ frame' = FALSE /\ UNCHANGED <<lastNow, byUser>>
       ELSE Play(0)
    /\ UNCHANGED <<autoPaused, host>>

-----------------------------------------------------------------------------
(* What the browser does                                                   *)

(* Mutant: the loop does not wrap.                                         *)
TickUnwrapped ==
    /\ frame
    /\ IF status # "playing" THEN frame' = FALSE /\ UNCHANGED <<t, lastNow>>
       ELSE /\ \E dt \in IF lastNow = "none" THEN {0} ELSE Jump : t' = t + dt
            /\ lastNow' = "fresh" /\ frame' = TRUE
    /\ UNCHANGED <<status, autoPaused, byUser, host>>

(* tick, with the time since the last frame.                               *)
Tick ==
    /\ frame
    /\ IF status # "playing" THEN frame' = FALSE /\ UNCHANGED <<t, lastNow>>
       ELSE /\ \E dt \in IF lastNow = "none" THEN {0} ELSE Jump : t' = (t + dt) % Loop
            /\ lastNow' = "fresh" /\ frame' = TRUE
    /\ UNCHANGED <<status, autoPaused, byUser, host>>

autoGate(hidden) ==
    \/ /\ hidden /\ status = "playing"
       /\ Hold /\ autoPaused' = TRUE /\ UNCHANGED byUser
    \/ /\ ~hidden /\ autoPaused /\ autoPaused' = FALSE
       /\ IF status = "paused" /\ ~captured THEN Play(t)
          ELSE UNCHANGED <<status, t, frame, lastNow, byUser>>
    \/ /\ (hidden /\ status # "playing") \/ (~hidden /\ ~autoPaused)
       /\ UNCHANGED clock

VisibilityChange ==
    /\ mounted
    /\ tab' = ~tab /\ autoGate(~tab')
    /\ UNCHANGED <<listening, mounted, captured, reduced, stage, flips>>

(* The observer also reports where the stage is when it starts.            *)
ViewportChange ==
    /\ mounted
    /\ stage' \in BOOLEAN /\ autoGate(~stage')
    /\ UNCHANGED <<listening, mounted, captured, reduced, tab, flips>>

Mount ==
    /\ ~mounted /\ mounted' = TRUE /\ listening' = TRUE
    /\ IF reduced THEN UNCHANGED <<status, t, frame, lastNow, byUser>> ELSE start
    /\ UNCHANGED <<autoPaused, captured, reduced, tab, stage, flips>>

(* The preference changes: the effect is cleaned up, dispose cancels the   *)
(* frame and drops every listener, and the effect runs again.              *)
PreferenceChange ==
    /\ mounted /\ flips < MaxFlips /\ flips' = flips + 1
    /\ reduced' = ~reduced
    /\ listening' = FALSE
    /\ IF reduced' \/ status # "idle"
       THEN frame' = FALSE /\ lastNow' = Aged /\ UNCHANGED <<status, t, byUser>>
       ELSE start
    /\ UNCHANGED <<autoPaused, mounted, captured, tab, stage>>

-----------------------------------------------------------------------------
Next ==
    \/ Mount \/ Toggle \/ Escape \/ Replay
    \/ \E at \in Time : Seek(at)
    \/ Tick \/ VisibilityChange \/ ViewportChange \/ PreferenceChange

Spec == Init /\ [][Next]_vars

(* No time passes for a loop that stands still: a frame is never measured  *)
(* from before a pause ("resume continues from the same t").               *)
NoTimeSkipped == frame => lastNow # "stale"

(* While the preference stays as it is, the loop plays exactly while a     *)
(* frame is scheduled: it neither freezes nor runs on when paused.         *)
PlaysByFrames == flips = 0 => (frame <=> status = "playing")

(* A pause of the reader is not undone by the tab or the stage becoming    *)
(* visible, whatever automatic pauses, seeks and replays came before.      *)
UserPauseStays ==
    [][byUser /\ (tab' # tab \/ stage' # stage) => status' = "paused"]_vars

(* "the clock reads it lazily at each arm" (SpreadStage): playback starts  *)
(* or resumes only while motion is not reduced.                            *)
ArmsAsPreferred == [][frame' /\ ~frame => ~reduced]_vars
=============================================================================
