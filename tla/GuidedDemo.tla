----------------------------- MODULE GuidedDemo -----------------------------
(***************************************************************************)
(* The guided demo: DemoController (apps/web/src/demo/controller.ts).  It  *)
(* walks through the steps of a tour: a step asks the host to perform an   *)
(* action, waits until the host says it is ready, and dwells on it before  *)
(* the next.  The reader may pause, resume, step, replay and leave at any  *)
(* time, between any two awaits of a step.                                 *)
(*                                                                         *)
(* A call of enterStep is a member of `calls` from the await it stands at; *)
(* a promise of the host settles, or rejects, in any order and any time.   *)
(***************************************************************************)
EXTENDS Naturals, FiniteSets

CONSTANTS None,      \* no timer
          Last,      \* the last index of GUIDE_STEPS
          Awaited,   \* the steps whose `ready` is not null
          Motion,    \* what prefersReducedMotion may answer
          MaxEpoch   \* bound on what the reader does

ASSUME GuideAssumption ==
    /\ Last \in Nat \ {0} /\ Awaited \subseteq 0..Last
    /\ Motion \subseteq BOOLEAN /\ MaxEpoch \in Nat

Steps == 0..Last
Idle == Last + 1           \* stepIndex -1

ASSUME NoneAssumption == None \notin [index : Steps, epoch : 0..MaxEpoch]

VARIABLES
    status,         \* state.status
    stepIndex,      \* state.stepIndex
    awaitingReady,  \* state.awaitingReady
    autoAdvance,    \* state.autoAdvance
    epoch,          \* epoch
    dwell,          \* dwellHandle: the armed timer, with what its callback holds
    calls,          \* calls of enterStep, at their awaits
    resets,         \* replays that await the reset of the host
    still,          \* history: did the last arming find reduced motion?
    rejected,       \* history: did an action of the host fail?
    confirmed       \* history: did the host say that this step is ready?

state == <<status, stepIndex, awaitingReady, autoAdvance>>
history == <<still, rejected, confirmed>>
vars == <<state, epoch, dwell, calls, resets, history>>

Call == [index : Steps, epoch : 0..MaxEpoch, at : {"performing", "waiting"}]

(* One live cause of the next automatic move: a call that was not          *)
(* superseded, or the timer.  An armed timer is that of the step shown, of *)
(* a guide that runs and says that it will advance.                        *)
Live == {c \in calls : c.epoch = epoch}

OneDriver ==
    /\ \A c, d \in Live : c = d
    /\ Live = {} \/ dwell = None
    /\ \A c \in Live : c.index = stepIndex /\ status \in {"running", "paused"}
    /\ autoAdvance <=> dwell # None
    /\ dwell # None => status = "running" /\ dwell = [index |-> stepIndex, epoch |-> epoch]

TypeOK ==
    /\ status \in {"idle", "running", "paused", "complete", "error"}
    /\ stepIndex \in Steps \cup {Idle}
    /\ awaitingReady \in BOOLEAN /\ autoAdvance \in BOOLEAN
    /\ epoch \in 0..MaxEpoch
    /\ dwell \in [index : Steps, epoch : 0..MaxEpoch] \cup {None}
    /\ calls \subseteq Call
    /\ resets \in 0..MaxEpoch
    /\ still \in BOOLEAN /\ rejected \in BOOLEAN /\ confirmed \in BOOLEAN
    /\ status = "idle" <=> stepIndex = Idle

Init ==
    /\ status = "idle" /\ stepIndex = Idle /\ awaitingReady = FALSE /\ autoAdvance = FALSE
    /\ epoch = 0 /\ dwell = None /\ calls = {} /\ resets = 0
    /\ still = FALSE /\ rejected = FALSE /\ confirmed = FALSE

-----------------------------------------------------------------------------
(* enterStep(index, epoch, stayPaused), up to its first await.             *)
Enter(index, at, mode) ==
    /\ status' = mode /\ stepIndex' = index
    /\ awaitingReady' = (index \in Awaited) /\ autoAdvance' = FALSE
    /\ dwell' = None
    /\ calls' = calls \cup {[index |-> index, epoch |-> at, at |-> "performing"]}
    /\ confirmed' = FALSE
    /\ UNCHANGED <<still, rejected>>

(* armDwell for the step shown, of a guide that runs.                      *)
Arm(at) ==
    /\ UNCHANGED stepIndex
    /\ IF stepIndex = Last
       THEN status' = "complete" /\ autoAdvance' = FALSE /\ UNCHANGED <<dwell, still>>
       ELSE /\ UNCHANGED status
            /\ still' \in Motion /\ autoAdvance' = ~still'
            /\ dwell' = IF still' THEN dwell ELSE [index |-> stepIndex, epoch |-> at]

(* What every command of the reader does first: supersede what is under    *)
(* way.                                                                    *)
Supersede == epoch < MaxEpoch /\ epoch' = epoch + 1

Rest == /\ status' = "idle" /\ stepIndex' = Idle
        /\ awaitingReady' = FALSE /\ autoAdvance' = FALSE
        /\ dwell' = None /\ UNCHANGED <<calls, history>>

start ==
    /\ Supersede /\ Enter(0, epoch', "running") /\ UNCHANGED resets

(* Mutant: a pause leaves the timer armed.                                 *)
PauseKeepingTimer ==
    /\ status = "running" /\ Supersede
    /\ status' = "paused" /\ awaitingReady' = FALSE /\ autoAdvance' = FALSE
    /\ UNCHANGED <<stepIndex, dwell, calls, resets, history>>

(* The control, a manual interaction, or the tab being hidden.             *)
pause ==
    /\ status = "running" /\ Supersede
    /\ status' = "paused" /\ awaitingReady' = FALSE /\ autoAdvance' = FALSE
    /\ dwell' = None /\ UNCHANGED <<stepIndex, calls, resets, history>>

(* Mutant: the step under way is expected to arm the timer.                *)
ResumeOnly ==
    /\ status = "paused" /\ Supersede
    /\ status' = "running"
    /\ UNCHANGED <<stepIndex, awaitingReady, autoAdvance, dwell, calls, resets, history>>

resume ==
    /\ status = "paused" /\ Supersede
    /\ IF stepIndex = Last
       THEN status' = "complete" /\ autoAdvance' = FALSE /\ UNCHANGED <<dwell, still>>
       ELSE /\ status' = "running"
            /\ still' \in Motion /\ autoAdvance' = ~still'
            /\ dwell' = IF still' THEN dwell ELSE [index |-> stepIndex, epoch |-> epoch']
    /\ UNCHANGED <<stepIndex, awaitingReady, calls, resets, rejected, confirmed>>

exit ==
    /\ Supersede /\ Rest /\ UNCHANGED resets

(* next and back: the step entered keeps the guide paused if it is.        *)
Go(target) ==
    /\ status \in {"running", "paused"} /\ Supersede
    /\ Enter(target, epoch', status) /\ UNCHANGED resets

next == Go(IF stepIndex < Last THEN stepIndex + 1 ELSE Last)
back == Go(IF stepIndex > 0 THEN stepIndex - 1 ELSE 0)

replay ==
    /\ Supersede /\ Rest /\ resets' = resets + 1

-----------------------------------------------------------------------------
(* The reset of the host settles: focusResults, whatever the guide does.   *)
ResetDone ==
    /\ resets > 0 /\ resets' = resets - 1
    /\ UNCHANGED <<state, epoch, dwell, calls, history>>

(* An action of the host fails: enterStep, called with void, ends there.   *)
Rejects(c) ==
    /\ c \in calls /\ c.at = "performing"
    /\ calls' = calls \ {c}
    /\ rejected' = (rejected \/ c.epoch = epoch)
    /\ UNCHANGED <<state, epoch, dwell, resets, still, confirmed>>

(* The action of the host is done.                                         *)
Performed(c) ==
    /\ c \in calls /\ c.at = "performing"
    /\ IF c.epoch = epoch /\ c.index \in Awaited
       THEN calls' = (calls \ {c}) \cup {[c EXCEPT !.at = "waiting"]}
       ELSE calls' = calls \ {c}
    /\ IF c.epoch = epoch /\ c.index \notin Awaited /\ status = "running"
       THEN Arm(epoch) /\ UNCHANGED awaitingReady
       ELSE UNCHANGED <<state, dwell, still>>
    /\ UNCHANGED <<epoch, resets, rejected, confirmed>>

(* Mutant: the epoch is not looked at after the wait.                      *)
ReadyUnchecked(c, ready) ==
    /\ c \in calls /\ c.at = "waiting"
    /\ calls' = calls \ {c}
    /\ IF ready
       THEN /\ awaitingReady' = FALSE
            /\ IF status = "running" THEN Arm(epoch)
               ELSE UNCHANGED <<status, stepIndex, autoAdvance, dwell, still>>
       ELSE /\ status' = "error" /\ awaitingReady' = FALSE
            /\ UNCHANGED <<stepIndex, autoAdvance, dwell, still>>
    /\ confirmed' = (confirmed \/ ready)
    /\ UNCHANGED <<epoch, resets, rejected>>

(* The host answers, or its watchdog does: the step is ready, or is late.  *)
Ready(c, ready) ==
    /\ c \in calls /\ c.at = "waiting"
    /\ calls' = calls \ {c}
    /\ IF c.epoch # epoch THEN UNCHANGED <<state, dwell, still, confirmed>>
       ELSE /\ awaitingReady' = FALSE /\ confirmed' = ready
            /\ IF ~ready
               THEN status' = "error" /\ UNCHANGED <<stepIndex, autoAdvance, dwell, still>>
               ELSE IF status = "running" THEN Arm(epoch)
               ELSE UNCHANGED <<status, stepIndex, autoAdvance, dwell, still>>
    /\ UNCHANGED <<epoch, resets, rejected>>

(* The timer fires: its callback enters the next step.                     *)
DwellOver ==
    /\ dwell # None
    /\ IF dwell.epoch = epoch THEN Enter(dwell.index + 1, epoch, "running")
       ELSE dwell' = None /\ UNCHANGED <<state, calls, history>>
    /\ UNCHANGED <<epoch, resets>>

-----------------------------------------------------------------------------
Settles(c) == Performed(c) \/ Ready(c, TRUE) \/ Ready(c, FALSE)

Next ==
    \/ start \/ pause \/ resume \/ exit \/ next \/ back \/ replay
    \/ ResetDone \/ DwellOver
    \/ \E c \in calls : Rejects(c) \/ Settles(c)

(* Timers fire, and the host settles what it is asked, waitReady at the    *)
(* latest when its time is over.                                           *)
Spec == Init /\ [][Next]_vars /\ WF_vars(DwellOver) /\ \A c \in Call : WF_vars(Settles(c))

(* Only the reader sets the guide going, and what was superseded moves     *)
(* nothing: a step of the machine never wakes a guide that does not run,   *)
(* and leaves the step only for the next, as announced.                    *)
OnlyAsked ==
    [][epoch' = epoch =>
        /\ status' = "running" => status = "running"
        /\ stepIndex' # stepIndex => autoAdvance /\ stepIndex' = stepIndex + 1]_vars

(* A guide that runs comes to its end, to an error or to the hands of the  *)
(* reader, unless an action of the host fails.                             *)
RunsOn == status = "running" ~> (status # "running" \/ still \/ rejected)

(* "awaits a real readiness predicate ... never a fixed timer": the guide  *)
(* moves on by itself only from a step that the host called ready.         *)
StepsReady == dwell # None /\ stepIndex \in Awaited => confirmed
=============================================================================
