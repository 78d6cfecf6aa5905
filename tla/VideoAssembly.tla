---------------------------- MODULE VideoAssembly ----------------------------
(***************************************************************************)
(* The arithmetic of the master timeline of a Short in the pr1me package:  *)
(* the motion graphics stage turns the visual director's shots into        *)
(* overlays (stages/motion_stage.py), the assembly stage stretches the     *)
(* shot plan onto the narration and pins the overlays to the clips         *)
(* (stages/video_assembly_stage.py), and the render stage compares the     *)
(* encoded length with the budget and the narration                        *)
(* (stages/video_render_stage.py).                                         *)
(*                                                                         *)
(* Times are whole numbers of ticks.  A time on the stretched timeline is  *)
(* a fraction, written as its numerator over the length of the shot plan,  *)
(* and becomes a whole number of frames where the code rounds it.          *)
(***************************************************************************)
EXTENDS Integers, Sequences

CONSTANTS
    Second,       \* ticks in a second
    Fps,          \* target_fps
    Budget,       \* target_max_duration_seconds, in ticks
    Padding,      \* intro_padding_seconds + outro_padding_seconds
    MinHold,      \* 1.5 seconds, the shortest an overlay is held
    MaxHold,      \* 4 seconds, the longest
    MaxOverlays,  \* 5
    Epsilon       \* 0.2 seconds, what the narration may outlast the video

ASSUME TimelineAssumption ==
    /\ Second \in Nat \ {0} /\ Fps \in Nat \ {0}
    /\ Budget \in Nat /\ Padding \in Nat /\ Epsilon \in Nat
    /\ MinHold \in Nat /\ MaxHold \in Nat /\ MinHold <= MaxHold
    /\ MaxOverlays \in Nat

Smaller(a, b) == IF a <= b THEN a ELSE b
Larger(a, b) == IF a >= b THEN a ELSE b
Between(low, high, n) == Larger(low, Smaller(n, high))

(* The frame nearest to n/d ticks; Python rounds halves to the even one.   *)
FrameAt(n, d) ==
    LET whole == (n * Fps) \div (d * Second)
        rest  == 2 * ((n * Fps) % (d * Second))
    IN  IF rest > d * Second \/ (rest = d * Second /\ whole % 2 = 1)
        THEN whole + 1 ELSE whole

-----------------------------------------------------------------------------
(* Clips.  A shot plan is the sequence of the durations of its shots: the  *)
(* workflow builder lays them end to end, so a shot starts where the one   *)
(* before it ends.                                                         *)

EndOf(shots) ==
    LET end[i \in 0..Len(shots)] == IF i = 0 THEN 0 ELSE end[i - 1] + shots[i]
    IN  end
Length(shots) == EndOf(shots)[Len(shots)]

(* No shot of the plan may vanish at the frame rate.                       *)
CanPlanClips(shots) ==
    /\ shots # << >>
    /\ \A i \in 1..Len(shots) :
          FrameAt(EndOf(shots)[i - 1], 1) < FrameAt(EndOf(shots)[i], 1)

(* The narration and the padding around it, within the budget.             *)
Target(narration) ==
    IF Budget > 0 /\ narration + Padding > Budget THEN Budget
    ELSE narration + Padding

(* The frame every shot ends at once the plan is stretched onto the        *)
(* target; a shot that would vanish gets one frame and moves the later     *)
(* ones.                                                                   *)
(* Mutant: shots may vanish.                                               *)
CutsMutant(shots, narration) ==
    [i \in 0..Len(shots) |->
        FrameAt(EndOf(shots)[i] * Target(narration), Length(shots))]
Cuts(shots, narration) ==
    LET nearest(i) == FrameAt(EndOf(shots)[i] * Target(narration),
                              Length(shots))
        cut[i \in 0..Len(shots)] ==
            IF i = 0 THEN 0 ELSE Larger(nearest(i), cut[i - 1] + 1)
    IN  cut

-----------------------------------------------------------------------------
(* Overlays                                                                *)

(* One for each of the first shots of the visual plan, a record of start   *)
(* and duration; the director's answer is not held against the shot plan.  *)
Overlays(plan) ==
    [i \in 1..Smaller(Len(plan), MaxOverlays) |->
        [start |-> plan[i].start,
         hold |-> Between(MinHold, MaxHold, plan[i].duration)]]

(* No overlay, or one the contract refuses because it starts before zero.  *)
CanOverlay(plan) ==
    /\ Overlays(plan) # << >>
    /\ \A i \in DOMAIN Overlays(plan) : Overlays(plan)[i].start >= 0

(* The shots of the unstretched plan that show while an overlay begins:    *)
(* one, or none when it begins after the end.                              *)
Owners(overlay, shots) ==
    {i \in 1..Len(shots) : /\ EndOf(shots)[i - 1] <= overlay.start
                           /\ overlay.start < EndOf(shots)[i]}
CanPin(overlay, shots) ==
    \E i \in Owners(overlay, shots) :
        overlay.start + overlay.hold <= EndOf(shots)[i]

(* Stretched with the plan, held between the bounds again, cut to its      *)
(* clip, and given the last frame of the clip if nothing else is left.     *)
Pinned(overlay, shots, narration) ==
    LET owner == CHOOSE i \in Owners(overlay, shots) : TRUE
        cuts  == Cuts(shots, narration)
        length == Length(shots)
        start == overlay.start * Target(narration)
        hold  == Between(MinHold * length, MaxHold * length,
                         overlay.hold * Target(narration))
        first == Larger(FrameAt(start, length), cuts[owner - 1])
        end   == Smaller(FrameAt(start + hold, length), cuts[owner])
        fits  == first < end
        begin == IF fits THEN first ELSE Smaller(first, cuts[owner] - 1)
    IN  [owner |-> owner, first |-> begin,
         end |-> IF fits THEN end ELSE begin + 1]

-----------------------------------------------------------------------------
(* The timeline and its render                                             *)

(* The master track must not vanish either.                                *)
CanAssemble(shots, overlays, narration) ==
    /\ CanPlanClips(shots) /\ FrameAt(narration, 1) > 0
    /\ \A i \in DOMAIN overlays : CanPin(overlays[i], shots)

Timeline(shots, overlays, narration) ==
    [cuts |-> Cuts(shots, narration),
     overlays |-> [i \in DOMAIN overlays |->
                      Pinned(overlays[i], shots, narration)]]

Frames(timeline, shots) == timeline.cuts[Len(shots)]

(* The length of the file, when the encoder adds pad ticks, in units of a  *)
(* tick over Fps.                                                          *)
Encoded(timeline, shots, pad) == Frames(timeline, shots) * Second + pad * Fps
WithinBudget(encoded) == encoded <= Budget * Fps
CoversNarration(encoded, narration) ==
    encoded + Epsilon * Fps >= narration * Fps
=============================================================================
