--------------------------- MODULE WindowSelection ---------------------------
(***************************************************************************)
(* The window an anchor time selects, src/dataset_builder.py: its bounds,  *)
(* its identifier, and the event timestamps it covers.  Times are natural  *)
(* numbers of ticks, fine enough to tell an event on a bound from one next *)
(* to it.                                                                  *)
(***************************************************************************)
EXTENDS Integers

CONSTANTS WindowType,    \* "sliding" or "tumbling"
          Length,        \* length_minutes
          StepLength     \* step_minutes, the width of a bucket

ASSUME WindowConstants ==
    WindowType \in {"sliding", "tumbling"} /\ Length \in Nat /\ StepLength \in Nat

(* _sliding_window_bounds *)
SlidingBounds(anchor) == [start |-> anchor - Length, end |-> anchor]

(* _tumbling_window_bounds: the bucket the anchor lies in, which at an      *)
(* anchor on a boundary is the one that begins there.                       *)
TumblingBounds(anchor) ==
    LET width == IF StepLength >= 1 THEN StepLength ELSE 1
        end   == (anchor \div width + 1) * width
    IN  [start |-> end - Length, end |-> end]

(* The bounds name the window (window_id), whatever anchor they come from.  *)
WindowAt(anchor) ==
    IF WindowType = "sliding" THEN SlidingBounds(anchor) ELSE TumblingBounds(anchor)

(* Mutant: an event on the lower bound is left to the window before.        *)
SelectsOpenStart(window, time) ==
    /\ window.start < time
    /\ IF WindowType = "sliding" THEN time <= window.end ELSE time < window.end

(* select_window_events: sliding windows are closed, tumbling ones are not. *)
Selects(window, time) ==
    /\ window.start <= time
    /\ IF WindowType = "sliding" THEN time <= window.end ELSE time < window.end
=============================================================================
