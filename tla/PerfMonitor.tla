------------------------------ MODULE PerfMonitor ------------------------------
(***************************************************************************)
(* SN_PerfMonitor's bandwidth figures of one widget: what it consumes now  *)
(* (Rcur), what it is believed to need (Ropt) and the most it ever         *)
(* consumed.  Bandwidths are natural numbers of one unit; qualities are    *)
(* compared by cross multiplication, as the code's floating point numbers  *)
(* do not fit into TLA+'s integers.                                        *)
(*                                                                         *)
(* Latencies, frame rates and their averages feed displays only and are    *)
(* left out.                                                               *)
(***************************************************************************)
EXTENDS Integers

CONSTANT WakeUpGuess    \* bandwidth of _wakeUpGuessFps frames per second

ASSUME WakeUpGuessAssumption == WakeUpGuess \in Nat \ {0}

Larger(m, n) == IF m >= n THEN m ELSE n

\* The members the monitor and the schedulers read.
Perf == [cur : Nat, required : Nat, highest : Nat, priori : BOOLEAN]

\* Their first values.
NewPerf == [cur |-> 0, required |-> 0, highest |-> 0, priori |-> FALSE]

\* The streamer has told its frame rate: the requirement is known and fixed.
PrioriPerf(p, bw) == [p EXCEPT !.priori = TRUE, !.required = bw]

\* Ropt of a widget that never said what it needs, after it consumed bw > 0.
Estimate(p, bw) ==
    CASE bw > p.required /\ p.required = 0 -> Larger(p.highest, WakeUpGuess)
      [] bw = p.required                   -> (6 * bw) \div 5   \* _overPerformMultiplier
      [] OTHER                             -> bw

\* Without a priori knowledge an idle widget needs nothing; with it, a reading
\* above the requirement is a measurement error.
UpdateBWdata(p, bw) ==
    LET cur == IF p.priori /\ bw > p.required THEN p.required ELSE bw
    IN  [p EXCEPT !.cur = cur,
                  !.required = IF p.priori THEN @ ELSE IF bw = 0 THEN 0 ELSE Estimate(p, bw),
                  !.highest = Larger(@, cur)]

\* observedQuality_Rq(): Rcur / Ropt as a pair; nothing needed is quality 0.
ObservedRq(p) == IF p.required > 0 THEN <<p.cur, p.required>> ELSE <<0, 1>>

\* Is Rcur / (quality * Ropt) at least parts in a hundred?  Quality is given in
\* full-ths of 1.0; nothing demanded counts as fulfilled, and the code's -1
\* (a demand below 0) is below every threshold.
ObservedDqAtLeast(p, quality, full, parts) ==
    IF quality * p.required = 0 THEN TRUE
    ELSE quality > 0 /\ (p.cur * 100) \div parts >= (quality * p.required) \div full

\* 0 < observedQuality_Dq() < 0.95: the widget consumes, but less than demanded.
FallsShort(p, quality, full) ==
    p.cur > 0 /\ quality > 0 /\ ~ObservedDqAtLeast(p, quality, full, 95)
==============================================================================
