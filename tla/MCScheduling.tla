---------------------------- MODULE MCScheduling ----------------------------
(* Two widgets, figures that make the scoops whole numbers, and two places   *)
(* to start from: an empty wall, and a wall in service whose scheduler has   *)
(* been started and whose monitor was refreshed once.                        *)
EXTENDS Scheduling

CONSTANTS
    First, Second,      \* the two widgets
    Measured            \* what the first refresh measured of both

\* The first widget's streamer declared its need; the second one's never did and
\* was measured.
InService ==
    /\ fresh = {}
    /\ alive = Widgets
    /\ widgetList = <<Second, First>>
    /\ perf = [w \in Widgets |-> IF w = First THEN UpdateBWdata(PrioriPerf(NewPerf, Declared), Measured)
                                               ELSE UpdateBWdata(NewPerf, Measured)]
    /\ effectiveTR = IF ManualTR # 0 THEN ManualTR
                     ELSE IF \E w \in Widgets : FallsShort(perf[w], Full, Full) THEN perf[First].cur + perf[Second].cur
                     ELSE perf[First].required + perf[Second].required
    /\ quality = [w \in Widgets |-> Full]
    /\ type \in {"ProportionalShare", "SelfAdjusting"}
    /\ grid \in IF type = "ProportionalShare" THEN {"off", "zero"} ELSE {"off"}
    /\ connected = TRUE
    /\ posted = 1
    /\ thread = "loop"
    /\ quitting = FALSE
    /\ round = NoRound
    /\ gui = "idle"
    /\ printing = FALSE
    /\ dataFile = "closed"
    /\ refreshes = 0

MCSpec == /\ Init \/ InService
          /\ [][Next]_vars
          /\ WF_vars(SchedulingThread) /\ WF_vars(GuiContinues)
==============================================================================
