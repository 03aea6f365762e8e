--------------------------- MODULE ScalingHistory ---------------------------
(***************************************************************************)
(* Orchestrator with history variables: for how long the stream itself has *)
(* been above the threshold, and for how long it has been empty, at every  *)
(* moment the monitor looked.  The timers of the code are compared with    *)
(* them.                                                                   *)
(***************************************************************************)
EXTENDS ScalingProperties

VARIABLES
  aboveFor,  \* age of the run of samples above the threshold, NIL for none
  idleFor    \* age of the run of samples of an empty stream, NIL for none

history == <<aboveFor, idleFor>>

HInit == Init /\ aboveFor = NIL /\ idleFor = NIL

Sampled(run, holds) == IF ~holds THEN NIL ELSE IF run = NIL THEN 0 ELSE run

Recorded ==
  IF TimePasses
  THEN /\ aboveFor' = Older(aboveFor, ScaleUpDuration)
       /\ idleFor' = Older(idleFor, IdleCap)
  ELSE IF mpc = "queue" /\ mpc' = "up"
       THEN /\ aboveFor' = Sampled(aboveFor, work > ScaleUpThreshold)
            /\ idleFor' = Sampled(idleFor, work = 0)
       ELSE UNCHANGED history

HNext == Next /\ Recorded

HSpec == HInit /\ [][HNext]_<<vars, history>>

-----------------------------------------------------------------------------

\* "pending_work > SCALE_UP_THRESHOLD continuously for SCALE_UP_DURATION": the
\* 1 -> 2 decision is only taken after that.
ScaleOutSustained ==
  mpc = "scaleOut" => aboveFor # NIL /\ aboveFor >= ScaleUpDuration

\* "pending_work == 0 for at least" the idle window: no node is picked for
\* scale-down while there was work at any sample of the window.
ScaleInIdle ==
  mpc = "scaleIn" =>
    /\ idleFor # NIL
    /\ idleFor >= IF ActiveCount(nodes) > 1 THEN ScaleDownIdleDuration
                  ELSE ScaleToZeroIdleDuration

=============================================================================
