-------------------------- MODULE StationaryObject --------------------------
(***************************************************************************)
(* What the object detection promises, one step per frame: it learns one    *)
(* reference frame, then judges every frame against the reference and the   *)
(* frame before it.  The suspicion level is the number of judgements in a   *)
(* row that found an object standing still, up to the threshold; the alarm  *)
(* is raised when the threshold is reached.  A frame is judged when the     *)
(* next one begins.                                                         *)
(***************************************************************************)
EXTENDS DetectorConstants, FiniteSets

VARIABLES watching, reference, compared, before, now, level, threshold

watchVars == <<watching, reference, compared, before, now, level, threshold>>

Nothing == [a \in Address |-> FALSE]

\* How frame f differs from the reference, as the detector scores it.
Image(f) ==
    [a \in Address |->
        IF a = FRAME_SIZE - 1 THEN FALSE
        ELSE reference[IF a < 2 THEN 0 ELSE a - 2]
               # (a >= 2 /\ f[IF a < 2 THEN 0 ELSE a - 2] \in Bright)]

Object(image) == Cardinality({a \in Address : image[a]}) > object_thres

Still(image, earlier) ==
    LET same == {a \in 0 .. FRAME_SIZE - 4 : image[a] /\ earlier[a]}
        weight == Cardinality(same) + IF 0 \in same THEN 2 ELSE 0
    IN  weight > static_thres

WatchInit ==
    /\ watching = FALSE
    /\ reference = Nothing
    /\ compared = FALSE
    /\ before = Nothing /\ now = Nothing
    /\ level = 0
    /\ threshold = DefaultSuspicionThres

\* Address 0 of the image the first frame is matched with may be one that an
\* earlier run left behind.
Learn ==
    /\ ~watching
    /\ watching' = TRUE
    /\ reference' \in [Address -> BOOLEAN]
    /\ before' \in {[Nothing EXCEPT ![0] = b] : b \in BOOLEAN}
    /\ UNCHANGED <<compared, now, level, threshold>>

Watch ==
    /\ watching
    /\ level' = IF Object(now) /\ Still(now, before)
                  THEN IF level < threshold THEN level + 1 ELSE level
                  ELSE 0
    /\ compared' = TRUE
    /\ before' = IF compared THEN now ELSE before
    /\ now' \in {Image(f) : f \in Scenes}
    /\ UNCHANGED <<watching, reference, threshold>>

Retune ==
    /\ threshold' \in SuspicionThresholds
    /\ UNCHANGED <<watching, reference, compared, before, now, level>>

Forget ==
    /\ watching' = FALSE
    /\ reference' = Nothing
    /\ compared' = FALSE
    /\ before' = Nothing /\ now' = Nothing
    /\ level' = 0
    /\ threshold' = DefaultSuspicionThres

WatchNext == Learn \/ Watch \/ Retune \/ Forget

WatchSpec == WatchInit /\ [][WatchNext]_watchVars

=============================================================================
