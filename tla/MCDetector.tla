----------------------------- MODULE MCDetector -----------------------------
(***************************************************************************)
(* The object detection on frames of 7 pixels and two colours.              *)
(***************************************************************************)
EXTENDS SuspiciousObjectDetector

CONSTANTS dark, light

Scene(lit) == [a \in Address |-> IF a \in lit THEN light ELSE dark]

\* An empty place, a place with an object, the object moved, and a lit first
\* pixel.
MCScenes == {Scene({}), Scene({0, 1, 2}), Scene({2, 3}), Scene({0, 6})}

\* An empty place, an object, the object elsewhere.
MCFewScenes == {Scene({}), Scene({0, 1, 2}), Scene({2, 3})}

=============================================================================
