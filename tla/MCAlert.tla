------------------------------ MODULE MCAlert ------------------------------
(* The alarm picture buffer behind a detection of 7-pixel frames.           *)
EXTENDS AlertFrameBuffer

CONSTANTS dark, light

Scene(lit) == [a \in Address |-> IF a \in lit THEN light ELSE dark]

\* An empty place, and one with an object.
MCFewScenes == {Scene({}), Scene({0, 1, 2, 5})}

=============================================================================
