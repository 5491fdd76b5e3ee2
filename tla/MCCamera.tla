------------------------------ MODULE MCCamera ------------------------------
EXTENDS CameraFrames

\* Two patterns of 0, 1, 2 that differ at every address, and each from one
\* address to the next.
MCScenes == {[a \in Address |-> (a + shift) % 3] : shift \in 0 .. 1}

MCWriteAckAt == <<2, 4, 5>>
MCReadAckAt == <<2, 3, 5>>

=============================================================================
