------------------------------ MODULE MCReplay ------------------------------
EXTENDS Replay, TLC

CONSTANTS r1, r2, r3, a, b, c

\* Two responses that begin alike, one of which a third request gets as well.
MCSays == (r1 :> <<a, b>>) @@ (r2 :> <<a, c>>) @@ (r3 :> <<a, b>>)
=============================================================================
