----------------------------- MODULE MCResolution ----------------------------
(* A screen of 8 times 6, and a picture smaller than it, one twice as wide  *)
(* that the display scales down and one that it does not scale down; the    *)
(* quotients err so much that a rounding error costs a line.                *)
EXTENDS Resolution

MCSizes      == {[w |-> 4, h |-> 4], [w |-> 16, h |-> 6], [w |-> 10, h |-> 9]}
MCScreen     == [w |-> 8, h |-> 6]
MCUnscalable == {[w |-> 10, h |-> 9]}

\* A display that scales everything down.
MCNone == {}
=============================================================================
