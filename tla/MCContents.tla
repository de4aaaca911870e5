------------------------------ MODULE MCContents -----------------------------
(* A few positions for Contents.                                            *)
EXTENDS Contents

\* In 1e-7 degrees: nine and eight digits, seven, none; the last is west of
\* Greenwich and the one before it east of the hundredth degree.
MCFixes ==
  {[lat |-> 475012345, lon |-> 19040230], [lat |-> 1200345, lon |-> 0],
   [lat |-> 475999999, lon |-> 1003331234], [lat |-> 514770000, lon |-> -14612]}
=============================================================================
