------------------------------ MODULE AspectFit ------------------------------
(***************************************************************************)
(* Where the picture goes on the screen: the arithmetic of                 *)
(* modeset_atomic_prepare_commit (src/drm.c), which keeps the ratio of the *)
(* picture and centres it.  The quotients are computed in single precision *)
(* and truncated; what is known of them is that their relative error is    *)
(* below 1 / Precision.                                                    *)
(***************************************************************************)
EXTENDS Integers

CONSTANT Precision    \* 2^22 for a float; smaller values err more

ASSUME PrecisionAssumption == Precision \in Nat \ {0}

\* The whole parts the quotient of a and b may have, as computed.
Truncated(a, b) ==
  (a * (Precision - 1)) \div (b * Precision) .. (a * (Precision + 1)) \div (b * Precision)

\* The quotient of a and b, as computed, may be larger than n; may not be.
MayExceed(a, b, n) == a * (Precision + 1) > n * b * Precision
MayFit(a, b, n)    == a * (Precision - 1) <= n * b * Precision

\* The picture is lower than the screen would allow: the height decides.
ByHeight(screen, w, h) ==
  {[w |-> q, h |-> screen.h] :
     q \in IF MayExceed(screen.w * h, w, screen.h) THEN Truncated(screen.h * w, h) ELSE {}}

\* The width decides; the quotient that was compared is the one truncated.
ByWidth(screen, w, h) ==
  {[w |-> screen.w, h |-> q] :
     q \in IF MayFit(screen.w * h, w, screen.h)
           THEN {q \in Truncated(screen.w * h, w) : q <= screen.h} ELSE {}}

Place(screen, fit) ==
  [x |-> (screen.w - fit.w) \div 2, y |-> (screen.h - fit.h) \div 2,
   w |-> fit.w, h |-> fit.h]

\* The rectangles the program may ask for, for a picture of w times h.
Rectangles(screen, w, h) ==
  {Place(screen, fit) : fit \in ByHeight(screen, w, h) \cup ByWidth(screen, w, h)}

OnScreen(screen, r) ==
  /\ 0 <= r.x /\ r.x + r.w <= screen.w
  /\ 0 <= r.y /\ r.y + r.h <= screen.h

\* One side of the rectangle is the screen's, and the other is off the exact
\* one by less than two points: the ratio is kept and no space is given away.
Largest(screen, w, h, r) ==
  \/ r.h = screen.h /\ screen.h * w < (r.w + 2) * h /\ (r.w - 1) * h < screen.h * w
  \/ r.w = screen.w /\ screen.w * h < (r.h + 2) * w /\ (r.h - 1) * w < screen.w * h
=============================================================================
