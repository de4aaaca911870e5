--------------------------- MODULE ResolutionProofs --------------------------
(***************************************************************************)
(* Proofs about AspectFit and Resolution.  First the arithmetic, for every *)
(* screen and picture: single precision never takes the picture off the    *)
(* screen, as long as the screen is small against the precision.  Then the *)
(* change of resolution, for any number of buffers, references, pictures   *)
(* and resolutions.                                                        *)
(***************************************************************************)
EXTENDS Resolution, SequenceTheorems, FiniteSetTheorems, WellFoundedInduction, TLAPS

-----------------------------------------------------------------------------
(* The arithmetic.                                                         *)

USE PrecisionAssumption

Positive == Nat \ {0}

\* What a truncated quotient is.
LEMMA Quotient ==
  ASSUME NEW a \in Nat, NEW b \in Positive
  PROVE  /\ a \div b \in Nat
         /\ (a \div b) * b <= a
         /\ a < ((a \div b) + 1) * b
  BY DEF Positive

\* Products of naturals are naturals, of positives positive.
LEMMA Product ==
  ASSUME NEW a \in Nat, NEW b \in Nat PROVE a * b \in Nat
  BY SMT

\* Products of positive numbers are positive.
LEMMA PositiveProduct ==
  ASSUME NEW a \in Positive, NEW b \in Positive PROVE a * b \in Positive
  BY SMT DEF Positive

\* A factor keeps an inequality, and can be taken out of it.
LEMMA Scale ==
  ASSUME NEW a \in Nat, NEW b \in Nat, NEW c \in Nat, a <= b PROVE a * c <= b * c
  BY SMT

\* So does a strict one, with a positive factor.
LEMMA ScaleStrictly ==
  ASSUME NEW a \in Nat, NEW b \in Nat, NEW c \in Positive, a < b PROVE a * c < b * c
  BY SMT DEF Positive

\* And the factor can be taken out again.
LEMMA TakeOut ==
  ASSUME NEW a \in Nat, NEW b \in Nat, NEW c \in Positive, a * c < b * c PROVE a < b
  BY SMT DEF Positive

\* A width the screen does not have is not even computed: the error of the
\* comparison and that of the truncated width stay below one point together.
LEMMA WidthFits ==
  ASSUME NEW w \in Positive, NEW h \in Positive, NEW sw \in Positive, NEW sh \in Positive,
         sw * (2 * Precision + 1) <= Precision * Precision,
         MayExceed(sw * h, w, sh),
         NEW q \in Truncated(sh * w, h)
  PROVE  q \in 0..sw
<1> DEFINE P == Precision
           n == sh * w
           a == n * (P + 1)
           b == h * P
<1>1. P \in Positive /\ P + 1 \in Positive /\ P - 1 \in Nat
  BY DEF Positive
<1>2. n \in Nat /\ sw * h \in Nat
  BY Product DEF Positive
<1>3. a \in Nat /\ n * (P - 1) \in Nat /\ b \in Positive
  BY <1>1, <1>2, Product, PositiveProduct DEF Positive
<1>4. n * P < (sw * h) * (P + 1)
  BY DEF MayExceed
<1>5. q \in Nat /\ q * b <= a
  <2>1. (n * (P - 1)) \div b \in Nat /\ a \div b \in Nat /\ (a \div b) * b <= a
    BY <1>3, Quotient
  <2>2. q \in ((n * (P - 1)) \div b)..(a \div b)
    BY DEF Truncated
  <2>3. q \in Nat /\ q <= a \div b
    BY <2>1, <2>2
  <2>4. q * b <= (a \div b) * b
    BY <1>3, <2>1, <2>3, Scale DEF Positive
  <2> QED
    BY <2>1, <2>3, <2>4, <1>3, Product DEF Positive
<1>6. (q * b) * P <= a * P
  BY <1>1, <1>3, <1>5, Scale, Product DEF Positive
<1>7. (n * P) * (P + 1) < ((sw * h) * (P + 1)) * (P + 1)
  BY <1>1, <1>2, <1>4, ScaleStrictly, Product DEF Positive
<1> DEFINE c == q * (P * P)
           d == sw * ((P + 1) * (P + 1))
<1>8. (q * b) * P = c * h /\ a * P = (n * P) * (P + 1)
      /\ ((sw * h) * (P + 1)) * (P + 1) = d * h
  BY <1>1, <1>2, <1>5 DEF Positive
<1>9. c \in Nat /\ d \in Nat /\ P * P \in Positive
  BY <1>1, <1>5, Product, PositiveProduct DEF Positive
<1>10. c * h < d * h
  <2>1. (q * b) * P \in Nat /\ a * P \in Nat /\ d * h \in Nat
    BY <1>1, <1>3, <1>5, <1>9, Product DEF Positive
  <2> HIDE DEF a, b, c, d, n, P
  <2> QED
    BY <1>6, <1>7, <1>8, <2>1
<1>11. c < d
  <2> HIDE DEF c, d
  <2> QED
    BY <1>9, <1>10, TakeOut
<1>12. d <= (sw + 1) * (P * P)
  <2>1. d = sw * (P * P) + sw * (2 * P + 1)
    BY <1>1 DEF Positive
  <2>2. (sw + 1) * (P * P) = sw * (P * P) + P * P
    BY <1>1 DEF Positive
  <2>3. sw * (P * P) \in Nat /\ sw * (2 * P + 1) \in Nat
    BY <1>1, Product DEF Positive
  <2> QED
    BY <2>1, <2>2, <2>3, <1>9 DEF Positive
<1>13. q * (P * P) < (sw + 1) * (P * P)
  <2>1. (sw + 1) * (P * P) \in Nat
    BY <1>9, Product DEF Positive
  <2> HIDE DEF d
  <2> QED
    BY <1>9, <1>11, <1>12, <2>1
<1>14. q < sw + 1
  BY <1>5, <1>9, <1>13, TakeOut DEF Positive
<1> QED
  BY <1>5, <1>14 DEF Positive

\* A computed quotient is a natural number, and off the exact one by less than
\* two while the exact one is below the precision.
LEMMA Accurate ==
  ASSUME NEW n \in Nat, NEW h \in Positive, NEW q \in Truncated(n, h)
  PROVE  /\ q \in Nat
         /\ n < h * Precision => n < (q + 2) * h /\ (q - 1) * h < n
<1> DEFINE P == Precision
           b == h * P
           lo == (n * (P - 1)) \div b
           hi == (n * (P + 1)) \div b
<1>1. P \in Positive /\ P + 1 \in Positive /\ P - 1 \in Nat
  BY DEF Positive
<1>2. n * (P - 1) \in Nat /\ n * (P + 1) \in Nat /\ n * P \in Nat /\ b \in Positive
  BY <1>1, Product, PositiveProduct DEF Positive
<1>3. lo \in Nat /\ hi \in Nat /\ hi * b <= n * (P + 1) /\ n * (P - 1) < (lo + 1) * b
  BY <1>2, Quotient
<1>4. q \in lo..hi
  BY DEF Truncated
<1>5. q \in Nat /\ lo <= q /\ q <= hi
  BY <1>3, <1>4
<1>6. q * b <= hi * b /\ (lo + 1) * b <= (q + 1) * b
  BY <1>2, <1>3, <1>5, Scale DEF Positive
<1>7. q * b \in Nat /\ hi * b \in Nat /\ (lo + 1) * b \in Nat /\ (q + 1) * b \in Nat
  BY <1>2, <1>3, <1>5, Product DEF Positive
<1>8. q * b <= n * (P + 1) /\ n * (P - 1) < (q + 1) * b
  <2> HIDE DEF lo, hi, b, P
  <2> QED
    BY <1>2, <1>3, <1>6, <1>7
<1>9. ASSUME n < b PROVE n < (q + 2) * h /\ (q - 1) * h < n
  <2>1. n * (P + 1) = n * P + n /\ n * (P - 1) = n * P - n
    BY <1>1 DEF Positive
  <2>2. (q + 1) * b = q * b + b /\ (q + 2) * b = q * b + 2 * b
    BY <1>2, <1>5 DEF Positive
  <2>3. n * P < (q + 2) * b /\ q * b < n * P + b
    <3> HIDE DEF b, P
    <3> QED
      BY <1>2, <1>7, <1>8, <1>9, <2>1, <2>2 DEF Positive
  <2>4. (q + 2) * b = ((q + 2) * h) * P
    BY <1>1, <1>5 DEF Positive
  <2>5. n < (q + 2) * h
    <3>1. (q + 2) * h \in Nat
      BY <1>5, Product DEF Positive
    <3> HIDE DEF b, P
    <3> QED
      BY <1>1, <2>3, <2>4, <3>1, TakeOut
  <2>6. (q - 1) * h < n
    <3>1. CASE q = 0
      BY <3>1 DEF Positive
    <3>2. CASE q # 0
      <4>1. q - 1 \in Nat /\ (q - 1) * h \in Nat
        BY <1>5, <3>2, Product DEF Positive
      <4>2. ((q - 1) * h) * P = q * b - b
        BY <1>1, <1>5 DEF Positive
      <4>3. ((q - 1) * h) * P < n * P
        <5> HIDE DEF b, P
        <5> QED
          BY <1>2, <1>7, <2>3, <4>2 DEF Positive
      <4> HIDE DEF b, P
      <4> QED
        BY <1>1, <4>1, <4>3, TakeOut
    <3> QED
      BY <3>1, <3>2
  <2> QED
    BY <2>5, <2>6
<1> QED
  BY <1>5, <1>9

\* What the comparisons leave of the exact quotients is below the precision.
LEMMA QuotientsInRange ==
  ASSUME NEW w \in Positive, NEW h \in Positive, NEW sw \in Positive, NEW sh \in Positive,
         sw * (2 * Precision + 1) <= Precision * Precision,
         sh * (2 * Precision + 1) <= Precision * Precision
  PROVE  /\ MayExceed(sw * h, w, sh) => sh * w < h * Precision
         /\ MayFit(sw * h, w, sh) => sw * h < w * Precision
<1> DEFINE P == Precision
<1>1. P \in Positive /\ P + 1 \in Positive /\ P - 1 \in Nat
  BY DEF Positive
<1>2. ASSUME NEW s \in Positive, s * (2 * P + 1) <= P * P PROVE 2 * s + 1 <= P
  <2>1. s * (2 * P + 1) = (2 * s) * P + s
    BY <1>1 DEF Positive
  <2>2. (2 * s) * P \in Nat /\ P * P \in Nat
    BY <1>1, Product DEF Positive
  <2>3. (2 * s) * P < P * P
    BY <1>2, <2>1, <2>2 DEF Positive
  <2>4. 2 * s < P
    BY <1>1, <2>3, TakeOut DEF Positive
  <2> QED
    BY <1>1, <2>4 DEF Positive
<1>3. 2 * sw + 1 <= P /\ 2 * sh + 1 <= P
  BY <1>2
<1>4. sh * w \in Nat /\ sw * h \in Nat /\ h * P \in Nat /\ w * P \in Nat
  BY <1>1, Product DEF Positive
<1>5. ASSUME (sw * h) * (P + 1) > sh * w * P PROVE sh * w < h * P
  <2>1. sw * (P + 1) <= P * P
    <3>1. sw * (P + 1) + sw * P = sw * (2 * P + 1)
      BY <1>1 DEF Positive
    <3>2. sw * P \in Nat /\ sw * (P + 1) \in Nat /\ P * P \in Nat
      BY <1>1, Product DEF Positive
    <3> QED
      BY <3>1, <3>2
  <2>2. (sw * (P + 1)) * h <= (P * P) * h
    BY <1>1, <2>1, Scale, Product DEF Positive
  <2>3. (sw * h) * (P + 1) = (sw * (P + 1)) * h /\ (P * P) * h = (h * P) * P
    BY <1>1 DEF Positive
  <2>4. (sh * w) * P \in Nat /\ (sw * (P + 1)) * h \in Nat /\ (h * P) * P \in Nat
    BY <1>1, <1>4, Product DEF Positive
  <2>5. (sh * w) * P < (h * P) * P
    BY <1>5, <2>2, <2>3, <2>4
  <2> QED
    BY <1>1, <1>4, <2>5, TakeOut
<1>6. ASSUME (sw * h) * (P - 1) <= sh * w * P PROVE sw * h < w * P
  <2>1. P - 1 \in Positive /\ 2 * sh <= P - 1
    BY <1>1, <1>3 DEF Positive
  <2>2. (2 * sh) * (w * P) <= (P - 1) * (w * P)
    BY <1>4, <2>1, Scale DEF Positive
  <2>3. (2 * sh) * (w * P) = 2 * (sh * w * P) /\ sh * w * P \in Positive
        /\ (P - 1) * (w * P) = (w * P) * (P - 1)
    <3>1. sh * w \in Positive /\ sh * w * P \in Positive
      BY <1>1, PositiveProduct
    <3> QED
      BY <1>1, <3>1 DEF Positive
  <2>4. (w * P) * (P - 1) \in Nat /\ (sw * h) * (P - 1) \in Nat
    BY <1>1, <1>4, Product
  <2>5. (sw * h) * (P - 1) < (w * P) * (P - 1)
    <3> HIDE DEF P
    <3> QED
      BY <1>6, <2>2, <2>3, <2>4 DEF Positive
  <2> QED
    BY <1>4, <2>1, <2>5, TakeOut
<1> QED
  BY <1>5, <1>6 DEF MayExceed, MayFit

\* A rectangle in the middle is on the screen when it is not larger.
LEMMA Centred ==
  ASSUME NEW n \in Nat, NEW q \in 0..n
  PROVE  0 <= (n - q) \div 2 /\ (n - q) \div 2 + q <= n
  OBVIOUS

-----------------------------------------------------------------------------
\* For every screen whose sides are below about half the precision (two million
\* points for a float) and every picture, single precision never takes the
\* picture off the screen (drm.c:599-612).
THEOREM RectanglesOnScreen ==
  ASSUME NEW screen \in [w : Positive, h : Positive],
         NEW w \in Positive, NEW h \in Positive,
         screen.w * (2 * Precision + 1) <= Precision * Precision
  PROVE  \A r \in Rectangles(screen, w, h) : OnScreen(screen, r)
<1> DEFINE sw == screen.w
           sh == screen.h
<1>1. sw \in Positive /\ sh \in Positive /\ sw \in Nat /\ sh \in Nat
  BY DEF Positive
<1> HIDE DEF sw, sh
<1>2. ASSUME NEW fit \in ByHeight(screen, w, h) PROVE fit.h = sh /\ fit.w \in 0..sw
  <2>1. PICK q : /\ MayExceed(sw * h, w, sh) /\ q \in Truncated(sh * w, h)
                 /\ fit = [w |-> q, h |-> sh]
    BY <1>2 DEF ByHeight, sw, sh
  <2>2. q \in 0..sw
    <3>1. sw * (2 * Precision + 1) <= Precision * Precision
      BY DEF sw
    <3> QED
      BY <1>1, <2>1, <3>1, WidthFits
  <2> QED
    BY <2>1, <2>2
<1>3. ASSUME NEW fit \in ByWidth(screen, w, h) PROVE fit.w = sw /\ fit.h \in 0..sh
  <2>1. PICK q : /\ q \in Truncated(sw * h, w) /\ q <= sh
                 /\ fit = [w |-> sw, h |-> q]
    BY <1>3 DEF ByWidth, sw, sh
  <2>2. sw * h \in Nat
    BY <1>1, Product DEF Positive
  <2>3. q \in 0..sh
    BY <1>1, <2>1, <2>2, Accurate
  <2> QED
    BY <2>1, <2>3
<1>4. ASSUME NEW fit, fit.w \in 0..sw, fit.h \in 0..sh
      PROVE  OnScreen(screen, Place(screen, fit))
  <2>1. 0 <= (sw - fit.w) \div 2 /\ (sw - fit.w) \div 2 + fit.w <= sw
    BY <1>1, <1>4, Centred
  <2>2. 0 <= (sh - fit.h) \div 2 /\ (sh - fit.h) \div 2 + fit.h <= sh
    BY <1>1, <1>4, Centred
  <2> QED
    BY <2>1, <2>2 DEF OnScreen, Place, sw, sh
<1>5. sw \in 0..sw /\ sh \in 0..sh
  BY <1>1
<1> QED
  BY <1>2, <1>3, <1>4, <1>5 DEF Rectangles

\* Under the same bound for both sides the picture is as large as its ratio
\* allows, to a point or two (drm.c:599-612).
THEOREM RectanglesLargest ==
  ASSUME NEW screen \in [w : Positive, h : Positive],
         NEW w \in Positive, NEW h \in Positive,
         screen.w * (2 * Precision + 1) <= Precision * Precision,
         screen.h * (2 * Precision + 1) <= Precision * Precision
  PROVE  \A r \in Rectangles(screen, w, h) : Largest(screen, w, h, r)
<1> DEFINE sw == screen.w
           sh == screen.h
<1>1. sw \in Positive /\ sh \in Positive
  OBVIOUS
<1>2. sw * h \in Nat /\ sh * w \in Nat
  BY <1>1, Product DEF Positive
<1>3. /\ sw * (2 * Precision + 1) <= Precision * Precision
      /\ sh * (2 * Precision + 1) <= Precision * Precision
  OBVIOUS
<1> HIDE DEF sw, sh
<1>4. ASSUME NEW fit \in ByHeight(screen, w, h)
      PROVE  fit.h = sh /\ sh * w < (fit.w + 2) * h /\ (fit.w - 1) * h < sh * w
  <2>1. PICK q : /\ MayExceed(sw * h, w, sh) /\ q \in Truncated(sh * w, h)
                 /\ fit = [w |-> q, h |-> sh]
    BY <1>4 DEF ByHeight, sw, sh
  <2>2. sh * w < h * Precision
    BY <1>1, <1>3, <2>1, QuotientsInRange
  <2>3. sh * w < (q + 2) * h /\ (q - 1) * h < sh * w
    BY <1>2, <2>1, <2>2, Accurate
  <2> QED
    BY <2>1, <2>3
<1>5. ASSUME NEW fit \in ByWidth(screen, w, h)
      PROVE  fit.w = sw /\ sw * h < (fit.h + 2) * w /\ (fit.h - 1) * w < sw * h
  <2>1. PICK q : /\ MayFit(sw * h, w, sh) /\ q \in Truncated(sw * h, w)
                 /\ fit = [w |-> sw, h |-> q]
    BY <1>5 DEF ByWidth, sw, sh
  <2>2. sw * h < w * Precision
    BY <1>1, <1>3, <2>1, QuotientsInRange
  <2>3. sw * h < (q + 2) * w /\ (q - 1) * w < sw * h
    BY <1>2, <2>1, <2>2, Accurate
  <2> QED
    BY <2>1, <2>3
<1>6. ASSUME NEW fit PROVE Place(screen, fit).w = fit.w /\ Place(screen, fit).h = fit.h
  BY DEF Place
<1> QED
  BY <1>4, <1>5, <1>6 DEF Rectangles, Largest, sw, sh

-----------------------------------------------------------------------------
(* What the operators of the model return.                                 *)

\* Of a set of places there is a last one.
LEMMA LastExists ==
  ASSUME NEW n \in Nat, NEW S \in SUBSET (1..n), S # {}
  PROVE  \E x \in S : \A y \in S : x >= y
<1> DEFINE T == {n - x : x \in S}
<1>1. T \in SUBSET Nat /\ T # {}
  <2>1. \A x \in S : n - x \in Nat
    OBVIOUS
  <2> QED
    BY <2>1
<1> HIDE DEF T
<1>2. \E d \in T : \A y \in T : <<y, d>> \notin OpToRel(<, Nat)
  BY <1>1, NatLessThanWellFounded, WFMin, Zenon
<1>3. PICK d \in T : \A y \in T : <<y, d>> \notin OpToRel(<, Nat)
  BY <1>2
<1>4. \A y \in T : ~(y < d)
  BY <1>1, <1>3 DEF OpToRel
<1>5. PICK x \in S : d = n - x
  BY <1>3 DEF T
<1>6. \A y \in S : ~(n - y < n - x)
  BY <1>4, <1>5 DEF T
<1> QED
  BY <1>6

\* An element no other exceeds is the maximum; a bounded set has one.
LEMMA MaxIs ==
  ASSUME NEW S \in SUBSET Nat, NEW x \in S, \A y \in S : x >= y
  PROVE  Max(S) = x
<1>1. \E y \in S : \A z \in S : y >= z
  OBVIOUS
<1>2. Max(S) \in S /\ \A y \in S : Max(S) >= y
  BY <1>1, Zenon DEF Max
<1>3. Max(S) \in Nat /\ x \in Nat /\ Max(S) >= x /\ x >= Max(S)
  BY <1>2
<1> QED
  BY <1>3

\* The largest of some numbers is one of them.
LEMMA MaxFound ==
  ASSUME NEW n \in Nat, NEW S \in SUBSET (1..n), S # {}
  PROVE  Max(S) \in S
  BY LastExists DEF Max

\* A commit leaves a plane, and its frame buffer is the one it had or one that
\* the request names.
LEMMA AppliedFits ==
  ASSUME plane \in Planes, NEW r \in Seq(Items)
  PROVE  /\ Applied(r) \in Planes
         /\ \/ Applied(r).fb = plane.fb
            \/ \E i \in Given(r, "fb") : Applied(r).fb = r[i].value
<1>1. \A p : Given(r, p) # {} => Max(Given(r, p)) \in Given(r, p)
  <2> SUFFICES ASSUME NEW p, Given(r, p) # {} PROVE Max(Given(r, p)) \in Given(r, p)
    OBVIOUS
  <2>1. Given(r, p) \in SUBSET (1..Len(r)) /\ Len(r) \in Nat
    BY DEF Given
  <2> QED
    BY <2>1, MaxFound
<1>2. DOMAIN plane = {"crtc", "fb", "src", "dst", "zpos"}
  BY DEF Planes
<1>3. \A p \in DOMAIN plane :
        \/ Applied(r)[p] = plane[p]
        \/ \E i \in 1..Len(r) : r[i].prop = p /\ Applied(r)[p] = r[i].value
  BY <1>1 DEF Applied, Given
<1>4. \A i \in 1..Len(r) : r[i] \in Items
  OBVIOUS
<1>5. /\ Applied(r)["crtc"] \in BOOLEAN
      /\ Applied(r)["fb"] \in Shown
      /\ Applied(r)["src"] \in Sizes \cup {Screen}
      /\ Applied(r)["dst"] \in Rectangle
      /\ Applied(r)["zpos"] \in {"initial", "video"}
  BY <1>2, <1>3, <1>4 DEF Planes, Items
<1>6. Applied(r) = [p \in {"crtc", "fb", "src", "dst", "zpos"} |-> Applied(r)[p]]
  BY <1>2 DEF Applied
<1>7. Applied(r) \in Planes
  BY <1>5, <1>6 DEF Planes
<1>8. \/ Applied(r).fb = plane.fb
      \/ \E i \in Given(r, "fb") : Applied(r).fb = r[i].value
  BY <1>2, <1>3 DEF Given
<1> QED
  BY <1>7, <1>8

\* What was appended last is what the kernel keeps.
LEMMA AppliedPrepared ==
  ASSUME plane \in Planes, NEW q \in Seq(Items), NEW fb, NEW size, NEW rect, NEW zpos
  PROVE  Applied(q \o Prepared(fb, size, rect, zpos))
           = [crtc |-> TRUE, fb |-> fb, src |-> size, dst |-> rect, zpos |-> zpos]
<1> DEFINE n == Len(q)
           P == Prepared(fb, size, rect, zpos)
           r == q \o P
<1>1. n \in Nat /\ Len(P) = 5 /\ Len(r) = n + 5
  BY DEF Prepared
<1>2. \A k \in 1..5 : r[n + k] = P[k]
  BY <1>1 DEF Prepared
<1>3. /\ P[1] = Item("crtc", TRUE) /\ P[2] = Item("fb", fb) /\ P[3] = Item("src", size)
      /\ P[4] = Item("dst", rect) /\ P[5] = Item("zpos", zpos)
  BY DEF Prepared
<1>p. /\ P[1].prop = "crtc" /\ P[2].prop = "fb" /\ P[3].prop = "src" /\ P[4].prop = "dst"
      /\ P[5].prop = "zpos"
  BY <1>3 DEF Item
<1>v. /\ P[1].value = TRUE /\ P[2].value = fb /\ P[3].value = size /\ P[4].value = rect
      /\ P[5].value = zpos
  BY <1>3 DEF Item
<1> HIDE DEF n, P, r
<1>4. ASSUME NEW p, NEW k \in 1..5, P[k].prop = p, p \in DOMAIN plane,
             \A j \in 1..5 : j > k => P[j].prop # p
      PROVE  Applied(r)[p] = P[k].value
  <2>0. r[n + k] = P[k] /\ n + k \in Nat /\ n + k >= 1 /\ n + k <= n + 5
    BY <1>1, <1>2
  <2>1. n + k \in Given(r, p)
    BY <1>1, <1>4, <2>0 DEF Given
  <2>5. Given(r, p) \in SUBSET Nat
    BY DEF Given
  <2>2. ASSUME NEW y \in Given(r, p) PROVE n + k >= y
    <3>1. y \in 1..(n + 5) /\ r[y].prop = p
      BY <1>1 DEF Given
    <3>2. ASSUME y > n + k PROVE FALSE
      <4>1. y - n \in 1..5 /\ y - n > k /\ n + (y - n) = y
        BY <1>1, <3>1, <3>2
      <4>2. r[y] = P[y - n]
        BY <1>2, <4>1
      <4> QED
        BY <1>4, <3>1, <4>1, <4>2
    <3> QED
      BY <1>1, <3>1, <3>2
  <2>3. Max(Given(r, p)) = n + k /\ Given(r, p) # {}
    BY <2>1, <2>2, <2>5, MaxIs
  <2>4. Applied(r)[p] = r[n + k].value
    BY <1>4, <2>3 DEF Applied
  <2> QED
    BY <1>2, <2>4
<1>6. DOMAIN plane = {"crtc", "fb", "src", "dst", "zpos"}
  BY DEF Planes
<1>a. Applied(r)["crtc"] = TRUE
  <2>1. \A j \in 1..5 : j > 1 => P[j].prop # "crtc"
    BY <1>p
  <2> QED
    BY <1>4, <1>6, <1>p, <1>v, <2>1
<1>b. Applied(r)["fb"] = fb
  <2>1. \A j \in 1..5 : j > 2 => P[j].prop # "fb"
    BY <1>p
  <2> QED
    BY <1>4, <1>6, <1>p, <1>v, <2>1
<1>c. Applied(r)["src"] = size
  <2>1. \A j \in 1..5 : j > 3 => P[j].prop # "src"
    BY <1>p
  <2> QED
    BY <1>4, <1>6, <1>p, <1>v, <2>1
<1>d. Applied(r)["dst"] = rect
  <2>1. \A j \in 1..5 : j > 4 => P[j].prop # "dst"
    BY <1>p
  <2> QED
    BY <1>4, <1>6, <1>p, <1>v, <2>1
<1>e. Applied(r)["zpos"] = zpos
  <2>1. \A j \in 1..5 : j > 5 => P[j].prop # "zpos"
    BY <1>p
  <2> QED
    BY <1>4, <1>6, <1>p, <1>v, <2>1
<1>8. Applied(r) = [p \in {"crtc", "fb", "src", "dst", "zpos"} |-> Applied(r)[p]]
  BY <1>6 DEF Applied
<1>9. Applied(r) = [crtc |-> TRUE, fb |-> fb, src |-> size, dst |-> rect, zpos |-> zpos]
  BY <1>a, <1>b, <1>c, <1>d, <1>e, <1>8
<1> QED
  BY <1>9, Zenon DEF r, P

\* The request of the display thread changes the frame buffer and nothing else.
LEMMA AppliedFrame ==
  ASSUME plane \in Planes, NEW fb,
         NEW r, r = <<Item("fb", fb), Item("osd", OsdBuffer)>>
  PROVE  Applied(r) = [plane EXCEPT !.fb = fb]
<1>1. Len(r) = 2 /\ r[1] = Item("fb", fb) /\ r[2] = Item("osd", OsdBuffer)
  OBVIOUS
<1>2. Given(r, "fb") = {1} /\ \A p : p \notin {"fb", "osd"} => Given(r, p) = {}
  BY <1>1 DEF Given, Item
<1>3. Max({1}) = 1
  BY MaxIs
<1>4. DOMAIN plane = {"crtc", "fb", "src", "dst", "zpos"}
  BY DEF Planes
<1>5. \A p \in DOMAIN plane : Applied(r)[p] = IF p = "fb" THEN fb ELSE plane[p]
  BY <1>1, <1>2, <1>3, <1>4 DEF Applied, Item
<1>6. Applied(r) = [p \in DOMAIN plane |-> Applied(r)[p]]
  BY DEF Applied
<1> QED
  BY <1>4, <1>5, <1>6 DEF Planes

\* What modeset_atomic_prepare_commit may place is a rectangle of numbers.
LEMMA RectanglesAreRectangles ==
  ASSUME NEW screen \in [w : Positive, h : Positive], NEW w \in Positive, NEW h \in Positive
  PROVE  Rectangles(screen, w, h) \subseteq Rectangle
<1>1. ASSUME NEW fit \in ByHeight(screen, w, h) \cup ByWidth(screen, w, h)
      PROVE  fit.w \in Int /\ fit.h \in Int
  <2>1. \A a, b : Truncated(a, b) \subseteq Int
    BY DEF Truncated
  <2> QED
    BY <2>1 DEF ByHeight, ByWidth, Positive
<1>2. ASSUME NEW fit, fit.w \in Int, fit.h \in Int PROVE Place(screen, fit) \in Rectangle
  <2>1. (screen.w - fit.w) \div 2 \in Int /\ (screen.h - fit.h) \div 2 \in Int
    BY <1>2 DEF Positive
  <2> QED
    BY <1>2, <2>1 DEF Place, Rectangle
<1> QED
  BY <1>1, <1>2 DEF Rectangles

\* The elements of an interval, counted.
LEMMA Interval ==
  ASSUME NEW m \in Nat, NEW n \in Nat, m <= n
  PROVE  IsFiniteSet((m + 1)..n) /\ Cardinality((m + 1)..n) = n - m
<1>1. m + 1 \in Int /\ n \in Int
  OBVIOUS
<1>2. /\ IsFiniteSet((m + 1)..n)
      /\ Cardinality((m + 1)..n) = IF m + 1 > n THEN 0 ELSE n - (m + 1) + 1
  BY <1>1, FS_Interval, Zenon
<1> QED
  BY <1>1, <1>2

\* The same from 1.
LEMMA FromOne ==
  ASSUME NEW n \in Nat
  PROVE  IsFiniteSet(1..n) /\ Cardinality(1..n) = n
<1>1. 1 \in Int /\ n \in Int
  OBVIOUS
<1>2. IsFiniteSet(1..n) /\ Cardinality(1..n) = IF 1 > n THEN 0 ELSE n - 1 + 1
  BY <1>1, FS_Interval, Zenon
<1> QED
  BY <1>1, <1>2

\* A queue without repetitions is no longer than there are buffers.
LEMMA FreeDistinct ==
  ASSUME NEW s \in Seq(1..MAX_FRAMES),
         \A j, k \in 1..Len(s) : s[j] = s[k] => j = k
  PROVE  Len(s) <= MAX_FRAMES
<1>a. Len(s) \in Nat
  OBVIOUS
<1>b. s \in [1..Len(s) -> 1..MAX_FRAMES]
  BY LenProperties
<1>c. DOMAIN s = 1..Len(s)
  BY <1>b, Zenon
<1>0. s \in [1..Len(s) -> 1..MAX_FRAMES] /\ Len(s) \in Nat /\ DOMAIN s = 1..Len(s)
  BY <1>a, <1>b, <1>c, Zenon
<1>1. s \in Injection(1..Len(s), 1..MAX_FRAMES)
  <2>1. IsInjective(s)
    BY <1>0 DEF IsInjective
  <2> QED
    BY <1>0, <2>1 DEF Injection
<1>2. /\ IsFiniteSet(1..MAX_FRAMES) /\ Cardinality(1..MAX_FRAMES) = MAX_FRAMES
      /\ Cardinality(1..Len(s)) = Len(s)
  BY <1>0, FromOne, ResolutionAssumption
<1> QED
  BY <1>0, <1>1, <1>2, FS_Injection

\* The buffers that are not free are references or hold one of the last pictures.
LEMMA Counting ==
  ASSUME NEW s \in Seq(1..MAX_FRAMES), NEW R \in SUBSET (1..MAX_FRAMES),
         NEW C \in SUBSET (1..MAX_FRAMES), NEW m \in Nat, NEW n \in Nat, m <= n,
         NEW pic \in [C -> (m + 1)..n],
         \A a, b \in C : pic[a] = pic[b] => a = b,
         \A b \in 1..MAX_FRAMES : b \in C \cup R \/ \E k \in 1..Len(s) : s[k] = b
  PROVE  MAX_FRAMES <= Len(s) + Cardinality(R) + (n - m)
<1> DEFINE F == {s[k] : k \in 1..Len(s)}
           L == Len(s)
<1>1. L \in Nat /\ s \in [1..L -> 1..MAX_FRAMES] /\ MAX_FRAMES \in Nat
  BY ResolutionAssumption
<1>2. IsFiniteSet(F) /\ Cardinality(F) <= L
  <2>1. s \in Surjection(1..L, F)
    BY <1>1 DEF Surjection
  <2>2. IsFiniteSet(1..L) /\ Cardinality(1..L) = L
    BY <1>1, FromOne
  <2> QED
    BY <2>1, <2>2, FS_Surjection
<1>3. IsFiniteSet(C) /\ Cardinality(C) <= n - m
  <2>1. pic \in Injection(C, (m + 1)..n)
    BY Zenon DEF Injection, IsInjective
  <2>2. IsFiniteSet((m + 1)..n) /\ Cardinality((m + 1)..n) = n - m
    BY Interval
  <2> QED
    BY <2>1, <2>2, FS_Injection
<1>4. IsFiniteSet(1..MAX_FRAMES) /\ Cardinality(1..MAX_FRAMES) = MAX_FRAMES
  BY <1>1, FromOne
<1>5. IsFiniteSet(R)
  BY <1>4, FS_Subset
<1>6. 1..MAX_FRAMES \subseteq (F \cup R) \cup C
  OBVIOUS
<1> HIDE DEF F, L
<1>7. IsFiniteSet(F \cup R) /\ Cardinality(F \cup R) <= L + Cardinality(R)
  <2>1. Cardinality(F \cup R) = Cardinality(F) + Cardinality(R) - Cardinality(F \cap R)
        /\ IsFiniteSet(F \cup R)
    BY <1>2, <1>5, FS_Union
  <2>2. /\ Cardinality(F) \in Nat /\ Cardinality(R) \in Nat
        /\ Cardinality(F \cap R) \in Nat
    <3>1. IsFiniteSet(F \cap R)
      BY <1>2, FS_Subset
    <3> QED
      BY <1>2, <1>5, <3>1, FS_CardinalityType
  <2> QED
    BY <1>1, <1>2, <2>1, <2>2
<1>8. IsFiniteSet((F \cup R) \cup C)
      /\ Cardinality((F \cup R) \cup C) <= L + Cardinality(R) + (n - m)
  <2>1. Cardinality((F \cup R) \cup C)
          = Cardinality(F \cup R) + Cardinality(C) - Cardinality((F \cup R) \cap C)
        /\ IsFiniteSet((F \cup R) \cup C)
    BY <1>3, <1>7, FS_Union
  <2>2. /\ Cardinality(F \cup R) \in Nat /\ Cardinality(C) \in Nat /\ Cardinality(R) \in Nat
        /\ Cardinality((F \cup R) \cap C) \in Nat
    <3>1. IsFiniteSet((F \cup R) \cap C)
      BY <1>3, FS_Subset
    <3> QED
      BY <1>3, <1>5, <1>7, <3>1, FS_CardinalityType
  <2> QED
    BY <1>1, <1>3, <1>7, <2>1, <2>2
<1>9. /\ Cardinality(1..MAX_FRAMES) <= Cardinality((F \cup R) \cup C)
      /\ Cardinality((F \cup R) \cup C) \in Nat /\ Cardinality(R) \in Nat
  BY <1>5, <1>6, <1>8, FS_Subset, FS_CardinalityType
<1> QED
  BY <1>1, <1>4, <1>8, <1>9 DEF L

-----------------------------------------------------------------------------
(* What an append and a removal do to a sequence.                          *)

\* What Append leaves in place and adds.
LEMMA Appended ==
  ASSUME NEW S, NEW s \in Seq(S), NEW x \in S
  PROVE  /\ Append(s, x) \in Seq(S)
         /\ Len(s) \in Nat /\ Len(Append(s, x)) = Len(s) + 1
         /\ \A i \in 1..Len(s) : Append(s, x)[i] = s[i]
         /\ Append(s, x)[Len(s) + 1] = x
  OBVIOUS

\* What Head and Tail take.
LEMMA Rest ==
  ASSUME NEW S, NEW s \in Seq(S), s # <<>>
  PROVE  /\ Tail(s) \in Seq(S) /\ Head(s) \in S /\ Head(s) = s[1]
         /\ Len(s) \in Nat /\ Len(s) >= 1 /\ Len(Tail(s)) = Len(s) - 1
         /\ \A i \in 1..Len(Tail(s)) : Tail(s)[i] = s[i + 1]
  OBVIOUS

\* Where the elements of a concatenation are.
LEMMA Joined ==
  ASSUME NEW S, NEW s \in Seq(S), NEW t \in Seq(S)
  PROVE  /\ s \o t \in Seq(S)
         /\ Len(s) \in Nat /\ Len(t) \in Nat /\ Len(s \o t) = Len(s) + Len(t)
         /\ \A i \in 1..Len(s) : (s \o t)[i] = s[i]
         /\ \A i \in 1..Len(t) : (s \o t)[Len(s) + i] = t[i]
  OBVIOUS

\* The front of a concatenation is what was there before.
LEMMA Front ==
  ASSUME NEW S, NEW s \in Seq(S), NEW t \in Seq(S)
  PROVE  SubSeq(s \o t, 1, Len(s)) = s
  OBVIOUS

\* A beginning of a sequence is one.
LEMMA Beginning ==
  ASSUME NEW S, NEW s \in Seq(S), NEW n \in 0..Len(s)
  PROVE  SubSeq(s, 1, n) \in Seq(S)
  OBVIOUS

\* What a frame is, by its kind.
LEMMA FrameFields ==
  ASSUME NEW f \in Frame
  PROVE  /\ f.kind \in {"none", "eos", "info", "picture"}
         /\ f.kind = "info" => f.size \in Sizes
         /\ f.kind = "picture" =>
              /\ f.gen \in 1..MaxInfoChanges /\ f.buf \in 1..MAX_FRAMES
              /\ f.pic \in 1..MaxPictures
         /\ f.kind = "none" => f = NoFrame
  BY DEF Frame, NoFrame

\* And each of these is a frame.
LEMMA FrameKinds ==
  /\ NoFrame \in Frame /\ NoFrame.kind = "none"
  /\ [kind |-> "eos"] \in Frame
  /\ \A s \in Sizes : [kind |-> "info", size |-> s] \in Frame
  /\ \A g \in 1..MaxInfoChanges, b \in 1..MAX_FRAMES, p \in 1..MaxPictures :
       [kind |-> "picture", gen |-> g, buf |-> b, pic |-> p] \in Frame
  BY DEF Frame, NoFrame

\* The numbers of the state.
LEMMA Types ==
  ASSUME TypeOK
  PROVE  /\ Generation \in Nat /\ started \in Nat /\ Len(output) \in Nat /\ Len(unused) \in Nat
         /\ output \in Seq(Frame) /\ unused \in Seq(1..MAX_FRAMES) /\ frame \in Frame
         /\ \A i \in 1..Len(output) : output[i] \in Frame
         /\ \A k \in 1..Len(unused) : unused[k] \in 1..MAX_FRAMES
         /\ MaxPictures \in Nat /\ MaxInfoChanges \in Nat /\ MAX_FRAMES \in Nat
         /\ MaxRefs \in Nat /\ MaxRefs < MAX_FRAMES
  BY ResolutionAssumption DEF TypeOK, Generation

\* The numbers of the pictures in the decoder's output and in the frame
\* thread's hands.
LEMMA Numbers ==
  ASSUME TypeOK
  PROVE  /\ \A i \in 1..Len(output) : output[i].kind = "picture" =>
              /\ output[i].gen \in Nat /\ output[i].buf \in 1..MAX_FRAMES
              /\ output[i].pic \in Nat /\ output[i].pic >= 1
         /\ frame.kind = "picture" =>
              /\ frame.gen \in Nat /\ frame.buf \in 1..MAX_FRAMES
              /\ frame.pic \in Nat /\ frame.pic >= 1
         /\ writing.gen \in Nat /\ writing.pic \in Nat
<1>1. \A i \in 1..Len(output) : output[i] \in Frame
  BY Types
<1>2. writing.gen \in Nat /\ writing.pic \in Nat
  BY ResolutionAssumption DEF TypeOK, Shown
<1>3. frame \in Frame
  BY DEF TypeOK
<1>4. \A f \in Frame : f.kind = "picture" =>
        f.gen \in Nat /\ f.buf \in 1..MAX_FRAMES /\ f.pic \in Nat /\ f.pic >= 1
  BY FrameFields, ResolutionAssumption
<1> QED
  BY <1>1, <1>2, <1>3, <1>4

\* The buffers handed over are those of the pictures in the output and in hand.
HandedOver(b) ==
  \/ \E i \in 1..Len(output) : output[i].kind = "picture" /\ output[i].buf = b
  \/ frame.kind = "picture" /\ frame.buf = b

\* HandedOver is what Handed names, before and after a step.
LEMMA HandedIs ==
  ASSUME PicturesFit
  PROVE  \A b : b \in Handed(output, frame) <=> HandedOver(b)
  BY DEF Handed, HandedOver, PicturesFit

\* The same after the step.
LEMMA HandedNext ==
  ASSUME PicturesFit'
  PROVE  \A b : b \in Handed(output, frame)' <=> HandedOver(b)'
  BY DEF Handed, HandedOver, PicturesFit

\* A step that changes only where the pictures wait keeps the buffers' owners.
LEMMA OwnersStay ==
  ASSUME PicturesFit, PicturesFit', BuffersOwned, UNCHANGED <<unused, refs, writing>>,
         decoder' = "decode" => decoder = "decode",
         \A b : HandedOver(b)' <=> HandedOver(b), HandedOnce'
  PROVE  BuffersOwned'
<1>1. \A b : Held(b)' <=> Held(b)
  BY HandedIs, HandedNext DEF Held
<1>2. \A b : (Written(b)' <=> Written(b)) /\ (Freed(b)' <=> Freed(b))
  BY DEF Written, Freed
<1> QED
  BY <1>1, <1>2 DEF BuffersOwned, FreeOnce, FreeIsFree, WrittenAlone, NoneLost

\* Whatever waits for the display or is shown has a generation, a buffer and a number.
LEMMA PostedTyped ==
  ASSUME TypeOK, RequestFits
  PROVE  \A p \in Posted : p \in Shown /\ p.gen \in Nat /\ p.pic \in Nat
<1>1. \A i \in Given(request, "fb") : request[i].value \in Shown
  <2>1. \A i \in 1..Len(request) : request[i] \in Items
    BY DEF RequestFits
  <2>2. \A item \in Items : item.prop = "fb" => item.value \in Shown
    BY DEF Items
  <2> QED
    BY <2>1, <2>2 DEF Given
<1>2. \A p \in Shown : p.gen \in Nat /\ p.pic \in Nat
  BY DEF Shown
<1>3. Posted \subseteq Shown
  BY <1>1 DEF Posted, TypeOK
<1> QED
  BY <1>2, <1>3

\* The free buffers of a group are no more than it has.
LEMMA FreeFew ==
  ASSUME unused' \in Seq(1..MAX_FRAMES), FreeOnce'
  PROVE  Len(unused') <= MAX_FRAMES
<1>1. \A j, k \in 1..Len(unused') : unused'[j] = unused'[k] => j = k
  BY DEF FreeOnce
<1> QED
  BY <1>1, FreeDistinct

\* A buffer that becomes free is written only after all that are free already: that
\* many pictures after one that was posted.
LEMMA FreedFar ==
  ASSUME TypeOK, PicturesFit, BuffersOwned, decoder = "decode",
         NEW p, p.pic \in Nat, p.pic # 0, PostedBefore(p)
  PROVE  started + Len(unused) + 1 - p.pic >= MAX_FRAMES - MaxRefs
<1> DEFINE Number(b, n) ==
             \/ \E i \in 1..Len(output) :
                  output[i].kind = "picture" /\ output[i].buf = b /\ output[i].pic = n
             \/ frame.kind = "picture" /\ frame.buf = b /\ frame.pic = n
             \/ Written(b) /\ writing.pic = n
           C == {b \in 1..MAX_FRAMES : HandedOver(b) \/ Written(b)}
           pic == [b \in C |-> CHOOSE n : Number(b, n)]
           m == p.pic - 1
<1>1. ASSUME NEW b \in C PROVE \E n : Number(b, n)
  BY <1>1 DEF HandedOver
<1>2. ASSUME NEW b, NEW c, NEW n, Number(b, n), Number(c, n) PROVE b = c
  <2>1. ASSUME NEW i \in 1..Len(output), NEW j \in 1..Len(output),
               output[i].kind = "picture", output[j].kind = "picture",
               output[i].pic = output[j].pic
        PROVE  i = j
    <3>1. i \in Nat /\ j \in Nat /\ output[i].pic \in Nat
      BY <2>1, Types, Numbers
    <3>2. ~(i < j)
      BY <2>1, <3>1 DEF PicturesFit
    <3>3. ~(j < i)
      BY <2>1, <3>1 DEF PicturesFit
    <3> QED
      BY <3>1, <3>2, <3>3
  <2>2. ASSUME NEW i \in 1..Len(output), output[i].kind = "picture"
        PROVE  /\ frame.kind = "picture" => frame.pic # output[i].pic
               /\ writing # None => writing.pic # output[i].pic
    BY <2>2, Types, Numbers DEF PicturesFit
  <2>3. frame.kind = "picture" /\ writing # None => frame.pic # writing.pic
    BY Types, Numbers DEF PicturesFit
  <2> QED
    BY <1>2, <2>1, <2>2, <2>3 DEF Written
<1>3. ASSUME NEW b, NEW n, Number(b, n) PROVE n \in (m + 1)..started
  BY <1>3, Types, Numbers DEF PicturesFit, PostedBefore, Written
<1>4. m \in Nat /\ started \in Nat /\ m <= started
  BY Types DEF PostedBefore
<1> HIDE DEF Number
<1>5. \A b \in C : Number(b, pic[b])
  BY <1>1
<1>6. pic \in [C -> (m + 1)..started] /\ \A b, c \in C : pic[b] = pic[c] => b = c
  <2>1. \A b \in C : pic[b] \in (m + 1)..started
    BY <1>3, <1>5
  <2>2. \A b, c \in C : pic[b] = pic[c] => b = c
    BY <1>2, <1>5
  <2> QED
    BY <2>1, <2>2
<1>7. \A b \in 1..MAX_FRAMES : b \in C \cup refs \/ \E k \in 1..Len(unused) : unused[k] = b
  BY HandedIs DEF BuffersOwned, NoneLost, Held, Freed
<1>8. refs \in SUBSET (1..MAX_FRAMES) /\ C \in SUBSET (1..MAX_FRAMES)
      /\ unused \in Seq(1..MAX_FRAMES)
  BY DEF TypeOK
<1> HIDE DEF C, pic, m
<1>9. MAX_FRAMES <= Len(unused) + Cardinality(refs) + (started - m)
  BY <1>4, <1>6, <1>7, <1>8, Counting
<1>10. Cardinality(refs) \in Nat /\ Cardinality(refs) <= MaxRefs
  <2>1. IsFiniteSet(1..MAX_FRAMES)
    BY FromOne, ResolutionAssumption
  <2>2. IsFiniteSet(refs)
    BY <1>8, <2>1, FS_Subset
  <2> QED
    BY <2>2, FS_CardinalityType DEF BuffersOwned
<1>11. /\ started - m = started + 1 - p.pic /\ Len(unused) \in Nat
       /\ MAX_FRAMES \in Nat /\ MaxRefs \in Nat
  BY <1>4, Types DEF m
<1> QED
  BY <1>4, <1>9, <1>10, <1>11

\* Whether a step frees a buffer or none: what was posted stays far away.
LEMMA FarWhenFreed ==
  ASSUME TypeOK, RequestFits, PicturesFit, BuffersOwned, PostedFits,
         UNCHANGED <<decoder, writing, started, sizes>>,
         NEW b \in 1..MAX_FRAMES, unused' = unused \/ unused' = Append(unused, b)
  PROVE  \A p \in Posted : PostedFar(p)'
<1> SUFFICES ASSUME NEW p \in Posted PROVE PostedFar(p)'
  OBVIOUS
<1>1. p.pic \in Nat /\ PostedBefore(p) /\ PostedFar(p)
  BY PostedTyped DEF PostedFits
<1>2. CASE unused' = unused
  BY <1>1, <1>2 DEF PostedFar, Generation
<1>3. CASE unused' = Append(unused, b)
  <2> SUFFICES ASSUME p.pic # 0, p.gen = Generation, decoder = "decode",
                      NEW k \in 1..Len(unused'), unused'[k] = p.buf
               PROVE  started + k - p.pic >= MAX_FRAMES - MaxRefs
    BY <1>1 DEF PostedFar, Generation
  <2>1. /\ Len(unused) \in Nat /\ Len(unused') = Len(unused) + 1
        /\ \A i \in 1..Len(unused) : unused'[i] = unused[i]
    BY <1>3, Appended, Types
  <2>2. CASE k \in 1..Len(unused)
    BY <1>1, <2>1, <2>2 DEF PostedFar
  <2>3. CASE k = Len(unused) + 1
    <3>1. started + Len(unused) + 1 - p.pic >= MAX_FRAMES - MaxRefs
      BY <1>1, FreedFar
    <3> QED
      BY <1>1, <2>1, <2>3, <3>1, Types
  <2> QED
    BY <2>1, <2>2, <2>3
<1> QED
  BY <1>2, <1>3

\* No buffer and the OSD's buffer are frame buffers of no resolution.
LEMMA Empty ==
  /\ None \in Shown /\ None.gen = 0 /\ None.pic = 0 /\ OsdBuffer.gen = 0 /\ OsdBuffer.pic = 0
  /\ OsdBuffer # None
  /\ MAX_FRAMES > 0 => OsdBuffer \in Shown
  BY ResolutionAssumption DEF None, OsdBuffer, Shown

\* A buffer that its last owner gives back is free, and nothing else changes hands.
LEMMA OwnerFrees ==
  ASSUME TypeOK, BuffersOwned, NEW b \in 1..MAX_FRAMES, Held(b), unused' = Append(unused, b),
         \A c : Held(c)' <=> Held(c) /\ c # b, UNCHANGED <<writing, decoder>>,
         HandedOnce', Cardinality(refs') <= MaxRefs
  PROVE  BuffersOwned'
<1>1. ~Freed(b) /\ ~Written(b)
  BY DEF Freed, Written, BuffersOwned, FreeIsFree, WrittenAlone
<1>2. /\ Len(unused) \in Nat /\ Len(unused') = Len(unused) + 1
      /\ \A k \in 1..Len(unused) : unused'[k] = unused[k]
      /\ unused'[Len(unused) + 1] = b
      /\ \A k \in 1..Len(unused') : k \in 1..Len(unused) \/ k = Len(unused) + 1
  BY Appended, Types
<1>3. \A c : (Freed(c)' <=> Freed(c) \/ c = b) /\ (Written(c)' <=> Written(c))
  BY <1>2 DEF Freed, Written
<1>4. FreeOnce'
  BY <1>1, <1>2 DEF BuffersOwned, FreeOnce, Freed
<1>5. FreeIsFree' /\ WrittenAlone' /\ NoneLost'
  BY <1>1, <1>2, <1>3 DEF BuffersOwned, FreeIsFree, WrittenAlone, NoneLost
<1> QED
  BY <1>4, <1>5 DEF BuffersOwned

\* A step that moves no buffer keeps the owners.
LEMMA OwnersKept ==
  ASSUME BuffersOwned, UNCHANGED <<unused, writing, decoder>>,
         \A b : Held(b)' <=> Held(b), HandedOnce', Cardinality(refs') <= MaxRefs
  PROVE  BuffersOwned'
<1>1. \A b : (Written(b)' <=> Written(b)) /\ (Freed(b)' <=> Freed(b))
  BY DEF Written, Freed
<1> QED
  BY <1>1 DEF BuffersOwned, FreeOnce, FreeIsFree, WrittenAlone, NoneLost

\* Pictures that only move between the slot, the hands, the request and the plane.
LEMMA PostedMoved ==
  ASSUME TypeOK, RequestFits, PostedFits,
         UNCHANGED <<sizes, started, writing, frame, output, decoder, unused>>,
         fpc' # "register" \/ fpc' = fpc,
         \A p \in Posted' : p \in Posted \/ (p.pic = 0 /\ p.gen \in Nat /\ p.gen <= Generation)
  PROVE  PostedFits'
<1>1. ASSUME NEW p \in Posted PROVE PostedBefore(p)' /\ PostedFar(p)'
  BY DEF PostedFits, PostedBefore, PostedFar, Generation
<1>2. ASSUME NEW p, p.pic = 0, p.gen \in Nat, p.gen <= Generation
      PROVE  PostedBefore(p)' /\ PostedFar(p)'
  <2>1. writing # None => 0 < writing.pic
    <3>1. slot \in Posted
      BY DEF Posted
    <3>2. slot.pic \in Nat /\ PostedBefore(slot)
      BY <3>1, PostedTyped DEF PostedFits
    <3> QED
      BY <3>2, Numbers DEF PostedBefore
  <2>2. /\ frame.kind = "picture" => 0 <= frame.pic
        /\ \A i \in 1..Len(output) : output[i].kind = "picture" => 0 < output[i].pic
    BY Numbers
  <2>3. started \in Nat
    BY Types
  <2> QED
    BY <1>2, <2>1, <2>2, <2>3 DEF PostedBefore, PostedFar, Generation
<1> QED
  BY <1>1, <1>2 DEF PostedFits

\* Sequences of five.
LEMMA Five ==
  ASSUME NEW S, NEW a \in S, NEW b \in S, NEW c \in S, NEW d \in S, NEW e \in S
  PROVE  <<a, b, c, d, e>> \in Seq(S)
  OBVIOUS

\* What a modeset appends.
LEMMA PreparedItems ==
  ASSUME NEW fb \in Shown, NEW size \in Sizes \cup {Screen},
         NEW rect \in Rectangle, NEW zpos \in {"initial", "video"}
  PROVE  Prepared(fb, size, rect, zpos) \in Seq(Items)
<1>1. /\ Item("crtc", TRUE) \in Items /\ Item("fb", fb) \in Items /\ Item("src", size) \in Items
      /\ Item("dst", rect) \in Items /\ Item("zpos", zpos) \in Items
  BY DEF Item, Items
<1> QED
  BY <1>1, Five, Zenon DEF Prepared

\* The request r has what the request q has, and names the buffer fb besides.
NamesAlso(q, r, fb) ==
  /\ r \in Seq(Items) /\ Len(q) \in 0..Len(r)
  /\ \A i \in Given(r, "fb") :
       r[i].value = fb \/ (i \in Given(q, "fb") /\ r[i].value = q[i].value)

\* A modeset appended to a request names its own buffer besides those of the
\* request.
LEMMA PreparedAdded ==
  ASSUME NEW q \in Seq(Items), NEW fb \in Shown, NEW size \in Sizes \cup {Screen},
         NEW rect \in Rectangle, NEW zpos \in {"initial", "video"}
  PROVE  NamesAlso(q, q \o Prepared(fb, size, rect, zpos), fb)
<1> DEFINE P == Prepared(fb, size, rect, zpos)
           r == q \o P
<1>1. P \in Seq(Items)
  BY PreparedItems
<1>2. /\ Len(P) = 5
      /\ \A i \in 1..5 : P[i].prop = "fb" => P[i].value = fb
  BY DEF Prepared, Item
<1> HIDE DEF P
<1>3. /\ r \in Seq(Items) /\ Len(q) \in Nat /\ Len(r) = Len(q) + 5
      /\ \A i \in 1..Len(q) : r[i] = q[i]
      /\ \A i \in 1..5 : r[Len(q) + i] = P[i]
  <2>2. /\ r \in Seq(Items) /\ Len(q) \in Nat /\ Len(r) = Len(q) + Len(P)
        /\ \A i \in 1..Len(q) : r[i] = q[i]
        /\ \A i \in 1..Len(P) : r[Len(q) + i] = P[i]
    BY <1>1, Joined
  <2> QED
    BY <1>2, <2>2
<1> HIDE DEF r
<1>5. ASSUME NEW i \in Given(r, "fb")
      PROVE  r[i].value = fb \/ (i \in Given(q, "fb") /\ r[i].value = q[i].value)
  <2>1. i \in 1..Len(r) /\ r[i].prop = "fb"
    BY DEF Given
  <2>2. CASE i \in 1..Len(q)
    BY <1>3, <2>1, <2>2 DEF Given
  <2>3. CASE i \notin 1..Len(q)
    <3>1. i - Len(q) \in 1..5 /\ Len(q) + (i - Len(q)) = i
      BY <1>3, <2>1, <2>3
    <3>2. r[i] = P[i - Len(q)]
      BY <1>3, <3>1
    <3> QED
      BY <1>2, <2>1, <3>1, <3>2
  <2> QED
    BY <2>2, <2>3
<1>6. Len(q) \in 0..Len(r)
  BY <1>3
<1>7. NamesAlso(q, r, fb)
  BY <1>3, <1>5, <1>6, Zenon DEF NamesAlso
<1> QED
  BY <1>7, Zenon DEF r, P

\* A rectangle for a picture is one, in full and as large as the screen allows.
LEMMA RectanglesFull ==
  ASSUME NEW size \in Sizes \cup {Screen}, NEW rect \in Rectangles(Screen, size.w, size.h)
  PROVE  rect \in Rectangle /\ OnScreen(Screen, rect) /\ Largest(Screen, size.w, size.h, rect)
<1>1. /\ Screen \in [w : Positive, h : Positive]
      /\ size.w \in Positive /\ size.h \in Positive
  BY ResolutionAssumption DEF Positive
<1>2. /\ Screen.w * (2 * Precision + 1) <= Precision * Precision
      /\ Screen.h * (2 * Precision + 1) <= Precision * Precision
  BY ScreenAssumption
<1> QED
  BY <1>1, <1>2, RectanglesAreRectangles, RectanglesOnScreen, RectanglesLargest

\* The request of a modeset as the frame thread left it is accepted, unless the display
\* cannot scale the size, and shows the new resolution in full.
LEMMA ModesetValid ==
  ASSUME TypeOK, RequestFits, FramesFit, BuffersExist, Alone, ~overlap, fpc \in {"test", "commit"}
  PROVE  /\ Source \notin Unscalable => Valid(request)
         /\ Applied(request).crtc /\ Applied(request).src = Source
         /\ OnScreen(Screen, Applied(request).dst)
         /\ Largest(Screen, Source.w, Source.h, Applied(request).dst)
<1> DEFINE fb == [gen |-> Generation, buf |-> 1, pic |-> 0]
<1>1. PICK before \in 0..Len(request), rect \in Rectangles(Screen, Source.w, Source.h) :
        request = SubSeq(request, 1, before) \o Prepared(fb, Source, rect, "video")
  BY DEF Alone, RequestFilled
<1>2. SubSeq(request, 1, before) \in Seq(Items)
  BY Beginning DEF RequestFits
<1>3. Applied(request) = [crtc |-> TRUE, fb |-> fb, src |-> Source, dst |-> rect, zpos |-> "video"]
  <2>1. plane \in Planes
    BY DEF RequestFits
  <2> DEFINE q == SubSeq(request, 1, before)
             P == Prepared(fb, Source, rect, "video")
  <2>2. q \in Seq(Items) /\ request = q \o P
    BY <1>1, <1>2
  <2> HIDE DEF fb, q
  <2>3. Applied(q \o P)
          = [crtc |-> TRUE, fb |-> fb, src |-> Source, dst |-> rect, zpos |-> "video"]
    BY <2>1, <2>2, AppliedPrepared
  <2> HIDE DEF P
  <2> QED
    BY <2>2, <2>3, Zenon
<1>4. Generation \in Nat /\ Generation > 0 /\ Source \in Sizes
  BY Types DEF FramesFit, Modesetting, TypeOK, Source, Generation
<1>5. mpc = "run"
  BY DEF FramesFit
<1>6. \A i \in Given(request, "fb") : Exists(request[i].value)
  BY <1>5 DEF BuffersExist
<1>7. SizeOf(fb) = Source
  BY <1>4 DEF SizeOf, Source
<1>8. Source.w \in Nat /\ Source.h \in Nat
  BY <1>4, ResolutionAssumption
<1>9. Source \notin Unscalable => Valid(request)
  BY <1>3, <1>6, <1>7, <1>8 DEF Valid
<1> QED
  BY <1>3, <1>4, <1>9, RectanglesFull

\* Sequences of two.
LEMMA Two ==
  ASSUME NEW S, NEW a \in S, NEW b \in S
  PROVE  <<a, b>> \in Seq(S)
  OBVIOUS

\* Each part of the invariant stays when the variables it is about stay.
LEMMA RequestFitsStays ==
  ASSUME RequestFits, UNCHANGED <<plane, request>>
  PROVE  RequestFits'
  BY DEF RequestFits

\* The frames in the decoder's output and in hand.
LEMMA FramesFitStays ==
  ASSUME FramesFit, UNCHANGED <<fpc, frame, output, decoder, writing, sizes, mpc, dpc>>
  PROVE  FramesFit'
  BY DEF FramesFit, Generation

\* The order of the pictures.
LEMMA PicturesFitStays ==
  ASSUME PicturesFit, UNCHANGED <<output, started, writing, frame, sizes>>
  PROVE  PicturesFit'
  BY DEF PicturesFit, Generation

\* The owners of the buffers.
LEMMA BuffersOwnedStays ==
  ASSUME BuffersOwned, UNCHANGED <<output, frame, sizes, unused, refs, writing,
         decoder>>
  PROVE  BuffersOwned'
  BY DEF BuffersOwned, FreeOnce, FreeIsFree, WrittenAlone, HandedOnce, NoneLost, Freed,
     Written, Held, Handed, Generation

\* What the display uses.
LEMMA PostedFitsStays ==
  ASSUME PostedFits, UNCHANGED <<slot, hand, plane, scanout, request, sizes, started,
         fpc, writing, frame, output, decoder, unused>>
  PROVE  PostedFits'
  BY DEF PostedFits, Posted, PostedBefore, PostedFar, Given, Generation

\* What is in the slot and in the display's hands.
LEMMA InHandStays ==
  ASSUME InHand, UNCHANGED <<hand, dpc, slot>>
  PROVE  InHand'
  BY DEF InHand

\* The frame buffers that were added.
LEMMA BuffersExistStays ==
  ASSUME BuffersExist, UNCHANGED <<buffers, mpc, sizes, request>>
  PROVE  BuffersExist'
  BY DEF BuffersExist, Exists, Given, Generation

\* What the requests have in full size.
LEMMA AloneStays ==
  ASSUME Alone, UNCHANGED <<hand, dpc, overlap, fpc, request, sizes, slot, plane, mpc>>
  PROVE  Alone'
  BY DEF Alone, RequestFilled, Source, FullSize, Generation

\* What the exit leaves behind.
LEMMA ExitAccountStays ==
  ASSUME ExitAccount, UNCHANGED <<mpc, buffers, sizes, plane, request>>
  PROVE  ExitAccount'
  BY DEF ExitAccount, Exists, Given, Generation

\* The decoder announces a size: no buffer changes hands.
LEMMA AnnounceSizeStep ==
  ASSUME ResolutionInv, AnnounceSize
  PROVE  ResolutionInv'
<1>0. /\ TypeOK /\ RequestFits /\ FramesFit /\ PicturesFit /\ BuffersOwned /\ PostedFits
      /\ InHand /\ BuffersExist /\ Alone /\ ExitAccount
  BY DEF ResolutionInv
<1>a. decoder \in {"start", "decode"} /\ writing = None /\ Generation < MaxInfoChanges
  BY DEF AnnounceSize, DecoderGoes
<1>b. decoder' = "change" /\ refs' = {} /\ unused' = <<>>
  BY DEF AnnounceSize, DecoderGoes
<1>c. output' \in Seq(Frame) /\ Len(output') = Len(output) + 1
      /\ (\A i \in 1..Len(output) : output'[i] = output[i])
      /\ output'[Len(output) + 1].kind = "info"
  <2>1. PICK s \in Sizes : output' = Append(output, [kind |-> "info", size |-> s])
    BY DEF AnnounceSize
  <2>2. [kind |-> "info", size |-> s] \in Frame
    BY FrameKinds
  <2>3. [kind |-> "info", size |-> s].kind = "info"
    OBVIOUS
  <2> HIDE DEF Frame
  <2> QED
    BY <1>0, <2>1, <2>2, <2>3, Appended, Types
<1>d. /\ Len(output) \in Nat /\ Generation \in Nat
      /\ \A i \in 1..Len(output') : i \in 1..Len(output) \/ i = Len(output) + 1
  BY <1>0, <1>c, Types
<1>u. UNCHANGED <<fpc, frame, sizes, writing, started, slot, hand, dpc, request,
        overlap, plane, scanout, buffers, mpc>>
  BY DEF AnnounceSize, DecoderGoes, decoderVars, frameVars, displayVars, kernelVars,
     requestVars
<1>1. RequestFits'
  BY <1>0, <1>u, RequestFitsStays
<1>2. FramesFit'
  BY <1>0, <1>a, <1>b, <1>c, <1>d, <1>u DEF FramesFit, Generation, Modesetting
<1>3. PicturesFit'
  BY <1>0, <1>a, <1>c, <1>d, <1>u DEF PicturesFit, Generation
<1>4. BuffersOwned'
  <2>1. Cardinality(refs') = 0
    BY <1>b, FS_EmptySet
  <2>2. HandedOnce'
    BY <1>0, <1>c, <1>d, <1>u DEF BuffersOwned, HandedOnce
  <2>3. FreeOnce' /\ FreeIsFree' /\ WrittenAlone' /\ NoneLost'
    BY <1>a, <1>b, <1>u DEF FreeOnce, FreeIsFree, WrittenAlone, NoneLost
  <2> QED
    BY <2>1, <2>2, <2>3, ResolutionAssumption DEF BuffersOwned
<1>5. PostedFits'
  <2>1. Posted' = Posted
    BY <1>u DEF Posted, Given
  <2>2. ASSUME NEW p \in Posted PROVE PostedBefore(p)'
    BY <1>0, <1>a, <1>c, <1>d, <1>u DEF PostedFits, PostedBefore, Generation
  <2>3. ASSUME NEW p \in Posted PROVE PostedFar(p)'
    BY <1>a, <1>b, <1>u DEF PostedFar
  <2> QED
    BY <2>1, <2>2, <2>3 DEF PostedFits
<1>6. InHand'
  BY <1>0, <1>u, InHandStays
<1>7. BuffersExist'
  BY <1>0, <1>u, BuffersExistStays
<1>8. Alone'
  BY <1>0, <1>u, AloneStays
<1>9. ExitAccount'
  BY <1>0, <1>u, ExitAccountStays
<1>10. TypeOK'
  BY <1>0, <1>a, <1>b, <1>c, <1>d, <1>u, ResolutionAssumption DEF TypeOK, Generation,
     DecoderDoes, FramePC, DisplayPC, MainPC
<1> QED
  BY <1>1, <1>2, <1>3, <1>4, <1>5, <1>6, <1>7, <1>8, <1>9, <1>10 DEF ResolutionInv

\* The decoder ends: what it holds stays with it.
LEMMA FlushEndStep ==
  ASSUME ResolutionInv, FlushEnd
  PROVE  ResolutionInv'
<1>0. /\ TypeOK /\ RequestFits /\ FramesFit /\ PicturesFit /\ BuffersOwned /\ PostedFits
      /\ InHand /\ BuffersExist /\ Alone /\ ExitAccount
  BY DEF ResolutionInv
<1>a. decoder \in {"start", "decode"} /\ writing = None
  BY DEF FlushEnd, DecoderGoes
<1>b. decoder' = "flushed"
  BY DEF FlushEnd, DecoderGoes
<1>c. output' \in Seq(Frame) /\ Len(output') = Len(output) + 1
      /\ (\A i \in 1..Len(output) : output'[i] = output[i])
      /\ output'[Len(output) + 1].kind = "eos"
  <2>1. output' = Append(output, [kind |-> "eos"])
    BY DEF FlushEnd
  <2>2. [kind |-> "eos"] \in Frame /\ [kind |-> "eos"].kind = "eos"
    BY FrameKinds
  <2> QED
    BY <1>0, <2>1, <2>2, Appended, Types
<1>d. /\ Len(output) \in Nat /\ Generation \in Nat
      /\ \A i \in 1..Len(output') : i \in 1..Len(output) \/ i = Len(output) + 1
  BY <1>0, <1>c, Types
<1>u. UNCHANGED <<fpc, frame, sizes, unused, writing, refs, started, slot, hand, dpc,
        request, overlap, plane, scanout, buffers, mpc>>
  BY DEF FlushEnd, DecoderGoes, decoderVars, frameVars, displayVars, kernelVars,
     requestVars
<1>1. RequestFits'
  BY <1>0, <1>u, RequestFitsStays
<1>2. FramesFit'
  BY <1>0, <1>a, <1>b, <1>c, <1>d, <1>u DEF FramesFit, Generation, Modesetting
<1>3. PicturesFit'
  BY <1>0, <1>a, <1>c, <1>d, <1>u DEF PicturesFit, Generation
<1>4. BuffersOwned'
  <2>1. \A b : HandedOver(b)' <=> HandedOver(b)
    BY <1>c, <1>d, <1>u DEF HandedOver
  <2>2. HandedOnce'
    BY <1>0, <1>c, <1>d, <1>u DEF BuffersOwned, HandedOnce
  <2> QED
    BY <1>0, <1>3, <1>b, <1>u, <2>1, <2>2, OwnersStay
<1>5. PostedFits'
  <2>1. Posted' = Posted
    BY <1>u DEF Posted, Given
  <2>2. ASSUME NEW p \in Posted PROVE PostedBefore(p)'
    BY <1>0, <1>a, <1>c, <1>d, <1>u DEF PostedFits, PostedBefore, Generation
  <2>3. ASSUME NEW p \in Posted PROVE PostedFar(p)'
    BY <1>a, <1>b, <1>u DEF PostedFar
  <2> QED
    BY <2>1, <2>2, <2>3 DEF PostedFits
<1>6. InHand'
  BY <1>0, <1>u, InHandStays
<1>7. BuffersExist'
  BY <1>0, <1>u, BuffersExistStays
<1>8. Alone'
  BY <1>0, <1>u, AloneStays
<1>9. ExitAccount'
  BY <1>0, <1>u, ExitAccountStays
<1>10. TypeOK'
  BY <1>0, <1>a, <1>b, <1>c, <1>d, <1>u, ResolutionAssumption DEF TypeOK, Generation,
     DecoderDoes, FramePC, DisplayPC, MainPC
<1> QED
  BY <1>1, <1>2, <1>3, <1>4, <1>5, <1>6, <1>7, <1>8, <1>9, <1>10 DEF ResolutionInv

\* The decoder takes the buffer that has been free longest: all that was posted
\* from it is far behind, since it waited behind every other free buffer.
LEMMA StartPictureStep ==
  ASSUME ResolutionInv, StartPicture
  PROVE  ResolutionInv'
<1>0. /\ TypeOK /\ RequestFits /\ FramesFit /\ PicturesFit /\ BuffersOwned /\ PostedFits
      /\ InHand /\ BuffersExist /\ Alone /\ ExitAccount
  BY DEF ResolutionInv
<1>a. decoder = "decode" /\ writing = None /\ unused # <<>> /\ started < MaxPictures
  BY DEF StartPicture, DecoderGoes
<1>b. started' = started + 1
      /\ writing' = [gen |-> Generation, buf |-> Head(unused), pic |-> started + 1]
  BY DEF StartPicture, DecoderGoes
<1>c. /\ unused' \in Seq(1..MAX_FRAMES) /\ Len(unused') = Len(unused) - 1 /\ Len(unused) >= 1
      /\ \A k \in 1..Len(unused') : unused'[k] = unused[k + 1]
      /\ Head(unused) = unused[1] /\ unused[1] \in 1..MAX_FRAMES
  <2>1. unused' = Tail(unused)
    BY DEF StartPicture
  <2> QED
    BY <1>0, <1>a, <2>1, Rest, Types
<1>d. /\ writing'.gen = Generation /\ writing'.buf = unused[1] /\ writing'.pic = started + 1
      /\ writing' # None
  BY <1>0, <1>b, <1>c, Types DEF None
<1>e. started \in Nat /\ Generation \in Nat /\ Len(unused) \in Nat
  BY <1>0, Types
<1>u. UNCHANGED <<fpc, frame, sizes, decoder, refs, output, slot, hand, dpc, request,
        overlap, plane, scanout, buffers, mpc>>
  BY DEF StartPicture, DecoderGoes, decoderVars, frameVars, displayVars, kernelVars,
     requestVars
<1>1. RequestFits'
  BY <1>0, <1>u, RequestFitsStays
<1>2. FramesFit'
  BY <1>0, <1>a, <1>u DEF FramesFit, Generation
<1>3. PicturesFit'
  BY <1>0, <1>a, <1>b, <1>c, <1>d, <1>e, <1>u, Numbers DEF PicturesFit, Generation
<1>4. BuffersOwned'
  <2>1. \A b : Held(b)' <=> Held(b)
    BY <1>u DEF Held, Handed, Generation
  <2>2. FreeOnce'
    BY <1>0, <1>c, <1>e DEF BuffersOwned, FreeOnce
  <2>3. FreeIsFree'
    BY <1>0, <1>c, <1>d, <1>e, <2>1 DEF BuffersOwned, FreeOnce, FreeIsFree, Written
  <2>4. WrittenAlone'
    BY <1>0, <1>c, <1>d, <1>e, <2>1 DEF BuffersOwned, FreeIsFree, WrittenAlone
  <2>5. NoneLost'
    <3>1. ASSUME NEW b, Freed(b) PROVE Freed(b)' \/ Written(b)'
      <4>1. PICK k \in 1..Len(unused) : unused[k] = b
        BY <3>1 DEF Freed
      <4>2. CASE k = 1
        BY <1>d, <4>1, <4>2 DEF Written
      <4>3. CASE k # 1
        <5>1. k - 1 \in 1..Len(unused') /\ (k - 1) + 1 = k
          BY <1>c, <1>e, <4>3
        <5> QED
          BY <1>c, <4>1, <5>1 DEF Freed
      <4> QED
        BY <4>2, <4>3
    <3>2. \A b : ~Written(b)
      BY <1>a DEF Written
    <3> QED
      BY <1>0, <1>a, <2>1, <3>1, <3>2 DEF BuffersOwned, NoneLost
  <2> QED
    BY <1>0, <1>u, <2>2, <2>3, <2>4, <2>5 DEF BuffersOwned, HandedOnce
<1>5. PostedFits'
  <2>1. Posted' = Posted
    BY <1>u DEF Posted, Given
  <2>2. ASSUME NEW p \in Posted PROVE p.pic \in Nat /\ PostedBefore(p) /\ PostedFar(p)
    BY <1>0, PostedTyped DEF PostedFits
  <2>3. ASSUME NEW p \in Posted PROVE PostedBefore(p)'
    BY <1>a, <1>b, <1>d, <1>e, <1>u, <2>2 DEF PostedBefore, Generation
  <2>4. ASSUME NEW p \in Posted PROVE PostedFar(p)'
    <3>1. CASE p.pic # 0 /\ p.gen = Generation
      <4>1. \A k \in 1..Len(unused) : unused[k] = p.buf =>
              started + k - p.pic >= MAX_FRAMES - MaxRefs
        BY <1>a, <2>2, <3>1 DEF PostedFar
      <4>2. writing'.buf = p.buf => writing'.pic - p.pic >= MAX_FRAMES - MaxRefs
        <5>1. 1 \in 1..Len(unused)
          BY <1>c, <1>e
        <5>2. unused[1] = p.buf => started + 1 - p.pic >= MAX_FRAMES - MaxRefs
          BY <4>1, <5>1
        <5> QED
          BY <1>d, <1>e, <2>2, <5>2
      <4>3. ASSUME NEW k \in 1..Len(unused'), unused'[k] = p.buf
            PROVE  started' + k - p.pic >= MAX_FRAMES - MaxRefs
        <5>1. k + 1 \in 1..Len(unused) /\ unused[k + 1] = p.buf
          BY <1>c, <1>e, <4>3
        <5>2. started + (k + 1) - p.pic >= MAX_FRAMES - MaxRefs
          BY <4>1, <5>1
        <5> QED
          BY <1>b, <1>e, <2>2, <5>2
      <4> QED
        BY <4>2, <4>3 DEF PostedFar
    <3>2. CASE ~(p.pic # 0 /\ p.gen = Generation)
      BY <1>u, <3>2 DEF PostedFar, Generation
    <3> QED
      BY <3>1, <3>2
  <2> QED
    BY <2>1, <2>3, <2>4 DEF PostedFits
<1>6. InHand'
  BY <1>0, <1>u, InHandStays
<1>7. BuffersExist'
  BY <1>0, <1>u, BuffersExistStays
<1>8. Alone'
  BY <1>0, <1>u, AloneStays
<1>9. ExitAccount'
  BY <1>0, <1>u, ExitAccountStays
<1>10. TypeOK'
  <2>1. Generation \in 0..MaxInfoChanges /\ started + 1 \in 0..MaxPictures
        /\ unused[1] \in 0..MAX_FRAMES
    BY <1>0, <1>a, <1>c, Types DEF TypeOK
  <2>2. writing' \in Shown
    BY <1>b, <1>c, <2>1 DEF Shown
  <2>3. started' \in 0..MaxPictures /\ Len(unused') <= MAX_FRAMES
    BY <1>0, <1>b, <1>c, <1>e, <2>1, Types DEF TypeOK
  <2> QED
    BY <1>0, <1>c, <1>u, <2>2, <2>3 DEF TypeOK, Generation
<1> QED
  BY <1>1, <1>2, <1>3, <1>4, <1>5, <1>6, <1>7, <1>8, <1>9, <1>10 DEF ResolutionInv

\* The picture goes to the output, and its buffer may stay a reference as well.
LEMMA PictureDoneStep ==
  ASSUME ResolutionInv, PictureDone
  PROVE  ResolutionInv'
<1>0. /\ TypeOK /\ RequestFits /\ FramesFit /\ PicturesFit /\ BuffersOwned /\ PostedFits
      /\ InHand /\ BuffersExist /\ Alone /\ ExitAccount
  BY DEF ResolutionInv
<1>a. writing # None /\ writing' = None
  BY DEF PictureDone, DecoderGoes
<1>b. \/ refs' = refs
      \/ Cardinality(refs) < MaxRefs /\ refs' = refs \cup {writing.buf}
  BY DEF PictureDone, DecoderGoes
<1>c. /\ writing.gen = Generation /\ writing.pic = started /\ writing.buf \in 1..MAX_FRAMES
      /\ started \in Nat /\ started >= 1 /\ Generation \in 1..MaxInfoChanges
      /\ decoder # "change" /\ Len(output) \in Nat
  <2>1. slot \in Posted /\ slot.pic \in Nat
    BY <1>0, PostedTyped DEF Posted
  <2>2. slot.pic < writing.pic
    BY <1>0, <1>a, <2>1 DEF PostedFits, PostedBefore
  <2>3. Generation \in Nat /\ Generation > 0 /\ Generation <= MaxInfoChanges
    BY <1>0, <1>a, Types DEF FramesFit, TypeOK
  <2> QED
    BY <1>0, <1>a, <2>1, <2>2, <2>3, Types DEF PicturesFit, FramesFit
<1>d. output' \in Seq(Frame) /\ Len(output') = Len(output) + 1
      /\ (\A i \in 1..Len(output) : output'[i] = output[i])
      /\ output'[Len(output) + 1] = [kind |-> "picture", gen |-> writing.gen,
                                      buf |-> writing.buf, pic |-> writing.pic]
  <2> DEFINE f == [kind |-> "picture", gen |-> writing.gen, buf |-> writing.buf,
                 pic |-> writing.pic]
  <2>1. output' = Append(output, f)
    BY DEF PictureDone
  <2>2. started \in 1..MaxPictures
    BY <1>0, <1>c DEF TypeOK
  <2>3. f \in Frame
    BY <1>c, <2>2, FrameKinds
  <2> HIDE DEF f
  <2>4. output' \in Seq(Frame) /\ Len(output') = Len(output) + 1
        /\ (\A i \in 1..Len(output) : output'[i] = output[i])
        /\ output'[Len(output) + 1] = f
    BY <1>0, <2>1, <2>3, Appended, Types
  <2> QED
    BY <2>4 DEF f
<1>e. LET f == output'[Len(output) + 1]
      IN  f.kind = "picture" /\ f.gen = Generation /\ f.buf = writing.buf /\ f.pic = started
  BY <1>c, <1>d
<1>f. \A i \in 1..Len(output') : i \in 1..Len(output) \/ i = Len(output) + 1
  BY <1>c, <1>d
<1>u. UNCHANGED <<fpc, frame, sizes, decoder, unused, started, slot, hand, dpc, request,
        overlap, plane, scanout, buffers, mpc>>
  BY DEF PictureDone, DecoderGoes, decoderVars, frameVars, displayVars, kernelVars,
     requestVars
<1>1. RequestFits'
  BY <1>0, <1>u, RequestFitsStays
<1>2. FramesFit'
  <2>1. \A i \in 1..Len(output') : output'[i].kind # "info"
    BY <1>0, <1>c, <1>d, <1>e, <1>f DEF FramesFit
  <2>2. fpc \notin {"allocate", "register"}
    BY <1>0, <1>c DEF FramesFit
  <2> QED
    BY <1>0, <1>a, <1>c, <1>u, <2>1, <2>2 DEF FramesFit, Generation, Modesetting
<1>3. PicturesFit'
  <2>1. ASSUME NEW i \in 1..Len(output), output[i].kind = "picture"
        PROVE  /\ output[i].gen = Generation /\ output[i].pic < started
               /\ frame.kind = "picture" => frame.pic < output[i].pic
               /\ \A j \in 1..Len(output) : i < j /\ output[j].kind = "picture" =>
                    output[i].pic < output[j].pic
    BY <1>0, <1>a, <2>1 DEF PicturesFit
  <2>2. frame.kind = "picture" => frame.gen = Generation /\ frame.pic < started
    BY <1>0, <1>a DEF PicturesFit
  <2>3. ASSUME NEW i \in 1..Len(output), output[i].kind = "picture"
        PROVE  output[i].pic \in Nat /\ output[i].pic <= started
    BY <1>0, <1>c, <2>1, <2>3, Numbers
  <2>4. ASSUME NEW i \in 1..Len(output'), output'[i].kind = "picture"
        PROVE  /\ output'[i].gen = Generation /\ output'[i].pic <= started
               /\ frame.kind = "picture" => frame.pic < output'[i].pic
               /\ \A j \in 1..Len(output') : i < j /\ output'[j].kind = "picture" =>
                    output'[i].pic < output'[j].pic
    <3>1. CASE i \in 1..Len(output)
      BY <1>c, <1>d, <1>e, <1>f, <2>1, <2>3, <2>4, <3>1
    <3>2. CASE i = Len(output) + 1
      <4>1. \A j \in 1..Len(output') : ~(i < j)
        BY <1>c, <1>d, <3>2
      <4> QED
        BY <1>c, <1>e, <2>2, <3>2, <4>1
    <3> QED
      BY <1>f, <3>1, <3>2
  <2>5. frame.kind = "picture" => frame.pic <= started
    BY <1>0, <1>c, <2>2, Numbers
  <2> QED
    BY <1>a, <1>u, <2>2, <2>4, <2>5 DEF PicturesFit, Generation
<1>4. BuffersOwned'
  <2>1. \A b : HandedOver(b)' <=> HandedOver(b) \/ b = writing.buf
    BY <1>c, <1>d, <1>e, <1>f, <1>u DEF HandedOver
  <2>2. \A b : Held(b)' <=> Held(b) \/ b = writing.buf
    BY <1>0, <1>3, <1>b, <2>1, HandedIs, HandedNext DEF Held
  <2>3. \A b : (Freed(b)' <=> Freed(b)) /\ ~Written(b)'
    BY <1>a, <1>u DEF Freed, Written
  <2>4. FreeOnce' /\ FreeIsFree' /\ WrittenAlone'
    BY <1>0, <1>a, <1>u, <2>2, <2>3 DEF BuffersOwned, FreeOnce, FreeIsFree, WrittenAlone,
       Written
  <2>5. HandedOnce'
    <3>1. ~HandedOver(writing.buf)
      BY <1>0, <1>a, HandedIs DEF BuffersOwned, WrittenAlone, Held
    <3> QED
      BY <1>0, <1>c, <1>d, <1>e, <1>f, <1>u, <3>1 DEF BuffersOwned, HandedOnce, HandedOver
  <2>6. NoneLost'
    BY <1>0, <1>a, <1>u, <2>2, <2>3 DEF BuffersOwned, NoneLost, Written
  <2>7. Cardinality(refs') <= MaxRefs
    <3>1. IsFiniteSet(refs)
      <4>1. IsFiniteSet(1..MAX_FRAMES)
        BY FromOne, ResolutionAssumption
      <4> QED
        BY <1>0, <4>1, FS_Subset DEF TypeOK
    <3>2. CASE refs' = refs
      BY <1>0, <3>2 DEF BuffersOwned
    <3>3. CASE Cardinality(refs) < MaxRefs /\ refs' = refs \cup {writing.buf}
      <4>1. \/ Cardinality(refs') = Cardinality(refs)
            \/ Cardinality(refs') = Cardinality(refs) + 1
        BY <3>1, <3>3, FS_AddElement
      <4>2. Cardinality(refs) \in Nat
        BY <3>1, FS_CardinalityType
      <4> QED
        BY <3>3, <4>1, <4>2, ResolutionAssumption
    <3> QED
      BY <1>b, <3>2, <3>3
  <2> QED
    BY <2>4, <2>5, <2>6, <2>7 DEF BuffersOwned
<1>5. PostedFits'
  <2>1. Posted' = Posted
    BY <1>u DEF Posted, Given
  <2>2. ASSUME NEW p \in Posted PROVE p.pic \in Nat /\ PostedBefore(p) /\ PostedFar(p)
    BY <1>0, PostedTyped DEF PostedFits
  <2>3. ASSUME NEW p \in Posted PROVE PostedBefore(p)'
    BY <1>a, <1>c, <1>d, <1>e, <1>f, <1>u, <2>2 DEF PostedBefore, Generation
  <2>4. ASSUME NEW p \in Posted PROVE PostedFar(p)'
    BY <1>a, <1>u, <2>2 DEF PostedFar, Generation
  <2> QED
    BY <2>1, <2>3, <2>4 DEF PostedFits
<1>6. InHand'
  BY <1>0, <1>u, InHandStays
<1>7. BuffersExist'
  BY <1>0, <1>u, BuffersExistStays
<1>8. Alone'
  BY <1>0, <1>u, AloneStays
<1>9. ExitAccount'
  BY <1>0, <1>u, ExitAccountStays
<1>10. TypeOK'
  <2>1. refs' \subseteq 1..MAX_FRAMES /\ writing' \in Shown
    BY <1>0, <1>a, <1>b, <1>c, Empty DEF TypeOK
  <2> QED
    BY <1>0, <1>d, <1>u, <2>1 DEF TypeOK, Generation
<1> QED
  BY <1>1, <1>2, <1>3, <1>4, <1>5, <1>6, <1>7, <1>8, <1>9, <1>10 DEF ResolutionInv

\* A reference dropped frees its buffer, unless its picture is still handed over.
LEMMA DropReferenceStep ==
  ASSUME ResolutionInv, DropReference
  PROVE  ResolutionInv'
<1>0. /\ TypeOK /\ RequestFits /\ FramesFit /\ PicturesFit /\ BuffersOwned /\ PostedFits
      /\ InHand /\ BuffersExist /\ Alone /\ ExitAccount
  BY DEF ResolutionInv
<1>u. UNCHANGED <<fpc, frame, sizes, decoder, writing, output, started, slot, hand, dpc,
        request, overlap, plane, scanout, buffers, mpc>>
  BY DEF DropReference, DecoderGoes, decoderVars, frameVars, displayVars, kernelVars,
     requestVars
<1>p. PICK b \in refs :
        /\ refs' = refs \ {b} /\ b \in 1..MAX_FRAMES
        /\ \/ b \in Handed(output, frame) /\ unused' = unused
           \/ b \notin Handed(output, frame) /\ unused' = Append(unused, b)
  BY <1>0 DEF DropReference, GoesFree, TypeOK
<1>h. Handed(output, frame)' = Handed(output, frame)
  BY <1>u DEF Handed, Generation
<1>q. Cardinality(refs') <= MaxRefs
  <2>1. IsFiniteSet(refs)
    <3>1. IsFiniteSet(1..MAX_FRAMES)
      BY FromOne, ResolutionAssumption
    <3> QED
      BY <1>0, <3>1, FS_Subset DEF TypeOK
  <2>2. IsFiniteSet(refs') /\ Cardinality(refs') <= Cardinality(refs)
    BY <1>p, <2>1, FS_Subset
  <2>3. Cardinality(refs) \in Nat /\ Cardinality(refs') \in Nat
    BY <2>1, <2>2, FS_CardinalityType
  <2> QED
    BY <1>0, <2>2, <2>3, ResolutionAssumption DEF BuffersOwned
<1>1. RequestFits'
  BY <1>0, <1>u, RequestFitsStays
<1>2. FramesFit'
  BY <1>0, <1>u, FramesFitStays
<1>3. PicturesFit'
  BY <1>0, <1>u, PicturesFitStays
<1>4. BuffersOwned'
  <2>0. HandedOnce'
    BY <1>0, <1>u DEF BuffersOwned, HandedOnce
  <2>1. CASE b \in Handed(output, frame) /\ unused' = unused
    <3>1. \A c : Held(c)' <=> Held(c)
      BY <1>h, <2>1, <1>p DEF Held
    <3> QED
      BY <1>0, <1>q, <1>u, <2>0, <2>1, <3>1, OwnersKept
  <2>2. CASE b \notin Handed(output, frame) /\ unused' = Append(unused, b)
    <3>1. Held(b) /\ \A c : Held(c)' <=> Held(c) /\ c # b
      BY <1>h, <2>2, <1>p DEF Held
    <3> QED
      BY <1>0, <1>p, <1>q, <1>u, <2>0, <2>2, <3>1, OwnerFrees
  <2> QED
    BY <1>p, <2>1, <2>2
<1>5. PostedFits'
  <2>1. Posted' = Posted
    BY <1>u DEF Posted, Given
  <2>2. ASSUME NEW p \in Posted PROVE PostedBefore(p)'
    BY <1>0, <1>u DEF PostedFits, PostedBefore, Generation
  <2>3. \A p \in Posted : PostedFar(p)'
    BY <1>0, <1>p, <1>u, FarWhenFreed
  <2> QED
    BY <2>1, <2>2, <2>3 DEF PostedFits
<1>6. InHand'
  BY <1>0, <1>u, InHandStays
<1>7. BuffersExist'
  BY <1>0, <1>u, BuffersExistStays
<1>8. Alone'
  BY <1>0, <1>u, AloneStays
<1>9. ExitAccount'
  BY <1>0, <1>u, ExitAccountStays
<1>10. TypeOK'
  <2>1. unused' \in Seq(1..MAX_FRAMES)
    BY <1>0, <1>p, Appended, Types
  <2>2. Len(unused') <= MAX_FRAMES
    BY <1>4, <2>1, FreeFew DEF BuffersOwned
  <2> QED
    BY <1>0, <1>p, <1>u, <2>1, <2>2 DEF TypeOK, Generation
<1> QED
  BY <1>1, <1>2, <1>3, <1>4, <1>5, <1>6, <1>7, <1>8, <1>9, <1>10 DEF ResolutionInv

\* The frame thread takes what the decoder put out first.
LEMMA GetFrameStep ==
  ASSUME ResolutionInv, GetFrame
  PROVE  ResolutionInv'
<1>0. /\ TypeOK /\ RequestFits /\ FramesFit /\ PicturesFit /\ BuffersOwned /\ PostedFits
      /\ InHand /\ BuffersExist /\ Alone /\ ExitAccount
  BY DEF ResolutionInv
<1>a. fpc = "get" /\ output # <<>> /\ fpc' = NextFor(Head(output))
  BY DEF GetFrame, FrameGoes
<1>b. overlap' = overlap
  <2>1. ~InModeset(NextFor(Head(output)))
    BY DEF NextFor, InModeset
  <2>2. overlap \in BOOLEAN
    BY <1>0 DEF TypeOK
  <2> QED
    BY <2>1, <2>2 DEF GetFrame, FrameGoes
<1>c. /\ output' \in Seq(Frame) /\ Len(output) \in Nat /\ Len(output) >= 1
      /\ Len(output') = Len(output) - 1
      /\ \A i \in 1..Len(output') : output'[i] = output[i + 1] /\ i + 1 \in 1..Len(output)
      /\ frame' = output[1] /\ frame' \in Frame /\ Head(output) = output[1]
      /\ 1 \in 1..Len(output)
  <2>1. output' = Tail(output) /\ frame' = Head(output)
    BY DEF GetFrame
  <2> QED
    BY <1>0, <1>a, <2>1, Rest, Types
<1>d. /\ frame.kind = "none" /\ frame'.kind \in {"none", "eos", "info", "picture"}
      /\ mpc = "run" /\ started \in Nat /\ Generation \in Nat
  BY <1>0, <1>a, <1>c, FrameKinds, FrameFields, Types DEF FramesFit
<1>e. /\ fpc' \in {"allocate", "post", "deinit"}
      /\ fpc' = "allocate" <=> frame'.kind = "info"
      /\ fpc' = "post" <=> frame'.kind = "picture"
  BY <1>a, <1>c, <1>d DEF NextFor
<1>u. UNCHANGED <<sizes, decoder, unused, writing, refs, started, slot, hand, dpc,
        request, plane, scanout, buffers, mpc>>
  BY DEF GetFrame, FrameGoes, decoderVars, frameVars, displayVars, kernelVars,
     requestVars
<1>1. RequestFits'
  BY <1>0, <1>u, RequestFitsStays
<1>2. FramesFit'
  <2>1. frame'.kind = "info" => decoder = "change" /\ output' = <<>>
    <3>1. frame'.kind = "info" => decoder = "change" /\ Len(output) = 1
      BY <1>0, <1>c DEF FramesFit
    <3>2. Len(output') = 0 => output' = <<>>
      BY <1>c
    <3> QED
      BY <1>c, <3>1, <3>2
  <2>2. \A i \in 1..Len(output') :
          output'[i].kind = "info" => decoder = "change" /\ i = Len(output')
    BY <1>0, <1>c DEF FramesFit
  <2> QED
    BY <1>0, <1>a, <1>d, <1>e, <1>u, <2>1, <2>2 DEF FramesFit, Generation, Modesetting
<1>3. PicturesFit'
  <2>1. ASSUME NEW i \in 1..Len(output'), output'[i].kind = "picture"
        PROVE  /\ output'[i].gen = Generation /\ output'[i].pic <= started
               /\ writing # None => output'[i].pic < started
               /\ frame'.kind = "picture" => frame'.pic < output'[i].pic
               /\ \A j \in 1..Len(output') : i < j /\ output'[j].kind = "picture" =>
                    output'[i].pic < output'[j].pic
    <3>1. /\ i + 1 \in 1..Len(output) /\ output'[i] = output[i + 1]
          /\ output[i + 1].kind = "picture" /\ 1 < i + 1
      BY <1>c, <2>1
    <3>2. ASSUME NEW j \in 1..Len(output'), i < j, output'[j].kind = "picture"
          PROVE  output'[i].pic < output'[j].pic
      <4>1. /\ j + 1 \in 1..Len(output) /\ output'[j] = output[j + 1]
            /\ output[j + 1].kind = "picture"
        BY <1>c, <3>2
      <4>3. i + 1 < j + 1
        <5>1. i \in Int /\ j \in Int
          OBVIOUS
        <5> QED
          BY <3>2, <5>1
      <4>2. \A a, b \in 1..Len(output) :
              output[a].kind = "picture" /\ a < b /\ output[b].kind = "picture" =>
                output[a].pic < output[b].pic
        BY <1>0 DEF PicturesFit
      <4> QED
        BY <3>1, <4>1, <4>2, <4>3
    <3>3. frame'.kind = "picture" => frame'.pic < output'[i].pic
      BY <1>0, <1>c, <3>1 DEF PicturesFit
    <3> QED
      BY <1>0, <3>1, <3>2, <3>3 DEF PicturesFit
  <2>2. frame'.kind = "picture" =>
          /\ frame'.gen = Generation /\ frame'.pic <= started
          /\ writing # None => frame'.pic < started
    BY <1>0, <1>c DEF PicturesFit
  <2> QED
    BY <1>0, <1>u, <2>1, <2>2 DEF PicturesFit, Generation
<1>4. BuffersOwned'
  <2>1. \A b : HandedOver(b)' <=> HandedOver(b)
    <3>1. \A i \in 1..Len(output) : i = 1 \/ (i - 1 \in 1..Len(output') /\ (i - 1) + 1 = i)
      BY <1>c
    <3>2. ASSUME NEW b, HandedOver(b) PROVE HandedOver(b)'
      BY <1>c, <1>d, <3>1, <3>2 DEF HandedOver
    <3>3. ASSUME NEW b, HandedOver(b)' PROVE HandedOver(b)
      BY <1>c, <3>3 DEF HandedOver
    <3> QED
      BY <3>2, <3>3
  <2>2. HandedOnce'
    <3> SUFFICES ASSUME NEW i \in 1..Len(output'), output'[i].kind = "picture"
                 PROVE  /\ frame'.kind = "picture" => output'[i].buf # frame'.buf
                        /\ \A j \in 1..Len(output') : output'[j].kind = "picture" /\ i # j =>
                             output'[i].buf # output'[j].buf
      BY DEF HandedOnce
    <3>1. /\ i + 1 \in 1..Len(output) /\ output'[i] = output[i + 1] /\ 1 # i + 1
          /\ \A j \in 1..Len(output') :
               /\ j + 1 \in 1..Len(output) /\ output'[j] = output[j + 1]
               /\ i # j => i + 1 # j + 1
      BY <1>c
    <3> QED
      BY <1>0, <1>c, <3>1 DEF BuffersOwned, HandedOnce
  <2> QED
    BY <1>0, <1>3, <1>u, <2>1, <2>2, OwnersStay
<1>5. PostedFits'
  <2>1. Posted' = Posted
    BY <1>u DEF Posted, Given
  <2>2. ASSUME NEW p \in Posted PROVE p.pic \in Nat /\ PostedBefore(p) /\ PostedFar(p)
    BY <1>0, PostedTyped DEF PostedFits
  <2>3. ASSUME NEW p \in Posted PROVE PostedBefore(p)'
    <3>1. frame'.kind = "picture" => p.pic < frame'.pic /\ frame'.pic \in Nat
      BY <1>0, <1>c, <2>2, Numbers DEF PostedBefore
    <3> QED
      BY <1>c, <1>e, <1>u, <2>2, <3>1 DEF PostedBefore, Generation
  <2>4. ASSUME NEW p \in Posted PROVE PostedFar(p)'
    BY <1>u, <2>2 DEF PostedFar, Generation
  <2> QED
    BY <2>1, <2>3, <2>4 DEF PostedFits
<1>6. InHand'
  BY <1>0, <1>u, InHandStays
<1>7. BuffersExist'
  BY <1>0, <1>u, BuffersExistStays
<1>8. Alone'
  BY <1>0, <1>a, <1>b, <1>e, <1>u DEF Alone, InModeset, Modesetting, Source, FullSize,
     Generation
<1>9. ExitAccount'
  BY <1>0, <1>u, ExitAccountStays
<1>10. TypeOK'
  BY <1>0, <1>b, <1>c, <1>e, <1>u DEF TypeOK, Generation, FramePC
<1> QED
  BY <1>1, <1>2, <1>3, <1>4, <1>5, <1>6, <1>7, <1>8, <1>9, <1>10 DEF ResolutionInv

\* A new generation of buffers, which nothing has used yet.
LEMMA AllocateBuffersStep ==
  ASSUME ResolutionInv, AllocateBuffers
  PROVE  ResolutionInv'
<1>0. /\ TypeOK /\ RequestFits /\ FramesFit /\ PicturesFit /\ BuffersOwned /\ PostedFits
      /\ InHand /\ BuffersExist /\ Alone /\ ExitAccount
  BY DEF ResolutionInv
<1>a. fpc = "allocate" /\ fpc' = "register" /\ buffers' = buffers \cup {Generation + 1}
  BY DEF AllocateBuffers, FrameGoes
<1>b. overlap' = overlap
  <2>1. ~InModeset("register")
    BY DEF InModeset
  <2>2. overlap \in BOOLEAN
    BY <1>0 DEF TypeOK
  <2> QED
    BY <2>1, <2>2 DEF AllocateBuffers, FrameGoes
<1>c. /\ decoder = "change" /\ output = <<>> /\ frame.kind = "info" /\ writing = None
      /\ mpc = "run" /\ Generation < MaxInfoChanges /\ Generation \in Nat
  BY <1>0, <1>a, Types DEF FramesFit
<1>d. sizes' \in Seq(Sizes) /\ Generation' = Generation + 1
      /\ \A g \in 1..Generation : sizes'[g] = sizes[g]
  <2>1. sizes' = Append(sizes, frame.size)
    BY DEF AllocateBuffers
  <2>2. sizes \in Seq(Sizes) /\ frame.size \in Sizes
    BY <1>0, <1>c, FrameFields DEF TypeOK
  <2> QED
    BY <2>1, <2>2, Appended DEF Generation
<1>e. \A p \in Posted : p.gen \in Nat /\ p.gen <= Generation /\ p.pic \in Nat
  BY <1>0, PostedTyped DEF PostedFits, PostedBefore
<1>u. UNCHANGED <<frame, decoder, unused, writing, refs, output, started, slot, hand,
        dpc, request, plane, scanout, mpc>>
  BY DEF AllocateBuffers, FrameGoes, decoderVars, frameVars, displayVars, kernelVars,
     requestVars
<1>1. RequestFits'
  BY <1>0, <1>u, RequestFitsStays
<1>2. FramesFit'
  BY <1>0, <1>a, <1>c, <1>d, <1>u DEF FramesFit, Modesetting
<1>3. PicturesFit'
  BY <1>c, <1>u DEF PicturesFit
<1>4. BuffersOwned'
  <2>1. \A b : HandedOver(b)' <=> HandedOver(b)
    BY <1>u DEF HandedOver
  <2>2. HandedOnce'
    BY <1>c, <1>u DEF HandedOnce
  <2> QED
    BY <1>0, <1>3, <1>u, <2>1, <2>2, OwnersStay
<1>5. PostedFits'
  <2>1. Posted' = Posted
    BY <1>u DEF Posted, Given
  <2>2. ASSUME NEW p \in Posted PROVE PostedBefore(p)'
    BY <1>0, <1>c, <1>d, <1>e, <1>u DEF PostedFits, PostedBefore
  <2>3. ASSUME NEW p \in Posted PROVE PostedFar(p)'
    BY <1>c, <1>d, <1>e DEF PostedFar
  <2> QED
    BY <2>1, <2>2, <2>3 DEF PostedFits
<1>6. InHand'
  BY <1>0, <1>u, InHandStays
<1>7. BuffersExist'
  <2>1. buffers' = 1..Generation'
    BY <1>0, <1>a, <1>c, <1>d DEF BuffersExist
  <2>2. \A i \in Given(request, "fb") : Exists(request[i].value)'
    BY <1>0, <1>a, <1>c, <1>u DEF BuffersExist, Exists
  <2> QED
    BY <1>c, <1>u, <2>1, <2>2 DEF BuffersExist, Given
<1>8. Alone'
  <2>1. \A p \in {slot, hand, plane.fb} : p.gen < Generation'
    BY <1>c, <1>d, <1>e DEF Posted
  <2>2. mpc' = "run" /\ Generation' # 0 /\ Generation' \in Nat
    BY <1>c, <1>d, <1>u
  <2> QED
    BY <1>0, <1>a, <1>b, <1>u, <2>1, <2>2 DEF Alone, InModeset, Modesetting
<1>9. ExitAccount'
  <2>1. mpc' # "exit"
    BY <1>0, <1>a, <1>b, <1>c, <1>d, <1>e, <1>u DEF FramesFit, Modesetting, InModeset
  <2> QED
    BY <2>1 DEF ExitAccount
<1>10. TypeOK'
  <2>1. buffers' \subseteq 1..Generation'
    BY <1>0, <1>a, <1>c, <1>d DEF TypeOK
  <2>2. Generation' <= MaxInfoChanges
    BY <1>c, <1>d, ResolutionAssumption
  <2> QED
    BY <1>0, <1>a, <1>b, <1>d, <1>u, <2>1, <2>2 DEF TypeOK, FramePC
<1> QED
  BY <1>1, <1>2, <1>3, <1>4, <1>5, <1>6, <1>7, <1>8, <1>9, <1>10 DEF ResolutionInv

\* The decoder gets all buffers of the new generation, and the display has none.
LEMMA RegisterGroupStep ==
  ASSUME ResolutionInv, RegisterGroup
  PROVE  ResolutionInv'
<1>0. /\ TypeOK /\ RequestFits /\ FramesFit /\ PicturesFit /\ BuffersOwned /\ PostedFits
      /\ InHand /\ BuffersExist /\ Alone /\ ExitAccount
  BY DEF ResolutionInv
<1>a. fpc = "register" /\ fpc' = "prepare" /\ decoder' = "decode" /\ refs' = {}
  BY DEF RegisterGroup, FrameGoes
<1>b. /\ overlap' \in BOOLEAN
      /\ ~overlap' => ~overlap /\ ~InCommit(dpc)
  <2>1. InModeset("prepare")
    BY DEF InModeset
  <2>2. overlap' = (overlap \/ (InModeset("prepare") /\ InCommit(dpc)))
    BY DEF RegisterGroup, FrameGoes
  <2>3. overlap \in BOOLEAN /\ InCommit(dpc) \in BOOLEAN
    BY <1>0 DEF TypeOK, InCommit
  <2> QED
    BY <2>1, <2>2, <2>3, Zenon
<1>c. /\ decoder = "change" /\ output = <<>> /\ frame.kind = "info" /\ writing = None
      /\ mpc = "run" /\ Generation > 0 /\ Generation \in Nat
  BY <1>0, <1>a, Types DEF FramesFit
<1>d. /\ unused' \in Seq(1..MAX_FRAMES) /\ Len(unused') = MAX_FRAMES
      /\ \A k \in 1..MAX_FRAMES : unused'[k] = k
  <2>1. unused' = [i \in 1..MAX_FRAMES |-> i]
    BY DEF RegisterGroup
  <2> QED
    BY <2>1, ResolutionAssumption
<1>u. UNCHANGED <<frame, sizes, writing, output, started, slot, hand, dpc, request,
        plane, scanout, buffers, mpc>>
  BY DEF RegisterGroup, FrameGoes, decoderVars, frameVars, displayVars, kernelVars,
     requestVars
<1>1. RequestFits'
  BY <1>0, <1>u, RequestFitsStays
<1>2. FramesFit'
  BY <1>0, <1>a, <1>c, <1>u DEF FramesFit, Modesetting, Generation
<1>3. PicturesFit'
  BY <1>0, <1>u, PicturesFitStays
<1>4. BuffersOwned'
  <2>1. \A b : ~Held(b)' /\ ~Written(b)'
    <3>1. \A b : ~HandedOver(b)'
      BY <1>c, <1>u DEF HandedOver
    <3> QED
      BY <1>3, <1>a, <1>c, <1>u, <3>1, HandedNext DEF Held, Written
  <2>2. \A b \in 1..MAX_FRAMES : Freed(b)'
    BY <1>d DEF Freed
  <2>3. FreeOnce' /\ FreeIsFree' /\ WrittenAlone' /\ HandedOnce' /\ NoneLost'
    BY <1>c, <1>d, <1>u, <2>1, <2>2 DEF FreeOnce, FreeIsFree, WrittenAlone, HandedOnce, NoneLost
  <2>4. Cardinality(refs') = 0
    BY <1>a, FS_EmptySet
  <2> QED
    BY <2>3, <2>4, ResolutionAssumption DEF BuffersOwned
<1>5. PostedFits'
  <2>1. Posted' = Posted
    BY <1>u DEF Posted, Given
  <2>2. ASSUME NEW p \in Posted PROVE p.gen \in Nat /\ PostedBefore(p)
    BY <1>0, PostedTyped DEF PostedFits
  <2>3. ASSUME NEW p \in Posted PROVE PostedBefore(p)'
    BY <1>a, <1>u, <2>2 DEF PostedBefore, Generation
  <2>4. ASSUME NEW p \in Posted PROVE PostedFar(p)'
    BY <1>a, <1>c, <1>u, <2>2 DEF PostedBefore, PostedFar, Generation
  <2> QED
    BY <2>1, <2>3, <2>4 DEF PostedFits
<1>6. InHand'
  BY <1>0, <1>u, InHandStays
<1>7. BuffersExist'
  BY <1>0, <1>u, BuffersExistStays
<1>8. Alone'
  BY <1>0, <1>a, <1>b, <1>c, <1>u DEF Alone, InModeset, InCommit, Modesetting, Source,
     FullSize, Generation
<1>9. ExitAccount'
  BY <1>0, <1>u, ExitAccountStays
<1>10. TypeOK'
  BY <1>0, <1>a, <1>b, <1>d, <1>u, ResolutionAssumption DEF TypeOK, FramePC,
     DecoderDoes, Generation
<1> QED
  BY <1>1, <1>2, <1>3, <1>4, <1>5, <1>6, <1>7, <1>8, <1>9, <1>10 DEF ResolutionInv

\* The modeset is appended to the request, in full size and with its own buffer.
LEMMA PrepareCommitStep ==
  ASSUME ResolutionInv, PrepareCommit
  PROVE  ResolutionInv'
<1>0. /\ TypeOK /\ RequestFits /\ FramesFit /\ PicturesFit /\ BuffersOwned /\ PostedFits
      /\ InHand /\ BuffersExist /\ Alone /\ ExitAccount
  BY DEF ResolutionInv
<1>a. fpc = "prepare" /\ fpc' = "test"
  BY DEF PrepareCommit, FrameGoes
<1>b. /\ overlap' \in BOOLEAN
      /\ ~overlap' => ~overlap /\ ~InCommit(dpc)
  <2>1. InModeset("test")
    BY DEF InModeset
  <2>2. overlap' = (overlap \/ (InModeset("test") /\ InCommit(dpc)))
    BY DEF PrepareCommit, FrameGoes
  <2>3. overlap \in BOOLEAN /\ InCommit(dpc) \in BOOLEAN
    BY <1>0 DEF TypeOK, InCommit
  <2> QED
    BY <2>1, <2>2, <2>3, Zenon
<1>c. /\ frame.kind = "info" /\ mpc = "run" /\ Generation \in 1..MaxInfoChanges
      /\ Source \in Sizes
  BY <1>0, <1>a, Types DEF FramesFit, Modesetting, TypeOK, Source, Generation
<1>u. UNCHANGED <<frame, sizes, decoder, unused, writing, refs, output, started, slot,
        hand, dpc, plane, scanout, buffers, mpc>>
  BY DEF PrepareCommit, FrameGoes, decoderVars, frameVars, displayVars, kernelVars,
     requestVars
<1> DEFINE fb == [gen |-> Generation, buf |-> 1, pic |-> 0]
<1>d. fb \in Shown /\ fb.gen = Generation /\ fb.pic = 0
  BY <1>c, ResolutionAssumption DEF Shown
<1>p. PICK rect \in Rectangles(Screen, Source.w, Source.h) :
        request' = request \o Prepared(fb, Source, rect, "video")
  BY DEF PrepareCommit, Source
<1>e. /\ request' \in Seq(Items) /\ Len(request) \in 0..Len(request')
      /\ request' = SubSeq(request', 1, Len(request)) \o Prepared(fb, Source, rect, "video")
      /\ \A i \in Given(request', "fb") :
           \/ request'[i].value = fb
           \/ i \in Given(request, "fb") /\ request'[i].value = request[i].value
  <2> DEFINE r == request \o Prepared(fb, Source, rect, "video")
  <2>1. rect \in Rectangle /\ request \in Seq(Items)
    BY <1>0, <1>c, RectanglesFull DEF RequestFits
  <2> HIDE DEF fb
  <2>2. /\ r \in Seq(Items) /\ Len(request) \in 0..Len(r)
        /\ \A i \in Given(r, "fb") :
             r[i].value = fb \/ (i \in Given(request, "fb") /\ r[i].value = request[i].value)
    <3>1. Source \in Sizes \cup {Screen}
      BY <1>c
    <3>2. fb \in Shown
      BY <1>d
    <3>3. "video" \in {"initial", "video"}
      OBVIOUS
    <3>4. NamesAlso(request, r, fb)
      BY <2>1, <3>1, <3>2, <3>3, PreparedAdded, Zenon
    <3> QED
      BY <3>4, Zenon DEF NamesAlso
  <2>5. SubSeq(r, 1, Len(request)) = request
    <3>1. Prepared(fb, Source, rect, "video") \in Seq(Items)
      BY <1>c, <1>d, <2>1, PreparedItems
    <3> QED
      BY <2>1, <3>1, Front, Zenon
  <2>3. request' = r
    BY <1>p
  <2>4. r = SubSeq(r, 1, Len(request)) \o Prepared(fb, Source, rect, "video")
    BY <2>5, Zenon
  <2> HIDE DEF r
  <2> QED
    BY <2>2, <2>3, <2>4, Zenon
<1>1. RequestFits'
  BY <1>0, <1>e, <1>u DEF RequestFits
<1>2. FramesFit'
  BY <1>0, <1>a, <1>c, <1>u DEF FramesFit, Modesetting, Generation
<1>3. PicturesFit'
  BY <1>0, <1>u, PicturesFitStays
<1>4. BuffersOwned'
  BY <1>0, <1>u, BuffersOwnedStays
<1>5. PostedFits'
  <2>1. \A p \in Posted' : p \in Posted \/ (p.pic = 0 /\ p.gen \in Nat /\ p.gen <= Generation)
    BY <1>c, <1>d, <1>e, <1>u DEF Posted
  <2> QED
    BY <1>0, <1>a, <1>u, <2>1, PostedMoved
<1>6. InHand'
  BY <1>0, <1>u, InHandStays
<1>7. BuffersExist'
  <2>1. fb # None /\ fb.gen \in buffers
    BY <1>0, <1>c DEF None, BuffersExist
  <2> HIDE DEF fb
  <2>2. \A i \in Given(request', "fb") : Exists(request'[i].value)
    BY <1>0, <1>c, <1>e, <2>1 DEF BuffersExist, Exists
  <2>3. Given(request, "fb")' = Given(request', "fb")
    BY DEF Given
  <2> QED
    BY <1>0, <1>c, <1>u, <2>2, <2>3 DEF BuffersExist, Exists, Generation
<1>8. Alone'
  <2>1. \E before \in 0..Len(request'), r \in Rectangles(Screen, Source.w, Source.h) :
          request' = SubSeq(request', 1, before) \o Prepared(fb, Source, r, "video")
    BY <1>e, Zenon
  <2>2. /\ Source' = Source /\ Generation' = Generation
        /\ [gen |-> Generation, buf |-> 1, pic |-> 0]' = fb
    BY <1>u DEF Source, Generation
  <2>3. RequestFilled'
    BY <2>1, <2>2, Zenon DEF RequestFilled
  <2>4. dpc \in {"fill", "commit"} <=> InCommit(dpc)
    BY DEF InCommit
  <2> QED
    BY <1>0, <1>a, <1>b, <1>c, <1>u, <2>3, <2>4 DEF Alone, InModeset, InCommit, Modesetting,
       Generation
<1>9. ExitAccount'
  <2>1. mpc' # "exit"
    BY <1>0, <1>a, <1>b, <1>c, <1>u DEF FramesFit, Modesetting, InModeset
  <2> QED
    BY <2>1 DEF ExitAccount
<1>10. TypeOK'
  BY <1>0, <1>a, <1>b, <1>u DEF TypeOK, FramePC, Generation
<1> QED
  BY <1>1, <1>2, <1>3, <1>4, <1>5, <1>6, <1>7, <1>8, <1>9, <1>10 DEF ResolutionInv

\* The test commit is accepted when one thread alone filled the request: what it
\* names exists and is not smaller than its source.
LEMMA TestCommitStep ==
  ASSUME ResolutionInv, TestCommit
  PROVE  ResolutionInv'
<1>0. /\ TypeOK /\ RequestFits /\ FramesFit /\ PicturesFit /\ BuffersOwned /\ PostedFits
      /\ InHand /\ BuffersExist /\ Alone /\ ExitAccount
  BY DEF ResolutionInv
<1>a. fpc = "test" /\ fpc' \in {"commit", "aborted"} /\ (Valid(request) => fpc' = "commit")
  BY DEF TestCommit, FrameGoes
<1>b. /\ overlap' \in BOOLEAN
      /\ ~overlap' => ~overlap
  <2>1. overlap' = (overlap \/ (InModeset(fpc') /\ InCommit(dpc)))
    BY DEF TestCommit, FrameGoes
  <2>2. overlap \in BOOLEAN /\ InCommit(dpc) \in BOOLEAN /\ InModeset(fpc') \in BOOLEAN
    BY <1>0 DEF TypeOK, InCommit, InModeset
  <2> QED
    BY <2>1, <2>2, Zenon
<1>c. /\ frame.kind = "info" /\ mpc = "run" /\ Generation > 0
  BY <1>0, <1>a, Types DEF FramesFit, Modesetting
<1>d. ~overlap /\ Source \notin Unscalable => fpc' = "commit"
  BY <1>0, <1>a, ModesetValid
<1>u. UNCHANGED <<frame, sizes, decoder, unused, writing, refs, output, started, slot,
        hand, dpc, request, plane, scanout, buffers, mpc>>
  BY DEF TestCommit, FrameGoes, decoderVars, frameVars, displayVars, kernelVars,
     requestVars
<1>1. RequestFits'
  BY <1>0, <1>u, RequestFitsStays
<1>2. FramesFit'
  BY <1>0, <1>a, <1>c, <1>u DEF FramesFit, Modesetting, Generation
<1>3. PicturesFit'
  BY <1>0, <1>u, PicturesFitStays
<1>4. BuffersOwned'
  BY <1>0, <1>u, BuffersOwnedStays
<1>5. PostedFits'
  <2>1. Posted' = Posted
    BY <1>u DEF Posted, Given
  <2> QED
    BY <1>0, <1>a, <1>u, <2>1, PostedMoved
<1>6. InHand'
  BY <1>0, <1>u, InHandStays
<1>7. BuffersExist'
  BY <1>0, <1>u, BuffersExistStays
<1>8. Alone'
  <2>1. (RequestFilled' <=> RequestFilled) /\ Source' = Source
    BY <1>u DEF RequestFilled, Source, Generation
  <2> QED
    BY <1>0, <1>a, <1>b, <1>c, <1>d, <1>u, <2>1 DEF Alone, InModeset, Modesetting, Generation
<1>9. ExitAccount'
  BY <1>0, <1>u, ExitAccountStays
<1>10. TypeOK'
  <2>1. overlap' \in BOOLEAN /\ fpc' \in FramePC
    BY <1>a, <1>b DEF FramePC
  <2> QED
    BY <1>0, <1>u, <2>1 DEF TypeOK, Generation
<1> QED
  BY <1>1, <1>2, <1>3, <1>4, <1>5, <1>6, <1>7, <1>8, <1>9, <1>10 DEF ResolutionInv

\* The modeset puts its rectangle and size on the plane, unless the display thread
\* came between.
LEMMA ModesetCommitStep ==
  ASSUME ResolutionInv, ModesetCommit
  PROVE  ResolutionInv'
<1>0. /\ TypeOK /\ RequestFits /\ FramesFit /\ PicturesFit /\ BuffersOwned /\ PostedFits
      /\ InHand /\ BuffersExist /\ Alone /\ ExitAccount
  BY DEF ResolutionInv
<1>a. fpc = "commit" /\ fpc' = IF Valid(request) THEN "deinit" ELSE "aborted"
  BY DEF ModesetCommit, FrameGoes
<1>b. overlap' = overlap
  <2>1. ~InModeset(fpc')
    BY <1>a DEF InModeset
  <2>2. overlap \in BOOLEAN
    BY <1>0 DEF TypeOK
  <2>3. overlap' = (overlap \/ (InModeset(fpc') /\ InCommit(dpc)))
    BY DEF ModesetCommit, FrameGoes
  <2> QED
    BY <2>1, <2>2, <2>3, Zenon
<1>c. /\ plane' = IF Valid(request) THEN Applied(request) ELSE plane
      /\ scanout' = plane'.fb
  BY DEF ModesetCommit
<1>d. /\ frame.kind = "info" /\ mpc = "run" /\ Generation > 0
  BY <1>0, <1>a, Types DEF FramesFit, Modesetting
<1>e. plane' \in Planes /\ (plane'.fb = plane.fb
                         \/ \E i \in Given(request, "fb") : plane'.fb = request[i].value)
  BY <1>0, <1>c, AppliedFits DEF RequestFits
<1>u. UNCHANGED <<frame, sizes, decoder, unused, writing, refs, output, started, slot,
        hand, dpc, request, buffers, mpc>>
  BY DEF ModesetCommit, FrameGoes, decoderVars, frameVars, displayVars, kernelVars,
     requestVars
<1>1. RequestFits'
  BY <1>0, <1>e, <1>u DEF RequestFits
<1>2. FramesFit'
  BY <1>0, <1>a, <1>d, <1>u DEF FramesFit, Modesetting, Generation
<1>3. PicturesFit'
  BY <1>0, <1>u, PicturesFitStays
<1>4. BuffersOwned'
  BY <1>0, <1>u, BuffersOwnedStays
<1>5. PostedFits'
  <2>1. Posted' \subseteq Posted
    BY <1>c, <1>e, <1>u DEF Posted, Given
  <2> QED
    BY <1>0, <1>a, <1>u, <2>1, PostedMoved
<1>6. InHand'
  BY <1>0, <1>u, InHandStays
<1>7. BuffersExist'
  BY <1>0, <1>u, BuffersExistStays
<1>8. Alone'
  <2>1. ASSUME ~overlap, Valid(request) PROVE fpc' = "deinit" /\ plane'.crtc /\ FullSize(Source)'
    <3>1. /\ Applied(request).crtc /\ Applied(request).src = Source
          /\ OnScreen(Screen, Applied(request).dst)
          /\ Largest(Screen, Source.w, Source.h, Applied(request).dst)
      BY <1>0, <1>a, <2>1, ModesetValid
    <3>2. plane' = Applied(request) /\ Source' = Source
      BY <1>c, <1>u, <2>1 DEF Source, Generation
    <3> QED
      BY <1>a, <2>1, <3>1, <3>2 DEF FullSize
  <2>2. ASSUME ~overlap, ~Valid(request)
        PROVE  fpc' = "aborted" /\ plane' = plane /\ Source' \in Unscalable
    <3>1. Source \in Unscalable
      BY <1>0, <1>a, <2>2, ModesetValid
    <3> QED
      BY <1>a, <1>c, <1>u, <2>2, <3>1 DEF Source, Generation
  <2> QED
    BY <1>0, <1>a, <1>b, <1>d, <1>u, <2>1, <2>2
       DEF Alone, InModeset, InCommit, Modesetting, Generation
<1>9. ExitAccount'
  <2>1. mpc' # "exit"
    BY <1>0, <1>a, <1>b, <1>c, <1>d, <1>e, <1>u DEF FramesFit, Modesetting, InModeset
  <2> QED
    BY <2>1 DEF ExitAccount
<1>10. TypeOK'
  <2>1. plane'.fb \in Shown /\ plane'.src \in Sizes \cup {Screen}
    BY <1>e DEF Planes
  <2> QED
    BY <1>0, <1>a, <1>b, <1>c, <1>u, <2>1 DEF TypeOK, FramePC, Generation
<1> QED
  BY <1>1, <1>2, <1>3, <1>4, <1>5, <1>6, <1>7, <1>8, <1>9, <1>10 DEF ResolutionInv

\* The newest picture goes into the slot; it has not been given back yet, so it
\* is as near to the decoder as a picture can be.
LEMMA PostStep ==
  ASSUME ResolutionInv, Post
  PROVE  ResolutionInv'
<1>0. /\ TypeOK /\ RequestFits /\ FramesFit /\ PicturesFit /\ BuffersOwned /\ PostedFits
      /\ InHand /\ BuffersExist /\ Alone /\ ExitAccount
  BY DEF ResolutionInv
<1>a. fpc = "post" /\ fpc' \in {"deinit", "aborted"} /\ (frame.gen = Generation => fpc' = "deinit")
  BY DEF Post, FrameGoes
<1>b. overlap' = overlap
  <2>1. ~InModeset(fpc')
    BY <1>a DEF InModeset
  <2>2. overlap \in BOOLEAN
    BY <1>0 DEF TypeOK
  <2>3. overlap' = (overlap \/ (InModeset(fpc') /\ InCommit(dpc)))
    BY DEF Post, FrameGoes
  <2> QED
    BY <2>1, <2>2, <2>3, Zenon
<1>c. /\ frame.kind = "picture" /\ mpc = "run" /\ frame.gen = Generation /\ frame \in Frame
      /\ frame.pic <= started /\ (writing # None => frame.pic < started)
  BY <1>0, <1>a, Types DEF FramesFit, PicturesFit
<1>d. slot' = [gen |-> frame.gen, buf |-> frame.buf, pic |-> frame.pic]
  BY <1>c DEF Post
<1>e. /\ slot' \in Shown /\ slot'.gen = Generation /\ slot'.buf = frame.buf /\ slot'.pic = frame.pic
      /\ Generation > 0 /\ frame.pic \in Nat
  BY <1>c, <1>d, FrameFields, ResolutionAssumption DEF Shown
<1>u. UNCHANGED <<frame, sizes, decoder, unused, writing, refs, output, started, hand,
        dpc, request, plane, scanout, buffers, mpc>>
  BY DEF Post, FrameGoes, decoderVars, frameVars, displayVars, kernelVars, requestVars
<1>1. RequestFits'
  BY <1>0, <1>u, RequestFitsStays
<1>2. FramesFit'
  BY <1>0, <1>a, <1>c, <1>u DEF FramesFit, Modesetting, Generation
<1>3. PicturesFit'
  BY <1>0, <1>u, PicturesFitStays
<1>4. BuffersOwned'
  BY <1>0, <1>u, BuffersOwnedStays
<1>5. PostedFits'
  <2>1. \A p \in Posted' : p \in Posted \/ p = slot'
    BY <1>u DEF Posted, Given
  <2>2. ASSUME NEW p \in Posted PROVE PostedBefore(p)' /\ PostedFar(p)'
    BY <1>0, <1>a, <1>u DEF PostedFits, PostedBefore, PostedFar, Generation
  <2>3. ASSUME NEW p, p = slot' PROVE PostedBefore(p)'
    <3>1. p.gen = Generation /\ p.pic = frame.pic
      BY <1>e, <2>3
    <3>2. writing # None => p.pic < writing.pic
      BY <1>0, <1>c, <3>1 DEF PicturesFit
    <3>3. \A i \in 1..Len(output) : output[i].kind = "picture" => p.pic < output[i].pic
      BY <1>0, <1>c, <3>1 DEF PicturesFit
    <3>4. p.gen <= Generation /\ p.pic <= started /\ p.pic <= frame.pic
      BY <1>0, <1>c, <1>e, <3>1, Types
    <3> QED
      BY <1>a, <1>u, <3>2, <3>3, <3>4 DEF PostedBefore, Generation
  <2>4. ASSUME NEW p, p = slot' PROVE PostedFar(p)'
    <3>1. Held(p.buf)
      BY <1>0, <1>c, <1>e, <2>4, HandedIs DEF Held, HandedOver
    <3>2. ~Written(p.buf) /\ ~Freed(p.buf)
      BY <1>0, <3>1 DEF BuffersOwned, WrittenAlone, FreeIsFree, Written, Freed
    <3> QED
      BY <1>u, <3>2 DEF PostedFar, Written, Freed
  <2> QED
    BY <2>1, <2>2, <2>3, <2>4 DEF PostedFits
<1>6. InHand'
  BY <1>0, <1>e, <1>u DEF InHand
<1>7. BuffersExist'
  BY <1>0, <1>u, BuffersExistStays
<1>8. Alone'
  BY <1>0, <1>a, <1>b, <1>c, <1>e, <1>u DEF Alone, InModeset, Modesetting, Source,
     FullSize, Generation
<1>9. ExitAccount'
  BY <1>0, <1>u, ExitAccountStays
<1>10. TypeOK'
  BY <1>0, <1>a, <1>b, <1>e, <1>u DEF TypeOK, FramePC, Generation
<1> QED
  BY <1>1, <1>2, <1>3, <1>4, <1>5, <1>6, <1>7, <1>8, <1>9, <1>10 DEF ResolutionInv

\* The frame is given back: its buffer is free at once, unless it is a reference,
\* whatever the display does with it.
LEMMA DeinitStep ==
  ASSUME ResolutionInv, Deinit
  PROVE  ResolutionInv'
<1>0. /\ TypeOK /\ RequestFits /\ FramesFit /\ PicturesFit /\ BuffersOwned /\ PostedFits
      /\ InHand /\ BuffersExist /\ Alone /\ ExitAccount
  BY DEF ResolutionInv
<1>a. fpc = "deinit" /\ fpc' = (IF frame.kind = "eos" THEN "done" ELSE "get") /\ frame' = NoFrame
  BY DEF Deinit, FrameGoes
<1>b. overlap' = overlap
  <2>1. ~InModeset(fpc')
    BY <1>a DEF InModeset
  <2>2. overlap \in BOOLEAN
    BY <1>0 DEF TypeOK
  <2>3. overlap' = (overlap \/ (InModeset(fpc') /\ InCommit(dpc)))
    BY <1>a DEF Deinit, FrameGoes
  <2> QED
    BY <2>1, <2>2, <2>3, Zenon
<1>c. mpc = "run" /\ frame'.kind = "none" /\ frame \in Frame /\ frame' \in Frame
  BY <1>0, <1>a, FrameKinds, Types DEF FramesFit
<1>d. \/ /\ frame.kind = "picture" /\ frame.buf \notin refs
         /\ unused' = Append(unused, frame.buf)
      \/ /\ frame.kind = "picture" => frame.buf \in refs
         /\ unused' = unused
  BY <1>0 DEF Deinit, GoesFree, PicturesFit
<1>e. frame.kind = "picture" => frame.buf \in 1..MAX_FRAMES
  BY <1>0, Numbers
<1>u. UNCHANGED <<sizes, decoder, writing, refs, output, started, slot, hand, dpc,
        request, plane, scanout, buffers, mpc>>
  BY DEF Deinit, FrameGoes, decoderVars, frameVars, displayVars, kernelVars, requestVars
<1>1. RequestFits'
  BY <1>0, <1>u, RequestFitsStays
<1>2. FramesFit'
  BY <1>0, <1>a, <1>c, <1>u DEF FramesFit, Modesetting, Generation
<1>3. PicturesFit'
  BY <1>0, <1>c, <1>u DEF PicturesFit, Generation
<1>4. BuffersOwned'
  <2>1. HandedOnce' /\ Cardinality(refs') <= MaxRefs
    BY <1>0, <1>c, <1>u DEF BuffersOwned, HandedOnce
  <2>2. ASSUME NEW c
        PROVE  HandedOver(c)' <=> HandedOver(c) /\ ~(frame.kind = "picture" /\ frame.buf = c)
    BY <1>0, <1>c, <1>u DEF HandedOver, BuffersOwned, HandedOnce
  <2>3. ASSUME NEW c
        PROVE  Held(c)' <=> \/ c \in refs
                            \/ HandedOver(c) /\ ~(frame.kind = "picture" /\ frame.buf = c)
    BY <1>3, <1>u, <2>2, HandedNext DEF Held
  <2>4. ASSUME NEW c PROVE Held(c) <=> c \in refs \/ HandedOver(c)
    BY <1>0, HandedIs DEF Held
  <2>5. CASE /\ frame.kind = "picture" /\ frame.buf \notin refs
             /\ unused' = Append(unused, frame.buf)
    <3>1. \A c : Held(c)' <=> Held(c) /\ c # frame.buf
      BY <2>3, <2>4, <2>5
    <3>2. Held(frame.buf) /\ frame.buf \in 1..MAX_FRAMES
      BY <1>e, <2>4, <2>5 DEF HandedOver
    <3> QED
      BY <1>0, <1>u, <2>1, <2>5, <3>1, <3>2, OwnerFrees
  <2>6. CASE /\ frame.kind = "picture" => frame.buf \in refs
             /\ unused' = unused
    <3>1. \A c : Held(c)' <=> Held(c)
      BY <2>3, <2>4, <2>6
    <3> QED
      BY <1>0, <1>u, <2>1, <2>6, <3>1, OwnersKept
  <2> QED
    BY <1>d, <2>5, <2>6
<1>5. PostedFits'
  <2>1. Posted' = Posted
    BY <1>u DEF Posted, Given
  <2>2. ASSUME NEW p \in Posted PROVE PostedBefore(p)'
    BY <1>0, <1>a, <1>c, <1>u DEF PostedFits, PostedBefore, Generation
  <2>3. \A p \in Posted : PostedFar(p)'
    <3>1. CASE frame.kind = "picture"
      BY <1>0, <1>d, <1>e, <1>u, <3>1, FarWhenFreed
    <3>2. CASE frame.kind # "picture"
      BY <1>0, <1>d, <1>u, <3>2 DEF PostedFits, PostedFar, Generation
    <3> QED
      BY <3>1, <3>2
  <2> QED
    BY <2>1, <2>2, <2>3 DEF PostedFits
<1>6. InHand'
  BY <1>0, <1>u, InHandStays
<1>7. BuffersExist'
  BY <1>0, <1>u, BuffersExistStays
<1>8. Alone'
  BY <1>0, <1>a, <1>b, <1>c, <1>u DEF Alone, InModeset, Modesetting, Source, FullSize,
     Generation
<1>9. ExitAccount'
  BY <1>0, <1>u, ExitAccountStays
<1>10. TypeOK'
  <2>1. unused' \in Seq(1..MAX_FRAMES)
    BY <1>0, <1>d, <1>e, Appended, Types
  <2>2. Len(unused') <= MAX_FRAMES
    BY <1>4, <2>1, FreeFew DEF BuffersOwned
  <2> QED
    BY <1>0, <1>a, <1>b, <1>c, <1>u, <2>1, <2>2 DEF TypeOK, FramePC, Generation
<1> QED
  BY <1>1, <1>2, <1>3, <1>4, <1>5, <1>6, <1>7, <1>8, <1>9, <1>10 DEF ResolutionInv

\* The display takes the picture of the slot.
LEMMA TakePictureStep ==
  ASSUME ResolutionInv, TakePicture
  PROVE  ResolutionInv'
<1>0. /\ TypeOK /\ RequestFits /\ FramesFit /\ PicturesFit /\ BuffersOwned /\ PostedFits
      /\ InHand /\ BuffersExist /\ Alone /\ ExitAccount
  BY DEF ResolutionInv
<1>a. fpc # "aborted" /\ dpc = "wait" /\ dpc' = "fill" /\ slot # None /\ hand' = slot /\ slot' = None
  BY DEF TakePicture, DisplayGoes
<1>b. /\ overlap' \in BOOLEAN
      /\ ~overlap' => ~overlap /\ ~InModeset(fpc)
  <2>1. InCommit("fill")
    BY DEF InCommit
  <2>2. overlap' = (overlap \/ (InModeset(fpc) /\ InCommit("fill")))
    BY DEF TakePicture, DisplayGoes
  <2>3. overlap \in BOOLEAN /\ InModeset(fpc) \in BOOLEAN
    BY <1>0 DEF TypeOK, InModeset
  <2> QED
    BY <2>1, <2>2, <2>3, Zenon
<1>u. UNCHANGED <<fpc, frame, sizes, decoder, unused, writing, refs, output, started,
        request, plane, scanout, buffers, mpc>>
  BY DEF TakePicture, DisplayGoes, decoderVars, frameVars, displayVars, kernelVars,
     requestVars
<1>1. RequestFits'
  BY <1>0, <1>u, RequestFitsStays
<1>2. FramesFit'
  BY <1>0, <1>a, <1>u DEF FramesFit, Modesetting, Generation
<1>3. PicturesFit'
  BY <1>0, <1>u, PicturesFitStays
<1>4. BuffersOwned'
  BY <1>0, <1>u, BuffersOwnedStays
<1>5. PostedFits'
  <2>1. Posted' \subseteq Posted \cup {None}
    BY <1>a, <1>u DEF Posted, Given
  <2>2. \A p \in Posted' : p \in Posted \/ (p.pic = 0 /\ p.gen \in Nat /\ p.gen <= Generation)
    BY <1>0, <2>1, Empty, Types
  <2> QED
    BY <1>0, <1>u, <2>2, PostedMoved
<1>6. InHand'
  BY <1>0, <1>a, <1>u DEF InHand
<1>7. BuffersExist'
  BY <1>0, <1>u, BuffersExistStays
<1>8. Alone'
  <2>1. RequestFilled' <=> RequestFilled
    BY <1>u DEF RequestFilled, Source, Generation
  <2>2. None.gen = 0 /\ Generation \in Nat
    BY <1>0, Empty, Types
  <2>3. fpc = "register" => Generation > 0
    BY <1>0 DEF FramesFit
  <2> QED
    BY <1>0, <1>a, <1>b, <1>u, <2>1, <2>2, <2>3
       DEF Alone, InModeset, InCommit, Modesetting, Source, FullSize, Generation
<1>9. ExitAccount'
  BY <1>0, <1>u, ExitAccountStays
<1>10. TypeOK'
  BY <1>0, <1>a, <1>b, <1>u, Empty DEF TypeOK, DisplayPC, Generation
<1> QED
  BY <1>1, <1>2, <1>3, <1>4, <1>5, <1>6, <1>7, <1>8, <1>9, <1>10 DEF ResolutionInv

\* The display's request names the picture's buffer besides what was left in it.
LEMMA FillRequestStep ==
  ASSUME ResolutionInv, FillRequest
  PROVE  ResolutionInv'
<1>0. /\ TypeOK /\ RequestFits /\ FramesFit /\ PicturesFit /\ BuffersOwned /\ PostedFits
      /\ InHand /\ BuffersExist /\ Alone /\ ExitAccount
  BY DEF ResolutionInv
<1>a. dpc = "fill" /\ dpc' = "commit"
      /\ request' = <<Item("fb", hand), Item("osd", OsdBuffer)>>
  BY DEF FillRequest, DisplayGoes
<1>b. /\ overlap' \in BOOLEAN
      /\ ~overlap' => ~overlap /\ ~InModeset(fpc)
  <2>1. InCommit("commit")
    BY DEF InCommit
  <2>2. overlap' = (overlap \/ (InModeset(fpc) /\ InCommit("commit")))
    BY DEF FillRequest, DisplayGoes
  <2>3. overlap \in BOOLEAN /\ InModeset(fpc) \in BOOLEAN
    BY <1>0 DEF TypeOK, InModeset
  <2> QED
    BY <2>1, <2>2, <2>3, Zenon
<1>c. /\ request' \in Seq(Items)
      /\ \A i \in Given(request', "fb") : request'[i].value = hand
  <2>1. OsdBuffer \in Shown /\ hand \in Shown
    BY <1>0, Empty, ResolutionAssumption DEF TypeOK
  <2>2. Item("fb", hand) \in Items /\ Item("osd", OsdBuffer) \in Items
    BY <2>1 DEF Item, Items
  <2>3. request' \in Seq(Items)
    BY <1>a, <2>2, Two, Zenon
  <2>4. /\ Len(request') = 2 /\ request'[1] = Item("fb", hand)
        /\ request'[2] = Item("osd", OsdBuffer)
    BY <1>a
  <2>5. \A i \in Given(request', "fb") : i = 1
    BY <2>4 DEF Given, Item
  <2> QED
    BY <2>3, <2>4, <2>5 DEF Item
<1>d. Given(request, "fb")' = Given(request', "fb")
  BY DEF Given
<1>u. UNCHANGED <<fpc, frame, sizes, decoder, unused, writing, refs, output, started,
        slot, hand, plane, scanout, buffers, mpc>>
  BY DEF FillRequest, DisplayGoes, decoderVars, frameVars, displayVars, kernelVars,
     requestVars
<1>1. RequestFits'
  BY <1>0, <1>c, <1>u DEF RequestFits
<1>2. FramesFit'
  BY <1>0, <1>a, <1>u DEF FramesFit, Modesetting, Generation
<1>3. PicturesFit'
  BY <1>0, <1>u, PicturesFitStays
<1>4. BuffersOwned'
  BY <1>0, <1>u, BuffersOwnedStays
<1>5. PostedFits'
  <2>1. Posted' \subseteq Posted \cup {None}
    BY <1>c, <1>d, <1>u DEF Posted, Given
  <2>2. \A p \in Posted' : p \in Posted \/ (p.pic = 0 /\ p.gen \in Nat /\ p.gen <= Generation)
    BY <1>0, <2>1, Empty, Types
  <2> QED
    BY <1>0, <1>u, <2>2, PostedMoved
<1>6. InHand'
  BY <1>0, <1>a, <1>u DEF InHand
<1>7. BuffersExist'
  <2>1. mpc = "run"
    BY <1>0, <1>a DEF FramesFit
  <2>2. hand # None /\ hand \in Posted /\ hand.gen > 0
    BY <1>0, <1>a DEF InHand, Posted
  <2>3. hand.gen \in 1..Generation
    BY <1>0, <2>2, PostedTyped, Types DEF PostedFits, PostedBefore
  <2>4. Exists(hand)'
    BY <1>0, <1>u, <2>1, <2>2, <2>3 DEF BuffersExist, Exists
  <2> QED
    BY <1>0, <1>c, <1>d, <1>u, <2>1, <2>4 DEF BuffersExist, Exists, Generation
<1>8. Alone'
  BY <1>0, <1>a, <1>b, <1>u DEF Alone, InModeset, InCommit, Modesetting, Source,
     FullSize, Generation
<1>9. ExitAccount'
  <2>1. mpc' # "exit"
    BY <1>0, <1>a, <1>b, <1>c, <1>d, <1>u DEF FramesFit, Modesetting, InModeset
  <2> QED
    BY <2>1 DEF ExitAccount
<1>10. TypeOK'
  BY <1>0, <1>a, <1>b, <1>u DEF TypeOK, DisplayPC, Generation
<1> QED
  BY <1>1, <1>2, <1>3, <1>4, <1>5, <1>6, <1>7, <1>8, <1>9, <1>10 DEF ResolutionInv

\* The commit shows the picture, or is refused and changes nothing.
LEMMA DisplayCommitStep ==
  ASSUME ResolutionInv, DisplayCommit
  PROVE  ResolutionInv'
<1>0. /\ TypeOK /\ RequestFits /\ FramesFit /\ PicturesFit /\ BuffersOwned /\ PostedFits
      /\ InHand /\ BuffersExist /\ Alone /\ ExitAccount
  BY DEF ResolutionInv
<1>a. fpc # "aborted" /\ dpc = "commit" /\ dpc' = "wait" /\ hand' = None
  BY DEF DisplayCommit, DisplayGoes
<1>b. overlap' = overlap
  <2>1. ~InCommit("wait")
    BY DEF InCommit
  <2>2. overlap \in BOOLEAN
    BY <1>0 DEF TypeOK
  <2>3. overlap' = (overlap \/ (InModeset(fpc) /\ InCommit("wait")))
    BY DEF DisplayCommit, DisplayGoes
  <2> QED
    BY <2>1, <2>2, <2>3, Zenon
<1>c. plane' = plane \/ plane' = Applied(request)
  BY DEF DisplayCommit
<1>d. plane' \in Planes /\ (plane'.fb = plane.fb
                         \/ \E i \in Given(request, "fb") : plane'.fb = request[i].value)
  BY <1>0, <1>c, AppliedFits DEF RequestFits
<1>u. UNCHANGED <<fpc, frame, sizes, decoder, unused, writing, refs, output, started,
        slot, request, scanout, buffers, mpc>>
  BY DEF DisplayCommit, DisplayGoes, decoderVars, frameVars, displayVars, kernelVars,
     requestVars
<1>1. RequestFits'
  BY <1>0, <1>d, <1>u DEF RequestFits
<1>2. FramesFit'
  BY <1>0, <1>a, <1>u DEF FramesFit, Modesetting, Generation
<1>3. PicturesFit'
  BY <1>0, <1>u, PicturesFitStays
<1>4. BuffersOwned'
  BY <1>0, <1>u, BuffersOwnedStays
<1>5. PostedFits'
  <2>1. Posted' \subseteq Posted \cup {None}
    BY <1>a, <1>d, <1>u DEF Posted, Given
  <2>2. \A p \in Posted' : p \in Posted \/ (p.pic = 0 /\ p.gen \in Nat /\ p.gen <= Generation)
    BY <1>0, <2>1, Empty, Types
  <2> QED
    BY <1>0, <1>u, <2>2, PostedMoved
<1>6. InHand'
  BY <1>0, <1>a, <1>u DEF InHand
<1>7. BuffersExist'
  BY <1>0, <1>u, BuffersExistStays
<1>8. Alone'
  <2>1. ASSUME ~overlap
        PROVE  /\ plane'.crtc = plane.crtc /\ plane'.src = plane.src /\ plane'.dst = plane.dst
               /\ plane'.fb \in {plane.fb, hand}
    <3>1. request = <<Item("fb", hand), Item("osd", OsdBuffer)>> /\ plane \in Planes
      BY <1>0, <1>a, <2>1 DEF Alone, RequestFits
    <3>2. Applied(request) = [plane EXCEPT !.fb = hand]
      BY <3>1, AppliedFrame
    <3> QED
      BY <1>c, <3>1, <3>2 DEF Planes
  <2>2. Generation > 0
    <3>1. hand # None /\ hand \in Posted /\ hand.gen > 0
      BY <1>0, <1>a DEF InHand, Posted
    <3> QED
      BY <1>0, <3>1, PostedTyped, Types DEF PostedFits, PostedBefore
  <2>3. mpc = "run" /\ None.gen = 0 /\ Generation \in Nat
    BY <1>0, <1>a, Empty, Types DEF FramesFit
  <2>4. overlap \/ ~InModeset(fpc)
    BY <1>0, <1>a DEF Alone, InCommit
  <2>5. ASSUME ~overlap
        PROVE  /\ fpc = "register" => \A p \in {slot, hand', plane'.fb} : p.gen < Generation
               /\ fpc # "register" => plane'.crtc /\ FullSize(Source)'
    <3>1. Source' = Source
      BY <1>u DEF Source, Generation
    <3>2. FullSize(Source)' <=> FullSize(Source)
      BY <1>u, <2>1, <2>5, <3>1 DEF FullSize
    <3>3. fpc \notin {"register", "aborted"} \cup Modesetting => plane.crtc /\ FullSize(Source)
      BY <1>0, <2>2, <2>3, <2>5 DEF Alone, Modesetting
    <3>4. fpc = "register" => \A p \in {slot, hand, plane.fb} : p.gen < Generation
      BY <1>0, <2>5 DEF Alone
    <3> QED
      BY <1>a, <2>1, <2>2, <2>3, <2>4, <2>5, <3>2, <3>3, <3>4 DEF InModeset, Modesetting
  <2> QED
    BY <1>0, <1>a, <1>b, <1>u, <2>2, <2>3, <2>4, <2>5 DEF Alone, InModeset, InCommit, Modesetting,
       Generation
<1>9. ExitAccount'
  <2>1. mpc' # "exit"
    BY <1>0, <1>a, <1>b, <1>c, <1>d, <1>u DEF FramesFit, Modesetting, InModeset
  <2> QED
    BY <2>1 DEF ExitAccount
<1>10. TypeOK'
  <2>1. plane'.fb \in Shown /\ plane'.src \in Sizes \cup {Screen}
    BY <1>d DEF Planes
  <2> QED
    BY <1>0, <1>a, <1>b, <1>u, <2>1, Empty DEF TypeOK, DisplayPC, Generation
<1> QED
  BY <1>1, <1>2, <1>3, <1>4, <1>5, <1>6, <1>7, <1>8, <1>9, <1>10 DEF ResolutionInv

\* The display thread leaves when the stream has ended.
LEMMA DisplayEndsStep ==
  ASSUME ResolutionInv, DisplayEnds
  PROVE  ResolutionInv'
<1>0. /\ TypeOK /\ RequestFits /\ FramesFit /\ PicturesFit /\ BuffersOwned /\ PostedFits
      /\ InHand /\ BuffersExist /\ Alone /\ ExitAccount
  BY DEF ResolutionInv
<1>a. dpc = "wait" /\ dpc' = "done" /\ fpc = "done"
  BY DEF DisplayEnds, DisplayGoes
<1>b. overlap' = overlap
  <2>1. ~InCommit("done")
    BY DEF InCommit
  <2>2. overlap \in BOOLEAN
    BY <1>0 DEF TypeOK
  <2>3. overlap' = (overlap \/ (InModeset(fpc) /\ InCommit("done")))
    BY DEF DisplayEnds, DisplayGoes
  <2> QED
    BY <2>1, <2>2, <2>3, Zenon
<1>u. UNCHANGED <<fpc, frame, sizes, decoder, unused, writing, refs, output, started,
        slot, hand, request, plane, scanout, buffers, mpc>>
  BY DEF DisplayEnds, DisplayGoes, decoderVars, frameVars, displayVars, kernelVars,
     requestVars
<1>1. RequestFits'
  BY <1>0, <1>u, RequestFitsStays
<1>2. FramesFit'
  BY <1>0, <1>a, <1>u DEF FramesFit, Modesetting, Generation
<1>3. PicturesFit'
  BY <1>0, <1>u, PicturesFitStays
<1>4. BuffersOwned'
  BY <1>0, <1>u, BuffersOwnedStays
<1>5. PostedFits'
  BY <1>0, <1>u, PostedFitsStays
<1>6. InHand'
  BY <1>0, <1>a, <1>u DEF InHand
<1>7. BuffersExist'
  BY <1>0, <1>u, BuffersExistStays
<1>8. Alone'
  BY <1>0, <1>a, <1>b, <1>u DEF Alone, InModeset, InCommit, Modesetting, Source,
     FullSize, Generation
<1>9. ExitAccount'
  BY <1>0, <1>u, ExitAccountStays
<1>10. TypeOK'
  BY <1>0, <1>a, <1>b, <1>u DEF TypeOK, DisplayPC, Generation
<1> QED
  BY <1>1, <1>2, <1>3, <1>4, <1>5, <1>6, <1>7, <1>8, <1>9, <1>10 DEF ResolutionInv

\* The screen follows the plane.
LEMMA VBlankStep ==
  ASSUME ResolutionInv, VBlank
  PROVE  ResolutionInv'
<1>0. /\ TypeOK /\ RequestFits /\ FramesFit /\ PicturesFit /\ BuffersOwned /\ PostedFits
      /\ InHand /\ BuffersExist /\ Alone /\ ExitAccount
  BY DEF ResolutionInv
<1>a. scanout' = plane.fb
  BY DEF VBlank, vars
<1>u. UNCHANGED <<fpc, frame, sizes, decoder, unused, writing, refs, output, started,
        slot, hand, dpc, request, overlap, plane, buffers, mpc>>
  BY DEF VBlank, vars, decoderVars, frameVars, displayVars, kernelVars, requestVars
<1>1. RequestFits'
  BY <1>0, <1>u, RequestFitsStays
<1>2. FramesFit'
  BY <1>0, <1>u, FramesFitStays
<1>3. PicturesFit'
  BY <1>0, <1>u, PicturesFitStays
<1>4. BuffersOwned'
  BY <1>0, <1>u, BuffersOwnedStays
<1>5. PostedFits'
  <2>1. Posted' \subseteq Posted \cup {None}
    BY <1>a, <1>u DEF Posted, Given
  <2>2. \A p \in Posted' : p \in Posted \/ (p.pic = 0 /\ p.gen \in Nat /\ p.gen <= Generation)
    BY <1>0, <2>1, Empty, Types
  <2> QED
    BY <1>0, <1>u, <2>2, PostedMoved
<1>6. InHand'
  BY <1>0, <1>u, InHandStays
<1>7. BuffersExist'
  BY <1>0, <1>u, BuffersExistStays
<1>8. Alone'
  BY <1>0, <1>u, AloneStays
<1>9. ExitAccount'
  BY <1>0, <1>u, ExitAccountStays
<1>10. TypeOK'
  BY <1>0, <1>a, <1>u DEF TypeOK, Generation
<1> QED
  BY <1>1, <1>2, <1>3, <1>4, <1>5, <1>6, <1>7, <1>8, <1>9, <1>10 DEF ResolutionInv

\* main() goes on when both threads are done.
LEMMA JoinThreadsStep ==
  ASSUME ResolutionInv, JoinThreads
  PROVE  ResolutionInv'
<1>0. /\ TypeOK /\ RequestFits /\ FramesFit /\ PicturesFit /\ BuffersOwned /\ PostedFits
      /\ InHand /\ BuffersExist /\ Alone /\ ExitAccount
  BY DEF ResolutionInv
<1>a. mpc = "run" /\ mpc' = "release" /\ fpc = "done" /\ dpc = "done"
  BY DEF JoinThreads, MainGoes
<1>u. UNCHANGED <<fpc, frame, sizes, decoder, unused, writing, refs, output, started,
        slot, hand, dpc, request, overlap, plane, scanout, buffers>>
  BY DEF JoinThreads, MainGoes, decoderVars, frameVars, displayVars, kernelVars,
     requestVars
<1>1. RequestFits'
  BY <1>0, <1>u, RequestFitsStays
<1>2. FramesFit'
  BY <1>0, <1>a, <1>u DEF FramesFit, Modesetting, Generation
<1>3. PicturesFit'
  BY <1>0, <1>u, PicturesFitStays
<1>4. BuffersOwned'
  BY <1>0, <1>u, BuffersOwnedStays
<1>5. PostedFits'
  BY <1>0, <1>u, PostedFitsStays
<1>6. InHand'
  BY <1>0, <1>u, InHandStays
<1>7. BuffersExist'
  BY <1>0, <1>a, <1>u DEF BuffersExist, Exists, Given, Generation
<1>8. Alone'
  BY <1>0, <1>a, <1>u DEF Alone, InModeset, InCommit, Modesetting, Source, FullSize,
     Generation
<1>9. ExitAccount'
  <2>1. mpc' # "exit"
    BY <1>0, <1>a, <1>u DEF FramesFit, Modesetting, InModeset
  <2> QED
    BY <2>1 DEF ExitAccount
<1>10. TypeOK'
  BY <1>0, <1>a, <1>u DEF TypeOK, MainPC, Generation
<1> QED
  BY <1>1, <1>2, <1>3, <1>4, <1>5, <1>6, <1>7, <1>8, <1>9, <1>10 DEF ResolutionInv

\* main() removes the buffers of the last generation and of no other.
LEMMA ReleaseBuffersStep ==
  ASSUME ResolutionInv, ReleaseBuffers
  PROVE  ResolutionInv'
<1>0. /\ TypeOK /\ RequestFits /\ FramesFit /\ PicturesFit /\ BuffersOwned /\ PostedFits
      /\ InHand /\ BuffersExist /\ Alone /\ ExitAccount
  BY DEF ResolutionInv
<1>a. mpc = "release" /\ mpc' = "restore" /\ buffers' = buffers \ {Generation}
  BY DEF ReleaseBuffers, MainGoes
<1>b. \/ /\ plane.fb # None /\ plane.fb.gen = Generation
         /\ plane' = [plane EXCEPT !.fb = None, !.crtc = FALSE] /\ scanout' = None
      \/ /\ plane.fb = None \/ plane.fb.gen # Generation
         /\ plane' = plane /\ scanout' = scanout
  BY DEF ReleaseBuffers
<1>c. /\ plane' \in Planes /\ plane'.fb \in {plane.fb, None} /\ scanout' \in {scanout, None}
      /\ plane'.fb = None \/ plane'.fb.gen # Generation
      /\ plane'.fb = None \/ plane' = plane
  BY <1>0, <1>b, Empty DEF RequestFits, Planes
<1>u. UNCHANGED <<fpc, frame, sizes, decoder, unused, writing, refs, output, started,
        slot, hand, dpc, request, overlap>>
  BY DEF ReleaseBuffers, MainGoes, decoderVars, frameVars, displayVars, kernelVars,
     requestVars
<1>1. RequestFits'
  BY <1>0, <1>c, <1>u DEF RequestFits
<1>2. FramesFit'
  BY <1>0, <1>a, <1>u DEF FramesFit, Modesetting, Generation
<1>3. PicturesFit'
  BY <1>0, <1>u, PicturesFitStays
<1>4. BuffersOwned'
  BY <1>0, <1>u, BuffersOwnedStays
<1>5. PostedFits'
  <2>1. Posted' \subseteq Posted \cup {None}
    BY <1>c, <1>u DEF Posted, Given
  <2>2. \A p \in Posted' : p \in Posted \/ (p.pic = 0 /\ p.gen \in Nat /\ p.gen <= Generation)
    BY <1>0, <2>1, Empty, Types
  <2> QED
    BY <1>0, <1>u, <2>2, PostedMoved
<1>6. InHand'
  BY <1>0, <1>u, InHandStays
<1>7. BuffersExist'
  <2>1. Generation \in Nat /\ buffers = 1..Generation
    BY <1>0, <1>a, Types DEF BuffersExist
  <2>2. buffers' = 1..(Generation - 1)
    BY <1>a, <2>1
  <2> QED
    BY <1>a, <1>u, <2>2 DEF BuffersExist, Generation
<1>8. Alone'
  <2>1. fpc = "done" /\ dpc = "done" /\ Generation \in Nat /\ None.gen = 0
    BY <1>0, <1>a, Empty, Types DEF FramesFit
  <2>2. Generation > 0 => plane'.fb.gen # Generation
    BY <1>c, <2>1
  <2>3. ASSUME ~overlap, Generation = 0
        PROVE  plane'.fb = None \/ (plane'.fb = OsdBuffer /\ FullSize(Screen)')
    BY <1>0, <1>c, <2>3 DEF Alone, FullSize
  <2> QED
    BY <1>0, <1>a, <1>u, <2>1, <2>2, <2>3 DEF Alone, InModeset, InCommit, Modesetting, Generation
<1>9. ExitAccount'
  <2>1. mpc' # "exit"
    BY <1>0, <1>a, <1>b, <1>c, <1>u DEF FramesFit, Modesetting, InModeset
  <2> QED
    BY <2>1 DEF ExitAccount
<1>10. TypeOK'
  <2>1. /\ plane'.fb \in Shown /\ plane'.src \in Sizes \cup {Screen} /\ scanout' \in Shown
    BY <1>0, <1>c, Empty DEF Planes, TypeOK
  <2> QED
    BY <1>0, <1>a, <1>u, <2>1 DEF TypeOK, MainPC, Generation
<1> QED
  BY <1>1, <1>2, <1>3, <1>4, <1>5, <1>6, <1>7, <1>8, <1>9, <1>10 DEF ResolutionInv

\* The request that restores zpos still names what was shown last: it is refused
\* unless nothing of a removed generation is in it.
LEMMA RestoreZposStep ==
  ASSUME ResolutionInv, RestoreZpos
  PROVE  ResolutionInv'
<1>0. /\ TypeOK /\ RequestFits /\ FramesFit /\ PicturesFit /\ BuffersOwned /\ PostedFits
      /\ InHand /\ BuffersExist /\ Alone /\ ExitAccount
  BY DEF ResolutionInv
<1>a. mpc = "restore" /\ mpc' = "exit"
  BY DEF RestoreZpos, MainGoes
<1>b. /\ plane' = IF Valid(request') THEN Applied(request') ELSE plane
      /\ scanout' = plane'.fb
  BY DEF RestoreZpos
<1>u. UNCHANGED <<fpc, frame, sizes, decoder, unused, writing, refs, output, started,
        slot, hand, dpc, overlap, buffers>>
  BY DEF RestoreZpos, MainGoes, decoderVars, frameVars, displayVars, kernelVars,
     requestVars
<1>p. PICK rect \in Rectangles(Screen, Screen.w, Screen.h) :
        request' = request \o Prepared(OsdBuffer, Screen, rect, "initial")
  BY DEF RestoreZpos, RestoreRequest
<1> DEFINE r == request \o Prepared(OsdBuffer, Screen, rect, "initial")
<1>q. rect \in Rectangle /\ request \in Seq(Items) /\ OsdBuffer \in Shown /\ plane \in Planes
  BY <1>0, Empty, RectanglesFull, ResolutionAssumption DEF RequestFits
<1>c. /\ request' \in Seq(Items)
      /\ \A i \in Given(request', "fb") :
           \/ request'[i].value = OsdBuffer
           \/ i \in Given(request, "fb") /\ request'[i].value = request[i].value
  <2>0. rect \in Rectangle /\ request \in Seq(Items) /\ OsdBuffer \in Shown
    BY <1>q
  <2>1. "initial" \in {"initial", "video"} /\ Screen \in Sizes \cup {Screen}
    OBVIOUS
  <2>2. NamesAlso(request, r, OsdBuffer)
    BY <2>0, <2>1, PreparedAdded, Zenon
  <2> QED
    BY <1>p, <2>2, Zenon DEF NamesAlso
<1>d. Applied(request')
        = [crtc |-> TRUE, fb |-> OsdBuffer, src |-> Screen, dst |-> rect, zpos |-> "initial"]
  <2>1. Applied(r)
          = [crtc |-> TRUE, fb |-> OsdBuffer, src |-> Screen, dst |-> rect, zpos |-> "initial"]
    BY <1>q, AppliedPrepared
  <2> QED
    BY <1>p, <2>1, Zenon
<1> HIDE DEF r
<1>e. plane' \in Planes /\ plane'.fb \in {plane.fb, OsdBuffer}
  BY <1>b, <1>d, <1>q DEF Planes
<1>1. RequestFits'
  BY <1>0, <1>c, <1>e, <1>u DEF RequestFits
<1>2. FramesFit'
  BY <1>0, <1>a, <1>u DEF FramesFit, Modesetting, Generation
<1>3. PicturesFit'
  BY <1>0, <1>u, PicturesFitStays
<1>4. BuffersOwned'
  BY <1>0, <1>u, BuffersOwnedStays
<1>5. PostedFits'
  <2>1. Given(request, "fb")' = Given(request', "fb")
    BY DEF Given
  <2>2. Posted' \subseteq Posted \cup {OsdBuffer}
    BY <1>b, <1>c, <1>d, <1>u, <2>1 DEF Posted
  <2>3. \A p \in Posted' : p \in Posted \/ (p.pic = 0 /\ p.gen \in Nat /\ p.gen <= Generation)
    BY <1>0, <2>2, Empty, Types
  <2> QED
    BY <1>0, <1>u, <2>3, PostedMoved
<1>6. InHand'
  BY <1>0, <1>u, InHandStays
<1>7. BuffersExist'
  BY <1>0, <1>a, <1>u DEF BuffersExist, Generation
<1>8. Alone'
  <2>1. fpc = "done" /\ dpc = "done" /\ Generation \in Nat /\ OsdBuffer.gen = 0
    BY <1>0, <1>a, Empty, Types DEF FramesFit
  <2>2. CASE plane' = Applied(request')
    <3>1. plane'.fb = OsdBuffer /\ FullSize(Screen)'
      BY <1>d, <2>2, RectanglesFull DEF FullSize
    <3> QED
      BY <1>0, <1>a, <1>u, <2>1, <3>1 DEF Alone, InModeset, InCommit, Modesetting, Generation
  <2>3. CASE plane' = plane
    BY <1>0, <1>a, <1>u, <2>1, <2>3
       DEF Alone, FullSize, InModeset, InCommit, Modesetting, Generation
  <2> QED
    BY <1>b, <2>2, <2>3
<1>9. ExitAccount'
  <2>1. buffers' = 1..(Generation' - 1)
    BY <1>0, <1>a, <1>u DEF BuffersExist, Generation
  <2>2. CASE Valid(request')
    BY <1>b, <1>d, <2>1, <2>2 DEF ExitAccount
  <2>3. CASE ~Valid(request')
    <3>1. /\ SizeOf(OsdBuffer) = Screen /\ Screen.w <= Screen.w /\ Screen.h <= Screen.h
          /\ Screen \notin Unscalable
      BY Empty, ResolutionAssumption, UnscalableAssumption DEF SizeOf
    <3>2. \E i \in Given(request', "fb") : ~Exists(request'[i].value)
      BY <1>d, <2>3, <3>1 DEF Valid
    <3>3. Given(request, "fb")' = Given(request', "fb") /\ buffers' = buffers
      BY <1>u DEF Given
    <3> QED
      BY <2>1, <3>2, <3>3 DEF ExitAccount, Exists
  <2> QED
    BY <2>2, <2>3
<1>10. TypeOK'
  <2>1. plane'.fb \in Shown /\ plane'.src \in Sizes \cup {Screen}
    BY <1>e DEF Planes
  <2> QED
    BY <1>0, <1>a, <1>b, <1>u, <2>1 DEF TypeOK, MainPC, Generation
<1> QED
  BY <1>1, <1>2, <1>3, <1>4, <1>5, <1>6, <1>7, <1>8, <1>9, <1>10 DEF ResolutionInv


-----------------------------------------------------------------------------
(* The invariant.                                                          *)

\* The invariant holds before the first picture.
LEMMA ResolutionInit ==
  ASSUME Init
  PROVE  ResolutionInv
<1>1. /\ Generation = 0 /\ Len(output) = 0 /\ Len(unused) = 0 /\ Given(request, "fb") = {}
      /\ sizes \in Seq(Sizes) /\ output \in Seq(Frame) /\ unused \in Seq(1..MAX_FRAMES)
      /\ request \in Seq(Items)
  BY DEF Init, Generation, Given
<1>2. frame \in Frame /\ frame.kind = "none"
  BY FrameKinds DEF Init
<1>3. plane \in Planes /\ plane.fb = None /\ plane.src = Screen
  <2> DEFINE r == [x |-> 0, y |-> 0, w |-> 0, h |-> 0]
  <2>1. r \in Rectangle
    BY DEF Rectangle
  <2>2. plane = [crtc |-> FALSE, fb |-> None, src |-> Screen, dst |-> r, zpos |-> "initial"]
    BY DEF Init, Off
  <2> HIDE DEF r
  <2> QED
    BY <2>1, <2>2, Empty DEF Planes
<1>4. TypeOK
  <2>1. /\ fpc \in FramePC /\ dpc \in DisplayPC /\ decoder \in DecoderDoes /\ mpc \in MainPC
        /\ overlap \in BOOLEAN /\ buffers \subseteq 1..Generation /\ refs \subseteq 1..MAX_FRAMES
    BY DEF Init, FramePC, DisplayPC, DecoderDoes, MainPC
  <2>2. writing \in Shown /\ slot \in Shown /\ hand \in Shown /\ scanout \in Shown
    BY Empty DEF Init
  <2>3. started \in 0..MaxPictures /\ Generation <= MaxInfoChanges /\ Len(unused) <= MAX_FRAMES
    BY <1>1, ResolutionAssumption DEF Init
  <2> QED
    BY <1>1, <1>2, <1>3, <2>1, <2>2, <2>3, Empty DEF TypeOK
<1>5. RequestFits /\ FramesFit /\ PicturesFit
  BY <1>1, <1>2, <1>3, ResolutionAssumption
  DEF Init, RequestFits, FramesFit, PicturesFit, Modesetting
<1>6. BuffersOwned
  <2>1. Cardinality(refs) = 0
    BY FS_EmptySet DEF Init
  <2>2. FreeOnce /\ FreeIsFree /\ WrittenAlone /\ HandedOnce /\ NoneLost
    BY <1>1 DEF Init, FreeOnce, FreeIsFree, WrittenAlone, HandedOnce, NoneLost
  <2> QED
    BY <2>1, <2>2, ResolutionAssumption DEF BuffersOwned
<1>7. PostedFits
  <2>1. \A p \in Posted : p = None
    BY <1>1, <1>3 DEF Init, Posted
  <2>2. PostedBefore(None) /\ PostedFar(None)
    BY <1>1, <1>2, Empty DEF Init, PostedBefore, PostedFar
  <2> QED
    BY <2>1, <2>2 DEF PostedFits
<1>8. InHand /\ BuffersExist /\ Alone /\ ExitAccount
  BY <1>1, <1>3, Empty DEF Init, InHand, BuffersExist, Alone, InModeset, InCommit, Modesetting,
     ExitAccount
<1> QED
  BY <1>4, <1>5, <1>6, <1>7, <1>8 DEF ResolutionInv

\* And where nothing happens.
LEMMA ResolutionStutter ==
  ASSUME ResolutionInv, UNCHANGED vars
  PROVE  ResolutionInv'
<1>1. /\ UNCHANGED <<fpc, frame, sizes, decoder, unused, writing, refs, output, started>>
      /\ UNCHANGED <<slot, hand, dpc, request, overlap, plane, scanout, buffers, mpc>>
  BY DEF vars, decoderVars, frameVars, displayVars, kernelVars, requestVars
<1>2. TypeOK'
  BY <1>1 DEF ResolutionInv, TypeOK, Generation
<1> QED
  BY <1>1, <1>2, RequestFitsStays, FramesFitStays, PicturesFitStays, BuffersOwnedStays,
     PostedFitsStays, InHandStays, BuffersExistStays, AloneStays, ExitAccountStays
     DEF ResolutionInv

\* Every step of the threads, the decoder and the kernel keeps it.
LEMMA ResolutionStep ==
  ASSUME ResolutionInv, [Next]_vars
  PROVE  ResolutionInv'
<1>1. CASE Decoder
  BY <1>1, StartPictureStep, PictureDoneStep, DropReferenceStep, AnnounceSizeStep, FlushEndStep
     DEF Decoder
<1>2. CASE FrameBody
  BY <1>2, GetFrameStep, AllocateBuffersStep, RegisterGroupStep, PrepareCommitStep,
     TestCommitStep, ModesetCommitStep, PostStep, DeinitStep DEF FrameBody
<1>3. CASE DisplayBody
  BY <1>3, TakePictureStep, FillRequestStep, DisplayCommitStep, DisplayEndsStep DEF DisplayBody
<1>4. CASE VBlank
  BY <1>4, VBlankStep
<1>5. CASE MainBody
  BY <1>5, JoinThreadsStep, ReleaseBuffersStep, RestoreZposStep DEF MainBody
<1>6. CASE UNCHANGED vars
  BY <1>6, ResolutionStutter
<1> QED
  BY <1>1, <1>2, <1>3, <1>4, <1>5, <1>6 DEF Next

-----------------------------------------------------------------------------
\* The inductive invariant: who owns each buffer, how old the pictures on their way to
\* the screen are, and what the request holds, in every reachable state.
THEOREM ResolutionInvariance == Spec => []ResolutionInv
<1>1. Init => ResolutionInv
  BY ResolutionInit
<1>2. ResolutionInv /\ [Next]_vars => ResolutionInv'
  BY ResolutionStep
<1> QED
  BY <1>1, <1>2, PTL DEF Spec

\* The state is well formed; the decoder never has more free buffers than init_buffer
\* gave it (main.cpp:132-155).
THEOREM ResolutionTypeCorrect == Spec => []TypeOK
<1>1. ResolutionInv => TypeOK
  BY DEF ResolutionInv
<1> QED
  BY <1>1, ResolutionInvariance, PTL

\* A picture is shown in full and as large as its ratio allows, and the modeset is
\* refused only for a size the display cannot scale down, unless both threads were in
\* the middle of video_request (main.cpp:174-175).
THEOREM ShownCorrect == Spec => []ShownInFull
<1>1. ASSUME ResolutionInv PROVE ShownInFull
  <2> SUFFICES ASSUME ~overlap
               PROVE  /\ fpc = "aborted" => Source \in Unscalable
                      /\ plane.fb # None /\ plane.fb.gen = Generation => FullSize(SizeOf(plane.fb))
    BY DEF ShownInFull, FullSize
  <2>1. Alone /\ Generation \in Nat /\ mpc \in MainPC
    BY <1>1, Types DEF ResolutionInv, TypeOK
  <2>2. CASE Generation = 0
    <3>1. plane.fb # None => plane.fb = OsdBuffer /\ FullSize(Screen)
      BY <2>1, <2>2 DEF Alone
    <3>2. SizeOf(OsdBuffer) = Screen
      BY Empty DEF SizeOf
    <3> QED
      BY <2>1, <3>1, <3>2 DEF Alone
  <2>3. CASE Generation > 0
    <3>1. CASE fpc \in {"register", "aborted"} \cup Modesetting
      <4>1. plane.fb.gen < Generation
        BY <2>1, <3>1 DEF Alone
      <4> QED
        BY <2>1, <4>1 DEF Alone
    <3>2. CASE fpc \notin {"register", "aborted"} \cup Modesetting /\ mpc \in {"run", "release"}
      <4>1. FullSize(Source)
        BY <2>1, <2>3, <3>2 DEF Alone
      <4>2. plane.fb.gen = Generation => SizeOf(plane.fb) = Source
        BY <2>1, <2>3 DEF SizeOf, Source
      <4> QED
        BY <2>1, <4>1, <4>2 DEF Alone
    <3>3. CASE mpc \in {"restore", "exit"}
      BY <2>1, <2>3, <3>3 DEF Alone
    <3> QED
      BY <2>1, <3>1, <3>2, <3>3 DEF MainPC
  <2> QED
    BY <2>1, <2>2, <2>3
<1> QED
  BY <1>1, ResolutionInvariance, PTL

\* The decoder writes over a posted picture MAX_FRAMES - MaxRefs pictures later at the
\* earliest, for every number of buffers and references: the buffers go back first in
\* first out, and those not free hold later pictures (main.cpp:250).
THEOREM OverwriteCorrect == Spec => []OverwriteDistance
<1>1. ASSUME ResolutionInv PROVE OverwriteDistance
  <2> SUFFICES ASSUME writing # None, NEW p \in {slot, hand, plane.fb, scanout},
                      p.pic # 0, p.gen = writing.gen, p.buf = writing.buf
               PROVE  writing.pic - p.pic >= MAX_FRAMES - MaxRefs
    BY DEF OverwriteDistance
  <2>1. p \in Posted
    BY DEF Posted
  <2>2. PostedFar(p)
    BY <1>1, <2>1 DEF ResolutionInv, PostedFits
  <2>3. p.gen = Generation
    BY <1>1 DEF ResolutionInv, PicturesFit
  <2> QED
    BY <2>2, <2>3 DEF PostedFar
<1> QED
  BY <1>1, ResolutionInvariance, PTL

\* What is left at the exit, for any number of resolutions: the buffers of all but the
\* last, and the video plane back in its position unless the request that is left names
\* a buffer that is gone (main.cpp:763-785).
THEOREM ExitCorrect == Spec => []ExitAccount
<1>1. ResolutionInv => ExitAccount
  BY DEF ResolutionInv
<1> QED
  BY <1>1, ResolutionInvariance, PTL
=============================================================================
