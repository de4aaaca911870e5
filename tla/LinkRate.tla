------------------------------- MODULE LinkRate ------------------------------
(***************************************************************************)
(* The bandwidth of the link: the feed callback (src/main.cpp) sums the    *)
(* bytes of a second and stores them in the ring osd_vars.bw_stats, and    *)
(* modeset_paint_buffer (src/osd.c) averages the ring, with no lock, and   *)
(* with bw_curr read again for every entry.  The sum is not modelled: an   *)
(* average of a number of entries that are not zero is a number, and that  *)
(* of none is not.                                                         *)
(***************************************************************************)
EXTENDS Integers, Sequences

CONSTANTS
  RingSize,      \* entries of bw_stats (10)
  FrameSizes,    \* sizes a frame may have
  MaxFrames      \* bound: frames received

ASSUME LinkAssumption ==
  /\ RingSize \in Nat \ {0} /\ MaxFrames \in Nat /\ FrameSizes \subseteq Nat \ {0}

VARIABLES
  bw_curr, bw_stats, bytes_received,
  cpc,       \* where the callback is
  frames,    \* number of frames received
  totals,    \* history: the bytes received in all, at each end of a period
  total,     \* history: the bytes received in all
  rpc,       \* where the painting is
  i,         \* its index
  avg_cnt,   \* the entries it has added up
  stores,    \* history: the periods stored, in part or whole, during the painting
  measured   \* history: a period was stored before it

callbackVars == <<bw_curr, bw_stats, bytes_received, cpc, frames, totals, total>>
paintingVars == <<rpc, i, avg_cnt, measured>>
linkVars     == <<callbackVars, paintingVars, stores>>

Ring == 0..(RingSize - 1)

LinkInit ==
  /\ bw_curr = 0 /\ bw_stats = [k \in Ring |-> 0] /\ bytes_received = 0
  /\ cpc = "frame" /\ frames = 0 /\ totals = <<>> /\ total = 0
  /\ rpc = "idle" /\ i = 0 /\ avg_cnt = 0 /\ stores = 0 /\ measured = FALSE

-----------------------------------------------------------------------------
(* The callback                                                            *)

\* period_start is 0 at first, so that the first frame ends a period.
FrameArrives ==
  /\ cpc = "frame" /\ frames < MaxFrames
  /\ frames' = frames + 1
  /\ \E size \in FrameSizes :
       bytes_received' = bytes_received + size /\ total' = total + size
  /\ \/ cpc' = "advance"
     \/ totals # <<>> /\ UNCHANGED cpc
  /\ UNCHANGED <<bw_curr, bw_stats, totals, paintingVars, stores>>

Advance ==
  /\ cpc = "advance" /\ cpc' = "store"
  /\ bw_curr' = (bw_curr + 1) % RingSize
  /\ stores' = IF rpc = "idle" THEN stores ELSE stores + 1
  /\ UNCHANGED <<bw_stats, bytes_received, frames, totals, total, paintingVars>>

\* Mutant: the bytes of the period are not forgotten.
StoreKeepsBytes ==
  /\ cpc = "store" /\ cpc' = "frame"
  /\ bw_stats' = [bw_stats EXCEPT ![bw_curr] = bytes_received]
  /\ totals' = Append(totals, total)
  /\ UNCHANGED <<bw_curr, bytes_received, frames, total, paintingVars, stores>>

Store ==
  /\ cpc = "store" /\ cpc' = "frame"
  /\ bw_stats' = [bw_stats EXCEPT ![bw_curr] = bytes_received]
  /\ bytes_received' = 0
  /\ totals' = Append(totals, total)
  /\ UNCHANGED <<bw_curr, frames, total, paintingVars, stores>>

-----------------------------------------------------------------------------
(* The painting                                                            *)

\* Mutant: the loop starts at the entry after bw_curr, the oldest.
StartRateOldest ==
  /\ rpc = "idle" /\ rpc' = "test"
  /\ i' = bw_curr + 1 /\ avg_cnt' = 0
  /\ measured' = (totals # <<>>)
  /\ stores' = IF cpc = "store" THEN 1 ELSE 0
  /\ UNCHANGED callbackVars

StartRate ==
  /\ rpc = "idle" /\ rpc' = "test"
  /\ i' = bw_curr /\ avg_cnt' = 0
  /\ measured' = (totals # <<>>)
  /\ stores' = IF cpc = "store" THEN 1 ELSE 0
  /\ UNCHANGED callbackVars

TestIndex ==
  /\ rpc = "test"
  /\ rpc' = IF i < bw_curr + RingSize THEN "add" ELSE "shown"
  /\ UNCHANGED <<callbackVars, i, avg_cnt, measured, stores>>

\* The three reads of the entry are one: an entry is zero until it is not.
AddEntry ==
  /\ rpc = "add" /\ rpc' = "test"
  /\ avg_cnt' = IF bw_stats[i % RingSize] > 0 THEN avg_cnt + 1 ELSE avg_cnt
  /\ i' = i + 1
  /\ UNCHANGED <<callbackVars, measured, stores>>

RateShown ==
  /\ rpc = "shown" /\ rpc' = "idle"
  /\ i' = 0 /\ avg_cnt' = 0 /\ measured' = FALSE /\ stores' = 0
  /\ UNCHANGED callbackVars

LinkNext == \/ FrameArrives \/ Advance \/ Store
            \/ StartRate \/ TestIndex \/ AddEntry \/ RateShown

LinkSpec == LinkInit /\ [][LinkNext]_linkVars

-----------------------------------------------------------------------------
LinkTypeOK ==
  /\ bw_curr \in Ring /\ bw_stats \in [Ring -> Nat] /\ bytes_received \in Nat
  /\ cpc \in {"frame", "advance", "store"} /\ frames \in 0..MaxFrames
  /\ totals \in Seq(Nat) /\ total \in Nat
  /\ rpc \in {"idle", "test", "add", "shown"} /\ i \in Nat
  /\ avg_cnt \in Nat /\ stores \in Nat /\ measured \in BOOLEAN

PeriodBytes(n) == totals[n] - (IF n = 1 THEN 0 ELSE totals[n - 1])

\* Between two frames the ring has, counted back from bw_curr, the bytes of the
\* last periods, and every byte after them is in bytes_received: none is counted
\* twice or lost (main.cpp:429-436).
BytesCountedOnce ==
  LET n == Len(totals)
  IN  cpc = "frame" =>
        /\ bytes_received = total - (IF n = 0 THEN 0 ELSE totals[n])
        /\ \A k \in Ring :
             k < n => bw_stats[(bw_curr - k) % RingSize] = PeriodBytes(n - k)

\* Once a period was measured, the rate painted is a number, and no entry but one
\* is in it twice: as long as a painting is shorter than a period, although
\* bw_curr moves, and wraps, while the loop reads it (osd.c:97-109).
RateIsNumber ==
  rpc = "shown" /\ measured /\ stores <= 1 => avg_cnt \in 1..(RingSize + 1)

-----------------------------------------------------------------------------
(* What carries the proofs of both (ContentsProofs).                       *)

\* The entry k before entry c; the last one stored whole.
Back(c, k) == IF k <= c THEN c - k ELSE c - k + RingSize
Newest     == IF cpc = "store" THEN Back(bw_curr, 1) ELSE bw_curr

\* The ring and bytes_received have each byte once at every point of the callback.
BytesInRing ==
  LET n == Len(totals)
  IN  /\ bytes_received = total - (IF n = 0 THEN 0 ELSE totals[n])
      /\ \A k \in Ring : k < n => bw_stats[Back(Newest, k)] = PeriodBytes(n - k)

\* A period that was stored, or is about to be, has bytes in it.
PeriodsCount ==
  /\ totals # <<>> => bw_stats[Newest] > 0
  /\ cpc # "frame" => bytes_received > 0

\* The painting began at entry s, with a ring that was whole, or with one in which
\* the entry before is the last one stored and bw_curr will not move any more.
PaintingFrom(s) ==
  /\ i \in s..(s + RingSize + 1) /\ avg_cnt <= i - s
  /\ rpc = "add" => i <= s + RingSize
  /\ bw_curr \in {s, (s + 1) % RingSize}
  /\ stores = 0 => bw_curr = s /\ cpc # "store"
  /\ measured =>
       \/ /\ bw_stats[s] > 0
          /\ i > s => avg_cnt >= 1
          /\ rpc = "shown" => i > s
       \/ /\ stores = 1 /\ bw_curr = s /\ bw_stats[Back(s, 1)] > 0
          /\ i >= s + RingSize => avg_cnt >= 1
          /\ rpc = "shown" => i >= s + RingSize

LinkInv == /\ LinkTypeOK /\ BytesInRing /\ PeriodsCount
           /\ rpc # "idle" /\ stores <= 1 => \E s \in Ring : PaintingFrom(s)
=============================================================================
