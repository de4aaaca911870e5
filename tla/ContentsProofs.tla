---------------------------- MODULE ContentsProofs ---------------------------
(***************************************************************************)
(* Proofs about the contents of the OSD: DisplayStats, for an array and a  *)
(* refresh period of any size; LinkRate, for a ring of any size, frames of *)
(* any sizes and any interleaving of the callback with the painting;       *)
(* Telemetry, for any positions and messages; and Contents, which has all  *)
(* three.                                                                  *)
(***************************************************************************)
EXTENDS Contents, SequenceTheorems, TLAPS

-----------------------------------------------------------------------------
(* The latency window                                                      *)

\* The invariant of the latency window holds before the first picture.
LEMMA StatsInitial == StatsInit => StatsInv
  BY StatsAssumption DEF Indices, StatsInit, StatsInv, StatsTypeOK, PicturesCountedOnce

\* Consecutive numbers, continued.
LEMMA Continued ==
  ASSUME NEW S, NEW s \in Seq(S), NEW t \in Seq(S),
         \A k \in 1..Len(s) : s[k] = k - 1,
         \A k \in 1..Len(t) : t[k] = Len(s) + k - 1
  PROVE  \A k \in 1..(Len(s) + Len(t)) : (s \o t)[k] = k - 1
<1> DEFINE m == Len(s)
           n == Len(t)
<1>1. m \in Nat /\ n \in Nat
  OBVIOUS
<1>2. \A k \in 1..(m + n) : (s \o t)[k] = IF k <= m THEN s[k] ELSE t[k - m]
  BY ConcatProperties, Zenon
<1>3. /\ \A k \in 1..m : s[k] = k - 1
      /\ \A k \in 1..n : t[k] = m + k - 1
  BY Zenon
<1> HIDE DEF m, n
<1>4. ASSUME NEW k \in 1..(m + n) PROVE (s \o t)[k] = k - 1
  <2>1. CASE k <= m
    <3>1. k \in 1..m
      BY <1>1, <2>1
    <3> QED
      BY <1>2, <1>3, <2>1, <3>1, Zenon
  <2>2. CASE ~(k <= m)
    <3>1. k - m \in 1..n
      BY <1>1, <2>2
    <3>2. m + (k - m) - 1 = k - 1
      BY <1>1
    <3> QED
      BY <1>2, <1>3, <2>2, <3>1, <3>2, Zenon
  <2> QED
    BY <2>1, <2>2
<1> QED
  BY <1>4 DEF m, n

\* What a report appends are the numbers of the pictures that were not yet
\* averaged.
LEMMA ReportAppends ==
  StatsInv /\ averaged' = averaged \o Entries(frame_counter + 1)
    => /\ averaged' \in Seq(0..MaxPictures)
       /\ Len(averaged') = pictures + 1
       /\ \A k \in 1..(pictures + 1) : averaged'[k] = k - 1
<1> SUFFICES ASSUME StatsInv, averaged' = averaged \o Entries(frame_counter + 1)
             PROVE  /\ averaged' \in Seq(0..MaxPictures)
                    /\ Len(averaged') = pictures + 1
                    /\ \A k \in 1..(pictures + 1) : averaged'[k] = k - 1
  OBVIOUS
<1> USE StatsAssumption DEF Indices, StatsInv, StatsTypeOK, PicturesCountedOnce
<1> DEFINE E == Entries(frame_counter + 1)
<1>1. E \in Seq(0..MaxPictures) /\ Len(E) = frame_counter + 1
  BY DEF Entries
<1>2. /\ Len(averaged) \in Nat /\ frame_counter \in Nat /\ pictures \in Nat
      /\ Len(averaged) + frame_counter = pictures
  OBVIOUS
<1>3. ASSUME NEW k \in 1..(frame_counter + 1) PROVE E[k] = Len(averaged) + k - 1
  <2>1. E[k] = latency_avg[k - 1] /\ k - 1 \in 0..frame_counter
    BY DEF Entries
  <2>2. latency_avg[k - 1] = pictures - frame_counter + (k - 1)
    BY <2>1
  <2>3. pictures - frame_counter + (k - 1) = Len(averaged) + k - 1
    <3> HIDE DEF StatsInv, StatsTypeOK, PicturesCountedOnce
    <3> QED
      BY <1>2
  <2> QED
    BY <2>1, <2>2, <2>3, Zenon
<1>4. averaged \in Seq(0..MaxPictures) /\ \A k \in 1..Len(averaged) : averaged[k] = k - 1
  OBVIOUS
<1> HIDE DEF E, StatsInv, StatsTypeOK, PicturesCountedOnce
<1>5. Len(averaged) + (frame_counter + 1) = pictures + 1
  <2>1. \A a, b \in Nat : a + (b + 1) = (a + b) + 1
    OBVIOUS
  <2> QED
    BY <1>2, <2>1, Zenon
<1>6. \A k \in 1..Len(E) : E[k] = Len(averaged) + k - 1
  BY <1>1, <1>3, Zenon
<1>7. \A k \in 1..(Len(averaged) + Len(E)) : (averaged \o E)[k] = k - 1
  BY <1>1, <1>4, <1>6, Continued, Zenon
<1>8. /\ averaged \o E \in Seq(0..MaxPictures)
      /\ Len(averaged \o E) = Len(averaged) + Len(E)
  BY <1>1, <1>4, ConcatProperties, Zenon
<1>9. Len(averaged) + Len(E) = pictures + 1
  BY <1>1, <1>5, Zenon
<1> QED
  BY <1>7, <1>8, <1>9, Zenon DEF E

\* And every picture keeps it.
LEMMA StatsStep == StatsInv /\ [StatsNext]_statsVars => StatsInv'
<1> SUFFICES ASSUME StatsInv, [StatsNext]_statsVars PROVE StatsInv'
  OBVIOUS
<1> USE StatsAssumption DEF Indices, StatsInv, StatsTypeOK, PicturesCountedOnce
<1>1. CASE PictureCommitted /\ CountPicture
  <2>1. /\ pictures' = pictures + 1 /\ pictures' \in 0..MaxPictures
        /\ frame_counter' = frame_counter + 1 /\ frame_counter' <= PicturesPerPeriod
        /\ averaged' = averaged
    BY <1>1 DEF PictureCommitted, CountPicture
  <2>2. latency_avg' = [latency_avg EXCEPT ![frame_counter + 1] = pictures + 1]
    BY <1>1, <2>1 DEF PictureCommitted
  <2>3. StatsTypeOK' /\ PicturesCountedOnce'
    BY <2>1, <2>2
  <2>4. ASSUME NEW k \in 0..(frame_counter + 1)
        PROVE  latency_avg'[k] = pictures' - frame_counter' + k
    <3>1. CASE k = frame_counter + 1
      BY <2>1, <2>2, <3>1
    <3>2. CASE k \in 0..frame_counter
      BY <2>1, <2>2, <3>2
    <3> QED
      BY <3>1, <3>2
  <2> QED
    BY <2>1, <2>3, <2>4
<1>2. CASE PictureCommitted /\ Report
  <2>1. pictures' = pictures + 1 /\ pictures' \in 0..MaxPictures /\ frame_counter' = 0
    BY <1>2 DEF PictureCommitted, Report
  <2>2. latency_avg' = [latency_avg EXCEPT ![0] = pictures + 1]
    BY <1>2, <2>1 DEF PictureCommitted
  <2>3. /\ averaged' \in Seq(0..MaxPictures)
        /\ Len(averaged') = pictures + 1
        /\ \A k \in 1..(pictures + 1) : averaged'[k] = k - 1
    BY <1>2, ReportAppends DEF Report
  <2> QED
    BY <2>1, <2>2, <2>3
<1>3. CASE UNCHANGED statsVars
  BY <1>3 DEF statsVars
<1> QED
  BY <1>1, <1>2, <1>3 DEF StatsNext, PictureCommitted

\* The latency window, in every reachable state.
THEOREM StatsInvariance == StatsSpec => []StatsInv
  BY StatsInitial, StatsStep, PTL DEF StatsSpec

\* The index of latency_avg stays inside the array while no more pictures than
\* assumed come in a refresh period (main.cpp:337).
THEOREM StatsTypeCorrect == StatsSpec => []StatsTypeOK
  BY StatsInvariance, PTL DEF StatsInv

\* The latency of each picture is averaged in exactly one report
\* (main.cpp:305-337).
THEOREM CountedOnceCorrect == StatsSpec => []PicturesCountedOnce
  BY StatsInvariance, PTL DEF StatsInv

-----------------------------------------------------------------------------
(* The bandwidth ring                                                      *)

\* Indices a ring's length below, above or inside the ring, as the loop and the
\* callback compute them.
LEMMA ModuloInside ==
  ASSUME NEW R \in Nat \ {0}, NEW x \in 0..(R - 1) PROVE x % R = x
  OBVIOUS

\* Above the ring.
LEMMA ModuloAbove ==
  ASSUME NEW R \in Nat \ {0}, NEW x \in R..(2 * R - 1) PROVE x % R = x - R
  OBVIOUS

\* And below it.
LEMMA ModuloBelow ==
  ASSUME NEW R \in Nat \ {0}, NEW x \in (-R)..(-1) PROVE x % R = x + R
  OBVIOUS

\* The entry k before c is in the ring, and is the one the properties name.
LEMMA BackInRing ==
  ASSUME NEW c \in Ring, NEW k \in Ring
  PROVE  Back(c, k) \in Ring /\ (c - k) % RingSize = Back(c, k)
<1>1. RingSize \in Nat \ {0} /\ c \in 0..(RingSize - 1) /\ k \in 0..(RingSize - 1)
  BY LinkAssumption DEF Ring
<1>2. CASE k <= c
  <2>1. c - k \in 0..(RingSize - 1)
    BY <1>1, <1>2
  <2>2. (c - k) % RingSize = c - k
    BY <1>1, <2>1, ModuloInside, Zenon
  <2> QED
    BY <1>1, <1>2, <2>1, <2>2 DEF Back, Ring
<1>3. CASE ~(k <= c)
  <2>1. c - k \in (-RingSize)..(-1) /\ c - k + RingSize \in 0..(RingSize - 1)
    BY <1>1, <1>3
  <2>2. (c - k) % RingSize = c - k + RingSize
    BY <1>1, <2>1, ModuloBelow, Zenon
  <2> QED
    BY <1>1, <1>3, <2>1, <2>2 DEF Back, Ring
<1> QED
  BY <1>2, <1>3

\* Before the first entry is the last; what is k before an entry is k + 1 before
\* the next one.
LEMMA NextInRing ==
  ASSUME NEW c \in Ring
  PROVE  /\ (c + 1) % RingSize \in Ring
         /\ (c + 1) % RingSize = IF c + 1 = RingSize THEN 0 ELSE c + 1
         /\ Back((c + 1) % RingSize, 1) = c
<1>1. RingSize \in Nat \ {0} /\ c \in 0..(RingSize - 1)
  BY LinkAssumption DEF Ring
<1>2. (c + 1) % RingSize = IF c + 1 = RingSize THEN 0 ELSE c + 1
  <2>1. CASE c + 1 = RingSize
    <3>1. c + 1 \in RingSize..(2 * RingSize - 1) /\ c + 1 - RingSize = 0
      BY <1>1, <2>1
    <3>2. (c + 1) % RingSize = c + 1 - RingSize
      BY <1>1, <3>1, ModuloAbove
    <3> QED
      BY <2>1, <3>1, <3>2
  <2>2. CASE c + 1 # RingSize
    <3>1. c + 1 \in 0..(RingSize - 1)
      BY <1>1, <2>2
    <3>2. (c + 1) % RingSize = c + 1
      BY <1>1, <3>1, ModuloInside, Zenon
    <3> QED
      BY <2>2, <3>2
  <2> QED
    BY <2>1, <2>2
<1> QED
  BY <1>1, <1>2 DEF Ring, Back

\* The entry k + 1 before c is k before the one before c, and is another than c.
LEMMA BackTwice ==
  ASSUME NEW c \in Ring, NEW k \in Ring, k >= 1
  PROVE  /\ k - 1 \in Ring
         /\ Back(c, k) = Back(Back(c, 1), k - 1)
         /\ Back(c, k) # c
         /\ Back(c, 1) \in Ring
  BY LinkAssumption DEF Ring, Back

\* An append to the totals leaves the bytes of the earlier periods.
LEMMA TotalsGrow ==
  ASSUME NEW s \in Seq(Nat), NEW x \in Nat
  PROVE  /\ Append(s, x) \in Seq(Nat) /\ Append(s, x) # <<>>
         /\ Len(s) \in Nat /\ Len(Append(s, x)) = Len(s) + 1
         /\ \A k \in 1..Len(s) : Append(s, x)[k] = s[k] /\ s[k] \in Nat
         /\ Append(s, x)[Len(s) + 1] = x
         /\ s = <<>> <=> Len(s) = 0
  OBVIOUS

\* The invariant of the ring holds before the first frame.
LEMMA LinkInitial == LinkInit => LinkInv
<1> SUFFICES ASSUME LinkInit PROVE LinkInv
  OBVIOUS
<1>1. totals = <<>> /\ Len(totals) = 0 /\ totals \in Seq(Nat) /\ \A k \in Ring : ~(k < 0)
  BY LinkAssumption DEF LinkInit, Ring
<1>2. LinkTypeOK
  <2>1. /\ measured \in BOOLEAN /\ cpc = "frame" /\ rpc = "idle"
        /\ bw_stats = [k \in Ring |-> 0] /\ bw_curr = 0 /\ bytes_received = 0
        /\ frames = 0 /\ total = 0 /\ i = 0 /\ avg_cnt = 0 /\ stores = 0
    BY DEF LinkInit
  <2> QED
    BY <1>1, <2>1, LinkAssumption DEF LinkTypeOK, Ring
<1>3. BytesInRing
  BY <1>1 DEF LinkInit, BytesInRing
<1> QED
  BY <1>1, <1>2, <1>3 DEF LinkInit, LinkInv, PeriodsCount

\* A frame adds its bytes to what is not stored yet.
LEMMA FrameArrivesStep == LinkInv /\ FrameArrives => LinkInv'
<1> SUFFICES ASSUME LinkInv, FrameArrives PROVE LinkInv'
  OBVIOUS
<1>0. LinkTypeOK /\ BytesInRing /\ PeriodsCount
  BY DEF LinkInv
<1>u. UNCHANGED <<bw_curr, bw_stats, totals, rpc, i, avg_cnt, measured, stores>>
  BY DEF FrameArrives, paintingVars
<1>c. cpc = "frame" /\ cpc' \in {"frame", "advance"} /\ Newest' = Newest
  BY <1>u DEF FrameArrives, Newest, Back
<1>b. PICK size \in FrameSizes :
        bytes_received' = bytes_received + size /\ total' = total + size
  BY DEF FrameArrives
<1>n. /\ size \in Nat \ {0} /\ bytes_received \in Nat /\ total \in Nat /\ Len(totals) \in Nat
      /\ totals \in Seq(Nat) /\ frames' \in 0..MaxFrames
  BY <1>0, LinkAssumption DEF LinkTypeOK, FrameArrives
<1>1. LinkTypeOK'
  BY <1>0, <1>b, <1>c, <1>n, <1>u DEF LinkTypeOK
<1>2. BytesInRing'
  <2> DEFINE last == IF Len(totals) = 0 THEN 0 ELSE totals[Len(totals)]
  <2>1. last \in Nat /\ last' = last
    BY <1>n, <1>u
  <2>2. bytes_received = total - last
    BY <1>0 DEF BytesInRing
  <2>3. bytes_received' = total' - last'
    <3> HIDE DEF last
    <3> QED
      BY <1>b, <1>n, <2>1, <2>2
  <2>4. \A k \in Ring : k < Len(totals) => bw_stats[Back(Newest, k)]' = PeriodBytes(Len(totals) - k)'
    BY <1>0, <1>c, <1>u DEF BytesInRing, PeriodBytes, Back
  <2> QED
    BY <1>u, <2>3, <2>4 DEF BytesInRing, Ring
<1>3. PeriodsCount'
  BY <1>0, <1>b, <1>c, <1>n, <1>u DEF PeriodsCount
<1>4. ASSUME rpc' # "idle", stores' <= 1 PROVE (\E s \in Ring : PaintingFrom(s))'
  BY <1>4, <1>c, <1>u DEF LinkInv, PaintingFrom, Ring, Back
<1> QED
  BY <1>1, <1>2, <1>3, <1>4 DEF LinkInv

\* bw_curr moves on; the last period stored is the one before it until the next
\* is stored.
LEMMA AdvanceStep == LinkInv /\ Advance => LinkInv'
<1> SUFFICES ASSUME LinkInv, Advance PROVE LinkInv'
  OBVIOUS
<1>0. LinkTypeOK /\ BytesInRing /\ PeriodsCount
  BY DEF LinkInv
<1>u. UNCHANGED <<bw_stats, bytes_received, frames, totals, total, rpc, i, avg_cnt, measured>>
  BY DEF Advance, paintingVars
<1>c. /\ cpc = "advance" /\ cpc' = "store" /\ bw_curr' = (bw_curr + 1) % RingSize
      /\ stores' = IF rpc = "idle" THEN stores ELSE stores + 1
      /\ bw_curr \in Ring /\ stores \in Nat
  BY <1>0 DEF Advance, LinkTypeOK
<1>n. bw_curr' \in Ring /\ Newest' = Newest
  BY <1>c, NextInRing DEF Newest, Back
<1>1. LinkTypeOK'
  BY <1>0, <1>c, <1>n, <1>u DEF LinkTypeOK, Ring
<1>2. BytesInRing'
  BY <1>0, <1>n, <1>u DEF BytesInRing, PeriodBytes, Back, Ring
<1>3. PeriodsCount'
  BY <1>0, <1>c, <1>n, <1>u DEF PeriodsCount
<1>4. ASSUME rpc' # "idle", stores' <= 1 PROVE (\E s \in Ring : PaintingFrom(s))'
  <2>1. stores = 0 /\ stores' = 1 /\ rpc # "idle"
    BY <1>4, <1>c, <1>u
  <2>2. PICK s \in Ring : PaintingFrom(s)
    BY <2>1 DEF LinkInv
  <2>3. bw_curr' = (s + 1) % RingSize
    BY <1>c, <2>1, <2>2 DEF PaintingFrom
  <2>4. PaintingFrom(s)'
    BY <1>u, <2>1, <2>2, <2>3 DEF PaintingFrom, Back
  <2> QED
    BY <2>2, <2>4 DEF Ring
<1> QED
  BY <1>1, <1>2, <1>3, <1>4 DEF LinkInv

\* The bytes of the period go into the ring and are forgotten where they were.
LEMMA StoreStep == LinkInv /\ Store => LinkInv'
<1> SUFFICES ASSUME LinkInv, Store PROVE LinkInv'
  OBVIOUS
<1>0. LinkTypeOK /\ BytesInRing /\ PeriodsCount
  BY DEF LinkInv
<1>u. UNCHANGED <<bw_curr, frames, total, rpc, i, avg_cnt, measured, stores>>
  BY DEF Store, paintingVars
<1>c. /\ cpc = "store" /\ cpc' = "frame" /\ bytes_received' = 0
      /\ bw_stats' = [bw_stats EXCEPT ![bw_curr] = bytes_received]
      /\ totals' = Append(totals, total)
      /\ bw_curr \in Ring /\ bw_stats \in [Ring -> Nat]
      /\ bytes_received \in Nat /\ bytes_received > 0 /\ total \in Nat
  BY <1>0 DEF Store, LinkTypeOK, PeriodsCount
<1>n. Newest' = bw_curr /\ Newest = Back(bw_curr, 1)
  BY <1>c, <1>u DEF Newest
<1> DEFINE n == Len(totals)
<1>t. /\ totals' \in Seq(Nat) /\ totals' # <<>> /\ n \in Nat /\ n' = n + 1
      /\ \A k \in 1..n : totals'[k] = totals[k] /\ totals[k] \in Nat
      /\ totals'[n + 1] = total
      /\ totals = <<>> <=> n = 0
  BY <1>0, <1>c, TotalsGrow DEF LinkTypeOK
<1>l. Len(totals') = n + 1
  BY <1>t
<1> DEFINE After(k) == totals'[k] - (IF k = 1 THEN 0 ELSE totals'[k - 1])
<1>p. /\ \A k \in 1..n : After(k) = PeriodBytes(k)
      /\ After(n + 1) = bytes_received
  <2>1. \A k \in 1..n : k # 1 => k - 1 \in 1..n
    BY <1>t
  <2>2. \A k \in 1..n : After(k) = PeriodBytes(k)
    BY <1>t, <2>1 DEF PeriodBytes
  <2>3. bytes_received = total - (IF n = 0 THEN 0 ELSE totals[n])
    BY <1>0 DEF BytesInRing
  <2>4. n # 0 => n + 1 # 1 /\ (n + 1) - 1 = n /\ n \in 1..n
    BY <1>t
  <2>5. After(n + 1) = total - (IF n = 0 THEN 0 ELSE totals[n])
    BY <1>t, <2>4
  <2> QED
    BY <2>2, <2>3, <2>5
<1>s. \A k \in Ring : bw_stats'[k] = IF k = bw_curr THEN bytes_received ELSE bw_stats[k]
  BY <1>c
<1>a. \A k \in 1..(n + 1) : PeriodBytes(k)' = After(k)
  BY DEF PeriodBytes
<1> HIDE DEF n, After
<1>1. LinkTypeOK'
  BY <1>0, <1>c, <1>t, <1>u DEF LinkTypeOK, Ring
<1>2. BytesInRing'
  <2>1. bytes_received' = total' - (IF n' = 0 THEN 0 ELSE totals'[n'])
    BY <1>c, <1>t, <1>u
  <2>2. ASSUME NEW k \in Ring, k < Len(totals')
        PROVE  bw_stats'[Back(bw_curr, k)] = After(Len(totals') - k)
    <3>0. k \in Nat
      BY LinkAssumption DEF Ring
    <3>1. CASE k = 0
      <4>1. Back(bw_curr, k) = bw_curr /\ Len(totals') - k = n + 1
        BY <1>c, <1>l, <1>t, <3>1, LinkAssumption DEF Back, Ring
      <4>2. bw_stats'[bw_curr] = bytes_received
        BY <1>c, <1>s
      <4> QED
        BY <1>p, <4>1, <4>2, Zenon
    <3>2. CASE k # 0
      <4>1. /\ k - 1 \in Ring /\ Back(bw_curr, k) = Back(Newest, k - 1)
            /\ Back(bw_curr, k) # bw_curr /\ Back(bw_curr, k) \in Ring
        BY <1>c, <1>n, <3>0, <3>2, BackTwice, BackInRing
      <4>2. k - 1 < n /\ n - (k - 1) \in 1..n /\ Len(totals') - k = n - (k - 1)
        BY <1>l, <1>t, <2>2, <3>0, <3>2
      <4>3. bw_stats[Back(Newest, k - 1)] = PeriodBytes(n - (k - 1))
        BY <1>0, <4>1, <4>2 DEF BytesInRing, n
      <4>4. bw_stats'[Back(bw_curr, k)] = bw_stats[Back(bw_curr, k)]
        BY <1>s, <4>1
      <4>5. After(Len(totals') - k) = PeriodBytes(n - (k - 1))
        BY <1>p, <4>2
      <4> QED
        BY <4>1, <4>3, <4>4, <4>5, Zenon
    <3> QED
      BY <3>1, <3>2
  <2>3. \A k \in Ring : Back(Newest, k)' = Back(bw_curr, k)
    BY <1>n DEF Back
  <2>4. \A k \in Ring : PeriodBytes(Len(totals) - k)' = After(Len(totals') - k)
    BY DEF PeriodBytes, After
  <2>5. ASSUME NEW k \in Ring, k < Len(totals')
        PROVE  bw_stats'[Back(Newest, k)'] = PeriodBytes(Len(totals) - k)'
    <3>1. bw_stats'[Back(bw_curr, k)] = After(Len(totals') - k)
      BY <2>2, <2>5, Zenon
    <3> QED
      BY <2>3, <2>4, <3>1, Zenon
  <2> QED
    BY <2>1, <2>5 DEF BytesInRing, n, Ring
<1>3. PeriodsCount'
  BY <1>c, <1>n, <1>s DEF PeriodsCount
<1>4. ASSUME rpc' # "idle", stores' <= 1 PROVE (\E s \in Ring : PaintingFrom(s))'
  <2>1. PICK s \in Ring : PaintingFrom(s)
    BY <1>4, <1>u DEF LinkInv
  <2>2. Back(s, 1) \in Ring
    BY LinkAssumption DEF Back, Ring
  <2>3. /\ bw_stats[s] > 0 => bw_stats'[s] > 0
        /\ bw_stats[Back(s, 1)] > 0 => bw_stats'[Back(s, 1)] > 0
    BY <1>c, <1>s, <2>2
  <2>4. stores # 0
    BY <1>c, <2>1 DEF PaintingFrom
  <2>5. PaintingFrom(s)'
    BY <1>u, <2>1, <2>3, <2>4 DEF PaintingFrom, Back
  <2> QED
    BY <2>5 DEF Ring
<1> QED
  BY <1>1, <1>2, <1>3, <1>4 DEF LinkInv

\* A step of the painting leaves what the callback keeps.
LEMMA RingStays ==
  ASSUME LinkInv, UNCHANGED callbackVars
  PROVE  BytesInRing' /\ PeriodsCount'
  BY DEF LinkInv, BytesInRing, PeriodsCount, PeriodBytes, Newest, Back, Ring, callbackVars

\* The painting begins at bw_curr, whatever the callback is doing.
LEMMA StartRateStep == LinkInv /\ StartRate => LinkInv'
<1> SUFFICES ASSUME LinkInv, StartRate PROVE LinkInv'
  OBVIOUS
<1>0. LinkTypeOK /\ PeriodsCount
  BY DEF LinkInv
<1>u. UNCHANGED callbackVars
  BY DEF StartRate
<1>c. /\ rpc' = "test" /\ i' = bw_curr /\ avg_cnt' = 0 /\ measured' = (totals # <<>>)
      /\ stores' = IF cpc = "store" THEN 1 ELSE 0
  BY DEF StartRate
<1>b. UNCHANGED <<bw_curr, bw_stats, bytes_received, cpc, frames, totals, total>>
  BY <1>u DEF callbackVars
<1>n. bw_curr \in Ring /\ bw_curr \in Nat /\ RingSize \in Nat \ {0} /\ bw_curr < RingSize
  BY <1>0, LinkAssumption DEF LinkTypeOK, Ring
<1>1. LinkTypeOK'
  <2>1. measured' \in BOOLEAN
    BY <1>c
  <2> QED
    BY <1>0, <1>b, <1>c, <1>n, <2>1 DEF LinkTypeOK, Ring
<1>2. BytesInRing' /\ PeriodsCount'
  BY <1>u, RingStays
<1>3. PaintingFrom(bw_curr)'
  <2>1. totals # <<>> /\ cpc = "store" => bw_stats[Back(bw_curr, 1)] > 0
    BY <1>0 DEF PeriodsCount, Newest
  <2>2. totals # <<>> /\ cpc # "store" => bw_stats[bw_curr] > 0
    BY <1>0 DEF PeriodsCount, Newest
  <2>3. /\ i' \in bw_curr..(bw_curr + RingSize + 1) /\ avg_cnt' <= i' - bw_curr
        /\ rpc' # "add" /\ rpc' # "shown" /\ ~(i' > bw_curr) /\ ~(i' >= bw_curr + RingSize)
    BY <1>c, <1>n
  <2>4. stores' = 0 => cpc # "store"
    BY <1>c
  <2>5. measured' => bw_stats[bw_curr] > 0 \/ (stores' = 1 /\ bw_stats[Back(bw_curr, 1)] > 0)
    BY <1>c, <2>1, <2>2
  <2> QED
    BY <1>b, <2>3, <2>4, <2>5 DEF PaintingFrom, Back
<1> QED
  BY <1>1, <1>2, <1>3, <1>n, <1>b, <1>c DEF LinkInv, Ring

\* The end of the loop is where bw_curr is now, at most one entry on.
LEMMA TestIndexStep == LinkInv /\ TestIndex => LinkInv'
<1> SUFFICES ASSUME LinkInv, TestIndex PROVE LinkInv'
  OBVIOUS
<1>0. LinkTypeOK
  BY DEF LinkInv
<1>u. UNCHANGED callbackVars /\ UNCHANGED <<i, avg_cnt, measured, stores>>
  BY DEF TestIndex
<1>b. UNCHANGED <<bw_curr, bw_stats, bytes_received, cpc, frames, totals, total>>
  BY <1>u DEF callbackVars
<1>c. rpc = "test" /\ rpc' = IF i < bw_curr + RingSize THEN "add" ELSE "shown"
  BY DEF TestIndex
<1>n. /\ bw_curr \in Nat /\ RingSize \in Nat \ {0} /\ bw_curr < RingSize /\ i \in Nat
      /\ bw_curr \in Ring
  BY <1>0, LinkAssumption DEF LinkTypeOK, Ring
<1>1. LinkTypeOK'
  BY <1>0, <1>b, <1>c, <1>u DEF LinkTypeOK, Ring
<1>2. BytesInRing' /\ PeriodsCount'
  BY <1>u, RingStays
<1>3. ASSUME rpc' # "idle", stores' <= 1 PROVE (\E s \in Ring : PaintingFrom(s))'
  <2>1. PICK s \in Ring : PaintingFrom(s)
    BY <1>3, <1>c, <1>u DEF LinkInv
  <2>2. s \in Nat /\ s < RingSize
    BY LinkAssumption DEF Ring
  <2>3. bw_curr \in {s, IF s + 1 = RingSize THEN 0 ELSE s + 1}
    BY <2>1, NextInRing DEF PaintingFrom
  <2>4. rpc' = "add" => i <= s + RingSize
    BY <1>c, <1>n, <2>2, <2>3
  <2>5. rpc' = "shown" => i > s /\ (bw_curr = s => i >= s + RingSize)
    BY <1>c, <1>n, <2>2, <2>3
  <2>6. PaintingFrom(s)'
    BY <1>b, <1>u, <2>1, <2>4, <2>5 DEF PaintingFrom, Back
  <2> QED
    BY <2>6 DEF Ring
<1> QED
  BY <1>1, <1>2, <1>3 DEF LinkInv

\* The first entry is the last one stored whole, or the one before the first is
\* and will be read last.
LEMMA AddEntryStep == LinkInv /\ AddEntry => LinkInv'
<1> SUFFICES ASSUME LinkInv, AddEntry PROVE LinkInv'
  OBVIOUS
<1>0. LinkTypeOK
  BY DEF LinkInv
<1>u. UNCHANGED callbackVars /\ UNCHANGED <<measured, stores>>
  BY DEF AddEntry
<1>b. UNCHANGED <<bw_curr, bw_stats, bytes_received, cpc, frames, totals, total>>
  BY <1>u DEF callbackVars
<1>c. /\ rpc = "add" /\ rpc' = "test" /\ i' = i + 1
      /\ avg_cnt' = IF bw_stats[i % RingSize] > 0 THEN avg_cnt + 1 ELSE avg_cnt
  BY DEF AddEntry
<1>n. RingSize \in Nat \ {0} /\ i \in Nat /\ avg_cnt \in Nat
  BY <1>0, LinkAssumption DEF LinkTypeOK
<1>1. LinkTypeOK'
  BY <1>0, <1>b, <1>c, <1>n, <1>u DEF LinkTypeOK, Ring
<1>2. BytesInRing' /\ PeriodsCount'
  BY <1>u, RingStays
<1>3. ASSUME rpc' # "idle", stores' <= 1 PROVE (\E s \in Ring : PaintingFrom(s))'
  <2>1. PICK s \in Ring : PaintingFrom(s)
    BY <1>3, <1>c, <1>u DEF LinkInv
  <2>2. s \in 0..(RingSize - 1) /\ s \in Nat
    BY LinkAssumption DEF Ring
  <2>3. i = s => i % RingSize = s
    BY <1>n, <2>2, ModuloInside, Zenon
  <2>4. i = s + RingSize - 1 => i % RingSize = Back(s, 1)
    <3> SUFFICES ASSUME i = s + RingSize - 1 PROVE i % RingSize = Back(s, 1)
      OBVIOUS
    <3>1. CASE s = 0
      <4>1. i \in 0..(RingSize - 1) /\ Back(s, 1) = i
        BY <1>n, <3>1 DEF Back
      <4> QED
        BY <1>n, <4>1, ModuloInside, Zenon
    <3>2. CASE s # 0
      <4>1. i \in RingSize..(2 * RingSize - 1) /\ Back(s, 1) = i - RingSize
        BY <1>n, <2>2, <3>2 DEF Back
      <4> QED
        BY <1>n, <4>1, ModuloAbove, Zenon
    <3> QED
      BY <3>1, <3>2
  <2>5. i \in s..(s + RingSize) /\ avg_cnt <= i - s
    BY <1>c, <1>n, <2>1, <2>2 DEF PaintingFrom
  <2>6. /\ i' \in s..(s + RingSize + 1) /\ avg_cnt' <= i' - s
        /\ avg_cnt' \in Nat /\ avg_cnt' >= avg_cnt
    BY <1>c, <1>n, <2>2, <2>5
  <2>7. bw_stats[s] > 0 /\ (i > s => avg_cnt >= 1) => avg_cnt' >= 1
    BY <1>c, <1>n, <2>2, <2>3, <2>5
  <2>8. bw_stats[Back(s, 1)] > 0 /\ (i >= s + RingSize => avg_cnt >= 1)
          => (i' >= s + RingSize => avg_cnt' >= 1)
    BY <1>c, <1>n, <2>2, <2>4, <2>5
  <2>9. PaintingFrom(s)'
    BY <1>b, <1>c, <1>u, <2>1, <2>6, <2>7, <2>8 DEF PaintingFrom, Back
  <2> QED
    BY <2>9 DEF Ring
<1> QED
  BY <1>1, <1>2, <1>3 DEF LinkInv

\* Between two paintings only the ring is left.
LEMMA RateShownStep == LinkInv /\ RateShown => LinkInv'
<1> SUFFICES ASSUME LinkInv, RateShown PROVE LinkInv'
  OBVIOUS
<1>u. /\ UNCHANGED callbackVars /\ rpc' = "idle"
      /\ i' = 0 /\ avg_cnt' = 0 /\ measured' = FALSE /\ stores' = 0
  BY DEF RateShown
<1>1. LinkTypeOK'
  <2>1. measured' \in BOOLEAN
    BY <1>u
  <2> QED
    BY <1>u, <2>1 DEF LinkInv, LinkTypeOK, Ring, callbackVars
<1>2. BytesInRing' /\ PeriodsCount'
  BY <1>u, RingStays
<1> QED
  BY <1>1, <1>2, <1>u DEF LinkInv

\* Every step of the callback and of the painting keeps the invariant of the ring.
LEMMA LinkStep == LinkInv /\ [LinkNext]_linkVars => LinkInv'
<1>1. LinkInv /\ UNCHANGED linkVars => LinkInv'
  BY DEF LinkInv, LinkTypeOK, BytesInRing, PeriodsCount, PeriodBytes, Newest, Back, Ring,
         PaintingFrom, linkVars, callbackVars, paintingVars
<1> QED
  BY <1>1, FrameArrivesStep, AdvanceStep, StoreStep, StartRateStep, TestIndexStep,
     AddEntryStep, RateShownStep DEF LinkNext

\* The ring, the callback and the painting, in every reachable state.
THEOREM LinkInvariance == LinkSpec => []LinkInv
  BY LinkInitial, LinkStep, PTL DEF LinkSpec

\* No byte is counted twice or lost, for a ring of any size (main.cpp:429-436).
THEOREM BytesCorrect == LinkSpec => []BytesCountedOnce
<1>1. ASSUME LinkInv PROVE BytesCountedOnce
  <2> SUFFICES ASSUME cpc = "frame"
               PROVE  LET n == Len(totals)
                      IN  /\ bytes_received = total - (IF n = 0 THEN 0 ELSE totals[n])
                          /\ \A k \in Ring : k < n =>
                               bw_stats[(bw_curr - k) % RingSize] = PeriodBytes(n - k)
    BY DEF BytesCountedOnce
  <2>1. Newest = bw_curr /\ bw_curr \in Ring /\ BytesInRing
    BY <1>1 DEF Newest, LinkInv, LinkTypeOK
  <2> QED
    BY <2>1, BackInRing DEF BytesInRing
<1> QED
  BY <1>1, LinkInvariance, PTL

\* The rate painted is a number although the ring moves while it is read
\* (osd.c:97-109).
THEOREM RateCorrect == LinkSpec => []RateIsNumber
<1>1. ASSUME LinkInv PROVE RateIsNumber
  <2> SUFFICES ASSUME rpc = "shown", measured, stores <= 1
               PROVE  avg_cnt \in 1..(RingSize + 1)
    BY DEF RateIsNumber
  <2>1. PICK s \in Ring : PaintingFrom(s)
    BY <1>1 DEF LinkInv
  <2>2. RingSize \in Nat \ {0} /\ s \in Nat /\ avg_cnt \in Nat /\ i \in Nat
    BY <1>1, LinkAssumption DEF Ring, LinkInv, LinkTypeOK
  <2>3. avg_cnt <= i - s /\ i <= s + RingSize + 1
    BY <2>1, <2>2 DEF PaintingFrom
  <2>4. avg_cnt >= 1
    BY <2>1, <2>2 DEF PaintingFrom
  <2> QED
    BY <2>2, <2>3, <2>4
<1> QED
  BY <1>1, LinkInvariance, PTL

-----------------------------------------------------------------------------
(* The positions                                                           *)

\* The numbers of the table.
LEMMA TenIs ==
  /\ Tens[1] = 10 /\ Tens[2] = 100 /\ Tens[3] = 1000 /\ Tens[4] = 10000 /\ Tens[5] = 100000
  /\ Tens[6] = 1000000 /\ Tens[7] = 10000000 /\ Tens[8] = 100000000 /\ Tens[9] = 1000000000
  BY SMT DEF Tens

\* How many digits a coordinate has.
LEMMA DigitsFound ==
  ASSUME NEW v \in Nat, v <= 999999999
  PROVE  /\ Digits(v) \in 1..9
         /\ v <= 9999999 => Digits(v) \in 1..7
         /\ v >= 1000000 /\ v <= 9999999 => Digits(v) = 7
<1> DEFINE Has(n) == v < Tens[n] /\ (n = 1 \/ v >= Tens[n - 1])
<1>1. \E n \in 1..9 : Has(n)
  BY TenIs, SMT
<1>2. Digits(v) = CHOOSE n \in 1..9 : Has(n)
  BY SMT DEF Digits
<1>3. Digits(v) \in 1..9 /\ Has(Digits(v))
  <2> HIDE DEF Has
  <2> QED
    BY <1>1, <1>2, SMT
<1>4. ASSUME NEW n \in 1..9, Has(n)
      PROVE  /\ v <= 9999999 => n \in 1..7
             /\ v >= 1000000 /\ v <= 9999999 => n = 7
  BY <1>4, TenIs, SMT
<1> QED
  BY <1>3, <1>4, SMT

\* What is read from a coordinate is a number, and is the coordinate where it is 0
\* or has seven, eight or nine digits.
LEMMA DegreesRead ==
  ASSUME NEW v \in Int
  PROVE  /\ Degrees(v) \in Int
         /\ v = 0 \/ (v >= 1000000 /\ v <= 999999999) => Degrees(v) = v
<1> DEFINE d == Digits(v)
<1>1. CASE v < 0
  BY <1>1, SMT DEF Degrees
<1>2. CASE v >= 0 /\ v <= 9999999
  <2>1. v \in Nat /\ d \in 1..7 /\ (v >= 1000000 => d = 7)
    BY <1>2, DigitsFound, SMT
  <2> HIDE DEF d
  <2>2. /\ 10000000 \div Tens[d] \in Int
        /\ d = 7 => 10000000 \div Tens[d] = 1
    BY <2>1, TenIs, SMT
  <2>3. Degrees(v) = v * (10000000 \div Tens[d])
    BY <1>2, SMT DEF Degrees, d
  <2> QED
    BY <2>1, <2>2, <2>3, SMT
<1>3. CASE v > 9999999 /\ v <= 999999999
  <2>1. d \in 1..9
    BY <1>3, DigitsFound, SMT
  <2> HIDE DEF d
  <2> QED
    BY <1>3, <2>1, SMT DEF Degrees, d
<1>4. CASE v > 999999999
  BY <1>4, SMT DEF Degrees
<1> QED
  BY <1>1, <1>2, <1>3, <1>4, SMT

\* The same for the two coordinates of a position.
LEMMA ScaledPoint ==
  /\ \A p \in Points : Scaled(p) \in Points
  /\ \A p \in Points : Convertible(p) => Scaled(p) = p
  /\ Zero \in Points /\ Scaled(Zero) = Zero
<1>1. ASSUME NEW p \in Points, Convertible(p) PROVE Scaled(p) = p
  <2>1. p.lat \in Int /\ p.lon \in Int
    BY SMT DEF Points
  <2>2. \A v \in {p.lat, p.lon} : v = 0 \/ (v >= 1000000 /\ v <= 999999999)
    BY <1>1, SMT DEF Convertible
  <2>3. Degrees(p.lat) = p.lat /\ Degrees(p.lon) = p.lon
    BY <2>1, <2>2, DegreesRead, SMT
  <2> QED
    BY <2>3, SMT DEF Scaled, Points
<1>2. \A p \in Points : Scaled(p) \in Points
  BY DegreesRead, SMT DEF Points, Scaled
<1>3. Zero \in Points /\ Scaled(Zero) = Zero
  BY DegreesRead, SMT DEF Points, Scaled, Zero
<1> QED
  BY <1>1, <1>2, <1>3, Zenon

\* The invariant of the positions holds before the first message.
LEMMA TelemetryInitial == TelemetryInit => TelemetryInv
  BY ScaledPoint, TelemetryAssumption DEF TelemetryInit, TelemetryInv, TelemetryTypeOK

\* A fix with the channel up is the home position if it is the first one.
LEMMA FixStep == TelemetryInv /\ GpsRawInt => TelemetryInv'
<1> SUFFICES ASSUME TelemetryInv, GpsRawInt PROVE TelemetryInv'
  OBVIOUS
<1>0. /\ running \in BOOLEAN /\ telemetry_arm \in {0} \cup ArmChannel
      /\ telemetry_base \in Points /\ here \in Points /\ home \in Points
      /\ firstArmed \in Points /\ lastArmed \in Points
      /\ here = Scaled(lastArmed) /\ home = Scaled(firstArmed)
      /\ telemetry_base = firstArmed
  BY DEF TelemetryInv, TelemetryTypeOK
<1>u. /\ UNCHANGED <<running, telemetry_arm>> /\ telemetry_distance' = <<here', home'>>
      /\ messages' \in 0..MaxMessages
  BY TelemetryAssumption DEF GpsRawInt, Receive, TelemetryInv, TelemetryTypeOK
<1>p. PICK p \in Fixes : telemetry_position' = p /\ (ArmedFix(p) \/ UnarmedFix)
  BY DEF GpsRawInt
<1>q. p \in Points
  BY TelemetryAssumption DEF Points
<1>1. CASE ArmedFix(p)
  <2>1. /\ telemetry_base' = IF armed THEN telemetry_base ELSE p
        /\ firstArmed' = IF armed THEN firstArmed ELSE p
        /\ lastArmed' = p /\ here' = Scaled(p) /\ home' = Scaled(telemetry_base')
    BY <1>1 DEF ArmedFix, TakeHome
  <2>2. telemetry_base' = firstArmed' /\ firstArmed' \in Points
    BY <1>0, <1>q, <2>1
  <2>3. here' \in Points /\ home' \in Points
    BY <1>q, <2>1, <2>2, ScaledPoint, Zenon
  <2> QED
    BY <1>0, <1>u, <1>p, <1>q, <2>1, <2>2, <2>3 DEF TelemetryInv, TelemetryTypeOK
<1>2. CASE UnarmedFix
  BY <1>0, <1>2, <1>u, <1>p, <1>q DEF UnarmedFix, TelemetryInv, TelemetryTypeOK
<1> QED
  BY <1>1, <1>2, <1>p

\* Every message keeps the invariant of the positions.
LEMMA TelemetryStep == TelemetryInv /\ [TelemetryNext]_telemetryVars => TelemetryInv'
<1> SUFFICES ASSUME TelemetryInv, [TelemetryNext]_telemetryVars PROVE TelemetryInv'
  OBVIOUS
<1>1. CASE RcChannelsRaw
  BY <1>1, TelemetryAssumption DEF RcChannelsRaw, Receive, TelemetryInv, TelemetryTypeOK
<1>2. CASE EmptyDatagram
  BY <1>2 DEF EmptyDatagram, TelemetryInv, TelemetryTypeOK
<1>3. CASE UNCHANGED telemetryVars
  BY <1>3 DEF telemetryVars, TelemetryInv, TelemetryTypeOK
<1> QED
  BY <1>1, <1>2, <1>3, FixStep DEF TelemetryNext

\* The home position and the last fix, in every reachable state.
THEOREM TelemetryInvariance == TelemetrySpec => []TelemetryInv
  BY TelemetryInitial, TelemetryStep, PTL DEF TelemetrySpec

\* The distance is from the first fix after arming to the last fix while armed,
\* for every position the conversion gets right (mavlink.c:166-234).
THEOREM DistanceCorrect == TelemetrySpec => []DistanceFromHome
<1>1. ASSUME TelemetryInv PROVE DistanceFromHome
  <2> SUFFICES ASSUME Convertible(firstArmed), Convertible(lastArmed)
               PROVE  telemetry_distance = <<lastArmed, firstArmed>>
    BY SMT DEF DistanceFromHome
  <2>1. /\ firstArmed \in Points /\ lastArmed \in Points
        /\ telemetry_distance = <<here, home>>
        /\ here = Scaled(lastArmed) /\ home = Scaled(firstArmed)
    BY <1>1 DEF TelemetryInv
  <2>2. Scaled(firstArmed) = firstArmed /\ Scaled(lastArmed) = lastArmed
    BY <2>1, ScaledPoint, Zenon
  <2> QED
    BY <2>1, <2>2, Zenon
<1> QED
  BY <1>1, TelemetryInvariance, PTL

-----------------------------------------------------------------------------
(* All three                                                               *)

\* Each writer of osd_vars does in company what it does alone.
THEOREM Separation == Spec => StatsSpec /\ LinkSpec /\ TelemetrySpec
<1>1. Init => StatsInit /\ LinkInit /\ TelemetryInit
  BY DEF Init
<1>2. [Next]_contentsVars => /\ [StatsNext]_statsVars
                             /\ [LinkNext]_linkVars
                             /\ [TelemetryNext]_telemetryVars
  BY DEF Next, contentsVars
<1> QED
  BY <1>1, <1>2, PTL DEF Spec, StatsSpec, LinkSpec, TelemetrySpec

\* The types of all of them.
THEOREM ContentsTypeCorrect == Spec => []TypeOK
<1>1. /\ StatsInv => StatsTypeOK
      /\ LinkInv => LinkTypeOK
      /\ TelemetryInv => TelemetryTypeOK
  BY DEF StatsInv, LinkInv, TelemetryInv
<1>2. Init => part \in Parts
  BY DEF Init
<1>3. part \in Parts /\ [Next]_contentsVars => (part \in Parts)'
  BY DEF Next, contentsVars, Parts
<1>4. Spec => [](part \in Parts)
  BY <1>2, <1>3, PTL DEF Spec
<1>5. StatsTypeOK /\ LinkTypeOK /\ TelemetryTypeOK /\ part \in Parts => TypeOK
  BY DEF TypeOK
<1> QED
  BY <1>1, <1>4, <1>5, Separation, StatsInvariance, LinkInvariance, TelemetryInvariance, PTL

\* And what each of them promises, of the three side by side.
THEOREM ContentsCorrect ==
  Spec => /\ []PicturesCountedOnce
          /\ []BytesCountedOnce
          /\ []RateIsNumber
          /\ []DistanceFromHome
  BY Separation, CountedOnceCorrect, BytesCorrect, RateCorrect, DistanceCorrect, PTL
=============================================================================
