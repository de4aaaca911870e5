------------------------------ MODULE Telemetry ------------------------------
(***************************************************************************)
(* The position in __MAVLINK_THREAD__ (src/mavlink.c): the home position   *)
(* is that of the first fix after arming, and the distance is computed     *)
(* from numbers whose decimal point was put in as text.  Coordinates are   *)
(* in units of 1e-7 degrees, as in the messages.                           *)
(***************************************************************************)
EXTENDS Integers

CONSTANTS
  Fixes,          \* positions a GPS_RAW_INT may have: [lat, lon]
  ArmChannel,     \* values the arming channel may have
  MaxMessages     \* bound: messages received

ASSUME TelemetryAssumption ==
  /\ Fixes \subseteq [lat : Int, lon : Int]
  /\ ArmChannel \subseteq Nat /\ MaxMessages \in Nat

VARIABLES
  running,             \* the thread is in its loop
  telemetry_arm,
  telemetry_position,  \* telemetry_lat and telemetry_lon
  telemetry_base,      \* telemetry_lat_base and telemetry_lon_base
  armed,
  here,                \* s1_double and s2_double
  home,                \* s3_double and s4_double
  telemetry_distance,  \* the two points it is computed from
  messages,            \* number of messages received
  firstArmed,          \* history: the first fix with the channel up
  lastArmed            \* history: the last such fix

telemetryVars == <<running, telemetry_arm, telemetry_position, telemetry_base, armed,
                   here, home, telemetry_distance, messages, firstArmed, lastArmed>>

Zero == [lat |-> 0, lon |-> 0]

TelemetryInit ==
  /\ running = TRUE /\ telemetry_arm = 0 /\ armed = FALSE
  /\ telemetry_position = Zero /\ telemetry_base = Zero
  /\ here = Zero /\ home = Zero /\ telemetry_distance = <<Zero, Zero>>
  /\ messages = 0 /\ firstArmed = Zero /\ lastArmed = Zero

-----------------------------------------------------------------------------
\* The first number with more than n digits.
Tens == <<10, 100, 1000, 10000, 100000, 1000000, 10000000, 100000000, 1000000000>>

\* numOfChars of the digits of v.
Digits(v) == IF v > 999999999 THEN 10
             ELSE CHOOSE n \in 1..9 : v < Tens[n] /\ (n = 1 \/ v >= Tens[n - 1])

\* Mutant: the point always goes behind the first two digits.
DegreesTwoDigits(v) ==
  IF v < 0 THEN 0
  ELSE IF v < 10000000 THEN v * (10000000 \div Tens[Digits(v)])
  ELSE IF Digits(v) = 10 THEN v \div 10
  ELSE IF Digits(v) = 8 THEN v * 10 ELSE v

\* What strtod reads: nothing behind "0." when the digits have a sign; "0." in
\* front of up to seven digits, which makes six of them ten times as many; the
\* point behind the first of eight digits, and behind the first two of more.
Degrees(v) ==
  IF v < 0 THEN 0
  ELSE IF v < 10000000 THEN v * (10000000 \div Tens[Digits(v)])
  ELSE IF Digits(v) = 10 THEN v \div 10
  ELSE v

Scaled(p) == [lat |-> Degrees(p.lat), lon |-> Degrees(p.lon)]

Receive == running /\ messages < MaxMessages /\ messages' = messages + 1

\* RC_CHANNELS_RAW.  A high eighth channel also runs a script.
RcChannelsRaw ==
  /\ Receive
  /\ telemetry_arm' \in ArmChannel
  /\ UNCHANGED <<running, telemetry_position, telemetry_base, armed, here, home,
                 telemetry_distance, firstArmed, lastArmed>>

\* armed is never reset: the home stays when the channel goes down and up again.
TakeHome(p) ==
  /\ armed' = TRUE
  /\ telemetry_base' = IF armed THEN telemetry_base ELSE p

ArmedFix(p) ==
  /\ telemetry_arm > 1700
  /\ TakeHome(p)
  /\ here' = Scaled(p) /\ home' = Scaled(telemetry_base')
  /\ firstArmed' = IF armed THEN firstArmed ELSE p
  /\ lastArmed' = p

UnarmedFix ==
  /\ telemetry_arm <= 1700
  /\ UNCHANGED <<armed, telemetry_base, here, home, firstArmed, lastArmed>>

\* GPS_RAW_INT.
GpsRawInt ==
  /\ Receive
  /\ \E p \in Fixes :
       /\ telemetry_position' = p
       /\ ArmedFix(p) \/ UnarmedFix
  /\ telemetry_distance' = <<here', home'>>
  /\ UNCHANGED <<running, telemetry_arm>>

\* recv returns 0 for an empty datagram, which ends the thread.
EmptyDatagram ==
  /\ running
  /\ running' = FALSE
  /\ UNCHANGED <<telemetry_arm, telemetry_position, telemetry_base, armed, here, home,
                 telemetry_distance, messages, firstArmed, lastArmed>>

TelemetryNext == RcChannelsRaw \/ GpsRawInt \/ EmptyDatagram

TelemetrySpec == TelemetryInit /\ [][TelemetryNext]_telemetryVars

-----------------------------------------------------------------------------
Points == [lat : Int, lon : Int]

TelemetryTypeOK ==
  /\ running \in BOOLEAN /\ telemetry_arm \in {0} \cup ArmChannel
  /\ telemetry_position \in Points /\ telemetry_base \in Points
  /\ here \in Points /\ home \in Points /\ messages \in 0..MaxMessages

\* The coordinates the text conversion gets right.
Convertible(p) == \A v \in {p.lat, p.lon} : v = 0 \/ (v >= 1000000 /\ v <= 999999999)

\* The distance is that from the first fix after arming to the last fix with the
\* channel up, also after the drone was disarmed, armed again and got fixes in
\* between: for coordinates from 0.1 to 100 degrees north and east
\* (mavlink.c:166-234).
DistanceFromHome ==
  Convertible(firstArmed) /\ Convertible(lastArmed) =>
    telemetry_distance = <<lastArmed, firstArmed>>

\* What carries the proof of it (ContentsProofs): the base is that of the first
\* fix with the channel up, and both positions are converted together.
TelemetryInv ==
  /\ TelemetryTypeOK
  /\ firstArmed \in Points /\ lastArmed \in Points
  /\ telemetry_distance = <<here, home>>
  /\ here = Scaled(lastArmed) /\ home = Scaled(firstArmed)
  /\ telemetry_base = firstArmed
=============================================================================
