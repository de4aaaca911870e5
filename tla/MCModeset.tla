------------------------------ MODULE MCModeset ------------------------------
(* Two connectors, two planes and two CRTCs, of every kind that matters.    *)
EXTENDS Modeset

MCModes == {"1920x1080@60", "1920x1080@120"}

Kind(connected, modes, current, encoders) ==
  [connected |-> connected, modes |-> modes, current |-> current, encoders |-> encoders]

\* Not connected; without a mode; already driven; to be driven by the second of
\* two encoders, with the modes the other way round; by no encoder.
MCConnectors ==
  {Kind(FALSE, <<"1920x1080@60">>, 1, <<{1}>>),
   Kind(TRUE, <<>>, 1, <<{1}>>),
   Kind(TRUE, <<"1920x1080@60", "1920x1080@120">>, 2, <<{1, 2}>>),
   Kind(TRUE, <<"1920x1080@120", "1920x1080@60">>, 0, <<{}, {2}>>),
   Kind(TRUE, <<"1920x1080@60">>, 0, <<{1, 2}, {2}>>),
   Kind(TRUE, <<"1920x1080@60">>, 0, <<{}>>)}

\* For both uses on both CRTCs or on one; for one use.
MCPlanes ==
  {[crtcs |-> {1, 2}, formats |-> {"NV12", "ARGB8888"}],
   [crtcs |-> {2}, formats |-> {"NV12", "ARGB8888"}],
   [crtcs |-> {1, 2}, formats |-> {"NV12"}],
   [crtcs |-> {1}, formats |-> {"ARGB8888"}]}
=============================================================================
