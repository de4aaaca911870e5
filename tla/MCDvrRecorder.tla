---------------------------- MODULE MCDvrRecorder ----------------------------
(* Access units of an HEVC stream, and NAL units of an H.264 stream.       *)
EXTENDS DvrRecorder

\* Each codec and each kind of file, and the defaults by themselves.
MCOptions == {[codec |-> "h265", fragmented |-> TRUE],
              [codec |-> "h264", fragmented |-> FALSE]}
MCDefaults == {[codec |-> "h265", fragmented |-> FALSE]}

\* Parameter sets with a key picture, and with a SEI and a picture that needs
\* others.
MCHevcPackets == {<<"vps", "sps", "pps", "idr">>,
                  <<"vps", "sps", "pps", "sei", "slice">>}

\* The parameter sets apart, the second with a picture that needs others.
MCAvcPackets == {<<"sps">>, <<"pps", "slice">>, <<"idr">>}
=============================================================================
