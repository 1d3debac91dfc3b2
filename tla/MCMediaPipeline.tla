--------------------------- MODULE MCMediaPipeline ---------------------------
EXTENDS MediaPipeline, TLC

CONSTANTS s1, s2

KeyFrame(parameters, picture) ==
    [key |-> TRUE, parameters |-> parameters, picture |-> picture]
DeltaFrame(picture) == [key |-> FALSE, parameters |-> << >>, picture |-> picture]

\* A whole key frame, one whose first parameter set came with an error, one
\* without a format description, a frame between key frames, and one that failed.
MCSamples ==
    {KeyFrame(<<"SPS", "PPS">>, <<"IDR">>), KeyFrame(<<"PPS">>, <<"IDR">>),
     KeyFrame(<< >>, <<"SEI", "IDR">>), DeltaFrame(<<"P">>), DeltaFrame(<< >>)}

\* Sound for the runs: none checks a liveness property.
Interchangeable == Permutations(Sessions)
=============================================================================
