---------------------------- MODULE MCVideoDecoder ----------------------------
EXTENDS VideoDecoder

(* Two frames that may be dropped, and a unit that may not: a parameter    *)
(* set, which the service keeps and the UI thread injects.  (An IDR passes *)
(* the check of the depth like a parameter set.)                           *)
ShortStream == <<"p", "p", "sps">>
=============================================================================
