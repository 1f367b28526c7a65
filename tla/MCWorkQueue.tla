----------------------------- MODULE MCWorkQueue -----------------------------
(* TLC instances of WorkQueue.  ChanCap = 1 and MaxBackoff = 1 make a full   *)
(* channel and a saturated failure count frequent.                           *)
EXTENDS WorkQueue

CONSTANTS k1, k2, w1, w2, p1, p2

TwoKeys      == {k1, k2}
TwoWorkers   == {w1, w2}
OneReturns   == {w1}
TwoListeners == {p1, p2}
=============================================================================
