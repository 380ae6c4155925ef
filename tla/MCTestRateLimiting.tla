------------------------- MODULE MCTestRateLimiting -------------------------
(* TestRateLimiting for TLC: the settings of the instances. *)
EXTENDS TestRateLimiting

(* A single burst that overflows the bucket, then two bursts of one; the    *)
(* first of these; and two settings with a request each.                    *)
TwoSettings == <<<<2>>, <<1, 1>>>>
OneSetting == <<<<2>>>>
SingleRequests == <<<<1>>, <<1>>>>
=============================================================================
