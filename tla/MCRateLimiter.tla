--------------------------- MODULE MCRateLimiter ----------------------------
(* Both forms of the limiter, over three periods of two or three seconds.  *)
EXTENDS RateLimiter

MCLimits == {1, 3}
MCDurations == {1, 2}
MCWithdrawals == {1, 2}
=============================================================================
