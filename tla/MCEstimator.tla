----------------------------- MODULE MCEstimator -----------------------------
(* A body that may start on the ground or above it, and variances of 2 and 1: the *)
(* fractions of two ticks stay within TLC's numbers.                              *)
EXTENDS Estimator

MCLarge  == <<2, 1>>
MCRInit  == <<One, One, One>>
MCQInit  == <<Zero, Zero, One>>
MCStarts == {Zero, One}
MCAccelerations == {<<-1, 1>>, Zero, One}
===============================================================================
