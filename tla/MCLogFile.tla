----------------------------- MODULE MCLogFile -----------------------------
\* Four seconds, buffers of three lengths, one of them above the roll size.
EXTENDS LogFile
MCTimes == 0..3
MCLens == {1, 2, 4}
=============================================================================
