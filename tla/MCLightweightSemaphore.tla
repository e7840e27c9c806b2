----------------------- MODULE MCLightweightSemaphore -----------------------
EXTENDS LightweightSemaphore

MCSignalCounts == {1, 2}
MCSignalCountsFromZero == {0, 1}
=============================================================================
