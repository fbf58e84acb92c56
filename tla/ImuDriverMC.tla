---------------------------- MODULE ImuDriverMC -----------------------------
EXTENDS ImuDriver

mcSamples == {"good", "failure"}
=============================================================================
