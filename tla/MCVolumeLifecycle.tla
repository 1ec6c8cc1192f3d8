-------------------------- MODULE MCVolumeLifecycle --------------------------
EXTENDS VolumeLifecycle, TLC
=============================================================================
