--------------------------- MODULE MCDeviceBatches ---------------------------
EXTENDS DeviceBatches
=============================================================================
