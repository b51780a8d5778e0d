------------------------------ MODULE MCImuBus ------------------------------
EXTENDS ImuBus
=============================================================================
