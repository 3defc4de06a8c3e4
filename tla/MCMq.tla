-------------------------------- MODULE MCMq --------------------------------
EXTENDS Mq
=============================================================================
