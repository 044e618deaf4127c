-------------------------------- MODULE MCWal --------------------------------
EXTENDS WalInvariant
==============================================================================
