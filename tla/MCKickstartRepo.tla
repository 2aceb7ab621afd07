-------------------------- MODULE MCKickstartRepo --------------------------
EXTENDS KickstartRepo, TLC

CONSTANTS none

=============================================================================
