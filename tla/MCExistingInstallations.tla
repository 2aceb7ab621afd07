---------------------- MODULE MCExistingInstallations ----------------------
EXTENDS ExistingInstallations, TLC

CONSTANTS d1, d2, d3, none

MCDevices == <<d1, d2, d3>>

=============================================================================
