--------------------------- MODULE MCGeolocation ---------------------------
EXTENDS Geolocation, TLC

CONSTANTS w1, w2, fedora, hostip, other, none, zero

MCWaiters == {w1, w2}
MCOptions == {none, zero, fedora, hostip, other}

=============================================================================
