----------------------------- MODULE MCSmcSignals -----------------------------
\* SmcSignals with a standard signal and a real-time one, signal 63, and a page
\* more than handlers can nest.
EXTENDS SmcSignals
CONSTANTS RT63, SIGUSR1, p1, p2, p3
MCsignals == <<SIGUSR1, RT63>>
MCRealTime == {RT63}
MCPages == {p1, p2, p3}
=============================================================================
