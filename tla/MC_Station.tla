----------------------------- MODULE MC_Station -----------------------------
(* The station on small instances.                                          *)
EXTENDS Station

AllFaults == FaultKinds
AllPresses == PressKinds
AllRequests == RequestKinds
\* The network may refuse, the user clicks, and clients ask for everything but the
\* power modes NONE, which calls off a sleep that is under way, and MODEM.
RefusedOnly == {"refused"}
ClickOnly == {"click"}
KeepingRequests == RequestKinds \ {"NONE", "MODEM"}

=============================================================================
