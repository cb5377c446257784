--------------------------- MODULE MCFastbootServer ---------------------------
(* Two LUNs and three files fill the UMS table; a download of three chunks is *)
(* too large for the partition and can be cut off between them.               *)
EXTENDS FastbootServer
=============================================================================
