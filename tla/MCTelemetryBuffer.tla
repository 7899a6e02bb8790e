------------------------- MODULE MCTelemetryBuffer --------------------------
(* Two writes in flight and room for three records or four bytes: either      *)
(* bound can be the one that evicts, one large record can evict several small *)
(* ones, and a record of five bytes never fits.                               *)
EXTENDS TelemetryBuffer

MCBytes == {1, 2, 3, 5}
=============================================================================
