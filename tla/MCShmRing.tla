----------------------------- MODULE MCShmRing -----------------------------
(* The ring with the header sizes of the code: 8-byte header, 4-byte length. *)
EXTENDS ShmRingInv

MCBodyLens == {0, 2, 10, 19}
=============================================================================
