----------------------------- MODULE MCHostIo -------------------------------
(* Instances of HostIo.  The checksum is a small mixing step of its own:   *)
(* Crc8 is checked apart, and any step that tells files apart will do.     *)
EXTENDS HostIo

MCCrcStep(c, b) == (2 * c + b) % 256

MCUploadFiles == {<<>>, <<83>>, <<1, 2>>}
=============================================================================
