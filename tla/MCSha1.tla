------------------------------- MODULE MCSha1 -------------------------------
(* Blocks of four octets with two for the length, and messages of the octets   *)
(* padding is made of.                                                       *)
EXTENDS Sha1

MCOctet == {Mark, Zero}
=============================================================================
