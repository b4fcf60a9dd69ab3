------------------------------ MODULE MCSdCard ------------------------------
(* SdCard for TLC: sectors of two bytes, words of three bits.             *)
EXTENDS SdCard

(* Two sectors in one call, one alone, and one the card does not have.    *)
OnCard == {<<0, 2>>, <<1, 1>>, <<3, 1>>}
OneSector == {<<0, 1>>}
=============================================================================
