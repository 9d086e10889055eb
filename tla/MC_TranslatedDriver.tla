------------------------- MODULE MC_TranslatedDriver -------------------------
(* The constants of constants.h: twelve processes of which two are         *)
(* auxiliary, 20 heaps with two workers each, 60 regions, pages of 512     *)
(* words, queues of 8192 packets.                                          *)
EXTENDS TranslatedDriver
=============================================================================
