--------------------------- MODULE MC_PageForward ---------------------------
(* Forwarding on small pages: two pages of two words with WordLimit 1, so  *)
(* that a page can be sent whole, word by word or as read-only, and a      *)
(* buffer of two read-only pages, which is entered empty, half full and    *)
(* full; and, for the read words, one page of two words.                   *)
EXTENDS PageTransfer
=============================================================================
