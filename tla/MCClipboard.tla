----------------------------- MODULE MCClipboard -----------------------------
(* A small instance of Clipboard for TLC.                                  *)
EXTENDS Clipboard

CONSTANTS d1, d2, text, image, files
==============================================================================
