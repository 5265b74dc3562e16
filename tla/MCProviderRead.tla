--------------------------- MODULE MCProviderRead ---------------------------
(***************************************************************************)
(* A small instance of ProviderRead for TLC.                               *)
(***************************************************************************)
EXTENDS ProviderRead

RecognizedIds == {"google.com", "apple.com"}
OtherIds == {"password"}
=============================================================================
