--------------------------- MODULE MCAirlockUpload ---------------------------
(* TLC instances of AirlockUpload.                                          *)
EXTENDS AirlockUpload

FileFailsOnly == {"fileFails"}
=============================================================================
