--------------------------- MODULE MCToolSession ---------------------------
(***************************************************************************)
(* ToolSession with one record.                                            *)
(***************************************************************************)
EXTENDS ToolSession

OneRecord == {<<"1">>}
============================================================================
