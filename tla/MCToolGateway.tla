--------------------------- MODULE MCToolGateway ---------------------------
(* Model-checking instance of ToolGateway: the calls are model values.     *)
EXTENDS ToolGateway
=============================================================================
