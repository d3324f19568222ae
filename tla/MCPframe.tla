------------------------------ MODULE MCPframe ------------------------------
(* Model-checking instance of Pframe: two clients, one of which writes, the *)
(* pageout daemon and sync over fewer frames than pages.                    *)
EXTENDS Pframe
=============================================================================
