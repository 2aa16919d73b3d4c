------------------------------ MODULE MCServe ------------------------------
(* Two clients; Shutdown may wait two ticks and a response may take three,  *)
(* as twenty and thirty seconds in the code.                                *)
EXTENDS Serve
=============================================================================
