----------------------------- MODULE MCPingpong -----------------------------
(* Model-checking instance of Pingpong.                                    *)
EXTENDS Pingpong, TLC
=============================================================================
