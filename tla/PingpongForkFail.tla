-------------------------- MODULE PingpongForkFail --------------------------
(***************************************************************************)
(* Pingpong where fork may fail: with no free proc slot fork returns -1,  *)
(* which is not 0, so the lone parent takes the else branch of line 10.   *)
(***************************************************************************)
EXTENDS Pingpong, TLC

(* pid = fork() returning -1: no child; the parent runs its branch.       *)
ForkFail(p) ==
  /\ Live(p) /\ Instr(p).op = "fork"
  /\ code' = [code EXCEPT !["parent"] = ParentProg]
  /\ ip' = [ip EXCEPT !["parent"] = 1]
  /\ UNCHANGED <<fds, pipebuf, got, col, out>>

NextForkFail == Next \/ \E p \in Procs : ForkFail(p)

SpecForkFail == Init /\ [][NextForkFail]_vars
=============================================================================
